----------------------------- MODULE Broadcast -----------------------------
(***************************************************************************)
(* What a session promises to the terminals that are attached to it: the   *)
(* output of its program is taken in chunks, one after the other.  Each    *)
(* chunk is handed to the terminals that were attached when it was taken,  *)
(* to each without a gap, and is not given up before one of them has it    *)
(* all, unless something else calls for the session's attention.           *)
(***************************************************************************)
EXTENDS Integers, Sequences

CONSTANT Terminal

VARIABLES
  open,     \* the session lives
  made,     \* units of output the program has produced
  taken,    \* units that were taken from it
  given,    \* all but the chunk in hand: its units are given + 1 .. taken
  members,  \* the terminals that are attached
  stream,   \* stream[t]: what t was sent and has not read
  cursor,   \* cursor[t]: the last unit that t was sent
  called    \* something else calls

vars == <<open, made, taken, given, members, stream, cursor, called>>

Init ==
  /\ open = TRUE
  /\ made = 0 /\ taken = 0 /\ given = 0
  /\ members = {}
  /\ stream = [t \in Terminal |-> <<>>]
  /\ cursor = [t \in Terminal |-> 0]
  /\ called = FALSE

Make ==
  /\ open /\ made' = made + 1
  /\ UNCHANGED <<open, taken, given, members, stream, cursor, called>>

\* Nobody comes or goes while there is a chunk in hand.
Attach(t) ==
  /\ open /\ given = taken
  /\ members' = members \cup {t}
  /\ UNCHANGED <<open, made, taken, given, stream, cursor, called>>

Detach(t) ==
  /\ open /\ given = taken
  /\ members' = members \ {t}
  /\ UNCHANGED <<open, made, taken, given, stream, cursor, called>>

Take ==
  /\ open /\ given = taken
  /\ taken' > taken /\ taken' <= made
  /\ UNCHANGED <<open, made, given, members, stream, cursor, called>>

\* Some of the chunk is sent to t, from its beginning or from where t is.
Hand(t) ==
  /\ open /\ t \in members
  /\ \E from \in {given, cursor[t]} \cap given..taken :
       \E n \in 1..(taken - from) :
         /\ stream' = [stream EXCEPT ![t] = @ \o [i \in 1..n |-> from + i]]
         /\ cursor' = [cursor EXCEPT ![t] = from + n]
  /\ UNCHANGED <<open, made, taken, given, members, called>>

GiveUp ==
  /\ open /\ given # taken
  /\ members = {} \/ called \/ \E t \in members : cursor[t] = taken
  /\ given' = taken
  /\ UNCHANGED <<open, made, taken, members, stream, cursor>>

Call == open /\ UNCHANGED <<open, made, taken, given, members, stream, cursor>>

Close ==
  /\ open /\ open' = FALSE
  /\ given' = taken /\ members' = {}
  /\ UNCHANGED <<made, taken, stream, cursor>>

\* t reads, or loses what it has not read when it ends.
Read(t) ==
  /\ \E n \in 1..Len(stream[t]) :
       stream' = [stream EXCEPT ![t] = SubSeq(@, n + 1, Len(@))]
  /\ UNCHANGED <<open, made, taken, given, members, cursor, called>>

Next ==
  \/ Make \/ Take \/ GiveUp \/ Call \/ Close
  \/ \E t \in Terminal : Attach(t) \/ Detach(t) \/ Hand(t) \/ Read(t)

Spec == Init /\ [][Next]_vars
=============================================================================
