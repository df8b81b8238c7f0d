------------------------------- MODULE DList -------------------------------
(***************************************************************************)
(* The macros of src/z/lib/list/src/list.h on one list: head, tail,        *)
(* current, cur_idx and num_items, and the pointers next and prev of every *)
(* node.  A macro is one step, but for the loop of DListSetCurrent, which  *)
(* follows one pointer a step: `at' is its local idx___, and the loop is   *)
(* over when at = cur_idx.  DListInsertAt and DListPopAt, which move the   *)
(* current node and bring it back, are the loop, the change, and the loop  *)
(* again; `pc' says which of the three is next.                            *)
(*                                                                         *)
(* A node is inserted as Alloc returns it, zeroed, and freed when it is     *)
(* popped; the pops zero its pointers for the next Alloc.                  *)
(***************************************************************************)
EXTENDS Integers

CONSTANTS Node, NULL,
          Owners    \* of each kind of owner, the macros it uses

Mutators == {"Append", "Push", "InsertAt", "PopTail", "PopCurrent", "SetCurrent",
             "PopAt", "PrependCurrent", "AppendCurrent"}

\* Push and PopTail do not look whether current is the head, or the tail: an
\* owner that uses one of them does not move the current node.
ASSUME DListAssumption ==
  /\ NULL \notin Node
  /\ \A ops \in Owners :
       /\ ops \subseteq Mutators
       /\ \/ ops \cap {"Push", "PopTail"} = {}
          \/ ops \cap {"SetCurrent", "AppendCurrent"} = {}

VARIABLES
  head, tail, current, cur_idx, num_items,
  next, prev,
  pc,        \* "idle", "insert", "pop": the half of the macro that is next
  at,        \* idx___: the index of the node that current points to
  arg,       \* node_ of DListInsertAt
  saved,     \* cur_idx_ of DListInsertAt, cur_idx of DListPopAt
  owner      \* who owns the list

pointers == <<head, tail, current, num_items, next, prev>>
vars == <<pointers, cur_idx, pc, at, arg, saved, owner>>

Pointer == Node \cup {NULL}

TypeOK ==
  /\ {head, tail, current, arg} \subseteq Pointer
  /\ next \in [Node -> Pointer] /\ prev \in [Node -> Pointer]
  /\ num_items \in Nat /\ cur_idx \in Nat /\ at \in Nat /\ saved \in Nat
  /\ pc \in {"idle", "insert", "pop"}
  /\ owner \in Owners

Init ==
  /\ head = NULL /\ tail = NULL /\ current = NULL
  /\ cur_idx = 0 /\ num_items = 0 /\ at = 0
  /\ next = [n \in Node |-> NULL] /\ prev = [n \in Node |-> NULL]
  /\ pc = "idle" /\ arg = NULL /\ saved = 0
  /\ owner \in Owners

\* The nodes of the list are those of s, in that order.
Ends(s) ==
  IF num_items = 0
  THEN head = NULL /\ tail = NULL
  ELSE /\ head = s[1] /\ tail = s[num_items]
       /\ prev[s[1]] = NULL /\ next[s[num_items]] = NULL

Links(s) ==
  /\ \A i, j \in 1 .. num_items : s[i] = s[j] => i = j
  /\ \A i \in 1 .. num_items - 1 : next[s[i]] = s[i + 1] /\ prev[s[i + 1]] = s[i]

Here(s) ==
  IF num_items = 0
  THEN current = NULL /\ cur_idx = 0 /\ at = 0
  ELSE cur_idx < num_items /\ at < num_items /\ current = s[at + 1]

Represents(s) == Ends(s) /\ Links(s) /\ Here(s)

Idle(op) == pc = "idle" /\ at = cur_idx /\ op \in owner

\* Outside of the list, zeroed.
Fresh(n) == next[n] = NULL /\ prev[n] = NULL /\ n # head

\* The macro is over, with current at index i.
Done(i) == cur_idx' = i /\ at' = i /\ UNCHANGED <<pc, arg, saved, owner>>

OnlyNode(n) == head' = n /\ tail' = n /\ current' = n /\ UNCHANGED <<next, prev>>

Emptied ==
  /\ head' = NULL /\ tail' = NULL /\ current' = NULL /\ num_items' = 0
  /\ UNCHANGED <<at, next, prev>>
-----------------------------------------------------------------------------
DListAppend(n) ==
  /\ Idle("Append") /\ Fresh(n)
  /\ num_items' = num_items + 1
  /\ IF head = NULL
     THEN OnlyNode(n) /\ Done(0)
     ELSE /\ next' = [next EXCEPT ![tail] = n]
          /\ prev' = [prev EXCEPT ![n] = tail]
          /\ tail' = n
          /\ UNCHANGED <<head, current>> /\ Done(cur_idx)

DListPush(n) ==
  /\ Idle("Push") /\ Fresh(n)
  /\ num_items' = num_items + 1
  /\ IF head = NULL
     THEN OnlyNode(n)
     ELSE /\ prev' = [prev EXCEPT ![head] = n, ![current] = n]
          /\ next' = [next EXCEPT ![n] = head]
          /\ head' = n /\ current' = n
          /\ UNCHANGED tail
  /\ Done(cur_idx)

DListPopTail ==
  /\ Idle("PopTail") /\ tail # NULL
  /\ IF num_items = 1
     THEN Emptied
     ELSE /\ next' = [next EXCEPT ![prev[tail]] = NULL]
          /\ prev' = [prev EXCEPT ![tail] = NULL]
          /\ tail' = prev[tail]
          /\ num_items' = num_items - 1
          /\ UNCHANGED <<head, current>>
  /\ Done(cur_idx)

\* DListPopCurrent but for cur_idx; at' is the index it sets.
Unlink ==
  \/ num_items = 1 /\ Emptied
  \/ /\ num_items > 1 /\ cur_idx = 0
     /\ head' = next[current] /\ current' = next[current]
     /\ prev' = [prev EXCEPT ![next[current]] = NULL]
     /\ next' = [next EXCEPT ![current] = NULL]
     /\ num_items' = num_items - 1 /\ at' = 0
     /\ UNCHANGED tail
  \/ /\ num_items > 1 /\ cur_idx # 0 /\ cur_idx = num_items - 1
     /\ tail' = prev[current] /\ current' = prev[current]
     /\ next' = [next EXCEPT ![prev[current]] = NULL]
     /\ prev' = [prev EXCEPT ![current] = NULL]
     /\ num_items' = num_items - 1 /\ at' = cur_idx - 1
     /\ UNCHANGED head
  \/ /\ num_items > 1 /\ cur_idx # 0 /\ cur_idx # num_items - 1
     /\ prev' = [prev EXCEPT ![next[current]] = prev[current], ![current] = NULL]
     /\ next' = [next EXCEPT ![prev[current]] = next[current], ![current] = NULL]
     /\ current' = next[current]
     /\ num_items' = num_items - 1 /\ at' = cur_idx
     /\ UNCHANGED <<head, tail>>

DListPopCurrent ==
  /\ Idle("PopCurrent") /\ current # NULL
  /\ Unlink /\ cur_idx' = at'
  /\ UNCHANGED <<pc, arg, saved, owner>>

\* An index given from the end; EINDEX is an index outside of the list.
Idx(i) == IF i < 0 THEN i + num_items ELSE i
InRange(i) == Idx(i) \in 0 .. num_items - 1

\* The first half of DListSetCurrent: cur_idx is set, the loop follows.
DListSetCurrent(i) ==
  /\ Idle("SetCurrent") /\ InRange(i)
  /\ cur_idx' = Idx(i)
  /\ UNCHANGED <<pointers, at, pc, arg, saved, owner>>

\* One turn of its loop.
Walk ==
  /\ \/ at < cur_idx /\ current' = next[current] /\ at' = at + 1
     \/ at > cur_idx /\ current' = prev[current] /\ at' = at - 1
  /\ UNCHANGED <<head, tail, num_items, next, prev, cur_idx, pc, arg, saved, owner>>

DListPrependCurrent(n) ==
  /\ Idle("PrependCurrent") /\ Fresh(n)
  /\ num_items' = num_items + 1
  /\ \/ current = NULL /\ OnlyNode(n) /\ Done(0)
     \/ /\ current # NULL /\ cur_idx = 0
        /\ prev' = [prev EXCEPT ![head] = n]
        /\ next' = [next EXCEPT ![n] = head]
        /\ head' = n /\ current' = n
        /\ UNCHANGED tail /\ Done(cur_idx)
     \/ /\ current # NULL /\ cur_idx # 0
        /\ next' = [next EXCEPT ![prev[current]] = n, ![n] = current]
        /\ prev' = [prev EXCEPT ![n] = prev[current], ![current] = n]
        /\ current' = n
        /\ UNCHANGED <<head, tail>> /\ Done(cur_idx)

\* Mutated: the node after the new one keeps its prev.
LinkForward(n) ==
  /\ num_items' = num_items + 1
  /\ \/ current = NULL /\ OnlyNode(n) /\ at' = 0
     \/ /\ current # NULL /\ next' = [next EXCEPT ![n] = next[current], ![current] = n]
        /\ prev' = [prev EXCEPT ![n] = current]
        /\ tail' = IF cur_idx = num_items - 1 THEN n ELSE tail
        /\ current' = n /\ at' = cur_idx + 1
        /\ UNCHANGED head

\* DListAppendCurrent but for cur_idx; at' is the index it sets.
Link(n) ==
  /\ num_items' = num_items + 1
  /\ \/ current = NULL /\ OnlyNode(n) /\ at' = 0
     \/ /\ current # NULL /\ cur_idx = num_items - 1
        /\ next' = [next EXCEPT ![current] = n, ![n] = NULL]
        /\ prev' = [prev EXCEPT ![n] = current]
        /\ tail' = n /\ current' = n /\ at' = cur_idx + 1
        /\ UNCHANGED head
     \/ /\ current # NULL /\ cur_idx # num_items - 1
        /\ next' = [next EXCEPT ![n] = next[current], ![current] = n]
        /\ prev' = [prev EXCEPT ![n] = current, ![next[current]] = n]
        /\ current' = n /\ at' = cur_idx + 1
        /\ UNCHANGED <<head, tail>>

DListAppendCurrent(n) ==
  /\ Idle("AppendCurrent") /\ Fresh(n)
  /\ Link(n) /\ cur_idx' = at'
  /\ UNCHANGED <<pc, arg, saved, owner>>

\* DListInsertAt and DListPopAt as far as the call of DListSetCurrent ...
Begin(half, n, i) ==
  /\ InRange(i)
  /\ saved' = cur_idx /\ cur_idx' = Idx(i) /\ arg' = n /\ pc' = half
  /\ UNCHANGED <<pointers, at, owner>>

DListInsertAt(n, i) == Idle("InsertAt") /\ Fresh(n) /\ Begin("insert", n, i)
DListPopAt(i) == Idle("PopAt") /\ Begin("pop", NULL, i)

End == pc' = "idle" /\ arg' = NULL /\ saved' = 0 /\ owner' = owner

\* Mutated: an insertion after the current node moves the current node.
InsertHereCounted ==
  /\ pc = "insert" /\ at = cur_idx
  /\ Link(arg)
  /\ cur_idx' = IF saved >= cur_idx THEN saved + 1 ELSE saved
  /\ End

\* Mutated: the index is counted down whichever node goes.
PopHereCounted ==
  /\ pc = "pop" /\ at = cur_idx
  /\ Unlink
  /\ cur_idx' = IF saved = cur_idx THEN at' ELSE saved - 1
  /\ End

\* ... and from there on: the change, and the index to return to.
InsertHere ==
  /\ pc = "insert" /\ at = cur_idx
  /\ Link(arg)
  /\ cur_idx' = IF saved > cur_idx THEN saved + 1 ELSE saved
  /\ End

PopHere ==
  /\ pc = "pop" /\ at = cur_idx
  /\ Unlink
  /\ cur_idx' = IF saved = cur_idx THEN at'
                ELSE IF saved > cur_idx THEN saved - 1 ELSE saved
  /\ End

Next ==
  \/ \E n \in Node :
       \/ DListAppend(n) \/ DListPush(n)
       \/ DListPrependCurrent(n) \/ DListAppendCurrent(n)
       \/ \E i \in -num_items .. num_items - 1 : DListInsertAt(n, i)
  \/ DListPopTail \/ DListPopCurrent
  \/ \E i \in -num_items .. num_items - 1 : DListSetCurrent(i) \/ DListPopAt(i)
  \/ Walk \/ InsertHere \/ PopHere

Spec == Init /\ [][Next]_vars
-----------------------------------------------------------------------------
\* The pointers are those of one sequence of distinct nodes, whose number,
\* ends and current node are the ones that the list notes, also while a macro
\* has moved the current node and not brought it back: list.h keeps them apart
\* by hand, macro by macro.
Linked == \E s \in [1 .. num_items -> Node] : Represents(s)

\* The nodes of a walk along the pointers ptr, by the steps it takes to them.
Walked(first, ptr, m) ==
  LET walk[k \in 0 .. m - 1] == IF k = 0 THEN first ELSE ptr[walk[k - 1]]
  IN  walk

\* Mutated: counted from the end, the tail is number 0.
GetAtFromEnd(i) == Walked(tail, prev, num_items)[i]

\* DListGetAt, which starts from the end that is farther away.
GetAt(i) ==
  IF num_items \div 2 < i THEN Walked(head, next, num_items)[i]
  ELSE Walked(tail, prev, num_items)[num_items - 1 - i]

\* DListGetIdx: the index of the first node that is n or the tail.
GetIdx(n) ==
  LET node == Walked(head, next, num_items)
  IN  CHOOSE k \in 0 .. num_items - 1 :
        node[k] \in {n, tail} /\ \A j \in 0 .. k - 1 : node[j] \notin {n, tail}

\* Both look-ups find the nodes where the pointers from the head lead to.
LookupsAgree ==
  \A s \in [1 .. num_items -> Node] :
    Represents(s) => \A i \in 1 .. num_items : GetAt(i - 1) = s[i] /\ GetIdx(s[i]) = i - 1

-----------------------------------------------------------------------------
\* A macro that is under way still has the node it is to insert, and an index
\* to return to; a list that is pushed to or popped at its end has its first
\* node current between macros.
Pending ==
  /\ pc = "insert" => arg \in Node /\ Fresh(arg)
  /\ pc # "idle" => num_items > 0 /\ saved < num_items

HeadCurrent ==
  owner \cap {"Push", "PopTail"} # {} =>
    IF pc = "idle" THEN cur_idx = 0 ELSE saved = 0

IInv == TypeOK /\ Linked /\ Pending /\ HeadCurrent

\* The sequence with a cursor that the list stands for; while DListInsertAt and
\* DListPopAt have moved the current node, the cursor is where they return to.
Chain == [i \in 1 .. num_items |-> GetAt(i - 1)]

Abstract == INSTANCE DListSpec
  WITH items <- Chain, cursor <- IF pc = "idle" THEN cur_idx ELSE saved

\* Every macro does to that sequence what its name says, or nothing yet.
ListRefined == Abstract!Spec
=============================================================================
