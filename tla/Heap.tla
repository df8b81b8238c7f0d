-------------------------------- MODULE Heap --------------------------------
(***************************************************************************)
(* What a memory allocator promises to its user: every pointer that the    *)
(* user holds leads to a block with the room that was asked for, blocks    *)
(* do not overlap, and a call changes no other block than its own.  Where  *)
(* the search for memory begins may become stale when a block is made      *)
(* larger in place; then the next search is the last thing known.          *)
(***************************************************************************)
EXTENDS Integers

VARIABLES
  block,    \* of the address of each block, [asked, room]
  stale,    \* whether the search begins inside of a block
  lost      \* whether it has begun there

Held == DOMAIN block

Sound ==
  /\ \A a \in Held : block[a].room >= block[a].asked
  /\ \A a, b \in Held : a < b => a + block[a].room <= b

Init == block = [a \in {} |-> [asked |-> 0, room |-> 0]] /\ stale = FALSE /\ lost = FALSE

\* The blocks but those at S are what they were.
OthersKept(S) ==
  /\ Held \ S = Held' \ S
  /\ \A b \in Held \ S : block'[b] = block[b]

\* A call that takes memory searches, and leaves the search in order.
Searches == ~stale /\ ~stale'

Malloc == Searches /\ \E a \in Held' \ Held : OthersKept({a})
Free == (stale' => stale) /\ \E a \in Held \ Held' : OthersKept({a})
Resize == \E a \in Held \cap Held' :
  /\ OthersKept({a})
  /\ stale' => stale \/ block'[a].room > block[a].room
Move == Searches /\ \E a \in Held \ Held', b \in Held' \ Held : OthersKept({a, b})
FreeAll == Held' = {} /\ ~stale'

Call == (Malloc \/ Free \/ Resize \/ Move \/ FreeAll) /\ Sound' /\ lost' = lost

\* Nothing is promised of the search that begins inside of a block, and of what is later.
Lose == stale /\ lost' = TRUE /\ UNCHANGED <<block, stale>>

Next == ~lost /\ (Call \/ Lose)

Spec == Init /\ [][Next]_<<block, stale, lost>>
=============================================================================
