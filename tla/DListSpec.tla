----------------------------- MODULE DListSpec -----------------------------
(***************************************************************************)
(* What a list of src/z/lib/list/src/list.h promises its users: a sequence *)
(* of distinct nodes and a cursor, the index of the current node, counted  *)
(* from 0.  Every macro is one step here.  The index of an empty list      *)
(* means nothing and is kept at 0.                                         *)
(***************************************************************************)
EXTENDS Integers, SequencesExt

CONSTANT Node

VARIABLES items, cursor

vars == <<items, cursor>>

Members == {items[i] : i \in 1 .. Len(items)}

Index == 0 .. Len(items) - 1

Init == items = <<>> /\ cursor = 0

\* The list with n as its item number k, counted from 0.
With(n, k) == InsertAt(items, k + 1, n)

\* The list without its item number k.
Without(k) == RemoveAt(items, k + 1)

Insert(n) ==
  /\ n \notin Members
  /\ \/ items' = Append(items, n) /\ cursor' = cursor         \* DListAppend
     \/ items' = With(n, 0) /\ cursor' = 0                    \* DListPush
     \/ items' = With(n, cursor) /\ cursor' = cursor          \* DListPrependCurrent
     \/ /\ items # <<>>                                       \* DListAppendCurrent
        /\ items' = With(n, cursor + 1) /\ cursor' = cursor + 1
     \/ \E k \in Index :                                      \* DListInsertAt
          /\ items' = With(n, k + 1)
          /\ cursor' = IF cursor > k THEN cursor + 1 ELSE cursor

\* The current item goes: the next one is current, or the one before the last.
RemoveCurrent ==
  /\ items # <<>>
  /\ items' = Without(cursor)
  /\ cursor' = IF cursor > 0 /\ cursor = Len(items) - 1 THEN cursor - 1 ELSE cursor

\* Another item goes: the current one stays current.
RemoveOther(k) ==
  /\ k \in Index \ {cursor}
  /\ items' = Without(k)
  /\ cursor' = IF cursor > k THEN cursor - 1 ELSE cursor

Move == items' = items /\ cursor' \in Index

Next ==
  \/ \E n \in Node : Insert(n)
  \/ RemoveCurrent
  \/ \E k \in Index : RemoveOther(k)
  \/ Move

Spec == Init /\ [][Next]_vars
=============================================================================
