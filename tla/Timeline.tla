------------------------------ MODULE Timeline ------------------------------
(***************************************************************************)
(* What the history of a buffer promises to the user of the editor: the    *)
(* texts that `u' goes back to and the texts that CTRL-R goes forward to,  *)
(* the nearest one first.  A command makes any text of the one there is.   *)
(* The state is one record, and an operation relates the record before,    *)
(* b, to the one after, a.                                                 *)
(***************************************************************************)
EXTENDS Integers, SequencesExt

CONSTANT Kept    \* the texts that are kept on each side

VARIABLE history    \* [text, past, future]

Init == history.past = <<>> /\ history.future = <<>>

\* The nearest texts, with t before them.
Recall(t, texts) ==
  <<t>> \o (IF Len(texts) >= Kept THEN SubSeq(texts, 1, Kept - 1) ELSE texts)

Command(b, a) == a.past = Recall(b.text, b.past) /\ a.future = <<>>

Undo(b, a) ==
  /\ b.past # <<>>
  /\ a = [text |-> Head(b.past), past |-> Tail(b.past), future |-> Recall(b.text, b.future)]

Redo(b, a) ==
  /\ b.future # <<>>
  /\ a = [text |-> Head(b.future), past |-> Recall(b.text, b.past), future |-> Tail(b.future)]

\* A command that is under way makes room for its entry.
Forget(b, a) == a.text = b.text /\ IsPrefix(a.past, b.past) /\ a.future = <<>>

Next ==
  \E b \in {history}, a \in {history'} :
    Command(b, a) \/ Undo(b, a) \/ Redo(b, a) \/ Forget(b, a)

Spec == Init /\ [][Next]_history
=============================================================================
