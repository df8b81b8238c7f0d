------------------------------ MODULE MCDList ------------------------------
(***************************************************************************)
(* The owners of lists in the libraries: La's list values, the lists with  *)
(* a cursor (lines of a buffer, windows, frames, a command line), and the  *)
(* lists of entries (undo, redo, history).                                 *)
(***************************************************************************)
EXTENDS DList, TLC

ValueList == {"Append", "Push", "InsertAt", "PopTail", "PopAt"}
CursorList == {"Append", "InsertAt", "PopCurrent", "PopAt", "SetCurrent",
               "PrependCurrent", "AppendCurrent"}
EntryList == {"Push", "PrependCurrent", "PopTail", "PopCurrent"}

AllOwners == {ValueList, CursorList, EntryList}

Nodes == Permutations(Node)
=============================================================================
