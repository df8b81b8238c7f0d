-------------------------------- MODULE EUndo --------------------------------
(***************************************************************************)
(* The lines of a buffer of E (src/z/lib/E/src/libe.c), the commands that  *)
(* change them, and the entries that every command records for undo and    *)
(* redo.  An entry (Action_t) is a stack of actions (action_t); undoing it *)
(* pops and reverts its actions one after the other and stacks what redo   *)
(* needs.  Both histories are lists used as EntryList of MCDList: the      *)
(* newest entry is the head and the current one.                           *)
(*                                                                         *)
(* A command of normal mode is one step.  Insert mode lasts: its entry is  *)
(* under construction while the user types, changes lines, breaks and      *)
(* joins them.  What is typed is any line; indices count from 0, as in the *)
(* code.                                                                   *)
(***************************************************************************)
EXTENDS Integers, SequencesExt

CONSTANTS Line, EMPTY,
          MaxLines,      \* lines of a buffer
          MaxActions,    \* the actions that can be undone, of commands
          MaxTyped,      \* and with those of an insert mode and of what was undone
          MaxUndo,       \* max_num_undo_entries
          Edges          \* the situations, of those below, that occur

\* The last two lines are joined, all lines are deleted, DELETE joins lines in
\* the middle of what is typed, a block with an empty line is changed, a file of
\* empty lines is read.
AllEdges == {"joinLast", "deleteAll", "deleteJoin", "emptyBlock", "blankFile"}

ASSUME EUndoAssumption ==
  /\ EMPTY \in Line /\ Edges \subseteq AllEdges
  /\ {MaxLines, MaxActions, MaxTyped} \subseteq Nat \ {0} /\ MaxUndo \in Nat

VARIABLES
  lines,    \* the rows of the buffer
  cur,      \* cur_idx
  undo, redo,
  mode,     \* "normal", "insert"
  entry     \* the Action of insert mode

vars == <<lines, cur, undo, redo, mode, entry>>

LastIdx(s) == Len(s) - 1

\* An action reverts what its type names: `at' is the cur_idx of undo_set.
Inserted(i, c) == [type |-> "INSERT_LINE", idx |-> i, at |-> c, line |-> EMPTY]
Deleted(i, l) == [type |-> "DELETE_LINE", idx |-> i, at |-> i, line |-> l]
Replaced(i, l) == [type |-> "REPLACE_LINE", idx |-> i, at |-> i, line |-> l]

IsEntry(e) ==
  \A i \in DOMAIN e :
    e[i] \in [type : {"INSERT_LINE", "DELETE_LINE", "REPLACE_LINE"}, idx : 0 .. MaxLines,
              at : 0 .. MaxLines, line : Line]

TypeOK ==
  /\ lines \in Seq(Line) /\ Len(lines) \in 1 .. MaxLines /\ cur \in 0 .. LastIdx(lines)
  /\ Len(undo) <= MaxUndo + 1 /\ Len(redo) <= MaxUndo + 1
  /\ \A h \in {undo, redo} : \A i \in DOMAIN h : IsEntry(h[i])
  /\ mode \in {"normal", "insert"} /\ IsEntry(entry)

Init ==
  /\ \E n \in 1 .. MaxLines : lines \in [1 .. n -> Line]
  /\ cur = 0 /\ undo = <<>> /\ redo = <<>> /\ mode = "normal" /\ entry = <<>>

\* s with the rows rs from index i on, and without n rows from index i on.
Paste(s, i, rs) == SubSeq(s, 1, i) \o rs \o SubSeq(s, i + 1, Len(s))
Cut(s, i, n) == SubSeq(s, 1, i) \o SubSeq(s, i + n + 1, Len(s))
-----------------------------------------------------------------------------
\* DListSetCurrent: an index outside of the buffer leaves the current one.
SetTo(s, i) == IF i \in 0 .. LastIdx(s.lines) THEN i ELSE s.cur

\* buf_undo_insert: the line goes, and the cursor to where it was before.
UndoInsert(s, a) ==
  LET i == SetTo(s, a.idx)
      last == LastIdx(s.lines) - 1
  IN  [lines |-> Cut(s.lines, i, 1),
       cur |-> IF a.at \in 0 .. last THEN a.at ELSE IF i > last THEN last ELSE i,
       back |-> <<Deleted(i, s.lines[i + 1])>> \o s.back]

\* Mutated: a line that was the last but one comes back as the last one.
UndoDeleteAfter(s, a) ==
  LET i == IF a.idx >= LastIdx(s.lines) THEN Len(s.lines) ELSE a.idx
  IN  [lines |-> Paste(s.lines, i, <<a.line>>),
       cur |-> i,
       back |-> <<Inserted(i, IF i > LastIdx(s.lines) THEN LastIdx(s.lines) ELSE i)>> \o s.back]

\* buf_undo_delete_line: the line comes back, as the last one if its index is
\* beyond them all.
UndoDelete(s, a) ==
  LET i == IF a.idx > LastIdx(s.lines) THEN Len(s.lines) ELSE a.idx
  IN  [lines |-> Paste(s.lines, i, <<a.line>>),
       cur |-> i,
       back |-> <<Inserted(i, IF i > LastIdx(s.lines) THEN LastIdx(s.lines) ELSE i)>> \o s.back]

UndoReplace(s, a) ==
  LET i == SetTo(s, a.idx)
  IN  [lines |-> [s.lines EXCEPT ![i + 1] = a.line],
       cur |-> i,
       back |-> <<Replaced(i, s.lines[i + 1])>> \o s.back]

Revert(s, a) ==
  CASE a.type = "INSERT_LINE" -> UndoInsert(s, a)
    [] a.type = "DELETE_LINE" -> UndoDelete(s, a)
    [] OTHER -> UndoReplace(s, a)

\* The element of a singleton; with it, TLC evaluates what is in the set once.
Only(S) == CHOOSE x \in S : TRUE

\* buf_undo_exec: the actions of an entry, the newest first, and where each of
\* them leads to.
Reversal(e, ls, c) ==
  LET r[k \in 0 .. Len(e)] ==
        IF k = 0 THEN [lines |-> ls, cur |-> c, back |-> <<>>]
        ELSE Only({Revert(s, e[k]) : s \in {r[k - 1]}})
  IN  r

Reverted(e, ls, c) == Reversal(e, ls, c)[Len(e)]

\* Mutated: no entry is dropped.
PushKept(history, e) == <<e>> \o history

\* The history with e as its newest entry, at the cost of the oldest.
Push(history, e) ==
  <<e>> \o (IF Len(history) > MaxUndo THEN Front(history) ELSE history)

Actions(h) == Len(FlattenSeq(h))

\* A command of normal mode, and of insert mode, records e.
Record(e) == undo' = Push(undo, e) /\ redo' = <<>>
Command(e) == Record(e) /\ Actions(undo') <= MaxActions
-----------------------------------------------------------------------------
Normal == mode = "normal" /\ UNCHANGED <<mode, entry>>

\* `u': an insert mode cannot be under way.
Undo ==
  /\ Normal /\ undo # <<>>
  /\ LET r == Reverted(Head(undo), lines, cur)
     IN  /\ lines' = r.lines /\ cur' = r.cur
         /\ undo' = Tail(undo) /\ redo' = Push(redo, r.back)

\* CTRL-R: VUNDO_RESET keeps undo.push from clearing what is left to redo.
Redo ==
  /\ Normal /\ redo # <<>>
  /\ LET r == Reverted(Head(redo), lines, cur)
     IN  /\ lines' = r.lines /\ cur' = r.cur
         /\ redo' = Tail(redo) /\ undo' = Push(undo, r.back)

Move(i) == Normal /\ i # cur /\ cur' = i /\ UNCHANGED <<lines, undo, redo>>

\* One line changes: r, D, x, dw, ci, ~, >, <, CTRL-A, CTRL-X, p of characters.
Change(l) ==
  /\ Normal
  /\ lines' = [lines EXCEPT ![cur + 1] = l]
  /\ Command(<<Replaced(cur, lines[cur + 1])>>)
  /\ cur' = cur

\* Lines change from the first to the last, like those of a substitution: the
\* current line is recorded before them, whether it is one of them or not.  Rows
\* are the indices of the lines, the last one first.
ChangeAll(rows, l) ==
  /\ Normal
  /\ \A j, k \in DOMAIN rows : j < k => rows[j] > rows[k]
  /\ Command([k \in DOMAIN rows |-> Replaced(rows[k], lines[rows[k] + 1])]
             \o <<Replaced(cur, lines[cur + 1])>>)
  /\ lines' = [i \in DOMAIN lines |->
                 IF \E k \in DOMAIN rows : rows[k] = i - 1 THEN l ELSE lines[i]]
  /\ cur' = cur

\* Mutated: every line is recorded at the index that it had at first.
DeletionsAtFirst(n) == [k \in 1 .. n |-> Deleted(cur + n - k, lines[cur + n - k + 1])]

\* The actions of the deletion of n lines, newest first: every line is recorded
\* at the index that it has when its turn comes.
Deletions(n) == [k \in 1 .. n |-> Deleted(cur, lines[cur + n - k + 1])]

\* dd: a buffer that has lost all its lines is given an empty one.
DeleteLines(n) ==
  /\ Normal /\ cur + n <= Len(lines)
  /\ n = Len(lines) => "deleteAll" \in Edges
  /\ lines' = IF n = Len(lines) THEN <<EMPTY>> ELSE Cut(lines, cur, n)
  /\ cur' = IF cur > LastIdx(lines') THEN LastIdx(lines') ELSE cur
  /\ Command(Deletions(n))

\* What buf_Action_set_with makes of an index, in a buffer of n rows.
GivenIdx(i, n, c) == IF i < 0 \/ i >= n THEN c ELSE i

\* The actions of buf_normal_join at row c, newest first: the next row has gone
\* when its index is given.
JoinEntry(c) ==
  <<Deleted(GivenIdx(c + 1, LastIdx(lines), c), lines[c + 2]), Replaced(c, lines[c + 1])>>

Joined(c, l) == [Cut(lines, c + 1, 1) EXCEPT ![c + 1] = l]

CanJoin(c) ==
  c \in 0 .. LastIdx(lines) - 1 /\ (c + 1 = LastIdx(lines) => "joinLast" \in Edges)

Join(l) ==
  /\ Normal /\ CanJoin(cur)
  /\ lines' = Joined(cur, l) /\ cur' = cur
  /\ Command(JoinEntry(cur))

\* p of lines, and r of a file: each is recorded at its own index, and the
\* cursor returns.  A file of empty lines alone is not recorded.
PutAfter(rs) ==
  /\ Normal /\ Len(lines) + Len(rs) <= MaxLines
  /\ lines' = Paste(lines, cur + 1, rs) /\ cur' = cur
  /\ \/ Command([k \in DOMAIN rs |->
                   Inserted(cur + Len(rs) - k + 1, cur + Len(rs) - k)])
     \/ /\ "blankFile" \in Edges /\ \A k \in DOMAIN rs : rs[k] = EMPTY
        /\ UNCHANGED <<undo, redo>>

\* P of lines: each takes the place of the one before.
PutBefore(rs) ==
  /\ Normal /\ Len(lines) + Len(rs) <= MaxLines
  /\ lines' = Paste(lines, cur, rs) /\ cur' = cur
  /\ Command([k \in DOMAIN rs |-> Inserted(cur, cur)])

\* The change of a block that begins or ends at the current line.  Rows are the
\* indices of its lines, the first one first, but for those that are too short to be
\* in it.  The delete of a line records nothing if the line is empty, and then the
\* entry that is popped for it is the one of an earlier command.
ChangeBlock(rows, l) ==
  /\ Normal
  /\ \A j, k \in DOMAIN rows : j < k => rows[j] < rows[k]
  /\ \/ \A k \in DOMAIN rows : rows[k] >= cur
     \/ \A k \in DOMAIN rows : rows[k] <= cur
  /\ LET void == {k \in DOMAIN rows : lines[rows[k] + 1] = EMPTY}
         lost == Cardinality(void)
         taken(k) == undo[Cardinality({j \in void : j <= k})]
     IN  /\ void # {} => /\ "emptyBlock" \in Edges
                         /\ rows[Len(rows)] = rows[1] + Len(rows) - 1
         /\ lost <= Len(undo) /\ \A k \in void : taken(k) # <<>>
         /\ undo' = Push(SubSeq(undo, lost + 1, Len(undo)),
                         [k \in DOMAIN rows |->
                            IF k \in void THEN Head(taken(k))
                            ELSE Replaced(rows[k], lines[rows[k] + 1])])
         /\ redo' = <<>> /\ Actions(undo') <= MaxActions
  /\ lines' = [i \in DOMAIN lines |->
                 IF \E k \in DOMAIN rows : rows[k] = i - 1 THEN l ELSE lines[i]]
  /\ cur' = cur
-----------------------------------------------------------------------------
\* Insert mode; the entry begins with the line that is current.
Typed == mode' = "insert" /\ Len(entry') + Actions(undo' \o redo') <= MaxTyped

InsertMode ==
  /\ mode = "normal"
  /\ UNCHANGED <<lines, cur, undo, redo>>
  /\ entry' = <<Replaced(cur, lines[cur + 1])>> /\ Typed

\* o and O: the new line is an entry of its own.
NewLine(i) ==
  /\ mode = "normal"
  /\ i \in {cur, cur + 1} /\ Len(lines) < MaxLines
  /\ lines' = Paste(lines, i, <<EMPTY>>) /\ cur' = i
  /\ Command(<<Inserted(i, cur)>>)
  /\ entry' = <<Replaced(i, EMPTY)>> /\ Typed

Inserting == mode = "insert" /\ Typed

\* DeleteJoin has taken the action that holds the line.
Unrecorded == entry = <<>> /\ "deleteJoin" \notin Edges

Type(l) ==
  /\ mode = "insert" /\ ~Unrecorded
  /\ lines' = [lines EXCEPT ![cur + 1] = l]
  /\ UNCHANGED <<cur, undo, redo, mode, entry>>

\* An arrow or a page key: to another line, or nowhere.
ChangeLine(i) ==
  /\ UNCHANGED <<lines, undo, redo>>
  /\ cur' = i /\ entry' = <<Replaced(i, lines[i + 1])>> \o entry /\ Inserting

\* The return key: the line is cut at the cursor.
BreakLine(l, m) ==
  /\ ~Unrecorded /\ Len(lines) < MaxLines
  /\ lines' = [Paste(lines, cur + 1, <<m>>) EXCEPT ![cur + 1] = l]
  /\ cur' = cur + 1
  /\ UNCHANGED <<undo, redo>>
  /\ entry' = <<Inserted(cur + 1, cur)>> \o entry /\ Inserting

\* What the entry of insert mode would bring back: the text of before it.
Before == Reverted(entry, lines, cur)

\* BACKSPACE at the beginning of a line: up, and join.  The entry of the join
\* is pushed and popped again, and its first action goes into this entry.
BackspaceJoin(l) ==
  /\ CanJoin(cur - 1)
  /\ lines' = Joined(cur - 1, l) /\ cur' = cur - 1
  /\ undo' = Tail(Push(undo, <<>>)) /\ redo' = <<>>
  /\ entry' = JoinEntry(cur - 1) \o entry /\ Inserting

\* DELETE at the end of a line: the join keeps its entry, and this one loses
\* its newest action.
DeleteJoin(l) ==
  /\ mode = "insert" /\ CanJoin(cur)
  /\ Len(entry) > 1 \/ Before.lines # lines => "deleteJoin" \in Edges
  /\ lines' = Joined(cur, l) /\ cur' = cur
  /\ Record(JoinEntry(cur))
  /\ entry' = IF entry = <<>> THEN <<>> ELSE Tail(entry)
  /\ mode' = mode

Escape ==
  /\ mode = "insert" /\ mode' = "normal" /\ entry' = <<>>
  /\ IF entry = <<>> THEN UNCHANGED <<undo, redo>> ELSE Record(entry)
  /\ UNCHANGED <<lines, cur>>
-----------------------------------------------------------------------------
Rows == 0 .. LastIdx(lines)

Next ==
  \/ Undo \/ Redo \/ InsertMode \/ Escape
  \/ \E i \in Rows : Move(i) \/ ChangeLine(i)
  \/ \E i \in 0 .. Len(lines) : NewLine(i)
  \/ \E n \in 1 .. Len(lines) : DeleteLines(n)
  \/ \E rs \in UNION {[1 .. n -> Line] : n \in 1 .. 2} :
       PutAfter(rs) \/ PutBefore(rs)
  \/ \E l \in Line :
       \/ Change(l) \/ Join(l) \/ Type(l) \/ BackspaceJoin(l) \/ DeleteJoin(l)
       \/ \E m \in Line : BreakLine(l, m)
       \/ \E n \in 1 .. Len(lines) : \E rows \in [1 .. n -> Rows] : ChangeAll(rows, l)
       \/ \E n \in 0 .. Len(lines) : \E rows \in [1 .. n -> Rows] : ChangeBlock(rows, l)

Spec == Init /\ [][Next]_vars
-----------------------------------------------------------------------------
\* Where the entries of a history lead to, one after the other.
Passed(history, ls, c) ==
  LET r[k \in 0 .. Len(history)] ==
        IF k = 0 THEN Reverted(<<>>, ls, c)
        ELSE Only({Reverted(history[k], s.lines, s.cur) : s \in {r[k - 1]}})
  IN  r

Texts(history, ls, c) == [k \in 1 .. Len(history) |-> Passed(history, ls, c)[k].lines]

\* Every action of every entry finds its line when its turn comes: the indices
\* that commands record are those of the buffer at that time, although they are
\* used when other commands have changed it and brought it back (libe.c:525-585).
EveryIndexMet ==
  \A history \in {undo, redo} : \A i \in DOMAIN history :
    LET s == Passed(history, Before.lines, Before.cur)[i - 1]
        e == history[i]
    IN  \A k \in DOMAIN e :
          e[k].idx <= LastIdx(Reversal(e, s.lines, s.cur)[k - 1].lines)
                        + IF e[k].type = "DELETE_LINE" THEN 1 ELSE 0

Told(b) == [text |-> b.lines, past |-> Texts(undo, b.lines, b.cur),
            future |-> Texts(redo, b.lines, b.cur)]

History == INSTANCE Timeline
  WITH Kept <- MaxUndo + 1, history <- Only({Told(b) : b \in {Before}})

\* Undo brings back the text of before the command, whatever the command has
\* recorded and wherever the cursor is, and redo the text of after it, for as
\* many commands as are kept (libe.c:502-644).
HistoryRefined == History!Spec
=============================================================================
