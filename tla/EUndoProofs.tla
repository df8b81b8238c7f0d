---------------------------- MODULE EUndoProofs ----------------------------
(***************************************************************************)
(* Proofs about EUndo, for every set of lines, every size of the buffer    *)
(* and every number of entries that are kept.                              *)
(***************************************************************************)
EXTENDS EUndo, Foundations, FiniteSetTheorems

Text == {s \in Seq(Line) : Len(s) \in 1 .. MaxLines}

Action == [type : {"INSERT_LINE", "DELETE_LINE", "REPLACE_LINE"}, idx : 0 .. MaxLines,
           at : 0 .. MaxLines, line : Line]

Sizes == MaxLines \in Nat /\ MaxLines > 0 /\ MaxUndo \in Nat /\ EMPTY \in Line

\* The sizes that are assumed of the constants.
LEMMA Constants == Sizes
BY EUndoAssumption DEF Sizes

-----------------------------------------------------------------------------
\* Two texts with the same rows are the same.
LEMMA SameRows ==
  ASSUME NEW S, NEW s \in Seq(S), NEW t \in Seq(S), Len(s) = Len(t),
         \A i \in 1 .. Len(s) : s[i] = t[i]
  PROVE  s = t
OBVIOUS

\* The text s with another row i.
LEMMA EditIs ==
  ASSUME NEW S, NEW s \in Seq(S), NEW i \in 1 .. Len(s), NEW l \in S
  PROVE  /\ [s EXCEPT ![i] = l] \in Seq(S) /\ Len([s EXCEPT ![i] = l]) = Len(s)
         /\ \A j \in 1 .. Len(s) : [s EXCEPT ![i] = l][j] = IF j = i THEN l ELSE s[j]
OBVIOUS

\* The first i rows of s, and those after the first i.
LEMMA PartsAre ==
  ASSUME NEW S, NEW s \in Seq(S), NEW i \in 0 .. Len(s)
  PROVE  /\ SubSeq(s, 1, i) \in Seq(S) /\ Len(SubSeq(s, 1, i)) = i
         /\ \A j \in 1 .. i : SubSeq(s, 1, i)[j] = s[j]
         /\ SubSeq(s, i + 1, Len(s)) \in Seq(S) /\ Len(SubSeq(s, i + 1, Len(s))) = Len(s) - i
         /\ \A j \in 1 .. Len(s) - i : SubSeq(s, i + 1, Len(s))[j] = s[j + i]
OBVIOUS

\* The text s without n rows from index i on.
LEMMA CutIs ==
  ASSUME NEW S, NEW s \in Seq(S), NEW i \in 0 .. Len(s), NEW n \in 0 .. Len(s) - i
  PROVE  /\ Cut(s, i, n) \in Seq(S) /\ Len(Cut(s, i, n)) = Len(s) - n
         /\ \A j \in 1 .. Len(s) - n : Cut(s, i, n)[j] = IF j <= i THEN s[j] ELSE s[j + n]
<1> DEFINE a == SubSeq(s, 1, i)
           b == SubSeq(s, (i + n) + 1, Len(s))
<1>1. a \in Seq(S) /\ Len(a) = i /\ \A j \in 1 .. i : a[j] = s[j]
  BY PartsAre
<1>2. /\ b \in Seq(S) /\ Len(b) = Len(s) - (i + n)
      /\ \A j \in 1 .. Len(s) - (i + n) : b[j] = s[j + (i + n)]
  <2>1. i + n \in 0 .. Len(s)
    OBVIOUS
  <2> QED
    BY <2>1, PartsAre
<1>3. Cut(s, i, n) = a \o b
  BY DEF Cut
<1> HIDE DEF a, b
<1>4. /\ a \o b \in Seq(S) /\ Len(a \o b) = Len(a) + Len(b)
      /\ \A j \in 1 .. Len(a) + Len(b) :
           (a \o b)[j] = IF j <= Len(a) THEN a[j] ELSE b[j - Len(a)]
  BY <1>1, <1>2, ConcatIs
<1>5. Len(a) + Len(b) = Len(s) - n
  BY <1>1, <1>2
<1>6. ASSUME NEW j \in 1 .. Len(s) - n PROVE (a \o b)[j] = IF j <= i THEN s[j] ELSE s[j + n]
  <2>1. j \in Int /\ i \in Int
    OBVIOUS
  <2>2. CASE j <= i
    BY <1>1, <1>4, <1>5, <2>2
  <2>3. CASE j > i
    <3>1. j - i \in 1 .. Len(s) - (i + n) /\ (j - i) + (i + n) = j + n
      BY <2>3
    <3> QED
      BY <1>1, <1>2, <1>4, <1>5, <2>3, <3>1
  <2>4. j <= i \/ j > i
    BY <2>1
  <2> QED
    BY <2>2, <2>3, <2>4
<1> QED
  BY <1>3, <1>4, <1>5, <1>6

\* The text s with the rows rs from index i on.
LEMMA PasteIs ==
  ASSUME NEW S, NEW s \in Seq(S), NEW rs \in Seq(S), NEW i \in 0 .. Len(s)
  PROVE  /\ Paste(s, i, rs) \in Seq(S) /\ Len(Paste(s, i, rs)) = Len(s) + Len(rs)
         /\ \A j \in 1 .. Len(s) + Len(rs) :
              Paste(s, i, rs)[j] = IF j <= i THEN s[j]
                                   ELSE IF j <= i + Len(rs) THEN rs[j - i] ELSE s[j - Len(rs)]
<1> DEFINE a == SubSeq(s, 1, i)
           b == SubSeq(s, i + 1, Len(s))
           m == Len(rs)
<1>1. a \in Seq(S) /\ Len(a) = i /\ \A j \in 1 .. i : a[j] = s[j]
  BY PartsAre
<1>2. /\ b \in Seq(S) /\ Len(b) = Len(s) - i
      /\ \A j \in 1 .. Len(s) - i : b[j] = s[j + i]
  BY PartsAre
<1>3. Paste(s, i, rs) = (a \o rs) \o b
  BY DEF Paste
<1>0. m \in Nat
  OBVIOUS
<1> HIDE DEF a, b, m
<1> DEFINE c == a \o rs
<1>4. /\ c \in Seq(S) /\ Len(c) = i + m
      /\ \A j \in 1 .. i + m : c[j] = IF j <= i THEN a[j] ELSE rs[j - i]
  BY <1>1, ConcatIs DEF m
<1> HIDE DEF c
<1>5. /\ c \o b \in Seq(S) /\ Len(c \o b) = Len(c) + Len(b)
      /\ \A j \in 1 .. Len(c) + Len(b) :
           (c \o b)[j] = IF j <= Len(c) THEN c[j] ELSE b[j - Len(c)]
  BY <1>4, <1>2, ConcatIs
<1>6. Len(c) + Len(b) = Len(s) + m
  BY <1>0, <1>2, <1>4
<1>7. ASSUME NEW j \in 1 .. Len(s) + m
      PROVE  (c \o b)[j] = IF j <= i THEN s[j] ELSE IF j <= i + m THEN rs[j - i] ELSE s[j - m]
  <2>1. j \in Int /\ i \in Int /\ m \in Int
    BY <1>0
  <2>2. CASE j <= i
    <3>1. j \in 1 .. i /\ j \in 1 .. i + m /\ j <= i + m
      BY <1>0, <2>2
    <3> QED
      BY <1>1, <1>4, <1>5, <1>6, <2>2, <3>1
  <2>3. CASE j > i /\ j <= i + m
    <3>1. j \in 1 .. i + m
      BY <1>0, <2>3
    <3> QED
      BY <1>4, <1>5, <1>6, <2>3, <3>1
  <2>4. CASE j > i + m
    <3>1. j - (i + m) \in 1 .. Len(s) - i /\ (j - (i + m)) + i = j - m
      BY <1>0, <2>4
    <3>2. ~ (j <= i) /\ ~ (j <= i + m)
      BY <1>0, <2>4
    <3> QED
      BY <1>2, <1>4, <1>5, <1>6, <3>1, <3>2
  <2>5. j <= i \/ (j > i /\ j <= i + m) \/ j > i + m
    BY <2>1
  <2> QED
    BY <2>2, <2>3, <2>4, <2>5
<1> QED
  BY <1>3, <1>5, <1>6, <1>7 DEF c, m

-----------------------------------------------------------------------------
\* The action a finds its line in the text x, and leaves a text that fits in.
Finds(a, x) ==
  CASE a.type = "INSERT_LINE" -> a.idx \in 0 .. Len(x) - 1 /\ Len(x) > 1
    [] a.type = "DELETE_LINE" -> a.idx \in 0 .. Len(x) /\ Len(x) < MaxLines
    [] OTHER -> a.idx \in 0 .. Len(x) - 1

\* What the action a makes of the text x.
After(a, x) ==
  CASE a.type = "INSERT_LINE" -> Cut(x, a.idx, 1)
    [] a.type = "DELETE_LINE" -> Paste(x, a.idx, <<a.line>>)
    [] OTHER -> [x EXCEPT ![a.idx + 1] = a.line]

\* Reverting the action a leads from the text x to y.
Takes(a, x, y) ==
  a \in Action /\ x \in Text /\ y \in Text /\ Finds(a, x) /\ y = After(a, x)

\* A row that is cut can be put back, and the other way around.
LEMMA CutPaste ==
  ASSUME NEW S, NEW s \in Seq(S), NEW i \in 0 .. Len(s) - 1
  PROVE  Paste(Cut(s, i, 1), i, <<s[i + 1]>>) = s
<1> DEFINE c == Cut(s, i, 1)
           r == <<s[i + 1]>>
           p == Paste(c, i, r)
<1>1. i \in 0 .. Len(s) /\ 1 \in 0 .. Len(s) - i /\ i + 1 \in 1 .. Len(s)
  OBVIOUS
<1>2. r \in Seq(S) /\ Len(r) = 1 /\ r[1] = s[i + 1]
  BY <1>1
<1>3. /\ c \in Seq(S) /\ Len(c) = Len(s) - 1
      /\ \A j \in 1 .. Len(s) - 1 : c[j] = IF j <= i THEN s[j] ELSE s[j + 1]
  BY <1>1, CutIs
<1> HIDE DEF c, r
<1>4. i \in 0 .. Len(c)
  BY <1>3
<1>5. /\ p \in Seq(S) /\ Len(p) = Len(c) + Len(r)
      /\ \A j \in 1 .. Len(c) + Len(r) :
           p[j] = IF j <= i THEN c[j] ELSE IF j <= i + Len(r) THEN r[j - i] ELSE c[j - Len(r)]
  <2>1. c \in Seq(S) /\ r \in Seq(S)
    BY <1>2, <1>3
  <2> QED
    BY ONLY <1>4, <2>1, PasteIs
<1>6. Len(p) = Len(s)
  BY <1>2, <1>3, <1>5
<1>7. ASSUME NEW j \in 1 .. Len(s) PROVE p[j] = s[j]
  <2>1. p[j] = IF j <= i THEN c[j] ELSE IF j <= i + 1 THEN r[j - i] ELSE c[j - 1]
    BY <1>2, <1>3, <1>5
  <2>2. CASE j <= i
    BY <1>3, <2>1, <2>2
  <2>3. CASE j = i + 1
    BY <1>2, <2>1, <2>3
  <2>4. CASE j > i + 1
    <3>1. j - 1 \in 1 .. Len(s) - 1 /\ ~ (j - 1 <= i) /\ (j - 1) + 1 = j
      BY <2>4
    <3> QED
      BY <1>3, <2>1, <2>4, <3>1
  <2>5. j <= i \/ j = i + 1 \/ j > i + 1
    OBVIOUS
  <2> QED
    BY <2>2, <2>3, <2>4, <2>5
<1> HIDE DEF p
<1>8. p = s
  BY <1>5, <1>6, <1>7, SameRows
<1> QED
  BY <1>8 DEF p, c, r

\* A row that is put in can be cut out.
LEMMA PasteCut ==
  ASSUME NEW S, NEW s \in Seq(S), NEW i \in 0 .. Len(s), NEW l \in S
  PROVE  /\ Cut(Paste(s, i, <<l>>), i, 1) = s
         /\ Paste(s, i, <<l>>)[i + 1] = l
<1> DEFINE r == <<l>>
           p == Paste(s, i, r)
           c == Cut(p, i, 1)
<1>2. r \in Seq(S) /\ Len(r) = 1 /\ r[1] = l
  OBVIOUS
<1> HIDE DEF r
<1>3. /\ p \in Seq(S) /\ Len(p) = Len(s) + Len(r)
      /\ \A j \in 1 .. Len(s) + Len(r) :
           p[j] = IF j <= i THEN s[j] ELSE IF j <= i + Len(r) THEN r[j - i] ELSE s[j - Len(r)]
  BY <1>2, PasteIs
<1>4. /\ p \in Seq(S) /\ Len(p) = Len(s) + 1
      /\ \A j \in 1 .. Len(s) + 1 :
           p[j] = IF j <= i THEN s[j] ELSE IF j <= i + 1 THEN r[j - i] ELSE s[j - 1]
  BY <1>2, <1>3
<1> HIDE DEF p
<1>5. i \in 0 .. Len(p) /\ 1 \in 0 .. Len(p) - i
  BY <1>4
<1>6. /\ c \in Seq(S) /\ Len(c) = Len(p) - 1
      /\ \A j \in 1 .. Len(p) - 1 : c[j] = IF j <= i THEN p[j] ELSE p[j + 1]
  BY <1>4, <1>5, CutIs
<1>7. ASSUME NEW j \in 1 .. Len(s) PROVE c[j] = s[j]
  <2>1. c[j] = IF j <= i THEN p[j] ELSE p[j + 1]
    BY <1>4, <1>6
  <2>2. CASE j <= i
    BY <1>4, <2>1, <2>2
  <2>3. CASE j > i
    <3>1. j + 1 \in 1 .. Len(s) + 1 /\ ~ (j + 1 <= i) /\ ~ (j + 1 <= i + 1) /\ (j + 1) - 1 = j
      BY <2>3
    <3>2. p[j + 1] = s[j]
      BY <1>4, <3>1
    <3> QED
      BY <2>1, <2>3, <3>2
  <2>4. j <= i \/ j > i
    OBVIOUS
  <2> QED
    BY <2>2, <2>3, <2>4
<1> HIDE DEF c
<1>8. Len(c) = Len(s)
  BY <1>4, <1>6
<1>9. c = s
  BY <1>6, <1>7, <1>8, SameRows
<1>10. p[i + 1] = l
  <2>1. i + 1 \in 1 .. Len(s) + 1 /\ ~ (i + 1 <= i) /\ i + 1 <= i + 1 /\ (i + 1) - i = 1
    OBVIOUS
  <2> QED
    BY <1>2, <1>4, <2>1
<1> QED
  BY <1>9, <1>10 DEF p, c, r

-----------------------------------------------------------------------------
\* The action that takes back what reverting a makes of the text x.
Mirror(a, x) ==
  CASE a.type = "INSERT_LINE" -> Deleted(a.idx, x[a.idx + 1])
    [] a.type = "DELETE_LINE" ->
         Inserted(a.idx, IF a.idx > LastIdx(x) THEN LastIdx(x) ELSE a.idx)
    [] OTHER -> Replaced(a.idx, x[a.idx + 1])

\* The rows of a text are lines, and their indices are those of actions.
LEMMA TextIs ==
  ASSUME NEW x \in Text
  PROVE  /\ x \in Seq(Line) /\ Len(x) \in 1 .. MaxLines /\ Len(x) \in Nat
         /\ \A i \in 0 .. Len(x) - 1 : i + 1 \in 1 .. Len(x) /\ x[i + 1] \in Line /\ i \in 0 .. MaxLines
BY Constants DEF Sizes, Text

\* The line of an insertion that is undone is put back where it was.
LEMMA MirrorInsert ==
  ASSUME NEW a, NEW x, NEW y, Takes(a, x, y), a.type = "INSERT_LINE"
  PROVE  Takes(Mirror(a, x), y, x)
<1> DEFINE i == a.idx
           b == Deleted(i, x[i + 1])
<1>1. /\ x \in Text /\ y \in Text /\ i \in 0 .. Len(x) - 1 /\ Len(x) > 1 /\ y = Cut(x, i, 1)
      /\ Mirror(a, x) = b
  BY DEF Takes, Finds, After, Mirror
<1>2. x[i + 1] \in Line /\ i \in 0 .. MaxLines
  BY <1>1, TextIs
<1> HIDE DEF i
<1>3. b \in Action /\ b.type = "DELETE_LINE" /\ b.idx = i /\ b.line = x[i + 1]
  BY <1>2 DEF Deleted, Action
<1>4. x \in Seq(Line) /\ Len(x) \in 1 .. MaxLines /\ Len(x) \in Nat
  BY <1>1, TextIs
<1>5. Len(y) = Len(x) - 1
  <2>1. i \in 0 .. Len(x) /\ 1 \in 0 .. Len(x) - i
    BY <1>1, <1>4
  <2> QED
    BY <1>1, <1>4, <2>1, CutIs
<1>6. Paste(y, i, <<x[i + 1]>>) = x
  BY <1>1, <1>4, CutPaste
<1>7. i \in 0 .. Len(y) /\ Len(y) < MaxLines
  BY <1>1, <1>4, <1>5, Constants DEF Sizes
<1> HIDE DEF b
<1>8. Finds(b, y) /\ After(b, y) = x
  BY <1>3, <1>6, <1>7 DEF Finds, After
<1> QED
  BY <1>1, <1>3, <1>8 DEF Takes

\* The line of a deletion that is undone is cut out again.
LEMMA MirrorDelete ==
  ASSUME NEW a, NEW x, NEW y, Takes(a, x, y), a.type = "DELETE_LINE"
  PROVE  Takes(Mirror(a, x), y, x)
<1> DEFINE i == a.idx
           c == IF i > LastIdx(x) THEN LastIdx(x) ELSE i
           b == Inserted(i, c)
<1>1. /\ x \in Text /\ y \in Text /\ i \in 0 .. Len(x) /\ Len(x) < MaxLines
      /\ y = Paste(x, i, <<a.line>>) /\ Mirror(a, x) = b /\ a.line \in Line
  BY DEF Takes, Finds, After, Mirror, Action
<1> HIDE DEF i
<1>4. x \in Seq(Line) /\ Len(x) \in 1 .. MaxLines /\ Len(x) \in Nat
  BY <1>1, TextIs
<1>2. c \in 0 .. MaxLines /\ i \in 0 .. MaxLines
  BY <1>1, <1>4, Constants DEF Sizes, LastIdx
<1> HIDE DEF c
<1>3. b \in Action /\ b.type = "INSERT_LINE" /\ b.idx = i
  BY <1>2, Constants DEF Inserted, Action, Sizes
<1>5. Len(y) = Len(x) + 1
  <2>1. <<a.line>> \in Seq(Line) /\ Len(<<a.line>>) = 1
    BY <1>1
  <2> QED
    BY <1>1, <1>4, <2>1, PasteIs
<1>6. Cut(y, i, 1) = x
  BY <1>1, <1>4, PasteCut
<1>7. i \in 0 .. Len(y) - 1 /\ Len(y) > 1
  BY <1>1, <1>4, <1>5
<1> HIDE DEF b
<1>8. Finds(b, y) /\ After(b, y) = x
  BY <1>3, <1>6, <1>7 DEF Finds, After
<1> QED
  BY <1>1, <1>3, <1>8 DEF Takes

\* The line of a replacement that is undone is replaced again.
LEMMA MirrorReplace ==
  ASSUME NEW a, NEW x, NEW y, Takes(a, x, y), a.type = "REPLACE_LINE"
  PROVE  Takes(Mirror(a, x), y, x)
<1> DEFINE i == a.idx
           b == Replaced(i, x[i + 1])
<1>1. /\ x \in Text /\ y \in Text /\ i \in 0 .. Len(x) - 1
      /\ y = [x EXCEPT ![i + 1] = a.line] /\ Mirror(a, x) = b /\ a.line \in Line
  BY DEF Takes, Finds, After, Mirror, Action
<1> HIDE DEF i
<1>2. x[i + 1] \in Line /\ i \in 0 .. MaxLines /\ i + 1 \in 1 .. Len(x)
  BY <1>1, TextIs
<1>3. b \in Action /\ b.type = "REPLACE_LINE" /\ b.idx = i /\ b.line = x[i + 1]
  BY <1>2 DEF Replaced, Action
<1>4. x \in Seq(Line)
  BY <1>1, TextIs
<1>5. Len(y) = Len(x)
  BY <1>1, <1>2, <1>4
<1>6. [y EXCEPT ![i + 1] = x[i + 1]] = x
  <2>1. y \in Seq(Line) /\ \A j \in 1 .. Len(x) : y[j] = IF j = i + 1 THEN a.line ELSE x[j]
    BY ONLY <1>1, <1>2, <1>4, EditIs
  <2> DEFINE z == [y EXCEPT ![i + 1] = x[i + 1]]
  <2>2. /\ z \in Seq(Line) /\ Len(z) = Len(y)
        /\ \A j \in 1 .. Len(y) : z[j] = IF j = i + 1 THEN x[i + 1] ELSE y[j]
    BY ONLY <1>2, <1>5, <2>1, EditIs
  <2> HIDE DEF z
  <2>3. Len(z) = Len(x) /\ \A j \in 1 .. Len(z) : z[j] = x[j]
    BY ONLY <1>5, <2>1, <2>2
  <2>4. z = x
    BY ONLY <1>4, <2>2, <2>3, SameRows
  <2> QED
    BY <2>4 DEF z
<1> HIDE DEF b
<1>8. Finds(b, y) /\ After(b, y) = x
  BY <1>1, <1>3, <1>5, <1>6 DEF Finds, After
<1> QED
  BY <1>1, <1>3, <1>8 DEF Takes

\* What undoing an action stacks leads back to the text it was undone in.
LEMMA MirrorTakes ==
  ASSUME NEW a, NEW x, NEW y, Takes(a, x, y)
  PROVE  Takes(Mirror(a, x), y, x)
<1>1. a.type \in {"INSERT_LINE", "DELETE_LINE", "REPLACE_LINE"}
  BY DEF Takes, Action
<1> QED
  BY <1>1, MirrorInsert, MirrorDelete, MirrorReplace
-----------------------------------------------------------------------------
State == [lines : Text, cur : Nat, back : Seq(Action)]

\* Reverting a in the state s leads to the text y, and stacks what leads back.
Reverts(s, a, y) ==
  LET r == Revert(s, a)
  IN  /\ r \in State /\ r.lines = y /\ r.cur \in 0 .. Len(y) - 1
      /\ r.back = <<Mirror(a, s.lines)>> \o s.back

\* buf_undo_insert, buf_undo_delete_line and buf_undo_replace_line do what the
\* action says of the text, set the current line within it and stack the way back.
LEMMA RevertIs ==
  ASSUME NEW s \in State, NEW a, NEW y, Takes(a, s.lines, y), s.cur \in 0 .. Len(s.lines) - 1
  PROVE  Reverts(s, a, y)
<1> DEFINE x == s.lines
           i == a.idx
           m == Mirror(a, x)
           r == Revert(s, a)
<1>1. x \in Text /\ y \in Text /\ a \in Action /\ Finds(a, x) /\ y = After(a, x) /\ m \in Action
  BY MirrorTakes DEF Takes
<1>2. x \in Seq(Line) /\ Len(x) \in 1 .. MaxLines /\ Len(x) \in Nat
  BY <1>1, TextIs
<1>3. s.back \in Seq(Action) /\ <<m>> \o s.back \in Seq(Action)
  <2>1. s.back \in Seq(Action)
    BY DEF State
  <2>2. <<m>> \in Seq(Action)
    BY <1>1
  <2> QED
    BY <2>1, <2>2, ConcatIs
<1>4. CASE a.type = "INSERT_LINE"
  <2>1. i \in 0 .. Len(x) - 1 /\ Len(x) > 1 /\ y = Cut(x, i, 1) /\ m = Deleted(i, x[i + 1])
    BY <1>1, <1>4 DEF Finds, After, Mirror
  <2>2. SetTo(s, i) = i
    BY <2>1 DEF SetTo, LastIdx
  <2>3. Len(y) = Len(x) - 1
    <3>1. i \in 0 .. Len(x) /\ 1 \in 0 .. Len(x) - i
      BY <1>2, <2>1
    <3> QED
      BY <1>2, <2>1, <3>1, CutIs
  <2> DEFINE last == LastIdx(x) - 1
             c == IF a.at \in 0 .. last THEN a.at ELSE IF i > last THEN last ELSE i
  <2>4. r = [lines |-> y, cur |-> c, back |-> <<m>> \o s.back]
    BY <1>4, <2>1, <2>2 DEF Revert, UndoInsert
  <2>5. c \in 0 .. Len(y) - 1 /\ c \in Nat
    BY <1>2, <2>1, <2>3 DEF LastIdx
  <2> HIDE DEF c, r, m
  <2> QED
    BY <1>1, <1>3, <2>4, <2>5 DEF Reverts, State, r, m
<1>5. CASE a.type = "DELETE_LINE"
  <2>1. i \in 0 .. Len(x) /\ y = Paste(x, i, <<a.line>>) /\ a.line \in Line
        /\ m = Inserted(i, IF i > LastIdx(x) THEN LastIdx(x) ELSE i)
    BY <1>1, <1>5 DEF Finds, After, Mirror, Action
  <2>2. (IF i > LastIdx(x) THEN Len(x) ELSE i) = i
    BY <1>2, <2>1 DEF LastIdx
  <2>3. Len(y) = Len(x) + 1
    <3> DEFINE l == <<a.line>>
    <3>1. l \in Seq(Line) /\ Len(l) = 1 /\ y = Paste(x, i, l) /\ i \in 0 .. Len(x)
      BY <2>1
    <3> HIDE DEF l, i, x
    <3>2. Len(Paste(x, i, l)) = Len(x) + Len(l)
      BY ONLY <1>2, <3>1, PasteIs
    <3> QED
      BY ONLY <3>1, <3>2
  <2>4. r = [lines |-> y, cur |-> i, back |-> <<m>> \o s.back]
    BY <1>5, <2>1, <2>2 DEF Revert, UndoDelete
  <2>5. i \in 0 .. Len(y) - 1 /\ i \in Nat
    BY <1>2, <2>1, <2>3
  <2> HIDE DEF i, r, m
  <2> QED
    BY <1>1, <1>3, <2>4, <2>5 DEF Reverts, State, r, m
<1>6. CASE a.type = "REPLACE_LINE"
  <2>1. i \in 0 .. Len(x) - 1 /\ y = [x EXCEPT ![i + 1] = a.line] /\ m = Replaced(i, x[i + 1])
    BY <1>1, <1>6 DEF Finds, After, Mirror
  <2>2. SetTo(s, i) = i
    BY <2>1 DEF SetTo, LastIdx
  <2>3. Len(y) = Len(x)
    BY <1>2, <2>1
  <2>4. r = [lines |-> y, cur |-> i, back |-> <<m>> \o s.back]
    BY <1>6, <2>1, <2>2 DEF Revert, UndoReplace
  <2>5. i \in 0 .. Len(y) - 1 /\ i \in Nat
    BY <1>2, <2>1, <2>3
  <2> HIDE DEF i, r, m
  <2> QED
    BY <1>1, <1>3, <2>4, <2>5 DEF Reverts, State, r, m
<1> QED
  BY <1>1, <1>4, <1>5, <1>6 DEF Action

-----------------------------------------------------------------------------
\* The texts t that the entry e goes through from the text x to y.
Leading(t, e, x, y) ==
  /\ e \in Seq(Action) /\ t \in [0 .. Len(e) -> Text] /\ t[0] = x /\ t[Len(e)] = y
  /\ \A k \in 1 .. Len(e) : Takes(e[k], t[k - 1], t[k])

Leads(e, x, y) == \E t : Leading(t, e, x, y)

\* The states at t[k], after k actions, that have stacked what leads back.
Reached(t, k) ==
  {s \in State : /\ s.lines = t[k] /\ s.cur \in 0 .. Len(t[k]) - 1 /\ Len(s.back) = k
                 /\ \A j \in 1 .. k : Takes(s.back[j], t[k - j + 1], t[k - j])}

\* The element of a singleton.
LEMMA OnlyIs ==
  ASSUME NEW x
  PROVE  Only({x}) = x
BY DEF Only

\* Reverting the next action of an entry leads to the next text.
LEMMA ReachedNext ==
  ASSUME NEW e, NEW x, NEW y, NEW t, Leading(t, e, x, y),
         NEW k \in 1 .. Len(e), NEW s \in Reached(t, k - 1)
  PROVE  Revert(s, e[k]) \in Reached(t, k)
<1> DEFINE r == Revert(s, e[k])
           m == Mirror(e[k], s.lines)
<1>1. /\ s \in State /\ s.lines = t[k - 1] /\ s.cur \in 0 .. Len(t[k - 1]) - 1
      /\ s.back \in Seq(Action) /\ Len(s.back) = k - 1
      /\ \A j \in 1 .. k - 1 : Takes(s.back[j], t[(k - 1) - j + 1], t[(k - 1) - j])
  BY DEF Reached, State
<1>2. Takes(e[k], t[k - 1], t[k])
  BY DEF Leading
<1>3. Reverts(s, e[k], t[k])
  BY <1>1, <1>2, RevertIs
<1>4. /\ r \in State /\ r.lines = t[k] /\ r.cur \in 0 .. Len(t[k]) - 1
      /\ r.back = <<m>> \o s.back
  BY <1>3 DEF Reverts
<1>5. Takes(m, t[k], t[k - 1]) /\ m \in Action
  BY <1>1, <1>2, MirrorTakes DEF Takes
<1> HIDE DEF r, m
<1> DEFINE q == s.back
           p == <<m>>
<1>6. p \in Seq(Action) /\ Len(p) = 1 /\ p[1] = m /\ q \in Seq(Action) /\ Len(q) = k - 1
  BY <1>1, <1>5
<1> HIDE DEF p, q
<1>7. /\ Len(p \o q) = Len(p) + Len(q)
      /\ \A i \in 1 .. Len(p) + Len(q) : (p \o q)[i] = IF i <= Len(p) THEN p[i] ELSE q[i - Len(p)]
  BY ONLY <1>6, ConcatIs
<1>8. Len(p \o q) = k /\ \A i \in 1 .. k : (p \o q)[i] = IF i <= 1 THEN m ELSE q[i - 1]
  BY <1>6, <1>7
<1>9. r.back = p \o q
  BY <1>4 DEF p, q
<1>10. ASSUME NEW j \in 1 .. k PROVE Takes(r.back[j], t[k - j + 1], t[k - j])
  <2>1. CASE j = 1
    <3>1. r.back[j] = m /\ k - j + 1 = k /\ k - j = k - 1
      BY <1>8, <1>9, <2>1
    <3> QED
      BY <1>5, <3>1
  <2>2. CASE j # 1
    <3>1. j - 1 \in 1 .. k - 1 /\ (k - 1) - (j - 1) + 1 = k - j + 1 /\ (k - 1) - (j - 1) = k - j
          /\ ~ (j <= 1)
      BY <2>2
    <3>2. r.back[j] = q[j - 1]
      BY <1>8, <1>9, <3>1
    <3>3. Takes(q[j - 1], t[(k - 1) - (j - 1) + 1], t[(k - 1) - (j - 1)])
      BY <1>1, <3>1 DEF q
    <3> QED
      BY <3>1, <3>2, <3>3
  <2> QED
    BY <2>1, <2>2
<1>11. Len(r.back) = k
  BY <1>8, <1>9
<1> QED
  BY <1>4, <1>10, <1>11 DEF Reached, r

\* The states r that reverting the entry e goes through.
Reverses(r, e, x, c) ==
  r = [k \in 0 .. Len(e) |->
         IF k = 0 THEN [lines |-> x, cur |-> c, back |-> <<>>]
         ELSE Only({Revert(s, e[k]) : s \in {r[k - 1]}})]

\* What Reversal chooses.
LEMMA ReversalUnfold ==
  ASSUME NEW e, NEW x, NEW c
  PROVE  Reversal(e, x, c) = CHOOSE r : Reverses(r, e, x, c)
BY DEF Reversal, Reverses

\* buf_undo_exec goes through the texts that the entry leads through.
LEMMA ReversalIs ==
  ASSUME NEW e, NEW x, NEW y, NEW t, Leading(t, e, x, y), NEW c \in 0 .. Len(x) - 1
  PROVE  \A k \in 0 .. Len(e) : Reversal(e, x, c)[k] \in Reached(t, k)
<1> DEFINE n == Len(e)
           a == [lines |-> x, cur |-> c, back |-> <<>>]
           V == [p \in (1 .. n) \X State |-> Revert(p[2], e[p[1]])]
           P == [k \in 0 .. n |-> Reached(t, k)]
           g == Reversal(e, x, c)
<1>1. n \in Nat /\ e \in Seq(Action) /\ t[0] = x /\ x \in Text
  <2>1. e \in Seq(Action) /\ t \in [0 .. n -> Text] /\ t[0] = x
    BY DEF Leading
  <2>2. n \in Nat
    BY <2>1
  <2> QED
    BY <2>1, <2>2
<1>2. a \in P[0]
  <2>1. a \in State
    BY <1>1 DEF State
  <2>2. 0 \in 0 .. n /\ Len(a.back) = 0 /\ \A j \in 1 .. 0 : FALSE
    BY <1>1
  <2>3. a.lines = t[0] /\ a.cur \in 0 .. Len(t[0]) - 1
    BY <1>1
  <2>4. a \in Reached(t, 0)
    BY <2>1, <2>2, <2>3 DEF Reached
  <2> QED
    BY <2>2, <2>4
<1>3. \A k \in 1 .. n : \A s \in State : V[<<k, s>>] = Revert(s, e[k])
  OBVIOUS
<1>4. Guides(P, V, State, n)
  <2>1. P \in [0 .. n -> SUBSET State]
    BY DEF Reached
  <2>2. ASSUME NEW k \in 1 .. n, NEW s \in P[k - 1] PROVE V[<<k, s>>] \in P[k]
    <3>1. k - 1 \in 0 .. n /\ k \in 0 .. n
      BY <1>1
    <3>2. s \in Reached(t, k - 1) /\ s \in State
      BY <2>2, <3>1 DEF Reached
    <3>3. Revert(s, e[k]) \in Reached(t, k)
      BY <3>2, ReachedNext
    <3> HIDE DEF V
    <3> QED
      BY <1>3, <3>1, <3>2, <3>3
  <2> QED
    BY <2>1, <2>2 DEF Guides
<1>5. \A k \in 0 .. n : P[k] = Reached(t, k)
  OBVIOUS
<1>6. \A k \in 0 .. n : P[k] \subseteq State
  BY DEF Reached
<1> HIDE DEF a, V, P, n
<1>7. \A r : Reverses(r, e, x, c) <=>
               r = [k \in 0 .. n |-> IF k = 0 THEN a ELSE Revert(r[k - 1], e[k])]
  <2> TAKE r
  <2>1. \A k : Only({Revert(s, e[k]) : s \in {r[k - 1]}}) = Revert(r[k - 1], e[k])
    <3> TAKE k
    <3>1. {Revert(s, e[k]) : s \in {r[k - 1]}} = {Revert(r[k - 1], e[k])}
      OBVIOUS
    <3> QED
      BY <3>1, OnlyIs
  <2> QED
    BY <2>1 DEF Reverses, a, n
<1>8. \E r : Reverses(r, e, x, c)
  <2>1. PICK f \in [0 .. n -> State] : f[0] = a /\ \A k \in 1 .. n : f[k] = V[<<k, f[k - 1]>>]
    <3>1. \E f : GoesAlong(f, V, State, a, n)
      BY <1>1, <1>2, <1>4, Guided
    <3> QED
      BY <3>1 DEF GoesAlong
  <2>2. ASSUME NEW k \in 0 .. n PROVE f[k] = IF k = 0 THEN a ELSE Revert(f[k - 1], e[k])
    <3>1. CASE k = 0
      BY <2>1, <3>1
    <3>2. CASE k # 0
      <4>1. k \in 1 .. n /\ k - 1 \in 0 .. n
        BY <1>1, <3>2
      <4> QED
        BY <1>3, <2>1, <3>2, <4>1
    <3> QED
      BY <3>1, <3>2
  <2>3. f = [k \in 0 .. n |-> IF k = 0 THEN a ELSE Revert(f[k - 1], e[k])]
    BY <2>1, <2>2
  <2> QED
    BY <1>7, <2>3
<1>9. Reverses(g, e, x, c)
  BY <1>8, ReversalUnfold
<1> HIDE DEF g
<1>10. g = [k \in 0 .. n |-> IF k = 0 THEN a ELSE Revert(g[k - 1], e[k])]
  BY <1>7, <1>9
<1>11. g[0] = a /\ \A k \in 1 .. n : g[k] = Revert(g[k - 1], e[k])
  BY <1>1, <1>10
<1>12. ASSUME NEW k \in 1 .. n, g[k - 1] \in P[k - 1] PROVE g[k] = V[<<k, g[k - 1]>>]
  <2>1. k - 1 \in 0 .. n
    BY <1>1
  <2> QED
    BY <1>3, <1>6, <1>11, <1>12, <2>1
<1>13. \A k \in 0 .. n : g[k] \in P[k]
  <2>1. g[0] \in P[0]
    BY <1>2, <1>11
  <2>2. Follows(g, P, V, n)
    BY <1>12, <2>1 DEF Follows
  <2>3. Stays(g, P, n)
    BY <1>1, <1>4, <2>2, GuidedStays
  <2> QED
    BY <2>3 DEF Stays
<1> QED
  BY <1>5, <1>13 DEF g, n

-----------------------------------------------------------------------------
\* The parts of Leading, and the types of what it is about.
LEMMA LeadingIs ==
  ASSUME NEW t, NEW e, NEW x, NEW y, Leading(t, e, x, y)
  PROVE  /\ e \in Seq(Action) /\ Len(e) \in Nat /\ t \in [0 .. Len(e) -> Text]
         /\ t[0] = x /\ t[Len(e)] = y /\ x \in Text /\ y \in Text
         /\ \A k \in 1 .. Len(e) : Takes(e[k], t[k - 1], t[k]) /\ e[k] \in Action
<1>1. /\ e \in Seq(Action) /\ t \in [0 .. Len(e) -> Text] /\ t[0] = x /\ t[Len(e)] = y
      /\ \A k \in 1 .. Len(e) : Takes(e[k], t[k - 1], t[k])
  BY DEF Leading
<1>2. Len(e) \in Nat /\ \A k \in 1 .. Len(e) : e[k] \in Action
  BY <1>1
<1> QED
  BY <1>1, <1>2

\* r is at the text y, with what leads back to x.
Returns(r, x, y) ==
  r \in State /\ r.lines = y /\ r.cur \in 0 .. Len(y) - 1 /\ Leads(r.back, y, x)

\* Who has reached the end has the way back.
LEMMA ReachedLeads ==
  ASSUME NEW t, NEW e, NEW x, NEW y, Leading(t, e, x, y), NEW r \in Reached(t, Len(e))
  PROVE  Returns(r, x, y)
<1> DEFINE n == Len(e)
           b == r.back
           u == [k \in 0 .. n |-> t[n - k]]
<1>1. n \in Nat /\ t \in [0 .. n -> Text] /\ t[0] = x /\ t[n] = y
  BY LeadingIs
<1>2. /\ r \in State /\ r.lines = y /\ r.cur \in 0 .. Len(y) - 1
      /\ b \in Seq(Action) /\ Len(b) = n
      /\ \A j \in 1 .. n : Takes(b[j], t[n - j + 1], t[n - j])
  BY <1>1 DEF Reached, State
<1> HIDE DEF n, b
<1>3. u \in [0 .. n -> Text] /\ u[0] = y /\ u[n] = x
  <2>1. \A k \in 0 .. n : n - k \in 0 .. n
    BY <1>1
  <2>2. n - 0 = n /\ n - n = 0 /\ 0 \in 0 .. n /\ n \in 0 .. n
    BY <1>1
  <2> QED
    BY <1>1, <2>1, <2>2
<1>4. ASSUME NEW k \in 1 .. n PROVE Takes(b[k], u[k - 1], u[k])
  <2>1. k - 1 \in 0 .. n /\ k \in 0 .. n /\ n - (k - 1) = n - k + 1
    BY <1>1
  <2>2. u[k - 1] = t[n - k + 1] /\ u[k] = t[n - k]
    BY <2>1
  <2> QED
    BY <1>2, <2>2
<1> HIDE DEF u
<1>5. Leading(u, b, y, x)
  BY <1>2, <1>3, <1>4 DEF Leading
<1> QED
  BY <1>2, <1>5 DEF Returns, Leads, b

\* Undoing an entry leads where it is said to lead, and back.
LEMMA RevertedIs ==
  ASSUME NEW e, NEW x, NEW y, Leads(e, x, y), NEW c \in 0 .. Len(x) - 1
  PROVE  Returns(Reverted(e, x, c), x, y)
<1>1. PICK t : Leading(t, e, x, y)
  BY DEF Leads
<1>2. Len(e) \in 0 .. Len(e)
  BY <1>1, LeadingIs
<1>3. Reversal(e, x, c)[Len(e)] \in Reached(t, Len(e))
  BY <1>1, <1>2, ReversalIs
<1> QED
  BY <1>1, <1>3, ReachedLeads DEF Reverted

-----------------------------------------------------------------------------
\* The texts ts that the entries of the history h lead to, from the text x.
Recalling(ts, h, x) ==
  /\ h \in Seq(Seq(Action)) /\ ts \in [0 .. Len(h) -> Text] /\ ts[0] = x
  /\ \A k \in 1 .. Len(h) : Leads(h[k], ts[k - 1], ts[k])

\* The states at the text x.
At(x) == {s \in State : s.lines = x /\ s.cur \in 0 .. Len(x) - 1}

\* The states r that undoing the history h goes through.
Passes(r, h, x, c) ==
  r = [k \in 0 .. Len(h) |->
         IF k = 0 THEN Reverted(<<>>, x, c)
         ELSE Only({Reverted(h[k], s.lines, s.cur) : s \in {r[k - 1]}})]

\* What Passed chooses.
LEMMA PassedUnfold ==
  ASSUME NEW h, NEW x, NEW c
  PROVE  Passed(h, x, c) = CHOOSE r : Passes(r, h, x, c)
BY DEF Passed, Passes

\* No action leads nowhere else.
LEMMA NothingLeads ==
  ASSUME NEW x \in Text
  PROVE  Leading([k \in 0 .. 0 |-> x], <<>>, x, x)
<1> DEFINE t == [k \in 0 .. 0 |-> x]
<1>1. t \in [0 .. 0 -> Text] /\ t[0] = x
  OBVIOUS
<1> HIDE DEF t
<1>2. <<>> \in Seq(Action) /\ Len(<<>>) = 0
  OBVIOUS
<1>3. \A k \in 1 .. 0 : FALSE
  OBVIOUS
<1>4. Leading(t, <<>>, x, x)
  BY <1>1, <1>2, <1>3 DEF Leading
<1> QED
  BY <1>4 DEF t

\* Undoing a whole history goes through the texts that its entries recall.
LEMMA PassedIs ==
  ASSUME NEW h, NEW x, NEW ts, Recalling(ts, h, x), NEW c \in 0 .. Len(x) - 1
  PROVE  \A k \in 0 .. Len(h) : Passed(h, x, c)[k] \in At(ts[k])
<1> DEFINE n == Len(h)
           a == Reverted(<<>>, x, c)
           V == [p \in (1 .. n) \X State |-> Reverted(h[p[1]], p[2].lines, p[2].cur)]
           P == [k \in 0 .. n |-> At(ts[k])]
           g == Passed(h, x, c)
<1>1. n \in Nat /\ ts \in [0 .. n -> Text] /\ ts[0] = x /\ x \in Text
  <2>1. h \in Seq(Seq(Action)) /\ ts \in [0 .. n -> Text] /\ ts[0] = x
    BY DEF Recalling
  <2>2. n \in Nat
    BY <2>1
  <2> QED
    BY <2>1, <2>2
<1>2. a \in P[0]
  <2>1. Leads(<<>>, x, x)
    BY <1>1, NothingLeads DEF Leads
  <2>2. Returns(a, x, x)
    BY <2>1, RevertedIs
  <2>3. a \in At(ts[0])
    BY <1>1, <2>2 DEF Returns, At
  <2>4. 0 \in 0 .. n
    BY <1>1
  <2> HIDE DEF a, n
  <2> QED
    BY <2>3, <2>4
<1>3. \A k \in 1 .. n : \A s \in State : V[<<k, s>>] = Reverted(h[k], s.lines, s.cur)
  OBVIOUS
<1>5. \A k \in 0 .. n : P[k] = At(ts[k])
  OBVIOUS
<1>6. \A k \in 0 .. n : P[k] \subseteq State
  BY DEF At
<1>4. Guides(P, V, State, n)
  <2>1. P \in [0 .. n -> SUBSET State]
    BY DEF At
  <2>2. ASSUME NEW k \in 1 .. n, NEW s \in P[k - 1] PROVE V[<<k, s>>] \in P[k]
    <3>1. k - 1 \in 0 .. n /\ k \in 0 .. n
      BY <1>1
    <3> HIDE DEF V, P
    <3>2. s \in State /\ s.lines = ts[k - 1] /\ s.cur \in 0 .. Len(ts[k - 1]) - 1
      BY <1>5, <2>2, <3>1 DEF At
    <3>3. Leads(h[k], ts[k - 1], ts[k])
      BY DEF Recalling
    <3>4. Returns(Reverted(h[k], s.lines, s.cur), ts[k - 1], ts[k])
      BY <3>2, <3>3, RevertedIs
    <3>5. Reverted(h[k], s.lines, s.cur) \in At(ts[k])
      BY <3>4 DEF Returns, At
    <3> QED
      BY <1>3, <1>5, <3>1, <3>2, <3>5
  <2> QED
    BY <2>1, <2>2 DEF Guides
<1> HIDE DEF a, V, P, n
<1>7. \A r : Passes(r, h, x, c) <=>
               r = [k \in 0 .. n |-> IF k = 0 THEN a
                                     ELSE Reverted(h[k], r[k - 1].lines, r[k - 1].cur)]
  <2> TAKE r
  <2>1. \A k : Only({Reverted(h[k], s.lines, s.cur) : s \in {r[k - 1]}}) =
                 Reverted(h[k], r[k - 1].lines, r[k - 1].cur)
    <3> TAKE k
    <3>1. {Reverted(h[k], s.lines, s.cur) : s \in {r[k - 1]}} =
            {Reverted(h[k], r[k - 1].lines, r[k - 1].cur)}
      OBVIOUS
    <3> QED
      BY <3>1, OnlyIs
  <2> QED
    BY <2>1 DEF Passes, a, n
<1>8. \E r : Passes(r, h, x, c)
  <2>1. PICK f \in [0 .. n -> State] : f[0] = a /\ \A k \in 1 .. n : f[k] = V[<<k, f[k - 1]>>]
    <3>1. \E f : GoesAlong(f, V, State, a, n)
      BY <1>1, <1>2, <1>4, Guided
    <3> QED
      BY <3>1 DEF GoesAlong
  <2>2. ASSUME NEW k \in 0 .. n
        PROVE  f[k] = IF k = 0 THEN a ELSE Reverted(h[k], f[k - 1].lines, f[k - 1].cur)
    <3>1. CASE k = 0
      BY <2>1, <3>1
    <3>2. CASE k # 0
      <4>1. k \in 1 .. n /\ k - 1 \in 0 .. n
        BY <1>1, <3>2
      <4>2. f[k - 1] \in State /\ f[k] = V[<<k, f[k - 1]>>]
        BY <2>1, <4>1
      <4> QED
        BY <1>3, <3>2, <4>1, <4>2
    <3> QED
      BY <3>1, <3>2
  <2>3. f = [k \in 0 .. n |-> IF k = 0 THEN a
                              ELSE Reverted(h[k], f[k - 1].lines, f[k - 1].cur)]
    BY <2>1, <2>2
  <2> QED
    BY <1>7, <2>3
<1>9. Passes(g, h, x, c)
  BY <1>8, PassedUnfold
<1> HIDE DEF g
<1>10. g = [k \in 0 .. n |-> IF k = 0 THEN a
                             ELSE Reverted(h[k], g[k - 1].lines, g[k - 1].cur)]
  BY <1>7, <1>9
<1>11. g[0] = a /\ \A k \in 1 .. n : g[k] = Reverted(h[k], g[k - 1].lines, g[k - 1].cur)
  BY <1>1, <1>10
<1>12. ASSUME NEW k \in 1 .. n, g[k - 1] \in P[k - 1] PROVE g[k] = V[<<k, g[k - 1]>>]
  <2>1. k - 1 \in 0 .. n
    BY <1>1
  <2> QED
    BY <1>3, <1>6, <1>11, <1>12, <2>1
<1>13. \A k \in 0 .. n : g[k] \in P[k]
  <2>1. g[0] \in P[0]
    BY <1>2, <1>11
  <2>2. Follows(g, P, V, n)
    BY <1>12, <2>1 DEF Follows
  <2>3. Stays(g, P, n)
    BY <1>1, <1>4, <2>2, GuidedStays
  <2> QED
    BY <2>3 DEF Stays
<1> QED
  BY <1>5, <1>13 DEF g, n

\* The texts of a history are those that its entries lead to.
LEMMA TextsAre ==
  ASSUME NEW h, NEW x, NEW ts, Recalling(ts, h, x), NEW c \in 0 .. Len(x) - 1
  PROVE  Texts(h, x, c) = [k \in 1 .. Len(h) |-> ts[k]]
<1>1. \A k \in 1 .. Len(h) : Passed(h, x, c)[k].lines = ts[k]
  BY PassedIs DEF At
<1> QED
  BY <1>1 DEF Texts

-----------------------------------------------------------------------------
\* An entry that leads anywhere leads from a text to a text.
LEMMA LeadsIs ==
  ASSUME NEW e, NEW x, NEW y, Leads(e, x, y)
  PROVE  e \in Seq(Action) /\ x \in Text /\ y \in Text
BY LeadingIs DEF Leads

\* An entry with a newer action before it.
LEMMA FirstThen ==
  ASSUME NEW a, NEW e, NEW x, NEW y, NEW z, Takes(a, x, y), Leads(e, y, z)
  PROVE  Leads(<<a>> \o e, x, z)
<1> DEFINE p == <<a>>
           f == p \o e
<1>1. PICK t : Leading(t, e, y, z)
  BY DEF Leads
<1> DEFINE n == Len(e)
           u == [k \in 0 .. n + 1 |-> IF k = 0 THEN x ELSE t[k - 1]]
<1>2. /\ e \in Seq(Action) /\ n \in Nat /\ t \in [0 .. n -> Text] /\ t[0] = y /\ t[n] = z
      /\ \A k \in 1 .. n : Takes(e[k], t[k - 1], t[k])
  BY <1>1, LeadingIs
<1>3. a \in Action /\ x \in Text
  BY DEF Takes
<1>4. p \in Seq(Action) /\ Len(p) = 1 /\ p[1] = a
  BY <1>3
<1> HIDE DEF p, n
<1>5. /\ f \in Seq(Action) /\ Len(f) = n + 1
      /\ \A k \in 1 .. n + 1 : f[k] = IF k = 1 THEN a ELSE e[k - 1]
  <2>1. /\ f \in Seq(Action) /\ Len(f) = Len(p) + Len(e)
        /\ \A k \in 1 .. Len(p) + Len(e) : f[k] = IF k <= Len(p) THEN p[k] ELSE e[k - Len(p)]
    BY ONLY <1>2, <1>4, ConcatIs
  <2> HIDE DEF f
  <2>2. Len(p) + Len(e) = n + 1
    BY <1>2, <1>4 DEF n
  <2>3. \A k \in 1 .. n + 1 : f[k] = IF k <= 1 THEN p[k] ELSE e[k - 1]
    BY <1>4, <2>1, <2>2
  <2>4. ASSUME NEW k \in 1 .. n + 1 PROVE f[k] = IF k = 1 THEN a ELSE e[k - 1]
    <3>1. CASE k = 1
      BY <1>4, <2>3, <3>1
    <3>2. CASE k # 1
      <4>1. ~ (k <= 1)
        BY <1>2, <3>2
      <4> QED
        BY <2>3, <3>2, <4>1
    <3> QED
      BY <3>1, <3>2
  <2> QED
    BY <2>1, <2>2, <2>4
<1> HIDE DEF f
<1>6. u \in [0 .. n + 1 -> Text] /\ u[0] = x /\ u[n + 1] = z
  <2>1. \A k \in 0 .. n + 1 : k # 0 => k - 1 \in 0 .. n
    BY <1>2
  <2>2. 0 \in 0 .. n + 1 /\ n + 1 \in 0 .. n + 1 /\ n + 1 # 0 /\ (n + 1) - 1 = n
    BY <1>2
  <2> QED
    BY <1>2, <1>3, <2>1, <2>2
<1>7. ASSUME NEW k \in 1 .. n + 1 PROVE Takes(f[k], u[k - 1], u[k])
  <2>1. k \in 0 .. n + 1 /\ k # 0 /\ k - 1 \in 0 .. n + 1
    BY <1>2
  <2>2. CASE k = 1
    <3>1. u[k - 1] = x /\ u[k] = y /\ f[k] = a
      BY <1>2, <1>5, <2>1, <2>2
    <3> QED
      BY <3>1
  <2>3. CASE k # 1
    <3>1. k - 1 \in 1 .. n /\ k - 1 # 0
      BY <1>2, <2>3
    <3>2. u[k - 1] = t[(k - 1) - 1] /\ u[k] = t[k - 1] /\ f[k] = e[k - 1]
      BY <1>5, <2>1, <2>3, <3>1
    <3> QED
      BY <1>2, <3>1, <3>2
  <2> QED
    BY <2>2, <2>3
<1> HIDE DEF u
<1>8. Leading(u, f, x, z)
  BY <1>5, <1>6, <1>7 DEF Leading
<1> QED
  BY <1>8 DEF Leads, f, p

\* An entry of one action.
LEMMA OneLeads ==
  ASSUME NEW a, NEW x, NEW y, Takes(a, x, y)
  PROVE  Leads(<<a>>, x, y)
<1>1. a \in Action /\ y \in Text
  BY DEF Takes
<1>2. Leads(<<>>, y, y)
  BY <1>1, NothingLeads DEF Leads
<1>3. Leads(<<a>> \o <<>>, x, y)
  BY <1>2, FirstThen
<1>4. <<a>> \o <<>> = <<a>>
  BY <1>1
<1> QED
  BY <1>3, <1>4

\* An entry of two actions, the newer one first.
LEMMA TwoLead ==
  ASSUME NEW a, NEW b, NEW x, NEW y, NEW z, Takes(a, x, y), Takes(b, y, z)
  PROVE  Leads(<<a, b>>, x, z)
<1>1. a \in Action /\ b \in Action
  BY DEF Takes
<1>2. Leads(<<a>> \o <<b>>, x, z)
  BY OneLeads, FirstThen
<1>3. <<a>> \o <<b>> = <<a, b>>
  <2> DEFINE p == <<a>>
             q == <<b>>
             r == <<a, b>>
  <2>1. /\ p \in Seq(Action) /\ Len(p) = 1 /\ p[1] = a /\ q \in Seq(Action) /\ Len(q) = 1
        /\ q[1] = b /\ r \in Seq(Action) /\ Len(r) = 2 /\ r[1] = a /\ r[2] = b
    BY <1>1
  <2> HIDE DEF p, q, r
  <2>2. /\ p \o q \in Seq(Action) /\ Len(p \o q) = Len(p) + Len(q)
        /\ \A i \in 1 .. Len(p) + Len(q) :
             (p \o q)[i] = IF i <= Len(p) THEN p[i] ELSE q[i - Len(p)]
    BY ONLY <2>1, ConcatIs
  <2>3. Len(p \o q) = 2 /\ (p \o q)[1] = a /\ (p \o q)[2] = b
    BY <2>1, <2>2
  <2>4. \A i \in 1 .. 2 : (p \o q)[i] = r[i]
    BY <2>1, <2>3
  <2>5. p \o q = r
    BY ONLY <2>1, <2>2, <2>3, <2>4, SameRows
  <2> QED
    BY <2>5 DEF p, q, r
<1> QED
  BY <1>2, <1>3

-----------------------------------------------------------------------------
\* The text y with another line i.
LEMMA EditedIs ==
  ASSUME NEW y \in Text, NEW i \in 0 .. Len(y) - 1, NEW l \in Line
  PROVE  /\ [y EXCEPT ![i + 1] = l] \in Text /\ Len([y EXCEPT ![i + 1] = l]) = Len(y)
         /\ \A j \in 1 .. Len(y) : [y EXCEPT ![i + 1] = l][j] = IF j = i + 1 THEN l ELSE y[j]
<1>1. y \in Seq(Line) /\ i + 1 \in 1 .. Len(y) /\ Len(y) \in 1 .. MaxLines
  BY TextIs
<1>2. /\ [y EXCEPT ![i + 1] = l] \in Seq(Line) /\ Len([y EXCEPT ![i + 1] = l]) = Len(y)
      /\ \A j \in 1 .. Len(y) : [y EXCEPT ![i + 1] = l][j] = IF j = i + 1 THEN l ELSE y[j]
  BY <1>1, EditIs
<1> QED
  BY <1>1, <1>2 DEF Text

\* A line that has changed is brought back.
LEMMA ReplacedTakes ==
  ASSUME NEW x \in Text, NEW y \in Text, Len(x) = Len(y), NEW i \in 0 .. Len(y) - 1,
         \A j \in 1 .. Len(y) : j # i + 1 => x[j] = y[j]
  PROVE  Takes(Replaced(i, y[i + 1]), x, y)
<1> DEFINE b == Replaced(i, y[i + 1])
           z == [x EXCEPT ![i + 1] = y[i + 1]]
<1>1. /\ y[i + 1] \in Line /\ i \in 0 .. MaxLines /\ i + 1 \in 1 .. Len(y)
      /\ y \in Seq(Line)
  BY TextIs
<1>2. b \in Action /\ b.type = "REPLACE_LINE" /\ b.idx = i /\ b.line = y[i + 1]
  BY <1>1 DEF Replaced, Action
<1>3. /\ z \in Text /\ Len(z) = Len(x)
      /\ \A j \in 1 .. Len(x) : z[j] = IF j = i + 1 THEN y[i + 1] ELSE x[j]
  BY <1>1, EditedIs
<1> HIDE DEF z, b
<1>4. z \in Seq(Line) /\ Len(z) = Len(y) /\ \A j \in 1 .. Len(z) : z[j] = y[j]
  BY <1>3, TextIs
<1>5. z = y
  BY <1>1, <1>4, SameRows
<1>6. Finds(b, x) /\ After(b, x) = y
  BY <1>2, <1>5 DEF Finds, After, z
<1> QED
  BY <1>2, <1>6 DEF Takes, b

\* A line that has been inserted goes.
LEMMA InsertedTakes ==
  ASSUME NEW y \in Text, Len(y) < MaxLines, NEW i \in 0 .. Len(y), NEW l \in Line,
         NEW c \in 0 .. MaxLines
  PROVE  /\ Takes(Inserted(i, c), Paste(y, i, <<l>>), y)
         /\ Paste(y, i, <<l>>) \in Text /\ Len(Paste(y, i, <<l>>)) = Len(y) + 1
<1> DEFINE r == <<l>>
           x == Paste(y, i, r)
           b == Inserted(i, c)
<1>1. y \in Seq(Line) /\ Len(y) \in 1 .. MaxLines /\ Len(y) \in Nat
  BY TextIs
<1>2. r \in Seq(Line) /\ Len(r) = 1
  OBVIOUS
<1>3. x \in Seq(Line) /\ Len(x) = Len(y) + Len(r)
  BY ONLY <1>1, <1>2, PasteIs
<1>4. Cut(x, i, 1) = y
  BY <1>1, PasteCut
<1> HIDE DEF r
<1>5. x \in Text /\ Len(x) = Len(y) + 1
  BY <1>1, <1>2, <1>3, Constants DEF Text, Sizes
<1>6. b \in Action /\ b.type = "INSERT_LINE" /\ b.idx = i
  BY <1>1, Constants DEF Inserted, Action, Sizes
<1> HIDE DEF b, x
<1>7. Finds(b, x) /\ After(b, x) = y
  BY <1>1, <1>4, <1>5, <1>6 DEF Finds, After
<1> QED
  BY <1>5, <1>6, <1>7 DEF Takes, b, x, r

-----------------------------------------------------------------------------
\* The entry e holds lines of the text y, each at its index.
Holds(e, y) ==
  /\ e \in Seq(Action)
  /\ \A k \in 1 .. Len(e) : /\ e[k].type = "REPLACE_LINE" /\ e[k].idx \in 0 .. Len(y) - 1
                            /\ e[k].line = y[e[k].idx + 1]

\* Lines that have changed are brought back when all of them are held, in
\* whatever order.
LEMMA HeldLead ==
  ASSUME NEW x \in Text, NEW y \in Text, Len(x) = Len(y), NEW e, Holds(e, y),
         \A i \in 1 .. Len(y) : x[i] # y[i] => \E k \in 1 .. Len(e) : e[k].idx + 1 = i
  PROVE  Leads(e, x, y)
<1> DEFINE n == Len(e)
           m == Len(y)
           H(k, i) == \E j \in 1 .. k : e[j].idx + 1 = i
           r(k) == [i \in 1 .. m |-> IF H(k, i) THEN y[i] ELSE x[i]]
           t == [k \in 0 .. n |-> r(k)]
<1>1. /\ e \in Seq(Action) /\ n \in Nat /\ m \in Nat /\ m \in 1 .. MaxLines
      /\ \A k \in 1 .. n : /\ e[k] \in Action /\ e[k].type = "REPLACE_LINE"
                           /\ e[k].idx \in 0 .. m - 1 /\ e[k].line = y[e[k].idx + 1]
  <2>1. e \in Seq(Action)
    BY DEF Holds
  <2>2. n \in Nat /\ \A k \in 1 .. n : e[k] \in Action
    BY <2>1
  <2> QED
    BY <2>1, <2>2, TextIs DEF Holds
<1>2. x \in Seq(Line) /\ y \in Seq(Line) /\ Len(x) = m
  BY TextIs
<1>3. \A i \in 1 .. m : x[i] \in Line /\ y[i] \in Line
  BY <1>2
<1> HIDE DEF n, m
<1>4. ASSUME NEW k \in 0 .. n
      PROVE  r(k) \in Text /\ r(k) \in Seq(Line) /\ Len(r(k)) = m
  <2>1. r(k) \in [1 .. m -> Line]
    BY <1>3
  <2> HIDE DEF r
  <2>2. r(k) \in Seq(Line) /\ Len(r(k)) = m
    BY <1>1, <2>1
  <2> QED
    BY <1>1, <2>2 DEF Text
<1>5. \A k \in 0 .. n : \A i \in 1 .. m : r(k)[i] = IF H(k, i) THEN y[i] ELSE x[i]
  OBVIOUS
<1>6. r(0) = x
  <2>1. 0 \in 0 .. n
    BY <1>1
  <2>2. \A i \in 1 .. m : ~ H(0, i)
    OBVIOUS
  <2>3. \A i \in 1 .. m : r(0)[i] = x[i]
    BY <1>5, <2>1, <2>2
  <2>4. r(0) \in Seq(Line) /\ Len(r(0)) = m
    BY <1>4, <2>1
  <2> HIDE DEF r
  <2> QED
    BY ONLY <1>2, <2>3, <2>4, SameRows
<1>7. r(n) = y
  <2>1. n \in 0 .. n
    BY <1>1
  <2>2. \A i \in 1 .. m : r(n)[i] = y[i]
    <3> TAKE i \in 1 .. m
    <3>1. x[i] = y[i] \/ H(n, i)
      BY DEF m, n
    <3> HIDE DEF H, r
    <3> QED
      BY <1>5, <2>1, <3>1
  <2>4. r(n) \in Seq(Line) /\ Len(r(n)) = m
    BY <1>4, <2>1
  <2>5. Len(y) = m
    BY DEF m
  <2> HIDE DEF r
  <2> QED
    BY ONLY <1>2, <2>2, <2>4, <2>5, SameRows
<1>8. ASSUME NEW k \in 1 .. n PROVE Takes(e[k], r(k - 1), r(k))
  <2> DEFINE i == e[k].idx
             l == e[k].line
             p == r(k - 1)
             q == r(k)
             z == [p EXCEPT ![i + 1] = l]
  <2>1. /\ k - 1 \in 0 .. n /\ k \in 0 .. n /\ i \in 0 .. m - 1 /\ l = y[i + 1] /\ l \in Line
        /\ e[k] \in Action /\ e[k].type = "REPLACE_LINE" /\ i + 1 \in 1 .. m
    BY <1>1, <1>3
  <2>2. \A j \in 1 .. m : H(k, j) <=> (H(k - 1, j) \/ j = i + 1)
    <3> TAKE j \in 1 .. m
    <3>1. H(k - 1, j) => H(k, j)
      OBVIOUS
    <3>2. j = i + 1 => H(k, j)
      OBVIOUS
    <3>3. ASSUME H(k, j), j # i + 1 PROVE H(k - 1, j)
      <4>1. PICK g \in 1 .. k : e[g].idx + 1 = j
        BY <3>3
      <4>2. g # k
        BY <3>3, <4>1
      <4>3. g \in 1 .. k - 1
        BY <1>1, <4>2
      <4> QED
        BY <4>1, <4>3
    <3> QED
      BY <3>1, <3>2, <3>3
  <2>3. \A j \in 1 .. m : /\ p[j] = IF H(k - 1, j) THEN y[j] ELSE x[j]
                          /\ q[j] = IF H(k, j) THEN y[j] ELSE x[j]
    BY <1>5, <2>1
  <2>4. p \in Text /\ p \in Seq(Line) /\ Len(p) = m /\ q \in Text /\ q \in Seq(Line) /\ Len(q) = m
    BY <1>4, <2>1
  <2> HIDE DEF H, r, p, q, i, l
  <2>5. /\ z \in Seq(Line) /\ Len(z) = m
        /\ \A j \in 1 .. m : z[j] = IF j = i + 1 THEN l ELSE p[j]
    BY ONLY <2>1, <2>4, EditIs
  <2> HIDE DEF z
  <2>6. \A j \in 1 .. m : z[j] = q[j]
    BY ONLY <2>1, <2>2, <2>3, <2>5
  <2>7. z = q
    BY ONLY <2>4, <2>5, <2>6, SameRows
  <2>8. Finds(e[k], p) /\ After(e[k], p) = q
    BY <2>1, <2>4, <2>7 DEF Finds, After, i, l, z
  <2>9. Takes(e[k], p, q)
    BY <2>1, <2>4, <2>8 DEF Takes
  <2> QED
    BY <2>9 DEF p, q
<1> HIDE DEF r
<1>9. t \in [0 .. n -> Text] /\ t[0] = x /\ t[n] = y
  BY <1>1, <1>4, <1>6, <1>7
<1>10. \A k \in 1 .. n : Takes(e[k], t[k - 1], t[k])
  <2> TAKE k \in 1 .. n
  <2>1. k - 1 \in 0 .. n /\ k \in 0 .. n
    BY <1>1
  <2>2. t[k - 1] = r(k - 1) /\ t[k] = r(k)
    BY <2>1
  <2> QED
    BY <1>8, <2>2
<1> HIDE DEF t
<1>11. Leading(t, e, x, y)
  BY <1>1, <1>9, <1>10 DEF Leading, n
<1> QED
  BY <1>11 DEF Leads

-----------------------------------------------------------------------------
\* Texts t that an entry e goes through lead from the first one to the last.
LEMMA TextsLead ==
  ASSUME NEW n \in Nat, NEW e \in Seq(Action), Len(e) = n, NEW t \in [0 .. n -> Text],
         \A k \in 1 .. n : Takes(e[k], t[k - 1], t[k])
  PROVE  Leads(e, t[0], t[n])
<1>1. Leading(t, e, t[0], t[n])
  BY DEF Leading
<1> QED
  BY <1>1 DEF Leads

\* Lines that have been deleted come back, one before the other.
LEMMA DeletionsLead ==
  ASSUME NEW y \in Text, NEW n \in 1 .. Len(y) - 1, NEW c \in 0 .. Len(y) - n
  PROVE  Leads([k \in 1 .. n |-> Deleted(c, y[c + n - k + 1])], Cut(y, c, n), y)
<1> DEFINE m == Len(y)
           e == [k \in 1 .. n |-> Deleted(c, y[c + n - k + 1])]
           r(k) == Cut(y, c, n - k)
           t == [k \in 0 .. n |-> r(k)]
<1>1. y \in Seq(Line) /\ m \in 1 .. MaxLines /\ m \in Nat /\ \A j \in 1 .. m : y[j] \in Line
  BY TextIs
<1>2. m \in Nat /\ n \in Nat /\ n >= 1 /\ n < m /\ c \in Nat /\ c + n <= m /\ c \in 0 .. MaxLines
  BY <1>1, Constants DEF Sizes
<1> HIDE DEF m
<1>3. ASSUME NEW k \in 0 .. n
      PROVE  /\ r(k) \in Seq(Line) /\ r(k) \in Text /\ Len(r(k)) = m - n + k
             /\ \A j \in 1 .. m - n + k : r(k)[j] = IF j <= c THEN y[j] ELSE y[j + n - k]
  <2>1. n - k \in 0 .. m - c /\ c \in 0 .. m /\ m - (n - k) = m - n + k
    BY <1>2
  <2>2. \A j \in 1 .. m - n + k : j + (n - k) = j + n - k
    BY <1>2
  <2>3. /\ Cut(y, c, n - k) \in Seq(Line) /\ Len(Cut(y, c, n - k)) = m - (n - k)
        /\ \A j \in 1 .. m - (n - k) :
             Cut(y, c, n - k)[j] = IF j <= c THEN y[j] ELSE y[j + (n - k)]
    BY <1>1, <2>1, CutIs DEF m
  <2>4. m - n + k \in 1 .. MaxLines
    BY <1>1, <1>2, Constants DEF Sizes
  <2> HIDE DEF e
  <2> QED
    BY <2>1, <2>2, <2>3, <2>4 DEF Text
<1>4. ASSUME NEW k \in 1 .. n
      PROVE  /\ c + n - k + 1 \in 1 .. m
             /\ e[k] \in Action /\ e[k].type = "DELETE_LINE" /\ e[k].idx = c
             /\ e[k].line = y[c + n - k + 1]
  <2>1. c + n - k + 1 \in 1 .. m
    BY <1>2
  <2>2. y[c + n - k + 1] \in Line
    BY <1>1, <2>1
  <2> QED
    BY <1>2, <2>1, <2>2 DEF Deleted, Action
<1>5. e \in Seq(Action) /\ Len(e) = n
  <2>1. e \in [1 .. n -> Action]
    BY <1>4
  <2> HIDE DEF e
  <2> QED
    BY <1>2, <2>1
<1>6. ASSUME NEW k \in 1 .. n PROVE Takes(e[k], r(k - 1), r(k))
  <2> DEFINE p == r(k - 1)
             q == r(k)
             l == y[c + n - k + 1]
             g == <<l>>
             z == Paste(p, c, g)
  <2>1. k - 1 \in 0 .. n /\ k \in 0 .. n /\ m - n + (k - 1) = m - n + k - 1
    BY <1>2
  <2>2. /\ p \in Seq(Line) /\ p \in Text /\ Len(p) = m - n + k - 1
        /\ \A j \in 1 .. m - n + k - 1 : p[j] = IF j <= c THEN y[j] ELSE y[j + n - (k - 1)]
    BY <1>3, <2>1
  <2>3. /\ q \in Seq(Line) /\ q \in Text /\ Len(q) = m - n + k
        /\ \A j \in 1 .. m - n + k : q[j] = IF j <= c THEN y[j] ELSE y[j + n - k]
    BY <1>3, <2>1
  <2>4. l \in Line /\ g \in Seq(Line) /\ Len(g) = 1 /\ g[1] = l
    BY <1>1, <1>4
  <2>5. c \in 0 .. Len(p)
    BY <1>2, <2>2
  <2> HIDE DEF p, q, g, e, r
  <2>6. /\ z \in Seq(Line) /\ Len(z) = Len(p) + Len(g)
        /\ \A j \in 1 .. Len(p) + Len(g) :
             z[j] = IF j <= c THEN p[j] ELSE IF j <= c + Len(g) THEN g[j - c] ELSE p[j - Len(g)]
    BY ONLY <2>2, <2>4, <2>5, PasteIs
  <2> HIDE DEF z
  <2>7. Len(z) = m - n + k
    BY <1>2, <2>2, <2>4, <2>6
  <2>8. ASSUME NEW j \in 1 .. m - n + k PROVE z[j] = q[j]
    <3>1. /\ j \in Int /\ j \in 1 .. Len(p) + Len(g)
          /\ z[j] = IF j <= c THEN p[j] ELSE IF j <= c + 1 THEN g[j - c] ELSE p[j - 1]
      BY <1>2, <2>2, <2>4, <2>6
    <3>2. q[j] = IF j <= c THEN y[j] ELSE y[j + n - k]
      BY <2>3
    <3>3. CASE j <= c
      <4>1. j \in 1 .. m - n + k - 1
        BY <1>2, <3>3
      <4> QED
        BY <2>2, <3>1, <3>2, <3>3, <4>1
    <3>4. CASE j = c + 1
      <4>1. ~ (j <= c) /\ j <= c + 1 /\ j - c = 1 /\ j + n - k = c + n - k + 1
        BY <1>2, <3>4
      <4> QED
        BY <2>4, <3>1, <3>2, <4>1 DEF l
    <3>5. CASE j > c + 1
      <4>1. /\ ~ (j <= c) /\ ~ (j <= c + 1) /\ j - 1 \in 1 .. m - n + k - 1 /\ ~ (j - 1 <= c)
            /\ (j - 1) + n - (k - 1) = j + n - k
        BY <1>2, <3>5
      <4> QED
        BY <2>2, <3>1, <3>2, <4>1
    <3>6. j <= c \/ j = c + 1 \/ j > c + 1
      BY <1>2, <3>1
    <3> QED
      BY <3>3, <3>4, <3>5, <3>6
  <2>9. z = q
    BY ONLY <2>3, <2>6, <2>7, <2>8, SameRows
  <2>10. Len(p) < MaxLines
    BY <1>1, <1>2, <2>2, Constants DEF Sizes
  <2>11. Finds(e[k], p) /\ After(e[k], p) = q
    BY <1>4, <2>5, <2>9, <2>10 DEF Finds, After, z, g
  <2>12. Takes(e[k], p, q)
    BY <1>4, <2>2, <2>3, <2>11 DEF Takes
  <2> QED
    BY <2>12 DEF p, q
<1> HIDE DEF e
<1>7. r(0) = Cut(y, c, n)
  <2>1. n - 0 = n
    BY <1>2
  <2> QED
    BY <2>1
<1>8. r(n) = y
  <2>1. n \in 0 .. n /\ m - n + n = m /\ n - n = 0
    BY <1>2
  <2>2. /\ r(n) \in Seq(Line) /\ Len(r(n)) = m - n + n
        /\ \A j \in 1 .. m - n + n : r(n)[j] = IF j <= c THEN y[j] ELSE y[j + n - n]
    BY <1>3, <2>1
  <2>3. \A j \in 1 .. m : j + n - n = j
    BY <1>2
  <2> HIDE DEF r
  <2>4. Len(r(n)) = Len(y) /\ \A j \in 1 .. Len(r(n)) : r(n)[j] = y[j]
    BY <2>1, <2>2, <2>3 DEF m
  <2> QED
    BY ONLY <1>1, <2>2, <2>4, SameRows
<1> HIDE DEF r
<1>9. t \in [0 .. n -> Text] /\ t[0] = Cut(y, c, n) /\ t[n] = y
  BY <1>2, <1>3, <1>7, <1>8
<1>10. \A k \in 1 .. n : Takes(e[k], t[k - 1], t[k])
  <2> TAKE k \in 1 .. n
  <2>1. k - 1 \in 0 .. n /\ k \in 0 .. n
    BY <1>2
  <2>2. t[k - 1] = r(k - 1) /\ t[k] = r(k)
    BY <2>1
  <2> QED
    BY <1>6, <2>2
<1> HIDE DEF t
<1>11. Leads(e, t[0], t[n])
  BY <1>2, <1>5, <1>9, <1>10, TextsLead
<1> QED
  BY <1>9, <1>11 DEF e

-----------------------------------------------------------------------------
\* Of the rows q that have been put into the text y, row d goes.
LEMMA PutTakes ==
  ASSUME NEW y \in Text, NEW q \in Seq(Line), Len(y) + Len(q) <= MaxLines,
         NEW i \in 0 .. Len(y), NEW d \in 1 .. Len(q), NEW at \in 0 .. MaxLines
  PROVE  Takes(Inserted(i + d - 1, at), Paste(y, i, q), Paste(y, i, Cut(q, d - 1, 1)))
<1> DEFINE m == Len(y)
           n == Len(q)
           h == i + d - 1
           b == Inserted(h, at)
           p == Cut(q, d - 1, 1)
           x == Paste(y, i, q)
           z == Paste(y, i, p)
           v == Cut(x, h, 1)
<1>1. y \in Seq(Line) /\ m \in 1 .. MaxLines /\ m \in Nat /\ n \in Nat
  BY TextIs
<1> HIDE DEF m, n
<1>2. /\ m \in Nat /\ n \in Nat /\ m >= 1 /\ n >= 1 /\ m + n <= MaxLines
      /\ i \in Nat /\ i <= m /\ d \in Nat /\ d >= 1 /\ d <= n
      /\ h \in Nat /\ h = i + d - 1 /\ MaxLines \in Nat
  BY <1>1, Constants DEF m, n, Sizes
<1>3. /\ p \in Seq(Line) /\ Len(p) = n - 1
      /\ \A j \in 1 .. n - 1 : p[j] = IF j <= d - 1 THEN q[j] ELSE q[j + 1]
  <2>1. d - 1 \in 0 .. Len(q) /\ 1 \in 0 .. Len(q) - (d - 1)
    BY <1>2 DEF n
  <2> QED
    BY ONLY <2>1, CutIs, q \in Seq(Line) DEF n
<1>4. /\ x \in Seq(Line) /\ Len(x) = m + n
      /\ \A j \in 1 .. m + n :
           x[j] = IF j <= i THEN y[j] ELSE IF j <= i + n THEN q[j - i] ELSE y[j - n]
  BY <1>1, PasteIs DEF m, n
<1> HIDE DEF p, x, h
<1>5. /\ z \in Seq(Line) /\ Len(z) = m + n - 1
      /\ \A j \in 1 .. m + n - 1 :
           z[j] = IF j <= i THEN y[j] ELSE IF j <= i + (n - 1) THEN p[j - i] ELSE y[j - (n - 1)]
  <2>1. /\ z \in Seq(Line) /\ Len(z) = Len(y) + Len(p)
        /\ \A j \in 1 .. Len(y) + Len(p) :
             z[j] = IF j <= i THEN y[j] ELSE IF j <= i + Len(p) THEN p[j - i] ELSE y[j - Len(p)]
    BY ONLY <1>1, <1>3, PasteIs, i \in 0 .. Len(y)
  <2>2. Len(y) + Len(p) = m + n - 1
    BY <1>2, <1>3 DEF m
  <2> HIDE DEF z
  <2> QED
    BY <1>3, <2>1, <2>2
<1>6. /\ v \in Seq(Line) /\ Len(v) = m + n - 1
      /\ \A j \in 1 .. m + n - 1 : v[j] = IF j <= h THEN x[j] ELSE x[j + 1]
  <2>1. h \in 0 .. Len(x) /\ 1 \in 0 .. Len(x) - h
    BY <1>2, <1>4
  <2>2. /\ v \in Seq(Line) /\ Len(v) = Len(x) - 1
        /\ \A j \in 1 .. Len(x) - 1 : v[j] = IF j <= h THEN x[j] ELSE x[j + 1]
    BY ONLY <1>4, <2>1, CutIs
  <2> HIDE DEF v
  <2>3. Len(x) - 1 = m + n - 1
    BY <1>2, <1>4
  <2> QED
    BY ONLY <2>2, <2>3
<1> HIDE DEF z, v
<1>7. ASSUME NEW j \in 1 .. m + n - 1 PROVE v[j] = z[j]
  <2>0. j \in Int /\ j >= 1 /\ j <= m + n - 1 /\ j \in 1 .. m + n
    BY <1>2
  <2>1. CASE j <= i
    <3>1. j <= h
      BY <1>2, <2>0, <2>1
    <3> QED
      BY <1>4, <1>5, <1>6, <2>0, <2>1, <3>1
  <2>2. CASE j > i /\ j <= h
    <3>1. /\ ~ (j <= i) /\ j <= i + n /\ j <= i + (n - 1) /\ j - i \in 1 .. n - 1 /\ j - i <= d - 1
      BY <1>2, <2>0, <2>2
    <3>2. v[j] = q[j - i]
      BY <1>4, <1>6, <2>0, <2>2, <3>1
    <3>3. z[j] = p[j - i]
      BY <1>5, <3>1
    <3> QED
      BY <1>3, <3>1, <3>2, <3>3
  <2>3. CASE j > h /\ j <= i + (n - 1)
    <3>1. /\ ~ (j <= i) /\ ~ (j <= h) /\ ~ (j + 1 <= i) /\ j + 1 <= i + n /\ j + 1 \in 1 .. m + n
          /\ j - i \in 1 .. n - 1 /\ ~ (j - i <= d - 1) /\ (j - i) + 1 = (j + 1) - i
      BY <1>2, <2>0, <2>3
    <3>2. v[j] = q[(j + 1) - i]
      BY <1>4, <1>6, <3>1
    <3>3. z[j] = p[j - i]
      BY <1>5, <2>3, <3>1
    <3> QED
      BY <1>3, <3>1, <3>2, <3>3
  <2>4. CASE j > i + (n - 1)
    <3>1. /\ ~ (j <= i) /\ ~ (j <= h) /\ ~ (j <= i + (n - 1)) /\ ~ (j + 1 <= i) /\ ~ (j + 1 <= i + n)
          /\ j + 1 \in 1 .. m + n /\ (j + 1) - n = j - (n - 1)
      BY <1>2, <2>0, <2>4
    <3>2. v[j] = y[(j + 1) - n]
      BY <1>4, <1>6, <3>1
    <3>3. z[j] = y[j - (n - 1)]
      BY <1>5, <3>1
    <3> QED
      BY <3>1, <3>2, <3>3
  <2>5. j <= i \/ (j > i /\ j <= h) \/ (j > h /\ j <= i + (n - 1)) \/ j > i + (n - 1)
    BY <1>2, <2>0
  <2> QED
    BY <2>1, <2>2, <2>3, <2>4, <2>5
<1>8. v = z
  BY ONLY <1>5, <1>6, <1>7, SameRows
<1>9. x \in Text /\ z \in Text
  <2>1. m + n \in 1 .. MaxLines /\ m + n - 1 \in 1 .. MaxLines
    BY <1>2
  <2> QED
    BY <1>4, <1>5, <2>1 DEF Text
<1>10. b \in Action /\ b.type = "INSERT_LINE" /\ b.idx = h
  <2>1. h \in 0 .. MaxLines
    BY <1>2
  <2> QED
    BY <2>1, Constants DEF Inserted, Action, Sizes
<1>11. h \in 0 .. Len(x) - 1 /\ Len(x) > 1
  BY <1>2, <1>4
<1> HIDE DEF b
<1>12. Finds(b, x) /\ After(b, x) = z
  BY <1>8, <1>10, <1>11 DEF Finds, After, v
<1>13. Takes(b, x, z)
  BY <1>9, <1>10, <1>12 DEF Takes
<1> QED
  BY <1>13 DEF b, x, z, p, h

\* The text y with no rows put into it.
LEMMA PutNothing ==
  ASSUME NEW y \in Text, NEW i \in 0 .. Len(y), NEW q \in Seq(Line), Len(q) = 0
  PROVE  Paste(y, i, q) = y
<1> DEFINE z == Paste(y, i, q)
<1>1. y \in Seq(Line) /\ Len(y) \in Nat
  BY TextIs
<1>a. y \in Seq(Line) /\ q \in Seq(Line) /\ i \in 0 .. Len(y)
  BY <1>1
<1>2. /\ z \in Seq(Line) /\ Len(z) = Len(y) + Len(q)
      /\ \A j \in 1 .. Len(y) + Len(q) :
           z[j] = IF j <= i THEN y[j] ELSE IF j <= i + Len(q) THEN q[j - i] ELSE y[j - Len(q)]
  BY ONLY <1>a, PasteIs, Zenon
<1> HIDE DEF z
<1>3. Len(z) = Len(y) /\ \A j \in 1 .. Len(z) : z[j] = y[j]
  BY <1>1, <1>2
<1>4. z = y
  BY ONLY <1>1, <1>2, <1>3, SameRows
<1> QED
  BY <1>4 DEF z

\* Rows that have been put into a text go one by one, wherever each of them is:
\* of the rows q[k - 1], that is row d[k].
LEMMA PutsLead ==
  ASSUME NEW y \in Text, NEW n \in Nat, Len(y) + n <= MaxLines, NEW i \in 0 .. Len(y),
         NEW q, q \in [0 .. n -> Seq(Line)], \A k \in 0 .. n : Len(q[k]) = n - k,
         NEW d, \A k \in 1 .. n : d[k] \in 1 .. n - k + 1 /\ q[k] = Cut(q[k - 1], d[k] - 1, 1),
         NEW e \in Seq(Action), Len(e) = n,
         \A k \in 1 .. n : e[k].at \in 0 .. MaxLines /\ e[k] = Inserted(i + d[k] - 1, e[k].at)
  PROVE  Leads(e, Paste(y, i, q[0]), y)
<1> DEFINE t == [k \in 0 .. n |-> Paste(y, i, q[k])]
<1>1. /\ y \in Seq(Line) /\ Len(y) \in 1 .. MaxLines /\ Len(y) \in Nat /\ MaxLines \in Nat
      /\ n \in Nat /\ Len(y) + n <= MaxLines /\ i \in 0 .. Len(y)
  BY TextIs, Constants DEF Sizes
<1>2. \A k \in 0 .. n : q[k] \in Seq(Line) /\ Len(q[k]) = n - k
  OBVIOUS
<1>3. ASSUME NEW k \in 0 .. n PROVE Paste(y, i, q[k]) \in Text
  <2> DEFINE p == q[k]
             z == Paste(y, i, p)
  <2>1. p \in Seq(Line) /\ Len(p) = n - k
    BY <1>2
  <2> HIDE DEF p
  <2>2. z \in Seq(Line) /\ Len(z) = Len(y) + Len(p)
    BY ONLY <1>1, <2>1, PasteIs
  <2> HIDE DEF z
  <2>3. Len(z) \in 1 .. MaxLines
    BY ONLY <1>1, <2>1, <2>2, k \in 0 .. n
  <2>4. z \in Text
    BY <2>2, <2>3 DEF Text
  <2> QED
    BY <2>4 DEF z, p
<1>4. ASSUME NEW k \in 1 .. n PROVE Takes(e[k], Paste(y, i, q[k - 1]), Paste(y, i, q[k]))
  <2>1. k - 1 \in 0 .. n /\ n - (k - 1) = n - k + 1
    OBVIOUS
  <2>2. q[k - 1] \in Seq(Line) /\ Len(q[k - 1]) = n - k + 1
    BY <1>2, <2>1
  <2> DEFINE p == q[k - 1]
  <2>0. Len(p) = n - k + 1 /\ k \in 1 .. n /\ d[k] \in 1 .. n - k + 1
    BY <2>2
  <2> HIDE DEF p
  <2>5. d[k] \in 1 .. Len(p) /\ Len(y) + Len(p) <= MaxLines
    BY ONLY <1>1, <2>0
  <2>3. d[k] \in 1 .. Len(q[k - 1]) /\ Len(y) + Len(q[k - 1]) <= MaxLines
    BY <2>5 DEF p
  <2>4. Takes(Inserted(i + d[k] - 1, e[k].at), Paste(y, i, q[k - 1]),
              Paste(y, i, Cut(q[k - 1], d[k] - 1, 1)))
    BY <2>2, <2>3, PutTakes
  <2> QED
    BY <2>4
<1>5. q[n] \in Seq(Line) /\ Len(q[n]) = 0
  <2>1. n \in 0 .. n /\ n - n = 0
    OBVIOUS
  <2> QED
    BY <1>2, <2>1
<1>6. t \in [0 .. n -> Text] /\ t[0] = Paste(y, i, q[0]) /\ t[n] = y
  <2>1. Paste(y, i, q[n]) = y
    BY <1>5, PutNothing
  <2> QED
    BY <1>3, <2>1
<1>7. \A k \in 1 .. n : Takes(e[k], t[k - 1], t[k])
  <2> TAKE k \in 1 .. n
  <2>1. k - 1 \in 0 .. n /\ k \in 0 .. n
    OBVIOUS
  <2>2. t[k - 1] = Paste(y, i, q[k - 1]) /\ t[k] = Paste(y, i, q[k])
    BY <2>1
  <2> QED
    BY <1>4, <2>2
<1> HIDE DEF t
<1>8. Leads(e, t[0], t[n])
  BY <1>6, <1>7, TextsLead
<1> QED
  BY <1>6, <1>8

\* The first j rows of rs, and those after the first j.
LEMMA PartsLess ==
  ASSUME NEW rs \in Seq(Line), NEW j \in 1 .. Len(rs)
  PROVE  /\ SubSeq(rs, 1, j - 1) = Cut(SubSeq(rs, 1, j), j - 1, 1)
         /\ SubSeq(rs, j + 1, Len(rs)) = Cut(SubSeq(rs, (j - 1) + 1, Len(rs)), 0, 1)
<1> DEFINE m == Len(rs)
           a == SubSeq(rs, 1, j)
           b == SubSeq(rs, 1, j - 1)
           c == SubSeq(rs, (j - 1) + 1, m)
           d == SubSeq(rs, j + 1, m)
           f == Cut(a, j - 1, 1)
           g == Cut(c, 0, 1)
<1>1. m \in Nat /\ j \in Nat /\ j >= 1 /\ j <= m /\ j \in 0 .. m /\ j - 1 \in 0 .. m
  OBVIOUS
<1>2. /\ a \in Seq(Line) /\ Len(a) = j /\ \A k \in 1 .. j : a[k] = rs[k]
      /\ d \in Seq(Line) /\ Len(d) = m - j /\ \A k \in 1 .. m - j : d[k] = rs[k + j]
  BY <1>1, PartsAre
<1>3. /\ b \in Seq(Line) /\ Len(b) = j - 1 /\ \A k \in 1 .. j - 1 : b[k] = rs[k]
      /\ c \in Seq(Line) /\ Len(c) = m - (j - 1)
      /\ \A k \in 1 .. m - (j - 1) : c[k] = rs[k + (j - 1)]
  BY <1>1, PartsAre
<1> HIDE DEF a, b, c, d, m
<1>4. /\ f \in Seq(Line) /\ Len(f) = j - 1
      /\ \A k \in 1 .. j - 1 : f[k] = IF k <= j - 1 THEN a[k] ELSE a[k + 1]
  <2>1. j - 1 \in 0 .. Len(a) /\ 1 \in 0 .. Len(a) - (j - 1) /\ Len(a) - 1 = j - 1
    BY <1>1, <1>2
  <2>2. /\ f \in Seq(Line) /\ Len(f) = Len(a) - 1
        /\ \A k \in 1 .. Len(a) - 1 : f[k] = IF k <= j - 1 THEN a[k] ELSE a[k + 1]
    BY ONLY <1>2, <2>1, CutIs
  <2> HIDE DEF f
  <2> QED
    BY ONLY <2>1, <2>2
<1>5. /\ g \in Seq(Line) /\ Len(g) = m - j
      /\ \A k \in 1 .. m - j : g[k] = IF k <= 0 THEN c[k] ELSE c[k + 1]
  <2>1. 0 \in 0 .. Len(c) /\ 1 \in 0 .. Len(c) - 0 /\ Len(c) - 1 = m - j
    BY <1>1, <1>3
  <2>2. /\ g \in Seq(Line) /\ Len(g) = Len(c) - 1
        /\ \A k \in 1 .. Len(c) - 1 : g[k] = IF k <= 0 THEN c[k] ELSE c[k + 1]
    BY ONLY <1>3, <2>1, CutIs
  <2> HIDE DEF g
  <2> QED
    BY ONLY <2>1, <2>2
<1> HIDE DEF f, g
<1>6. \A k \in 1 .. j - 1 : b[k] = f[k]
  <2> TAKE k \in 1 .. j - 1
  <2>1. k <= j - 1 /\ k \in 1 .. j
    BY <1>1
  <2> QED
    BY <1>2, <1>3, <1>4, <2>1
<1>7. \A k \in 1 .. m - j : d[k] = g[k]
  <2> TAKE k \in 1 .. m - j
  <2>1. ~ (k <= 0) /\ k + 1 \in 1 .. m - (j - 1) /\ (k + 1) + (j - 1) = k + j
    BY <1>1
  <2>2. g[k] = c[k + 1] /\ c[k + 1] = rs[(k + 1) + (j - 1)]
    BY <1>3, <1>5, <2>1
  <2> QED
    BY <1>2, <2>1, <2>2
<1>8. b = f
  BY ONLY <1>3, <1>4, <1>6, SameRows
<1>9. d = g
  BY ONLY <1>2, <1>5, <1>7, SameRows
<1> QED
  BY <1>8, <1>9 DEF a, b, c, d, f, g, m

\* Rows that have been put after row c go from the last one on.
LEMMA PutAfterLeads ==
  ASSUME NEW y \in Text, NEW rs \in Seq(Line), Len(y) + Len(rs) <= MaxLines,
         NEW c \in 0 .. Len(y) - 1
  PROVE  Leads([k \in DOMAIN rs |-> Inserted(c + Len(rs) - k + 1, c + Len(rs) - k)],
               Paste(y, c + 1, rs), y)
<1> DEFINE n == Len(rs)
           e == [k \in DOMAIN rs |-> Inserted(c + n - k + 1, c + n - k)]
           q == [k \in 0 .. n |-> SubSeq(rs, 1, n - k)]
           d == [k \in 1 .. n |-> n - k + 1]
<1>1. /\ n \in Nat /\ DOMAIN rs = 1 .. n /\ c + 1 \in 0 .. Len(y) /\ Len(y) \in Nat
      /\ MaxLines \in Nat /\ Len(y) + n <= MaxLines /\ c \in Nat /\ c + 1 <= Len(y)
  BY TextIs, Constants DEF Sizes
<1>2. rs \in Seq(Line) /\ Len(rs) = n
  OBVIOUS
<1> HIDE DEF n
<1>3. ASSUME NEW k \in 0 .. n
      PROVE  q[k] \in Seq(Line) /\ Len(q[k]) = n - k
  <2>1. n - k \in 0 .. Len(rs)
    BY <1>1, <1>2
  <2>2. SubSeq(rs, 1, n - k) \in Seq(Line) /\ Len(SubSeq(rs, 1, n - k)) = n - k
    BY <1>2, <2>1, PartsAre
  <2> QED
    BY <2>2
<1>4. ASSUME NEW k \in 1 .. n
      PROVE  d[k] \in 1 .. n - k + 1 /\ q[k] = Cut(q[k - 1], d[k] - 1, 1)
  <2>1. /\ n - k + 1 \in 1 .. Len(rs) /\ (n - k + 1) - 1 = n - k /\ n - (k - 1) = n - k + 1
        /\ k - 1 \in 0 .. n /\ k \in 0 .. n
    BY <1>1, <1>2
  <2>2. SubSeq(rs, 1, (n - k + 1) - 1) = Cut(SubSeq(rs, 1, n - k + 1), (n - k + 1) - 1, 1)
    BY <1>2, <2>1, PartsLess
  <2>3. q[k] = SubSeq(rs, 1, n - k) /\ q[k - 1] = SubSeq(rs, 1, n - k + 1) /\ d[k] = n - k + 1
    BY <2>1
  <2> HIDE DEF q, d
  <2> QED
    BY <1>1, <1>2, <2>1, <2>2, <2>3
<1>5. ASSUME NEW k \in 1 .. n
      PROVE  /\ e[k] \in Action /\ e[k].at \in 0 .. MaxLines
             /\ e[k] = Inserted((c + 1) + d[k] - 1, e[k].at)
  <2>1. /\ c + n - k + 1 \in 0 .. MaxLines /\ c + n - k \in 0 .. MaxLines
        /\ (c + 1) + (n - k + 1) - 1 = c + n - k + 1
    BY <1>1
  <2>2. e[k] = Inserted(c + n - k + 1, c + n - k) /\ d[k] = n - k + 1
    BY <1>1
  <2> HIDE DEF e, d
  <2> QED
    BY <2>1, <2>2, Constants DEF Inserted, Action, Sizes
<1>6. e \in Seq(Action) /\ Len(e) = n
  <2>1. e \in [1 .. n -> Action]
    BY <1>1, <1>5
  <2> HIDE DEF e
  <2> QED
    BY <1>1, <2>1
<1>7. q \in [0 .. n -> Seq(Line)] /\ \A k \in 0 .. n : Len(q[k]) = n - k
  BY <1>3
<1>8. q[0] = rs
  <2>1. 0 \in 0 .. n /\ n - 0 = n
    BY <1>1
  <2>2. q[0] = SubSeq(rs, 1, n)
    BY <2>1
  <2> QED
    BY <1>2, <2>2
<1> HIDE DEF q, d, e
<1>9. Leads(e, Paste(y, c + 1, q[0]), y)
  BY <1>1, <1>4, <1>5, <1>6, <1>7, PutsLead
<1> QED
  BY <1>8, <1>9 DEF e, n

\* Rows that have been put before row c go from the first one on.
LEMMA PutBeforeLeads ==
  ASSUME NEW y \in Text, NEW rs \in Seq(Line), Len(y) + Len(rs) <= MaxLines,
         NEW c \in 0 .. Len(y) - 1
  PROVE  Leads([k \in DOMAIN rs |-> Inserted(c, c)], Paste(y, c, rs), y)
<1> DEFINE n == Len(rs)
           e == [k \in DOMAIN rs |-> Inserted(c, c)]
           q == [k \in 0 .. n |-> SubSeq(rs, k + 1, n)]
           d == [k \in 1 .. n |-> 1]
<1>1. /\ n \in Nat /\ DOMAIN rs = 1 .. n /\ c \in 0 .. Len(y) /\ Len(y) \in Nat
      /\ MaxLines \in Nat /\ Len(y) + n <= MaxLines /\ c \in Nat /\ c + 1 <= Len(y)
  BY TextIs, Constants DEF Sizes
<1>2. rs \in Seq(Line) /\ Len(rs) = n
  OBVIOUS
<1> HIDE DEF n
<1>3. ASSUME NEW k \in 0 .. n
      PROVE  q[k] \in Seq(Line) /\ Len(q[k]) = n - k
  <2>1. k \in 0 .. Len(rs)
    BY <1>1, <1>2
  <2>2. SubSeq(rs, k + 1, Len(rs)) \in Seq(Line) /\ Len(SubSeq(rs, k + 1, Len(rs))) = Len(rs) - k
    BY <1>2, <2>1, PartsAre
  <2> QED
    BY <1>2, <2>2
<1>4. ASSUME NEW k \in 1 .. n
      PROVE  d[k] \in 1 .. n - k + 1 /\ q[k] = Cut(q[k - 1], d[k] - 1, 1)
  <2>1. /\ k \in 1 .. Len(rs) /\ k - 1 \in 0 .. n /\ k \in 0 .. n /\ 1 - 1 = 0
        /\ 1 \in 1 .. n - k + 1
    BY <1>1, <1>2
  <2>2. SubSeq(rs, k + 1, n) = Cut(SubSeq(rs, (k - 1) + 1, n), 0, 1)
    BY <1>2, <2>1, PartsLess
  <2>3. q[k] = SubSeq(rs, k + 1, n) /\ q[k - 1] = SubSeq(rs, (k - 1) + 1, n) /\ d[k] = 1
    BY <2>1
  <2> HIDE DEF q, d
  <2> QED
    BY <2>1, <2>2, <2>3
<1>5. ASSUME NEW k \in 1 .. n
      PROVE  /\ e[k] \in Action /\ e[k].at \in 0 .. MaxLines
             /\ e[k] = Inserted(c + d[k] - 1, e[k].at)
  <2>1. c \in 0 .. MaxLines /\ c + 1 - 1 = c
    BY <1>1
  <2>2. e[k] = Inserted(c, c) /\ d[k] = 1
    BY <1>1
  <2> HIDE DEF e, d
  <2> QED
    BY <2>1, <2>2, Constants DEF Inserted, Action, Sizes
<1>6. e \in Seq(Action) /\ Len(e) = n
  <2>1. e \in [1 .. n -> Action]
    BY <1>1, <1>5
  <2> HIDE DEF e
  <2> QED
    BY <1>1, <2>1
<1>7. q \in [0 .. n -> Seq(Line)] /\ \A k \in 0 .. n : Len(q[k]) = n - k
  BY <1>3
<1>8. q[0] = rs
  <2>1. 0 \in 0 .. n /\ 0 + 1 = 1
    BY <1>1
  <2>2. q[0] = SubSeq(rs, 1, n)
    BY <2>1
  <2> QED
    BY <1>2, <2>2
<1> HIDE DEF q, d, e
<1>9. Leads(e, Paste(y, c, q[0]), y)
  BY <1>1, <1>4, <1>5, <1>6, <1>7, PutsLead
<1> QED
  BY <1>8, <1>9 DEF e, n

-----------------------------------------------------------------------------
\* The text y with the row i + 1 joined to row i, as the line l.
Merged(y, i, l) == [Cut(y, i + 1, 1) EXCEPT ![i + 1] = l]

MergedIs(y, i, l) ==
  LET x == Merged(y, i, l)
  IN  /\ x \in Text /\ Len(x) = Len(y) - 1
      /\ \A j \in 1 .. Len(y) - 1 :
           x[j] = IF j = i + 1 THEN l ELSE IF j <= i THEN y[j] ELSE y[j + 1]

\* The rows of a text with two rows joined.
LEMMA MergedHas ==
  ASSUME NEW y \in Text, NEW i \in 0 .. Len(y) - 2, NEW l \in Line
  PROVE  MergedIs(y, i, l)
<1> DEFINE m == Len(y)
           p == Cut(y, i + 1, 1)
           x == [p EXCEPT ![i + 1] = l]
<1>1. y \in Seq(Line) /\ m \in 1 .. MaxLines /\ m \in Nat /\ MaxLines \in Nat
  BY TextIs, Constants DEF Sizes
<1>2. /\ m \in Nat /\ m >= 2 /\ i \in Nat /\ i + 2 <= m /\ i + 1 \in 0 .. Len(y)
      /\ 1 \in 0 .. Len(y) - (i + 1) /\ i \in 0 .. m - 2
  BY <1>1
<1>3. /\ p \in Seq(Line) /\ Len(p) = Len(y) - 1
      /\ \A j \in 1 .. Len(y) - 1 : p[j] = IF j <= i + 1 THEN y[j] ELSE y[j + 1]
  <2>1. y \in Seq(Line) /\ i + 1 \in 0 .. Len(y) /\ 1 \in 0 .. Len(y) - (i + 1)
    BY <1>1, <1>2
  <2> QED
    BY ONLY <2>1, CutIs
<1> HIDE DEF p
<1>4. i + 1 \in 1 .. Len(p)
  BY <1>2, <1>3 DEF m
<1>5. /\ x \in Seq(Line) /\ Len(x) = Len(p)
      /\ \A j \in 1 .. Len(p) : x[j] = IF j = i + 1 THEN l ELSE p[j]
  BY ONLY <1>3, <1>4, EditIs, l \in Line
<1> HIDE DEF x, m
<1>6. Len(p) = m - 1 /\ Len(x) = m - 1
  BY <1>3, <1>5 DEF m
<1>7. x \in Text
  <2>1. m - 1 \in 1 .. MaxLines
    BY <1>1, <1>2
  <2> QED
    BY <1>5, <1>6, <2>1 DEF Text
<1>8. ASSUME NEW j \in 1 .. m - 1
      PROVE  x[j] = IF j = i + 1 THEN l ELSE IF j <= i THEN y[j] ELSE y[j + 1]
  <2>1. CASE j = i + 1
    BY <1>5, <1>6, <2>1
  <2>2. CASE j # i + 1
    <3>1. x[j] = p[j]
      BY <1>5, <1>6, <2>2
    <3>2. p[j] = IF j <= i + 1 THEN y[j] ELSE y[j + 1]
      BY <1>3, <1>6
    <3>3. (j <= i + 1) <=> (j <= i)
      BY <1>2, <2>2
    <3> QED
      BY <2>2, <3>1, <3>2, <3>3
  <2> QED
    BY <2>1, <2>2
<1> QED
  BY <1>6, <1>7, <1>8 DEF MergedIs, Merged, x, p, m

\* Two lines that have been joined come back.
LEMMA JoinLeads ==
  ASSUME NEW y \in Text, NEW i \in 0 .. Len(y) - 2, NEW l \in Line
  PROVE  Leads(<<Deleted(i + 1, y[i + 2]), Replaced(i, y[i + 1])>>, Merged(y, i, l), y)
<1> DEFINE m == Len(y)
           x == Merged(y, i, l)
           g == <<y[i + 2]>>
           a == Deleted(i + 1, y[i + 2])
           z == Paste(x, i + 1, g)
<1>1. y \in Seq(Line) /\ m \in 1 .. MaxLines /\ m \in Nat /\ MaxLines \in Nat
  BY TextIs, Constants DEF Sizes
<1>2. /\ m \in Nat /\ m >= 2 /\ i \in Nat /\ i + 2 <= m /\ i + 2 \in 1 .. m
      /\ i + 1 \in 0 .. MaxLines /\ i \in 0 .. Len(y) - 1
  BY <1>1
<1>3. y[i + 2] \in Line /\ g \in Seq(Line) /\ Len(g) = 1 /\ g[1] = y[i + 2]
  BY <1>1, <1>2
<1>4. /\ x \in Text /\ Len(x) = m - 1
      /\ \A j \in 1 .. m - 1 : x[j] = IF j = i + 1 THEN l ELSE IF j <= i THEN y[j] ELSE y[j + 1]
  BY MergedHas DEF MergedIs
<1>5. a \in Action /\ a.type = "DELETE_LINE" /\ a.idx = i + 1 /\ a.line = y[i + 2]
  BY <1>2, <1>3 DEF Deleted, Action
<1> HIDE DEF x, g, a
<1>6. x \in Seq(Line) /\ i + 1 \in 0 .. Len(x) /\ Len(x) < MaxLines /\ m = Len(y)
  BY <1>1, <1>2, <1>4, TextIs
<1> HIDE DEF m
<1>7. /\ z \in Seq(Line) /\ Len(z) = m
      /\ \A j \in 1 .. m :
           z[j] = IF j <= i + 1 THEN x[j] ELSE IF j <= i + 1 + 1 THEN g[j - (i + 1)] ELSE x[j - 1]
  <2>1. /\ z \in Seq(Line) /\ Len(z) = Len(x) + Len(g)
        /\ \A j \in 1 .. Len(x) + Len(g) :
             z[j] = IF j <= i + 1 THEN x[j]
                    ELSE IF j <= i + 1 + Len(g) THEN g[j - (i + 1)] ELSE x[j - Len(g)]
    BY ONLY <1>3, <1>6, PasteIs
  <2>2. Len(x) + Len(g) = m
    BY <1>2, <1>3, <1>4
  <2> HIDE DEF z
  <2> QED
    BY ONLY <1>3, <2>1, <2>2
<1> HIDE DEF z
<1>8. z \in Text
  BY <1>1, <1>6, <1>7 DEF Text
<1>9. ASSUME NEW j \in 1 .. m, j # i + 1 PROVE z[j] = y[j]
  <2>0. j \in Int /\ j >= 1 /\ j <= m
    BY <1>2
  <2>1. CASE j <= i
    <3>1. j <= i + 1 /\ j \in 1 .. m - 1
      BY <1>2, <2>0, <2>1
    <3> QED
      BY <1>4, <1>7, <1>9, <2>1, <3>1
  <2>2. CASE j = i + 2
    <3>1. ~ (j <= i + 1) /\ j <= i + 1 + 1 /\ j - (i + 1) = 1
      BY <1>2, <2>2
    <3> QED
      BY <1>3, <1>7, <2>2, <3>1
  <2>3. CASE j > i + 2
    <3>1. /\ ~ (j <= i + 1) /\ ~ (j <= i + 1 + 1) /\ j - 1 \in 1 .. m - 1 /\ j - 1 # i + 1
          /\ ~ (j - 1 <= i) /\ (j - 1) + 1 = j
      BY <1>2, <2>0, <2>3
    <3> QED
      BY <1>4, <1>7, <3>1
  <2>4. j <= i \/ j = i + 2 \/ j > i + 2
    BY <1>2, <1>9, <2>0
  <2> QED
    BY <2>1, <2>2, <2>3, <2>4
<1>10. Finds(a, x) /\ After(a, x) = z
  BY <1>5, <1>6 DEF Finds, After, z, g
<1>11. Takes(a, x, z)
  BY <1>4, <1>5, <1>8, <1>10 DEF Takes
<1>12. Takes(Replaced(i, y[i + 1]), z, y)
  <2>1. Len(z) = Len(y) /\ \A j \in 1 .. Len(y) : j # i + 1 => z[j] = y[j]
    BY <1>6, <1>7, <1>9
  <2> QED
    BY <1>2, <1>8, <2>1, ReplacedTakes
<1>13. Leads(<<a, Replaced(i, y[i + 1])>>, x, y)
  BY <1>11, <1>12, TwoLead
<1> QED
  BY <1>13 DEF a, x

\* Two edits of the same line.
LEMMA EditTwice ==
  ASSUME NEW S, NEW s \in Seq(S), NEW i \in 1 .. Len(s), NEW l \in S, NEW m \in S
  PROVE  [[s EXCEPT ![i] = l] EXCEPT ![i] = m] = [s EXCEPT ![i] = m]
OBVIOUS

\* A text that is cut after row i, whatever is then written after the cut.
LEMMA BrokenTakes ==
  ASSUME NEW y \in Text, Len(y) < MaxLines, NEW i \in 0 .. Len(y) - 1,
         NEW l \in Line, NEW m \in Line
  PROVE  LET x == [Paste(y, i + 1, <<m>>) EXCEPT ![i + 1] = l]
         IN  /\ x \in Text /\ Len(x) = Len(y) + 1
             /\ \A k \in Line : Takes(Inserted(i + 1, i), [x EXCEPT ![i + 2] = k],
                                      [y EXCEPT ![i + 1] = l])
<1> DEFINE n == Len(y)
           g == <<m>>
           p == Paste(y, i + 1, g)
           x == [p EXCEPT ![i + 1] = l]
           w == [y EXCEPT ![i + 1] = l]
<1>1. y \in Seq(Line) /\ n \in 1 .. MaxLines /\ n \in Nat /\ MaxLines \in Nat /\ n < MaxLines
  BY TextIs, Constants DEF Sizes
<1>2. /\ n \in Nat /\ i \in Nat /\ i + 1 <= n /\ i + 1 \in 0 .. Len(y) /\ i \in 0 .. MaxLines
      /\ i + 1 \in 1 .. n + 1 /\ i + 2 \in 1 .. n + 1 /\ i \in 0 .. Len(y) - 1
  BY <1>1
<1>3. g \in Seq(Line) /\ Len(g) = 1 /\ g[1] = m
  OBVIOUS
<1>4. /\ w \in Text /\ w \in Seq(Line) /\ Len(w) = n
      /\ \A j \in 1 .. n : w[j] = IF j = i + 1 THEN l ELSE y[j]
  BY EditedIs, TextIs
<1> HIDE DEF g, w, n
<1>5. /\ p \in Seq(Line) /\ Len(p) = n + 1
      /\ \A j \in 1 .. n + 1 :
           p[j] = IF j <= i + 1 THEN y[j] ELSE IF j <= i + 1 + 1 THEN g[j - (i + 1)] ELSE y[j - 1]
  <2>1. /\ p \in Seq(Line) /\ Len(p) = Len(y) + Len(g)
        /\ \A j \in 1 .. Len(y) + Len(g) :
             p[j] = IF j <= i + 1 THEN y[j]
                    ELSE IF j <= i + 1 + Len(g) THEN g[j - (i + 1)] ELSE y[j - Len(g)]
    BY ONLY <1>1, <1>2, <1>3, PasteIs
  <2>2. Len(y) + Len(g) = n + 1
    BY <1>3 DEF n
  <2> HIDE DEF p
  <2> QED
    BY ONLY <1>3, <2>1, <2>2
<1> HIDE DEF p
<1>6. /\ x \in Seq(Line) /\ Len(x) = n + 1
      /\ \A j \in 1 .. n + 1 : x[j] = IF j = i + 1 THEN l ELSE p[j]
  <2>1. i + 1 \in 1 .. Len(p)
    BY <1>2, <1>5
  <2>2. /\ x \in Seq(Line) /\ Len(x) = Len(p)
        /\ \A j \in 1 .. Len(p) : x[j] = IF j = i + 1 THEN l ELSE p[j]
    BY ONLY <1>5, <2>1, EditIs, l \in Line
  <2> HIDE DEF x
  <2> QED
    BY ONLY <1>5, <2>2
<1> HIDE DEF x
<1>7. x \in Text
  <2>1. n + 1 \in 1 .. MaxLines
    BY <1>1, <1>2
  <2> QED
    BY <1>6, <2>1 DEF Text
<1>8. ASSUME NEW k \in Line PROVE Takes(Inserted(i + 1, i), [x EXCEPT ![i + 2] = k], w)
  <2> DEFINE h == <<k>>
             z == [x EXCEPT ![i + 2] = k]
             v == Paste(w, i + 1, h)
  <2>1. h \in Seq(Line) /\ Len(h) = 1 /\ h[1] = k
    OBVIOUS
  <2> HIDE DEF h
  <2>2. /\ z \in Seq(Line) /\ Len(z) = n + 1
        /\ \A j \in 1 .. n + 1 : z[j] = IF j = i + 2 THEN k ELSE x[j]
    <3>1. i + 2 \in 1 .. Len(x)
      BY <1>2, <1>6
    <3>2. /\ z \in Seq(Line) /\ Len(z) = Len(x)
          /\ \A j \in 1 .. Len(x) : z[j] = IF j = i + 2 THEN k ELSE x[j]
      BY ONLY <1>6, <3>1, EditIs, k \in Line
    <3> HIDE DEF z
    <3> QED
      BY ONLY <1>6, <3>2
  <2>3. /\ v \in Seq(Line) /\ Len(v) = n + 1
        /\ \A j \in 1 .. n + 1 :
             v[j] = IF j <= i + 1 THEN w[j] ELSE IF j <= i + 1 + 1 THEN h[j - (i + 1)] ELSE w[j - 1]
    <3>1. i + 1 \in 0 .. Len(w)
      BY <1>2, <1>4
    <3>2. /\ v \in Seq(Line) /\ Len(v) = Len(w) + Len(h)
          /\ \A j \in 1 .. Len(w) + Len(h) :
               v[j] = IF j <= i + 1 THEN w[j]
                      ELSE IF j <= i + 1 + Len(h) THEN h[j - (i + 1)] ELSE w[j - Len(h)]
      BY ONLY <1>4, <2>1, <3>1, PasteIs
    <3>3. Len(w) + Len(h) = n + 1
      BY <1>4, <2>1
    <3> HIDE DEF v
    <3> QED
      BY ONLY <2>1, <3>2, <3>3
  <2> HIDE DEF z, v
  <2>4. ASSUME NEW j \in 1 .. n + 1 PROVE z[j] = v[j]
    <3>0. j \in Int /\ j >= 1 /\ j <= n + 1
      BY <1>2
    <3>1. CASE j <= i
      <4>1. j <= i + 1 /\ j # i + 1 /\ j # i + 2 /\ j \in 1 .. n
        BY <1>2, <3>0, <3>1
      <4> QED
        BY <1>4, <1>5, <1>6, <2>2, <2>3, <4>1
    <3>2. CASE j = i + 1
      <4>1. j <= i + 1 /\ j # i + 2 /\ j \in 1 .. n
        BY <1>2, <3>2
      <4> QED
        BY <1>4, <1>6, <2>2, <2>3, <3>2, <4>1
    <3>3. CASE j = i + 2
      <4>1. ~ (j <= i + 1) /\ j <= i + 1 + 1 /\ j - (i + 1) = 1
        BY <1>2, <3>3
      <4> QED
        BY <2>1, <2>2, <2>3, <3>3, <4>1
    <3>4. CASE j > i + 2
      <4>1. /\ ~ (j <= i + 1) /\ ~ (j <= i + 1 + 1) /\ j # i + 2 /\ j # i + 1
            /\ j - 1 \in 1 .. n /\ j - 1 # i + 1
        BY <1>2, <3>0, <3>4
      <4> QED
        BY <1>4, <1>5, <1>6, <2>2, <2>3, <4>1
    <3>5. j <= i \/ j = i + 1 \/ j = i + 2 \/ j > i + 2
      BY <1>2, <3>0
    <3> QED
      BY <3>1, <3>2, <3>3, <3>4, <3>5
  <2>5. z = v
    BY ONLY <2>2, <2>3, <2>4, SameRows
  <2>6. Takes(Inserted(i + 1, i), v, w)
    <3>1. Len(w) < MaxLines /\ i + 1 \in 0 .. Len(w)
      BY <1>1, <1>2, <1>4
    <3> QED
      BY <1>2, <1>4, <3>1, InsertedTakes DEF v, h
  <2> QED
    BY <2>5, <2>6 DEF z
<1>9. Len(x) = Len(y) + 1
  BY <1>6 DEF n
<1> QED
  BY <1>7, <1>8, <1>9 DEF x, p, g, w

-----------------------------------------------------------------------------
\* The entries of the history h lead from the text x to the texts ts, one after
\* the other.
Tells(h, x, ts) ==
  /\ h \in Seq(Seq(Action)) /\ x \in Text /\ ts \in Seq(Text) /\ Len(ts) = Len(h)
  /\ \A k \in 1 .. Len(h) : Leads(h[k], IF k = 1 THEN x ELSE ts[k - 1], ts[k])

\* The texts that are told are recalled, after the text that there is.
LEMMA TellsRecalling ==
  ASSUME NEW h, NEW x, NEW ts, Tells(h, x, ts)
  PROVE  Recalling([k \in 0 .. Len(h) |-> IF k = 0 THEN x ELSE ts[k]], h, x)
<1> DEFINE n == Len(h)
           us == [k \in 0 .. n |-> IF k = 0 THEN x ELSE ts[k]]
<1>1. /\ h \in Seq(Seq(Action)) /\ x \in Text /\ ts \in Seq(Text) /\ Len(ts) = n
      /\ \A k \in 1 .. n : Leads(h[k], IF k = 1 THEN x ELSE ts[k - 1], ts[k])
  BY DEF Tells
<1>2. n \in Nat /\ \A k \in 1 .. n : ts[k] \in Text
  BY <1>1
<1> HIDE DEF n
<1>3. us \in [0 .. n -> Text] /\ us[0] = x
  BY <1>1, <1>2
<1>4. ASSUME NEW k \in 1 .. n PROVE Leads(h[k], us[k - 1], us[k])
  <2>1. k \in 0 .. n /\ k # 0 /\ k - 1 \in 0 .. n /\ (k - 1 = 0 <=> k = 1)
    BY <1>2
  <2>2. us[k] = ts[k] /\ us[k - 1] = IF k = 1 THEN x ELSE ts[k - 1]
    BY <2>1
  <2> HIDE DEF us
  <2> QED
    BY <1>1, <2>2
<1> HIDE DEF us
<1>5. Recalling(us, h, x)
  BY <1>1, <1>3, <1>4 DEF Recalling, n
<1> QED
  BY <1>5 DEF us, n

\* The texts of a history are those it tells of.
LEMMA TellsTexts ==
  ASSUME NEW h, NEW x, NEW ts, Tells(h, x, ts), NEW c \in 0 .. Len(x) - 1
  PROVE  Texts(h, x, c) = ts
<1> DEFINE n == Len(h)
           us == [k \in 0 .. n |-> IF k = 0 THEN x ELSE ts[k]]
<1>1. ts \in Seq(Text) /\ Len(ts) = n /\ n \in Nat
  <2>1. h \in Seq(Seq(Action)) /\ ts \in Seq(Text) /\ Len(ts) = n
    BY DEF Tells
  <2> QED
    BY <2>1
<1>2. Texts(h, x, c) = [k \in 1 .. n |-> us[k]]
  <2>1. Recalling(us, h, x)
    BY TellsRecalling
  <2> HIDE DEF us
  <2>2. Texts(h, x, c) = [k \in 1 .. Len(h) |-> us[k]]
    BY <2>1, TextsAre
  <2> QED
    BY <2>2
<1>3. \A k \in 1 .. n : us[k] = ts[k]
  OBVIOUS
<1> HIDE DEF us, n
<1>4. [k \in 1 .. n |-> us[k]] = [k \in 1 .. n |-> ts[k]]
  BY <1>3
<1>5. ts = [k \in 1 .. n |-> ts[k]]
  BY <1>1
<1> QED
  BY <1>2, <1>4, <1>5

\* A history without entries tells of nothing.
LEMMA TellsNothing ==
  ASSUME NEW x \in Text
  PROVE  Tells(<<>>, x, <<>>)
<1>1. <<>> \in Seq(Seq(Action)) /\ <<>> \in Seq(Text) /\ Len(<<>>) = 0
  OBVIOUS
<1>2. \A k \in 1 .. 0 : FALSE
  OBVIOUS
<1> QED
  BY <1>1, <1>2 DEF Tells

\* What is left of a history when there must be room for one more entry.
Trim(h) == IF Len(h) > MaxUndo THEN Front(h) ELSE h

\* The front of a sequence.
LEMMA FrontIs ==
  ASSUME NEW S, NEW s \in Seq(S), Len(s) > 0
  PROVE  /\ Front(s) \in Seq(S) /\ Len(Front(s)) = Len(s) - 1
         /\ \A k \in 1 .. Len(s) - 1 : Front(s)[k] = s[k]
<1> DEFINE i == Len(s) - 1
<1>1. i \in 0 .. Len(s) /\ Front(s) = SubSeq(s, 1, i)
  BY DEF Front
<1> HIDE DEF i
<1>2. /\ SubSeq(s, 1, i) \in Seq(S) /\ Len(SubSeq(s, 1, i)) = i
      /\ \A j \in 1 .. i : SubSeq(s, 1, i)[j] = s[j]
  BY <1>1, PartsAre
<1> QED
  BY <1>1, <1>2 DEF i

\* The entries that are left when there must be room are the newest ones.
LEMMA TrimIs ==
  ASSUME NEW S, NEW s \in Seq(S), Len(s) <= MaxUndo + 1
  PROVE  /\ Trim(s) \in Seq(S) /\ Len(Trim(s)) <= Len(s) /\ Len(Trim(s)) <= MaxUndo
         /\ Len(Trim(s)) = (IF Len(s) > MaxUndo THEN Len(s) - 1 ELSE Len(s))
         /\ \A k \in 1 .. Len(Trim(s)) : Trim(s)[k] = s[k]
<1>1. MaxUndo \in Nat /\ Len(s) \in Nat
  BY Constants DEF Sizes
<1>2. CASE Len(s) > MaxUndo
  <2>1. Len(s) > 0 /\ Trim(s) = Front(s)
    BY <1>1, <1>2 DEF Trim
  <2>2. /\ Front(s) \in Seq(S) /\ Len(Front(s)) = Len(s) - 1
        /\ \A k \in 1 .. Len(s) - 1 : Front(s)[k] = s[k]
    BY <2>1, FrontIs
  <2> QED
    BY <1>1, <1>2, <2>1, <2>2
<1>3. CASE ~ (Len(s) > MaxUndo)
  <2>1. Trim(s) = s
    BY <1>3 DEF Trim
  <2> QED
    BY <1>1, <1>3, <2>1
<1> QED
  BY <1>2, <1>3

\* What is left of a history tells of what is left of its texts.
LEMMA TellsTrim ==
  ASSUME NEW h, NEW x, NEW ts, Tells(h, x, ts), Len(h) <= MaxUndo + 1
  PROVE  Tells(Trim(h), x, Trim(ts))
<1> DEFINE g == Trim(h)
           us == Trim(ts)
<1>1. /\ h \in Seq(Seq(Action)) /\ x \in Text /\ ts \in Seq(Text) /\ Len(ts) = Len(h)
      /\ \A k \in 1 .. Len(h) : Leads(h[k], IF k = 1 THEN x ELSE ts[k - 1], ts[k])
  BY DEF Tells
<1>2. Len(h) \in Nat
  BY <1>1
<1>3. /\ g \in Seq(Seq(Action)) /\ Len(g) <= Len(h)
      /\ Len(g) = (IF Len(h) > MaxUndo THEN Len(h) - 1 ELSE Len(h))
      /\ \A k \in 1 .. Len(g) : g[k] = h[k]
  BY <1>1, TrimIs
<1>4. /\ us \in Seq(Text) /\ Len(us) = (IF Len(ts) > MaxUndo THEN Len(ts) - 1 ELSE Len(ts))
      /\ \A k \in 1 .. Len(us) : us[k] = ts[k]
  BY <1>1, TrimIs
<1> HIDE DEF g, us
<1>5. Len(us) = Len(g) /\ Len(g) \in Nat
  BY <1>1, <1>2, <1>3, <1>4
<1>6. ASSUME NEW k \in 1 .. Len(g) PROVE Leads(g[k], IF k = 1 THEN x ELSE us[k - 1], us[k])
  <2>1. k \in 1 .. Len(h) /\ k \in 1 .. Len(us)
    BY <1>2, <1>3, <1>5
  <2>2. g[k] = h[k] /\ us[k] = ts[k]
    BY <1>3, <1>4, <2>1
  <2>3. CASE k = 1
    <3>1. Leads(h[k], x, ts[k])
      BY <1>1, <2>1, <2>3
    <3> QED
      BY <2>2, <2>3, <3>1
  <2>4. CASE k # 1
    <3>1. k - 1 \in 1 .. Len(us)
      BY <1>5, <2>1, <2>4
    <3>2. us[k - 1] = ts[k - 1]
      BY <1>4, <3>1
    <3>3. Leads(h[k], ts[k - 1], ts[k])
      BY <1>1, <2>1, <2>4
    <3> QED
      BY <2>2, <2>4, <3>2, <3>3
  <2> QED
    BY <2>3, <2>4
<1>7. Tells(g, x, us)
  BY <1>1, <1>3, <1>4, <1>5, <1>6 DEF Tells
<1> QED
  BY <1>7 DEF g, us

\* A sequence with one more element before its first one.
LEMMA OneMore ==
  ASSUME NEW S, NEW e \in S, NEW s \in Seq(S)
  PROVE  /\ <<e>> \o s \in Seq(S) /\ Len(<<e>> \o s) = Len(s) + 1
         /\ \A k \in 1 .. Len(s) + 1 : (<<e>> \o s)[k] = IF k = 1 THEN e ELSE s[k - 1]
         /\ Head(<<e>> \o s) = e /\ Tail(<<e>> \o s) = s
<1> DEFINE p == <<e>>
           f == p \o s
           n == Len(s)
<1>1. p \in Seq(S) /\ Len(p) = 1 /\ p[1] = e /\ n \in Nat
  OBVIOUS
<1> HIDE DEF p
<1>2. /\ f \in Seq(S) /\ Len(f) = Len(p) + Len(s)
      /\ \A k \in 1 .. Len(p) + Len(s) : f[k] = IF k <= Len(p) THEN p[k] ELSE s[k - Len(p)]
  BY ONLY <1>1, ConcatIs, s \in Seq(S)
<1> HIDE DEF f
<1>3. /\ Len(f) = n + 1 /\ \A k \in 1 .. n + 1 : f[k] = IF k <= 1 THEN p[k] ELSE s[k - 1]
  <2>1. Len(p) + Len(s) = n + 1
    BY <1>1
  <2> HIDE DEF n
  <2> QED
    BY ONLY <1>1, <1>2, <2>1
<1> HIDE DEF n
<1>4. ASSUME NEW k \in 1 .. n + 1 PROVE f[k] = IF k = 1 THEN e ELSE s[k - 1]
  <2>1. CASE k = 1
    BY <1>1, <1>3, <2>1
  <2>2. CASE k # 1
    <3>1. ~ (k <= 1)
      BY <1>1, <2>2
    <3> QED
      BY <1>3, <2>2, <3>1
  <2> QED
    BY <2>1, <2>2
<1>5. Head(f) = e
  BY <1>1, <1>4 DEF n
<1>6. Tail(f) = s
  <2> DEFINE g == Tail(f)
  <2>1. g \in Seq(S) /\ Len(g) = n /\ \A k \in 1 .. n : g[k] = f[k + 1]
    BY <1>1, <1>2, <1>3 DEF n
  <2> HIDE DEF g
  <2>2. \A k \in 1 .. n : g[k] = s[k]
    <3> TAKE k \in 1 .. n
    <3>1. k + 1 \in 1 .. n + 1 /\ k + 1 # 1 /\ (k + 1) - 1 = k
      BY <1>1
    <3> QED
      BY <1>4, <2>1, <3>1
  <2>3. g = s
    BY <2>1, <2>2, SameRows DEF n
  <2> QED
    BY <2>3 DEF g
<1> QED
  BY <1>2, <1>3, <1>4, <1>5, <1>6 DEF f, p, n

\* An entry that leads back from the text x to y becomes the newest one.
LEMMA TellsPush ==
  ASSUME NEW h, NEW y, NEW ts, Tells(h, y, ts), Len(h) <= MaxUndo + 1,
         NEW e, NEW x, Leads(e, x, y)
  PROVE  /\ Tells(Push(h, e), x, History!Recall(y, ts))
         /\ Len(Push(h, e)) <= MaxUndo + 1
<1> DEFINE g == Trim(h)
           us == Trim(ts)
           f == <<e>> \o g
           vs == <<y>> \o us
<1>1. /\ Tells(g, y, us) /\ Len(h) \in Nat /\ Len(ts) = Len(h) /\ ts \in Seq(Text)
      /\ Len(g) <= MaxUndo /\ MaxUndo \in Nat
  <2>1. h \in Seq(Seq(Action)) /\ ts \in Seq(Text) /\ Len(ts) = Len(h)
    BY DEF Tells
  <2>2. Len(h) \in Nat /\ MaxUndo \in Nat
    BY <2>1, Constants DEF Sizes
  <2>3. Len(g) <= MaxUndo
    BY <2>1, TrimIs
  <2> QED
    BY <2>1, <2>2, <2>3, TellsTrim
<1>2. e \in Seq(Action) /\ x \in Text /\ y \in Text
  BY LeadsIs
<1>3. Push(h, e) = f
  BY DEF Push, Trim
<1>4. History!Recall(y, ts) = vs
  <2>1. Len(ts) >= MaxUndo + 1 <=> Len(ts) > MaxUndo
    BY <1>1
  <2>2. CASE Len(ts) > MaxUndo
    <3>1. (MaxUndo + 1) - 1 = Len(ts) - 1
      BY <1>1, <2>2
    <3>2. us = SubSeq(ts, 1, Len(ts) - 1)
      BY <2>2 DEF Trim, Front
    <3> HIDE DEF us
    <3> QED
      BY <2>1, <2>2, <3>1, <3>2 DEF History!Recall
  <2>3. CASE ~ (Len(ts) > MaxUndo)
    <3>1. us = ts
      BY <2>3 DEF Trim
    <3> HIDE DEF us
    <3> QED
      BY <2>1, <2>3, <3>1 DEF History!Recall
  <2> QED
    BY <2>2, <2>3
<1> HIDE DEF g, us
<1>5. /\ g \in Seq(Seq(Action)) /\ us \in Seq(Text) /\ Len(us) = Len(g) /\ Len(g) \in Nat
      /\ \A k \in 1 .. Len(g) : Leads(g[k], IF k = 1 THEN y ELSE us[k - 1], us[k])
  <2>1. g \in Seq(Seq(Action))
    BY <1>1 DEF Tells
  <2> QED
    BY <1>1, <2>1 DEF Tells
<1>6. /\ f \in Seq(Seq(Action)) /\ Len(f) = Len(g) + 1
      /\ \A k \in 1 .. Len(g) + 1 : f[k] = IF k = 1 THEN e ELSE g[k - 1]
  BY <1>2, <1>5, OneMore
<1>7. /\ vs \in Seq(Text) /\ Len(vs) = Len(us) + 1
      /\ \A k \in 1 .. Len(us) + 1 : vs[k] = IF k = 1 THEN y ELSE us[k - 1]
  BY <1>2, <1>5, OneMore
<1> HIDE DEF f, vs
<1>8. ASSUME NEW k \in 1 .. Len(f) PROVE Leads(f[k], IF k = 1 THEN x ELSE vs[k - 1], vs[k])
  <2>0. k \in 1 .. Len(g) + 1 /\ k \in 1 .. Len(us) + 1
    BY <1>5, <1>6
  <2>1. CASE k = 1
    <3>1. f[k] = e /\ vs[k] = y
      BY <1>6, <1>7, <2>0, <2>1
    <3> QED
      BY <2>1, <3>1
  <2>2. CASE k # 1
    <3>1. k - 1 \in 1 .. Len(g) /\ k - 1 \in 1 .. Len(us) + 1 /\ (k - 1) - 1 = k - 2
      BY <1>5, <2>0, <2>2
    <3>2. f[k] = g[k - 1] /\ vs[k] = us[k - 1]
      BY <1>6, <1>7, <2>0, <2>2
    <3>3. vs[k - 1] = IF k - 1 = 1 THEN y ELSE us[(k - 1) - 1]
      BY <1>7, <3>1
    <3>4. Leads(g[k - 1], IF k - 1 = 1 THEN y ELSE us[(k - 1) - 1], us[k - 1])
      BY <1>5, <3>1
    <3>5. Leads(g[k - 1], vs[k - 1], us[k - 1])
      BY <3>3, <3>4
    <3> QED
      BY <2>2, <3>2, <3>5
  <2> QED
    BY <2>1, <2>2
<1>9. Len(vs) = Len(f)
  BY <1>5, <1>6, <1>7
<1>10. Tells(f, x, vs)
  BY <1>2, <1>6, <1>7, <1>8, <1>9 DEF Tells
<1>11. Len(f) <= MaxUndo + 1
  BY <1>1, <1>5, <1>6
<1> QED
  BY <1>3, <1>4, <1>10, <1>11

\* The newest entry leads to the first text, and the others go on from there.
LEMMA TellsTail ==
  ASSUME NEW h, NEW x, NEW ts, Tells(h, x, ts), h # <<>>
  PROVE  /\ ts # <<>> /\ Leads(Head(h), x, Head(ts)) /\ Tells(Tail(h), Head(ts), Tail(ts))
         /\ Len(Tail(h)) = Len(h) - 1
<1> DEFINE g == Tail(h)
           us == Tail(ts)
<1>1. /\ h \in Seq(Seq(Action)) /\ x \in Text /\ ts \in Seq(Text) /\ Len(ts) = Len(h)
      /\ \A k \in 1 .. Len(h) : Leads(h[k], IF k = 1 THEN x ELSE ts[k - 1], ts[k])
  BY DEF Tells
<1>2. Len(h) \in Nat /\ Len(h) > 0
  BY <1>1
<1>3. /\ g \in Seq(Seq(Action)) /\ Len(g) = Len(h) - 1 /\ Head(h) = h[1]
      /\ \A k \in 1 .. Len(h) - 1 : g[k] = h[k + 1]
  BY <1>1, <1>2
<1>4. ts # <<>> /\ Head(ts) = ts[1] /\ Head(ts) \in Text
  BY <1>1, <1>2
<1>5. /\ us \in Seq(Text) /\ Len(us) = Len(ts) - 1
      /\ \A k \in 1 .. Len(ts) - 1 : us[k] = ts[k + 1]
  BY <1>1, <1>2, <1>4
<1> HIDE DEF g, us
<1>6. Leads(Head(h), x, Head(ts))
  <2>1. 1 \in 1 .. Len(h)
    BY <1>2
  <2> QED
    BY <1>1, <1>3, <1>4, <2>1
<1>7. ASSUME NEW k \in 1 .. Len(g) PROVE Leads(g[k], IF k = 1 THEN Head(ts) ELSE us[k - 1], us[k])
  <2>1. k \in 1 .. Len(h) - 1 /\ k + 1 \in 1 .. Len(h) /\ k + 1 # 1 /\ (k + 1) - 1 = k
        /\ k \in 1 .. Len(ts) - 1
    BY <1>1, <1>2, <1>3
  <2>2. Leads(h[k + 1], ts[k], ts[k + 1])
    BY <1>1, <2>1
  <2>3. g[k] = h[k + 1] /\ us[k] = ts[k + 1]
    BY <1>3, <1>5, <2>1
  <2>4. (IF k = 1 THEN Head(ts) ELSE us[k - 1]) = ts[k]
    <3>1. CASE k = 1
      BY <1>4, <3>1
    <3>2. CASE k # 1
      <4>1. k - 1 \in 1 .. Len(ts) - 1 /\ (k - 1) + 1 = k
        BY <2>1, <3>2
      <4> QED
        BY <1>5, <3>2, <4>1
    <3> QED
      BY <3>1, <3>2
  <2> QED
    BY <2>2, <2>3, <2>4
<1>8. Len(us) = Len(g)
  BY <1>1, <1>3, <1>5
<1>9. Tells(g, Head(ts), us)
  BY <1>3, <1>4, <1>5, <1>7, <1>8 DEF Tells
<1> QED
  BY <1>3, <1>4, <1>6, <1>9 DEF g, us

-----------------------------------------------------------------------------
Tale == [text : Text, past : Seq(Text), future : Seq(Text)]

\* The entry e leads from the text x to b, whatever is typed into row c.
Free(e, x, c, b) == \A l \in Line : Leads(e, [x EXCEPT ![c + 1] = l], b)

\* What the history of a buffer with the text x, with the cursor at row c, the
\* entry e of insert mode, and the histories u and r, promises: h.
Story(x, c, e, u, r, h) ==
  /\ h \in Tale /\ Tells(u, h.text, h.past) /\ Tells(r, h.text, h.future)
  /\ \/ e = <<>> /\ h.text = x
     \/ e # <<>> /\ Free(e, x, c, h.text)

Sound ==
  /\ lines \in Text /\ cur \in 0 .. Len(lines) - 1 /\ mode \in {"normal", "insert"}
  /\ mode = "normal" => entry = <<>>
  /\ Len(undo) <= MaxUndo + 1 /\ Len(redo) <= MaxUndo + 1

UndoInv == Sound /\ \E h : Story(lines, cur, entry, undo, redo, h)

\* What happens to the history in one step, or nothing.
Moves(h, g) ==
  g = h \/ History!Command(h, g) \/ History!Undo(h, g) \/ History!Redo(h, g)
        \/ History!Forget(h, g)

Continues(h) ==
  Sound' /\ \E g : Story(lines', cur', entry', undo', redo', g) /\ Moves(h, g)

\* What is typed may also be what there is.
LEMMA FreeLeads ==
  ASSUME NEW x \in Text, NEW c \in 0 .. Len(x) - 1, NEW e, NEW b, Free(e, x, c, b)
  PROVE  Leads(e, x, b)
<1>1. x[c + 1] \in Line /\ x \in Seq(Line) /\ c + 1 \in 1 .. Len(x)
  BY TextIs
<1>2. [x EXCEPT ![c + 1] = x[c + 1]] = x
  BY <1>1
<1>3. Leads(e, [x EXCEPT ![c + 1] = x[c + 1]], b)
  BY <1>1 DEF Free
<1> QED
  BY <1>2, <1>3

\* The entry of insert mode leads back to the text the story is told from.
LEMMA StoryLeads ==
  ASSUME NEW x \in Text, NEW c \in 0 .. Len(x) - 1, NEW e, NEW u, NEW r, NEW h,
         Story(x, c, e, u, r, h)
  PROVE  h \in Tale /\ h.text \in Text /\ Leads(e, x, h.text)
<1>1. h \in Tale /\ h.text \in Text
  BY DEF Story, Tale
<1>2. CASE e = <<>> /\ h.text = x
  BY <1>1, <1>2, NothingLeads DEF Leads
<1>3. CASE e # <<>> /\ Free(e, x, c, h.text)
  BY <1>1, <1>3, FreeLeads
<1> QED
  BY <1>1, <1>2, <1>3 DEF Story

\* What the text of before an insert mode and the two histories say.
Tell(b, u, r) ==
  [text |-> b.lines, past |-> Texts(u, b.lines, b.cur), future |-> Texts(r, b.lines, b.cur)]

\* The state tells the story: its texts are those that undo and redo bring back.
LEMMA StoryIs ==
  ASSUME NEW x \in Text, NEW c \in 0 .. Len(x) - 1, NEW e, NEW u, NEW r, NEW h,
         Story(x, c, e, u, r, h)
  PROVE  /\ Tell(Reverted(e, x, c), u, r) = h
         /\ Reverted(e, x, c).lines = h.text
         /\ Reverted(e, x, c).cur \in 0 .. Len(h.text) - 1
<1> DEFINE b == Reverted(e, x, c)
<1>1. h \in Tale /\ Leads(e, x, h.text)
  BY StoryLeads
<1>2. b.lines = h.text /\ b.cur \in 0 .. Len(h.text) - 1
  BY <1>1, RevertedIs DEF Returns
<1>3. Tells(u, h.text, h.past) /\ Tells(r, h.text, h.future)
  BY DEF Story
<1> HIDE DEF b
<1>4. Texts(u, h.text, b.cur) = h.past /\ Texts(r, h.text, b.cur) = h.future
  BY <1>2, <1>3, TellsTexts
<1>5. Tell(b, u, r) = [text |-> h.text, past |-> h.past, future |-> h.future]
  BY <1>2, <1>4 DEF Tell
<1>6. h = [text |-> h.text, past |-> h.past, future |-> h.future]
  BY <1>1 DEF Tale
<1> QED
  BY <1>2, <1>5, <1>6 DEF b

\* A command: the entry e leads from the text y back to the one there was, and
\* the entry f of insert mode begins.
LEMMA CommandTells ==
  ASSUME NEW h \in Tale, NEW u, Tells(u, h.text, h.past), Len(u) <= MaxUndo + 1,
         NEW e, NEW y, Leads(e, y, h.text), NEW d, NEW f, f = <<>> \/ Free(f, y, d, y)
  PROVE  /\ Len(Push(u, e)) <= MaxUndo + 1
         /\ \E g : Story(y, d, f, Push(u, e), <<>>, g) /\ Moves(h, g)
<1> DEFINE p == History!Recall(h.text, h.past)
           g == [text |-> y, past |-> p, future |-> <<>>]
<1>1. Tells(Push(u, e), y, p) /\ Len(Push(u, e)) <= MaxUndo + 1
  BY TellsPush
<1>2. y \in Text
  BY LeadsIs
<1>3. Tells(<<>>, y, <<>>)
  BY <1>2, TellsNothing
<1>4. p \in Seq(Text) /\ <<>> \in Seq(Text)
  BY <1>1, <1>3 DEF Tells
<1> HIDE DEF p
<1>5. g \in Tale /\ g.text = y /\ g.past = p /\ g.future = <<>>
  BY <1>2, <1>4 DEF Tale
<1> HIDE DEF g
<1>6. Story(y, d, f, Push(u, e), <<>>, g)
  BY <1>1, <1>3, <1>5 DEF Story
<1>7. Moves(h, g)
  BY <1>5 DEF Moves, History!Command, p
<1> QED
  BY <1>1, <1>6, <1>7

\* A step that records the entry e and clears what could be redone.
LEMMA RecordContinues ==
  ASSUME Sound, NEW h, Story(lines, cur, entry, undo, redo, h),
         NEW e, Record(e), Leads(e, lines', h.text),
         cur' \in 0 .. Len(lines') - 1, mode' \in {"normal", "insert"},
         mode' = "normal" => entry' = <<>>,
         entry' = <<>> \/ Free(entry', lines', cur', lines')
  PROVE  Continues(h)
<1>1. h \in Tale /\ Tells(undo, h.text, h.past) /\ Len(undo) <= MaxUndo + 1
  BY DEF Story, Sound
<1>2. undo' = Push(undo, e) /\ redo' = <<>>
  BY DEF Record
<1>3. lines' \in Text
  BY LeadsIs
<1>4. /\ Len(Push(undo, e)) <= MaxUndo + 1
      /\ \E g : Story(lines', cur', entry', Push(undo, e), <<>>, g) /\ Moves(h, g)
  BY <1>1, CommandTells
<1>5. Len(redo') <= MaxUndo + 1
  BY <1>2, Constants DEF Sizes
<1>6. Sound'
  BY <1>2, <1>3, <1>4, <1>5 DEF Sound
<1> QED
  BY <1>2, <1>4, <1>6 DEF Continues

\* In normal mode no entry is under way.
LEMMA NormalIs ==
  ASSUME Sound, mode = "normal", NEW h, Story(lines, cur, entry, undo, redo, h)
  PROVE  entry = <<>> /\ h.text = lines
<1>1. entry = <<>>
  BY DEF Sound
<1> QED
  BY <1>1 DEF Story

\* A command of normal mode, which leaves the cursor in the buffer.
LEMMA CommandContinues ==
  ASSUME Sound, NEW h, Story(lines, cur, entry, undo, redo, h), Normal,
         NEW e, Command(e), Leads(e, lines', lines), cur' \in 0 .. Len(lines') - 1
  PROVE  Continues(h)
<1>1. mode' = "normal" /\ entry' = entry /\ mode = "normal" /\ Record(e)
  BY DEF Normal, Command
<1>2. entry' = <<>> /\ Leads(e, lines', h.text)
  BY <1>1, NormalIs
<1> QED
  BY <1>1, <1>2, RecordContinues

\* A step that leaves the histories and the text of before insert mode.
LEMMA SameContinues ==
  ASSUME Sound, NEW h, Story(lines, cur, entry, undo, redo, h), UNCHANGED <<undo, redo>>,
         lines' \in Text, cur' \in 0 .. Len(lines') - 1, mode' \in {"normal", "insert"},
         mode' = "normal" => entry' = <<>>,
         \/ entry' = <<>> /\ h.text = lines'
         \/ entry' # <<>> /\ Free(entry', lines', cur', h.text)
  PROVE  Continues(h)
<1>1. Sound'
  BY DEF Sound
<1>2. Story(lines', cur', entry', undo', redo', h)
  BY DEF Story
<1> QED
  BY <1>1, <1>2 DEF Continues, Moves

-----------------------------------------------------------------------------
\* The newest entry of the history u is undone, and becomes the newest of r.
LEMMA GoingBack ==
  ASSUME NEW x \in Text, NEW c \in 0 .. Len(x) - 1, NEW u, NEW ts, Tells(u, x, ts), u # <<>>,
         NEW r, NEW us, Tells(r, x, us), Len(r) <= MaxUndo + 1, Len(u) <= MaxUndo + 1
  PROVE  LET s == Reverted(Head(u), x, c)
         IN  /\ ts # <<>> /\ s.lines = Head(ts) /\ s.lines \in Text
             /\ s.cur \in 0 .. Len(s.lines) - 1
             /\ Tells(Tail(u), s.lines, Tail(ts))
             /\ Tells(Push(r, s.back), s.lines, History!Recall(x, us))
             /\ Len(Tail(u)) <= MaxUndo + 1 /\ Len(Push(r, s.back)) <= MaxUndo + 1
<1> DEFINE s == Reverted(Head(u), x, c)
<1>1. /\ ts # <<>> /\ Leads(Head(u), x, Head(ts)) /\ Tells(Tail(u), Head(ts), Tail(ts))
      /\ Len(Tail(u)) = Len(u) - 1
  BY TellsTail
<1>2. Returns(s, x, Head(ts))
  BY <1>1, RevertedIs
<1> HIDE DEF s
<1>3. s.lines = Head(ts) /\ s.cur \in 0 .. Len(s.lines) - 1 /\ Leads(s.back, Head(ts), x)
  BY <1>2 DEF Returns
<1>4. s.lines \in Text
  BY <1>3, LeadsIs
<1>5. /\ Tells(Push(r, s.back), Head(ts), History!Recall(x, us))
      /\ Len(Push(r, s.back)) <= MaxUndo + 1
  BY <1>3, TellsPush
<1>6. Len(Tail(u)) <= MaxUndo + 1
  <2>1. Len(u) \in Nat /\ MaxUndo \in Nat
    <3>1. u \in Seq(Seq(Action))
      BY DEF Tells
    <3> QED
      BY <3>1, Constants DEF Sizes
  <2> QED
    BY <1>1, <2>1
<1> QED
  BY <1>1, <1>3, <1>4, <1>5, <1>6 DEF s

\* Undo brings back the newest text of the past, and redo can return.
LEMMA UndoContinues ==
  ASSUME Sound, NEW h, Story(lines, cur, entry, undo, redo, h), Undo
  PROVE  Continues(h)
<1> DEFINE s == Reverted(Head(undo), lines, cur)
           p == History!Recall(h.text, h.future)
           g == [text |-> s.lines, past |-> Tail(h.past), future |-> p]
<1>1. /\ mode = "normal" /\ mode' = mode /\ entry' = entry /\ undo # <<>>
      /\ lines' = s.lines /\ cur' = s.cur /\ undo' = Tail(undo) /\ redo' = Push(redo, s.back)
  BY DEF Undo, Normal
<1>2. entry = <<>> /\ h.text = lines /\ h \in Tale
  BY <1>1, NormalIs DEF Story
<1>3. /\ Tells(undo, lines, h.past) /\ Tells(redo, lines, h.future)
      /\ lines \in Text /\ cur \in 0 .. Len(lines) - 1
      /\ Len(undo) <= MaxUndo + 1 /\ Len(redo) <= MaxUndo + 1
  BY <1>2 DEF Story, Sound
<1>4. /\ h.past # <<>> /\ s.lines = Head(h.past) /\ s.lines \in Text
      /\ s.cur \in 0 .. Len(s.lines) - 1
      /\ Tells(Tail(undo), s.lines, Tail(h.past))
      /\ Tells(Push(redo, s.back), s.lines, History!Recall(lines, h.future))
      /\ Len(Tail(undo)) <= MaxUndo + 1 /\ Len(Push(redo, s.back)) <= MaxUndo + 1
  BY <1>1, <1>3, GoingBack
<1> HIDE DEF s
<1>5. Tail(h.past) \in Seq(Text) /\ p \in Seq(Text)
  BY <1>2, <1>4 DEF Tells
<1>6. g \in Tale /\ g.text = s.lines /\ g.past = Tail(h.past) /\ g.future = p
  BY <1>4, <1>5 DEF Tale
<1>7. Moves(h, g)
  <2>1. g = [text |-> Head(h.past), past |-> Tail(h.past),
             future |-> History!Recall(h.text, h.future)]
    BY <1>4
  <2> QED
    BY <1>4, <2>1 DEF Moves, History!Undo
<1>9. Tells(Push(redo, s.back), s.lines, p)
  BY <1>2, <1>4
<1> HIDE DEF g, p
<1>8. Story(lines', cur', entry', undo', redo', g)
  BY <1>1, <1>2, <1>4, <1>6, <1>9 DEF Story
<1>10. Sound'
  BY <1>1, <1>2, <1>4 DEF Sound
<1> QED
  BY <1>7, <1>8, <1>10 DEF Continues

\* Redo brings back the newest text of the future, and undo can return.
LEMMA RedoContinues ==
  ASSUME Sound, NEW h, Story(lines, cur, entry, undo, redo, h), Redo
  PROVE  Continues(h)
<1> DEFINE s == Reverted(Head(redo), lines, cur)
           p == History!Recall(h.text, h.past)
           g == [text |-> s.lines, past |-> p, future |-> Tail(h.future)]
<1>1. /\ mode = "normal" /\ mode' = mode /\ entry' = entry /\ redo # <<>>
      /\ lines' = s.lines /\ cur' = s.cur /\ redo' = Tail(redo) /\ undo' = Push(undo, s.back)
  BY DEF Redo, Normal
<1>2. entry = <<>> /\ h.text = lines /\ h \in Tale
  BY <1>1, NormalIs DEF Story
<1>3. /\ Tells(undo, lines, h.past) /\ Tells(redo, lines, h.future)
      /\ lines \in Text /\ cur \in 0 .. Len(lines) - 1
      /\ Len(undo) <= MaxUndo + 1 /\ Len(redo) <= MaxUndo + 1
  BY <1>2 DEF Story, Sound
<1>4. /\ h.future # <<>> /\ s.lines = Head(h.future) /\ s.lines \in Text
      /\ s.cur \in 0 .. Len(s.lines) - 1
      /\ Tells(Tail(redo), s.lines, Tail(h.future))
      /\ Tells(Push(undo, s.back), s.lines, History!Recall(lines, h.past))
      /\ Len(Tail(redo)) <= MaxUndo + 1 /\ Len(Push(undo, s.back)) <= MaxUndo + 1
  BY <1>1, <1>3, GoingBack
<1> HIDE DEF s
<1>5. Tail(h.future) \in Seq(Text) /\ p \in Seq(Text)
  BY <1>2, <1>4 DEF Tells
<1>6. g \in Tale /\ g.text = s.lines /\ g.past = p /\ g.future = Tail(h.future)
  BY <1>4, <1>5 DEF Tale
<1>7. Moves(h, g)
  <2>1. g = [text |-> Head(h.future), past |-> History!Recall(h.text, h.past),
             future |-> Tail(h.future)]
    BY <1>4
  <2> QED
    BY <1>4, <2>1 DEF Moves, History!Redo
<1>9. Tells(Push(undo, s.back), s.lines, p)
  BY <1>2, <1>4
<1> HIDE DEF g, p
<1>8. Story(lines', cur', entry', undo', redo', g)
  BY <1>1, <1>2, <1>4, <1>6, <1>9 DEF Story
<1>10. Sound'
  BY <1>1, <1>2, <1>4 DEF Sound
<1> QED
  BY <1>7, <1>8, <1>10 DEF Continues

-----------------------------------------------------------------------------
\* Nothing recorded depends on where the cursor is.
LEMMA MoveContinues ==
  ASSUME Sound, NEW h, Story(lines, cur, entry, undo, redo, h), NEW i \in Rows, Move(i)
  PROVE  Continues(h)
<1>1. /\ mode = "normal" /\ mode' = mode /\ entry' = entry /\ cur' = i
      /\ UNCHANGED <<undo, redo>> /\ lines' = lines
  BY DEF Move, Normal
<1>2. entry = <<>> /\ h.text = lines
  BY <1>1, NormalIs
<1>3. lines' \in Text /\ cur' \in 0 .. Len(lines') - 1
  BY <1>1 DEF Sound, Rows, LastIdx
<1> QED
  BY <1>1, <1>2, <1>3, SameContinues

\* The entry of one changed line leads back.
LEMMA ChangeContinues ==
  ASSUME Sound, NEW h, Story(lines, cur, entry, undo, redo, h), NEW l \in Line, Change(l)
  PROVE  Continues(h)
<1> DEFINE e == <<Replaced(cur, lines[cur + 1])>>
           y == [lines EXCEPT ![cur + 1] = l]
<1>1. Normal /\ lines' = y /\ cur' = cur /\ Command(e)
  BY DEF Change
<1>2. lines \in Text /\ cur \in 0 .. Len(lines) - 1
  BY DEF Sound
<1>3. /\ y \in Text /\ Len(y) = Len(lines)
      /\ \A j \in 1 .. Len(lines) : y[j] = IF j = cur + 1 THEN l ELSE lines[j]
  BY <1>2, EditedIs
<1> HIDE DEF y
<1>4. Takes(Replaced(cur, lines[cur + 1]), y, lines)
  BY <1>2, <1>3, ReplacedTakes
<1>5. Leads(e, y, lines)
  BY <1>4, OneLeads
<1> HIDE DEF e
<1>6. Leads(e, lines', lines) /\ cur' \in 0 .. Len(lines') - 1
  BY <1>1, <1>2, <1>3, <1>5
<1> QED
  BY <1>1, <1>6, CommandContinues

\* The text x with the line l at every row of the set R.
Edited(x, R, l) == [i \in DOMAIN x |-> IF i - 1 \in R THEN l ELSE x[i]]

\* The rows of a text with the rows in R changed.
LEMMA RowsEdited ==
  ASSUME NEW x \in Text, NEW R, NEW l \in Line
  PROVE  /\ Edited(x, R, l) \in Text /\ Len(Edited(x, R, l)) = Len(x)
         /\ \A i \in 1 .. Len(x) : Edited(x, R, l)[i] = IF i - 1 \in R THEN l ELSE x[i]
<1> DEFINE n == Len(x)
           y == [i \in DOMAIN x |-> IF i - 1 \in R THEN l ELSE x[i]]
<1>1. x \in Seq(Line) /\ n \in 1 .. MaxLines /\ n \in Nat /\ DOMAIN x = 1 .. n
  BY TextIs
<1>2. \A i \in 1 .. n : x[i] \in Line
  BY <1>1
<1> HIDE DEF n
<1>3. y \in [1 .. n -> Line] /\ \A i \in 1 .. n : y[i] = IF i - 1 \in R THEN l ELSE x[i]
  BY <1>1, <1>2
<1> HIDE DEF y
<1>4. y \in Seq(Line) /\ Len(y) = n
  BY <1>1, <1>3
<1>5. y \in Text
  BY <1>1, <1>4 DEF Text
<1> QED
  BY <1>3, <1>4, <1>5 DEF y, n, Edited

\* The entry of a substitution leads back, whichever lines it has changed.
LEMMA ChangeAllContinues ==
  ASSUME Sound, NEW h, Story(lines, cur, entry, undo, redo, h), NEW l \in Line,
         NEW n \in 1 .. Len(lines), NEW rows \in [1 .. n -> Rows], ChangeAll(rows, l)
  PROVE  Continues(h)
<1> DEFINE a == [k \in DOMAIN rows |-> Replaced(rows[k], lines[rows[k] + 1])]
           b == <<Replaced(cur, lines[cur + 1])>>
           e == a \o b
           R == {rows[k] : k \in DOMAIN rows}
           y == Edited(lines, R, l)
<1>1. Normal /\ lines' = y /\ cur' = cur /\ Command(e)
  <2>1. /\ Normal /\ cur' = cur /\ Command(e)
        /\ lines' = [i \in DOMAIN lines |->
                       IF \E k \in DOMAIN rows : rows[k] = i - 1 THEN l ELSE lines[i]]
    BY DEF ChangeAll
  <2>2. \A i : (\E k \in DOMAIN rows : rows[k] = i - 1) <=> i - 1 \in R
    OBVIOUS
  <2> HIDE DEF R, e
  <2> QED
    BY <2>1, <2>2 DEF Edited
<1>2. lines \in Text /\ cur \in 0 .. Len(lines) - 1
  BY DEF Sound
<1>3. n \in Nat /\ DOMAIN rows = 1 .. n /\ \A k \in 1 .. n : rows[k] \in 0 .. Len(lines) - 1
  BY <1>2, TextIs DEF Rows, LastIdx
<1>4. /\ y \in Text /\ Len(y) = Len(lines)
      /\ \A i \in 1 .. Len(lines) : y[i] = IF i - 1 \in R THEN l ELSE lines[i]
  BY <1>2, RowsEdited
<1>5. \A i \in 0 .. Len(lines) - 1 :
        LET q == Replaced(i, lines[i + 1])
        IN  q \in Action /\ q.type = "REPLACE_LINE" /\ q.idx = i /\ q.line = lines[i + 1]
  BY <1>2, TextIs DEF Replaced, Action
<1>6. /\ a \in Seq(Action) /\ Len(a) = n
      /\ \A k \in 1 .. n : a[k] = Replaced(rows[k], lines[rows[k] + 1])
  <2>1. a \in [1 .. n -> Action] /\ \A k \in 1 .. n : a[k] = Replaced(rows[k], lines[rows[k] + 1])
    BY <1>3, <1>5
  <2> HIDE DEF a
  <2> QED
    BY <1>3, <2>1
<1>7. b \in Seq(Action) /\ Len(b) = 1 /\ b[1] = Replaced(cur, lines[cur + 1])
  BY <1>2, <1>5
<1> HIDE DEF a, b, y
<1>8. /\ e \in Seq(Action) /\ Len(e) = n + 1
      /\ \A k \in 1 .. n + 1 : e[k] = IF k <= n THEN a[k] ELSE b[k - n]
  <2>1. /\ e \in Seq(Action) /\ Len(e) = Len(a) + Len(b)
        /\ \A k \in 1 .. Len(a) + Len(b) : e[k] = IF k <= Len(a) THEN a[k] ELSE b[k - Len(a)]
    BY ONLY <1>6, <1>7, ConcatIs
  <2> HIDE DEF e
  <2>2. Len(a) + Len(b) = n + 1
    BY <1>6, <1>7
  <2> QED
    BY <1>6, <2>1, <2>2
<1> HIDE DEF e
<1>9. Holds(e, lines)
  <2>1. ASSUME NEW k \in 1 .. n + 1
        PROVE  /\ e[k].type = "REPLACE_LINE" /\ e[k].idx \in 0 .. Len(lines) - 1
               /\ e[k].line = lines[e[k].idx + 1]
    <3>1. CASE k <= n
      <4>1. k \in 1 .. n
        BY <1>3, <3>1
      <4>2. PICK i \in 0 .. Len(lines) - 1 : e[k] = Replaced(i, lines[i + 1])
        BY <1>3, <1>6, <1>8, <3>1, <4>1
      <4> QED
        BY <1>5, <4>2
    <3>2. CASE k = n + 1
      <4>1. ~ (k <= n) /\ k - n = 1
        BY <1>3, <3>2
      <4>2. e[k] = Replaced(cur, lines[cur + 1])
        BY <1>7, <1>8, <4>1
      <4> QED
        BY <1>2, <1>5, <4>2
    <3>3. k <= n \/ k = n + 1
      BY <1>3
    <3> QED
      BY <3>1, <3>2, <3>3
  <2> QED
    BY <1>8, <2>1 DEF Holds
<1>10. ASSUME NEW i \in 1 .. Len(lines), y[i] # lines[i] PROVE \E k \in 1 .. Len(e) : e[k].idx + 1 = i
  <2>1. PICK k \in 1 .. n : rows[k] = i - 1
    BY <1>3, <1>4, <1>10
  <2>2. k \in 1 .. n + 1 /\ k <= n /\ rows[k] + 1 = i
    BY <1>3, <2>1
  <2>3. e[k] = Replaced(rows[k], lines[rows[k] + 1]) /\ rows[k] \in 0 .. Len(lines) - 1
    BY <1>3, <1>6, <1>8, <2>2
  <2>4. e[k].idx = rows[k]
    BY <1>5, <2>3
  <2> QED
    BY <1>8, <2>2, <2>4
<1>11. Leads(e, y, lines)
  BY <1>2, <1>4, <1>9, <1>10, HeldLead
<1>12. Leads(e, lines', lines) /\ cur' \in 0 .. Len(lines') - 1
  BY <1>1, <1>2, <1>4, <1>11
<1> QED
  BY <1>1, <1>12, CommandContinues

\* The entry of the deletion of lines leads back.
LEMMA DeleteLinesContinues ==
  ASSUME Sound, NEW h, Story(lines, cur, entry, undo, redo, h), Edges = {},
         NEW n \in 1 .. Len(lines), DeleteLines(n)
  PROVE  Continues(h)
<1> DEFINE y == Cut(lines, cur, n)
           e == Deletions(n)
<1>1. lines \in Text /\ cur \in 0 .. Len(lines) - 1
  BY DEF Sound
<1>2. /\ lines \in Seq(Line) /\ Len(lines) \in Nat /\ Len(lines) \in 1 .. MaxLines
  BY <1>1, TextIs
<1>3. /\ Normal /\ Command(e) /\ cur + n <= Len(lines) /\ n # Len(lines)
      /\ lines' = y
      /\ cur' = IF cur > LastIdx(lines') THEN LastIdx(lines') ELSE cur
  BY DEF DeleteLines
<1>4. n \in 1 .. Len(lines) - 1 /\ cur \in 0 .. Len(lines) - n /\ cur \in 0 .. Len(lines)
      /\ n \in 0 .. Len(lines) - cur
  BY <1>1, <1>2, <1>3
<1>5. Leads(e, y, lines)
  BY <1>1, <1>4, DeletionsLead DEF Deletions
<1>6. Len(y) = Len(lines) - n
  BY <1>2, <1>4, CutIs
<1> HIDE DEF e, y
<1>7. cur' \in 0 .. Len(lines') - 1
  BY <1>1, <1>2, <1>3, <1>4, <1>6 DEF LastIdx
<1> QED
  BY <1>3, <1>5, <1>7, CommandContinues

\* The entry of a join, when the lines are not the last two.
LEMMA JoinIs ==
  ASSUME lines \in Text, Edges = {}, NEW c, CanJoin(c)
  PROVE  /\ c \in 0 .. Len(lines) - 2 /\ c + 1 < Len(lines) - 1
         /\ JoinEntry(c) = <<Deleted(c + 1, lines[c + 2]), Replaced(c, lines[c + 1])>>
         /\ \A l : Joined(c, l) = Merged(lines, c, l)
<1>1. Len(lines) \in Nat /\ Len(lines) >= 1
  BY TextIs
<1>2. c \in 0 .. LastIdx(lines) - 1 /\ c + 1 # LastIdx(lines)
  BY DEF CanJoin
<1>3. c \in 0 .. Len(lines) - 2 /\ c + 1 < Len(lines) - 1 /\ c \in Nat
  BY <1>1, <1>2 DEF LastIdx
<1>4. GivenIdx(c + 1, LastIdx(lines), c) = c + 1
  BY <1>1, <1>3 DEF GivenIdx, LastIdx
<1> QED
  BY <1>3, <1>4 DEF JoinEntry, Joined, Merged

\* The entry of a join leads back.
LEMMA JoinContinues ==
  ASSUME Sound, NEW h, Story(lines, cur, entry, undo, redo, h), Edges = {},
         NEW l \in Line, Join(l)
  PROVE  Continues(h)
<1>1. lines \in Text /\ cur \in 0 .. Len(lines) - 1 /\ Len(lines) \in Nat
  BY TextIs DEF Sound
<1>2. Normal /\ CanJoin(cur) /\ lines' = Joined(cur, l) /\ cur' = cur /\ Command(JoinEntry(cur))
  BY DEF Join
<1>3. /\ cur \in 0 .. Len(lines) - 2 /\ cur + 1 < Len(lines) - 1
      /\ JoinEntry(cur) = <<Deleted(cur + 1, lines[cur + 2]), Replaced(cur, lines[cur + 1])>>
      /\ Joined(cur, l) = Merged(lines, cur, l)
  BY <1>1, <1>2, JoinIs
<1>4. Leads(JoinEntry(cur), lines', lines)
  BY <1>1, <1>2, <1>3, JoinLeads
<1>5. Len(lines') = Len(lines) - 1
  BY <1>1, <1>2, <1>3, MergedHas DEF MergedIs
<1>6. cur' \in 0 .. Len(lines') - 1
  BY <1>1, <1>2, <1>3, <1>5
<1> QED
  BY <1>2, <1>4, <1>6, CommandContinues

-----------------------------------------------------------------------------
\* The entry of lines put after the current one leads back.
LEMMA PutAfterContinues ==
  ASSUME Sound, NEW h, Story(lines, cur, entry, undo, redo, h), Edges = {},
         NEW rs \in Seq(Line), PutAfter(rs)
  PROVE  Continues(h)
<1> DEFINE e == [k \in DOMAIN rs |-> Inserted(cur + Len(rs) - k + 1, cur + Len(rs) - k)]
           y == Paste(lines, cur + 1, rs)
<1>1. lines \in Text /\ cur \in 0 .. Len(lines) - 1
  BY DEF Sound
<1>2. /\ lines \in Seq(Line) /\ Len(lines) \in Nat /\ cur + 1 \in 0 .. Len(lines)
      /\ Len(rs) \in Nat
  BY <1>1, TextIs
<1>3. /\ Normal /\ Command(e) /\ lines' = y /\ cur' = cur
      /\ Len(lines) + Len(rs) <= MaxLines
  BY DEF PutAfter
<1>4. Leads(e, y, lines)
  BY <1>1, <1>3, PutAfterLeads
<1>5. Len(y) = Len(lines) + Len(rs)
  BY <1>2, PasteIs
<1> HIDE DEF e, y
<1>6. cur' \in 0 .. Len(lines') - 1
  BY <1>1, <1>2, <1>3, <1>5
<1> QED
  BY <1>3, <1>4, <1>6, CommandContinues

\* The entry of lines put before the current one leads back.
LEMMA PutBeforeContinues ==
  ASSUME Sound, NEW h, Story(lines, cur, entry, undo, redo, h),
         NEW rs \in Seq(Line), PutBefore(rs)
  PROVE  Continues(h)
<1> DEFINE e == [k \in DOMAIN rs |-> Inserted(cur, cur)]
           y == Paste(lines, cur, rs)
<1>1. lines \in Text /\ cur \in 0 .. Len(lines) - 1
  BY DEF Sound
<1>2. /\ lines \in Seq(Line) /\ Len(lines) \in Nat /\ cur \in 0 .. Len(lines)
      /\ Len(rs) \in Nat
  BY <1>1, TextIs
<1>3. /\ Normal /\ Command(e) /\ lines' = y /\ cur' = cur
      /\ Len(lines) + Len(rs) <= MaxLines
  BY DEF PutBefore
<1>4. Leads(e, y, lines)
  BY <1>1, <1>3, PutBeforeLeads
<1>5. Len(y) = Len(lines) + Len(rs)
  BY <1>2, PasteIs
<1> HIDE DEF e, y
<1>6. cur' \in 0 .. Len(lines') - 1
  BY <1>1, <1>2, <1>3, <1>5
<1> QED
  BY <1>3, <1>4, <1>6, CommandContinues

\* The entry of a block without an empty line leads back, whichever rows are in it.
LEMMA ChangeBlockContinues ==
  ASSUME Sound, NEW h, Story(lines, cur, entry, undo, redo, h), Edges = {}, NEW l \in Line,
         NEW n \in 0 .. Len(lines), NEW rows \in [1 .. n -> Rows], ChangeBlock(rows, l)
  PROVE  Continues(h)
<1> DEFINE void == {k \in DOMAIN rows : lines[rows[k] + 1] = EMPTY}
           lost == Cardinality(void)
           taken(k) == undo[Cardinality({j \in void : j <= k})]
           e == [k \in 1 .. n |-> Replaced(rows[k], lines[rows[k] + 1])]
           R == {rows[k] : k \in DOMAIN rows}
           y == Edited(lines, R, l)
<1>1. lines \in Text /\ lines \in Seq(Line) /\ Len(lines) \in Nat /\ cur \in 0 .. Len(lines) - 1
  BY TextIs DEF Sound
<1>2. n \in Nat /\ DOMAIN rows = 1 .. n /\ \A k \in 1 .. n : rows[k] \in 0 .. Len(lines) - 1
  BY <1>1 DEF Rows, LastIdx
<1>3. void = {}
  BY DEF ChangeBlock
<1>4. /\ Normal /\ cur' = cur /\ redo' = <<>>
      /\ undo' = Push(SubSeq(undo, lost + 1, Len(undo)),
                      [k \in DOMAIN rows |->
                         IF k \in void THEN Head(taken(k))
                         ELSE Replaced(rows[k], lines[rows[k] + 1])])
      /\ lines' = [i \in DOMAIN lines |->
                     IF \E k \in DOMAIN rows : rows[k] = i - 1 THEN l ELSE lines[i]]
  BY DEF ChangeBlock
<1>5. lines' = y
  <2>1. \A i : (\E k \in DOMAIN rows : rows[k] = i - 1) <=> i - 1 \in R
    OBVIOUS
  <2> HIDE DEF R
  <2> QED
    BY <1>4, <2>1 DEF Edited
<1>6. Record(e)
  <2>1. undo \in Seq(Seq(Action))
    BY DEF Story, Tells
  <2>2. lost = 0
    BY <1>3, FS_EmptySet
  <2>3. SubSeq(undo, lost + 1, Len(undo)) = undo
    <3>1. SubSeq(undo, 1, Len(undo)) = undo
      BY <2>1
    <3> HIDE DEF lost
    <3> QED
      BY <2>2, <3>1
  <2>4. \A k : k \notin void
    BY <1>3
  <2>5. [k \in DOMAIN rows |-> IF k \in void THEN Head(taken(k))
                              ELSE Replaced(rows[k], lines[rows[k] + 1])] = e
    <3> HIDE DEF void, taken
    <3> QED
      BY <1>2, <2>4
  <2> HIDE DEF void, lost, taken, e
  <2> QED
    BY <1>4, <2>3, <2>5 DEF Record
<1> HIDE DEF void, lost, taken
<1>7. ASSUME NEW k \in 1 .. n
      PROVE  /\ e[k] \in Action /\ e[k].type = "REPLACE_LINE"
             /\ e[k].idx = rows[k] /\ e[k].idx \in 0 .. Len(lines) - 1
             /\ e[k].line = lines[e[k].idx + 1]
  <2>1. e[k] = Replaced(rows[k], lines[rows[k] + 1])
    OBVIOUS
  <2>2. rows[k] \in 0 .. Len(lines) - 1
    BY <1>2
  <2> HIDE DEF e
  <2>3. rows[k] \in 0 .. MaxLines /\ lines[rows[k] + 1] \in Line
    BY <1>1, <2>2, TextIs
  <2> QED
    BY <2>1, <2>2, <2>3 DEF Replaced, Action
<1>8. e \in Seq(Action) /\ Len(e) = n
  <2>1. e \in [1 .. n -> Action]
    BY <1>7
  <2> HIDE DEF e
  <2> QED
    BY <1>2, <2>1
<1> HIDE DEF e
<1>9. Holds(e, lines)
  BY <1>7, <1>8 DEF Holds
<1>10. /\ y \in Text /\ Len(y) = Len(lines)
       /\ \A i \in 1 .. Len(lines) : y[i] = IF i - 1 \in R THEN l ELSE lines[i]
  BY <1>1, RowsEdited
<1> HIDE DEF y
<1>11. ASSUME NEW i \in 1 .. Len(lines), y[i] # lines[i] PROVE \E k \in 1 .. Len(e) : e[k].idx + 1 = i
  <2>1. PICK k \in 1 .. n : rows[k] = i - 1
    BY <1>2, <1>10, <1>11
  <2>2. e[k].idx + 1 = i
    BY <1>7, <2>1
  <2> QED
    BY <1>8, <2>2
<1>12. Leads(e, y, lines)
  BY <1>1, <1>9, <1>10, <1>11, HeldLead
<1>13. h.text = lines /\ mode' = "normal" /\ entry' = <<>>
  BY <1>4, NormalIs DEF Normal
<1>14. cur' \in 0 .. Len(lines') - 1
  BY <1>1, <1>4, <1>5, <1>10
<1> QED
  BY <1>5, <1>6, <1>12, <1>13, <1>14, RecordContinues

-----------------------------------------------------------------------------
\* What can be typed into a row when its line has been recorded.
LEMMA RecordedFree ==
  ASSUME NEW x \in Text, NEW i \in 0 .. Len(x) - 1, NEW e, NEW b, Leads(e, x, b)
  PROVE  Free(<<Replaced(i, x[i + 1])>> \o e, x, i, b)
<1>1. ASSUME NEW l \in Line
      PROVE  Leads(<<Replaced(i, x[i + 1])>> \o e, [x EXCEPT ![i + 1] = l], b)
  <2> DEFINE y == [x EXCEPT ![i + 1] = l]
  <2>1. /\ y \in Text /\ Len(y) = Len(x)
        /\ \A j \in 1 .. Len(x) : y[j] = IF j = i + 1 THEN l ELSE x[j]
    BY EditedIs
  <2> HIDE DEF y
  <2>2. Takes(Replaced(i, x[i + 1]), y, x)
    BY <2>1, ReplacedTakes
  <2>3. Leads(<<Replaced(i, x[i + 1])>> \o e, y, b)
    BY <2>2, FirstThen
  <2> QED
    BY <2>3 DEF y
<1> QED
  BY <1>1 DEF Free

\* A line recorded before anything is typed into it can be brought back.
LEMMA RecordedFirst ==
  ASSUME NEW x \in Text, NEW i \in 0 .. Len(x) - 1
  PROVE  Free(<<Replaced(i, x[i + 1])>>, x, i, x)
<1> DEFINE a == Replaced(i, x[i + 1])
<1>1. Leads(<<>>, x, x)
  BY NothingLeads DEF Leads
<1>2. Free(<<a>> \o <<>>, x, i, x)
  BY <1>1, RecordedFree
<1>3. a \in Action
  BY TextIs DEF Replaced, Action
<1>4. <<a>> \o <<>> = <<a>>
  BY <1>3
<1> QED
  BY <1>2, <1>4

\* Insert mode begins with an entry that leads back whatever is typed.
LEMMA InsertModeContinues ==
  ASSUME Sound, NEW h, Story(lines, cur, entry, undo, redo, h), InsertMode
  PROVE  Continues(h)
<1>1. /\ mode = "normal" /\ UNCHANGED <<lines, cur, undo, redo>> /\ mode' = "insert"
      /\ entry' = <<Replaced(cur, lines[cur + 1])>>
  BY DEF InsertMode, Typed
<1>2. h.text = lines /\ lines \in Text /\ cur \in 0 .. Len(lines) - 1
  BY <1>1, NormalIs DEF Sound
<1>3. Free(entry', lines', cur', h.text) /\ entry' # <<>>
  BY <1>1, <1>2, RecordedFirst
<1> QED
  BY <1>1, <1>2, <1>3, SameContinues

\* The entry of a new line leads back, and so does what is typed into it.
LEMMA NewLineContinues ==
  ASSUME Sound, NEW h, Story(lines, cur, entry, undo, redo, h), NEW i, NewLine(i)
  PROVE  Continues(h)
<1> DEFINE y == Paste(lines, i, <<EMPTY>>)
<1>1. /\ mode = "normal" /\ i \in {cur, cur + 1} /\ Len(lines) < MaxLines
      /\ lines' = y /\ cur' = i /\ mode' = "insert"
      /\ Record(<<Inserted(i, cur)>>) /\ entry' = <<Replaced(i, EMPTY)>>
  BY DEF NewLine, Command, Typed
<1>2. h.text = lines /\ lines \in Text /\ cur \in 0 .. Len(lines) - 1 /\ cur \in 0 .. MaxLines
  BY <1>1, NormalIs, TextIs DEF Sound
<1>3. i \in 0 .. Len(lines) /\ EMPTY \in Line /\ lines \in Seq(Line) /\ Len(lines) \in Nat
  BY <1>1, <1>2, TextIs, Constants DEF Sizes
<1>4. Takes(Inserted(i, cur), y, lines) /\ y \in Text /\ Len(y) = Len(lines) + 1
  BY <1>1, <1>2, <1>3, InsertedTakes
<1>5. y[i + 1] = EMPTY
  BY <1>3, PasteCut
<1> HIDE DEF y
<1>6. Leads(<<Inserted(i, cur)>>, lines', h.text)
  BY <1>1, <1>2, <1>4, OneLeads
<1>7. i \in 0 .. Len(y) - 1
  BY <1>3, <1>4
<1>8. Free(<<Replaced(i, y[i + 1])>>, y, i, y)
  BY <1>4, <1>7, RecordedFirst
<1>9. Free(entry', lines', cur', lines')
  BY <1>1, <1>5, <1>8
<1> QED
  BY <1>1, <1>6, <1>7, <1>9, RecordContinues

\* The entry of an insert mode leads back to the text of before it.
LEMMA EscapeContinues ==
  ASSUME Sound, NEW h, Story(lines, cur, entry, undo, redo, h), Escape
  PROVE  Continues(h)
<1>1. /\ mode' = "normal" /\ entry' = <<>> /\ UNCHANGED <<lines, cur>>
      /\ IF entry = <<>> THEN UNCHANGED <<undo, redo>> ELSE Record(entry)
  BY DEF Escape
<1>2. lines \in Text /\ cur \in 0 .. Len(lines) - 1
  BY DEF Sound
<1>3. CASE entry = <<>>
  <2>1. h.text = lines
    BY <1>3 DEF Story
  <2> QED
    BY <1>1, <1>2, <1>3, <2>1, SameContinues
<1>4. CASE entry # <<>>
  <2>1. Leads(entry, lines', h.text)
    BY <1>1, <1>2, StoryLeads
  <2> QED
    BY <1>1, <1>2, <1>4, <2>1, RecordContinues
<1> QED
  BY <1>3, <1>4

-----------------------------------------------------------------------------
\* One entry after the other.
LEMMA LeadsThen ==
  ASSUME NEW e, NEW f, NEW x, NEW y, NEW z, Leads(e, x, y), Leads(f, y, z)
  PROVE  Leads(e \o f, x, z)
<1> DEFINE n == Len(e)
           m == Len(f)
           g == e \o f
<1>1. PICK t : Leading(t, e, x, y)
  BY DEF Leads
<1>2. PICK s : Leading(s, f, y, z)
  BY DEF Leads
<1> DEFINE u == [k \in 0 .. n + m |-> IF k <= n THEN t[k] ELSE s[k - n]]
<1>3. /\ e \in Seq(Action) /\ n \in Nat /\ t \in [0 .. n -> Text] /\ t[0] = x /\ t[n] = y
      /\ \A k \in 1 .. n : Takes(e[k], t[k - 1], t[k])
  BY <1>1, LeadingIs
<1>4. /\ f \in Seq(Action) /\ m \in Nat /\ s \in [0 .. m -> Text] /\ s[0] = y /\ s[m] = z
      /\ \A k \in 1 .. m : Takes(f[k], s[k - 1], s[k])
  BY <1>2, LeadingIs
<1>5. /\ g \in Seq(Action) /\ Len(g) = n + m
      /\ \A k \in 1 .. n + m : g[k] = IF k <= n THEN e[k] ELSE f[k - n]
  BY ONLY <1>3, <1>4, ConcatIs
<1> HIDE DEF n, m, g
<1>6. u \in [0 .. n + m -> Text]
  <2>1. ASSUME NEW k \in 0 .. n + m PROVE (IF k <= n THEN t[k] ELSE s[k - n]) \in Text
    <3>1. CASE k <= n
      <4>1. k \in 0 .. n
        BY <1>3, <3>1
      <4> QED
        BY <1>3, <3>1, <4>1
    <3>2. CASE ~ (k <= n)
      <4>1. k - n \in 0 .. m
        BY <1>3, <1>4, <3>2
      <4> QED
        BY <1>4, <3>2, <4>1
    <3> QED
      BY <3>1, <3>2
  <2> QED
    BY <2>1
<1>7. \A k \in 0 .. n + m : u[k] = IF k <= n THEN t[k] ELSE s[k - n]
  OBVIOUS
<1> HIDE DEF u
<1>8. u[0] = x
  <2>1. 0 \in 0 .. n + m /\ 0 <= n
    BY <1>3, <1>4
  <2> QED
    BY <1>3, <1>7, <2>1
<1>9. u[n + m] = z
  <2>1. n + m \in 0 .. n + m /\ (n + m) - n = m /\ (n + m <= n <=> m = 0)
    BY <1>3, <1>4
  <2>2. CASE m = 0
    <3>1. n + m = n /\ y = z
      BY <1>3, <1>4, <2>2
    <3> QED
      BY <1>3, <1>7, <2>1, <2>2, <3>1
  <2>3. CASE m # 0
    BY <1>4, <1>7, <2>1, <2>3
  <2> QED
    BY <2>2, <2>3
<1>10. ASSUME NEW k \in 1 .. n + m PROVE Takes(g[k], u[k - 1], u[k])
  <2>0. k \in 0 .. n + m /\ k - 1 \in 0 .. n + m
    BY <1>3, <1>4
  <2>1. CASE k <= n
    <3>1. k \in 1 .. n /\ k - 1 <= n
      BY <1>3, <2>1
    <3>2. g[k] = e[k] /\ u[k] = t[k] /\ u[k - 1] = t[k - 1]
      BY <1>5, <1>7, <2>0, <2>1, <3>1
    <3> QED
      BY <1>3, <3>1, <3>2
  <2>2. CASE k > n
    <3>1. /\ k - n \in 1 .. m /\ ~ (k <= n) /\ (k - 1) - n = (k - n) - 1
          /\ (k - 1 <= n <=> k - 1 = n)
      BY <1>3, <1>4, <2>2
    <3>2. g[k] = f[k - n] /\ u[k] = s[k - n]
      BY <1>5, <1>7, <2>0, <3>1
    <3>3. u[k - 1] = s[(k - n) - 1]
      <4>1. CASE k - 1 = n
        <5>1. (k - n) - 1 = 0
          BY <1>3, <4>1
        <5> QED
          BY <1>3, <1>4, <1>7, <2>0, <3>1, <4>1, <5>1
      <4>2. CASE k - 1 # n
        BY <1>7, <2>0, <3>1, <4>2
      <4> QED
        BY <4>1, <4>2
    <3> QED
      BY <1>4, <3>1, <3>2, <3>3
  <2>3. k <= n \/ k > n
    BY <1>3
  <2> QED
    BY <2>1, <2>2, <2>3
<1>11. Leading(u, g, x, z)
  BY <1>5, <1>6, <1>8, <1>9, <1>10 DEF Leading
<1> QED
  BY <1>11 DEF Leads, g

\* In insert mode, an entry that has been begun leaves its line free.
LEMMA UnrecordedIs ==
  ASSUME NEW h, Story(lines, cur, entry, undo, redo, h), Edges = {}, ~ Unrecorded
  PROVE  entry # <<>> /\ Free(entry, lines, cur, h.text)
<1>1. entry # <<>>
  BY DEF Unrecorded
<1> QED
  BY <1>1 DEF Story

\* What is typed into the current line leaves its entry good.
LEMMA TypeContinues ==
  ASSUME Sound, NEW h, Story(lines, cur, entry, undo, redo, h), Edges = {},
         NEW l \in Line, Type(l)
  PROVE  Continues(h)
<1> DEFINE y == [lines EXCEPT ![cur + 1] = l]
<1>1. mode = "insert" /\ ~ Unrecorded /\ lines' = y /\ UNCHANGED <<cur, undo, redo, mode, entry>>
  BY DEF Type
<1>2. lines \in Text /\ cur \in 0 .. Len(lines) - 1
  BY DEF Sound
<1>3. lines \in Seq(Line) /\ cur + 1 \in 1 .. Len(lines)
  BY <1>2, TextIs
<1>4. y \in Text /\ Len(y) = Len(lines)
  BY <1>2, EditedIs
<1>5. entry # <<>> /\ Free(entry, lines, cur, h.text)
  BY <1>1, UnrecordedIs
<1>6. Free(entry, y, cur, h.text)
  <2>1. ASSUME NEW k \in Line PROVE Leads(entry, [y EXCEPT ![cur + 1] = k], h.text)
    <3>1. [y EXCEPT ![cur + 1] = k] = [lines EXCEPT ![cur + 1] = k]
      BY <1>3, EditTwice
    <3>2. Leads(entry, [lines EXCEPT ![cur + 1] = k], h.text)
      BY <1>5 DEF Free
    <3> HIDE DEF y
    <3> QED
      BY <3>1, <3>2
  <2> HIDE DEF y
  <2> QED
    BY <2>1 DEF Free
<1> HIDE DEF y
<1> QED
  BY <1>1, <1>2, <1>4, <1>5, <1>6, SameContinues

\* An entry with a newer action is not empty.
LEMMA NotNothing ==
  ASSUME NEW a \in Action, NEW e \in Seq(Action)
  PROVE  <<a>> \o e # <<>>
<1>1. Len(<<a>> \o e) = Len(e) + 1 /\ Len(e) \in Nat
  BY OneMore
<1>2. Len(<<>>) = 0
  OBVIOUS
<1> QED
  BY <1>1, <1>2

\* A line that is gone to is recorded before it can change.
LEMMA ChangeLineContinues ==
  ASSUME Sound, NEW h, Story(lines, cur, entry, undo, redo, h), NEW i \in Rows, ChangeLine(i)
  PROVE  Continues(h)
<1>1. /\ UNCHANGED <<lines, undo, redo>> /\ cur' = i /\ mode' = "insert"
      /\ entry' = <<Replaced(i, lines[i + 1])>> \o entry
  BY DEF ChangeLine, Inserting, Typed
<1>2. lines \in Text /\ cur \in 0 .. Len(lines) - 1 /\ i \in 0 .. Len(lines) - 1
  BY DEF Sound, Rows, LastIdx
<1>3. Leads(entry, lines, h.text)
  BY <1>2, StoryLeads
<1>4. Free(<<Replaced(i, lines[i + 1])>> \o entry, lines, i, h.text)
  BY <1>2, <1>3, RecordedFree
<1>5. entry' # <<>>
  <2>1. Replaced(i, lines[i + 1]) \in Action /\ entry \in Seq(Action)
    BY <1>2, <1>3, TextIs, LeadsIs DEF Replaced, Action
  <2> QED
    BY <1>1, <2>1, NotNothing
<1> QED
  BY <1>1, <1>2, <1>4, <1>5, SameContinues

\* A line that is broken is brought together again.
LEMMA BreakLineContinues ==
  ASSUME Sound, NEW h, Story(lines, cur, entry, undo, redo, h), Edges = {},
         NEW l \in Line, NEW m \in Line, BreakLine(l, m)
  PROVE  Continues(h)
<1> DEFINE x == [Paste(lines, cur + 1, <<m>>) EXCEPT ![cur + 1] = l]
           a == Inserted(cur + 1, cur)
           y == [lines EXCEPT ![cur + 1] = l]
<1>1. /\ ~ Unrecorded /\ Len(lines) < MaxLines /\ lines' = x /\ cur' = cur + 1
      /\ UNCHANGED <<undo, redo>> /\ entry' = <<a>> \o entry /\ mode' = "insert"
  BY DEF BreakLine, Inserting, Typed
<1>2. lines \in Text /\ cur \in 0 .. Len(lines) - 1 /\ Len(lines) \in Nat
  BY TextIs DEF Sound
<1>3. /\ x \in Text /\ Len(x) = Len(lines) + 1
      /\ \A k \in Line : Takes(a, [x EXCEPT ![cur + 2] = k], y)
  BY <1>1, <1>2, BrokenTakes
<1>4. Free(entry, lines, cur, h.text)
  BY <1>1, UnrecordedIs
<1>5. Leads(entry, y, h.text)
  BY <1>4 DEF Free
<1> HIDE DEF x, y, a
<1>6. Free(<<a>> \o entry, x, cur + 1, h.text)
  <2>1. ASSUME NEW k \in Line
        PROVE  Leads(<<a>> \o entry, [x EXCEPT ![(cur + 1) + 1] = k], h.text)
    <3>1. (cur + 1) + 1 = cur + 2
      BY <1>2
    <3>2. Takes(a, [x EXCEPT ![cur + 2] = k], y)
      BY <1>3
    <3>3. Leads(<<a>> \o entry, [x EXCEPT ![cur + 2] = k], h.text)
      BY <1>5, <3>2, FirstThen
    <3> QED
      BY <3>1, <3>3
  <2> QED
    BY <2>1 DEF Free
<1>7. entry' # <<>>
  <2>1. a \in Action /\ entry \in Seq(Action)
    <3>1. entry \in Seq(Action)
      BY <1>5, LeadsIs
    <3>2. PICK k \in Line : TRUE
      BY Constants DEF Sizes
    <3> QED
      BY <1>3, <3>1, <3>2 DEF Takes
  <2> QED
    BY <1>1, <2>1, NotNothing
<1>8. cur + 1 \in 0 .. Len(x) - 1
  BY <1>2, <1>3
<1> QED
  BY <1>1, <1>3, <1>6, <1>7, <1>8, SameContinues

-----------------------------------------------------------------------------
\* What is kept of a history is its newest part.
LEMMA TrimPrefix ==
  ASSUME NEW S, NEW s \in Seq(S), Len(s) <= MaxUndo + 1
  PROVE  IsPrefix(Trim(s), s)
<1>1. Len(s) \in Nat /\ MaxUndo \in Nat
  BY Constants DEF Sizes
<1>2. CASE Len(s) > MaxUndo
  <2> DEFINE g == Front(s)
  <2>1. g = SubSeq(s, 1, Len(s) - 1) /\ Len(g) = Len(s) - 1 /\ g \in Seq(S)
    BY <1>1, <1>2, FrontIs
  <2>2. Trim(s) = g
    BY <1>2 DEF Trim
  <2> HIDE DEF g
  <2>3. SubSeq(g, 1, Len(g)) = g
    BY <2>1
  <2>4. Len(g) <= Len(s) /\ SubSeq(s, 1, Len(g)) = g
    BY <1>1, <2>1
  <2> QED
    BY <2>2, <2>3, <2>4 DEF IsPrefix
<1>3. CASE ~ (Len(s) > MaxUndo)
  <2>1. Trim(s) = s
    BY <1>3 DEF Trim
  <2> QED
    BY <1>1, <2>1 DEF IsPrefix
<1> QED
  BY <1>2, <1>3

\* What is left when an entry is pushed and popped again.
LEMMA PushedPopped ==
  ASSUME NEW h \in Seq(Seq(Action)), Len(h) <= MaxUndo + 1
  PROVE  Tail(Push(h, <<>>)) = Trim(h)
<1> DEFINE g == Trim(h)
<1>1. Push(h, <<>>) = <<<<>>>> \o g
  BY DEF Push, Trim
<1>2. g \in Seq(Seq(Action)) /\ <<>> \in Seq(Action)
  BY TrimIs
<1> HIDE DEF g
<1>3. Tail(<<<<>>>> \o g) = g
  BY <1>2, OneMore
<1> QED
  BY <1>1, <1>3 DEF g

\* What can be typed into the row that two rows have been joined to.
LEMMA MergedFree ==
  ASSUME NEW y \in Text, NEW i \in 0 .. Len(y) - 2, NEW l \in Line,
         NEW e, NEW b, Leads(e, y, b)
  PROVE  Free(<<Deleted(i + 1, y[i + 2]), Replaced(i, y[i + 1])>> \o e, Merged(y, i, l), i, b)
<1> DEFINE j == <<Deleted(i + 1, y[i + 2]), Replaced(i, y[i + 1])>>
           c == Cut(y, i + 1, 1)
<1>1. y \in Seq(Line) /\ i + 1 \in 0 .. Len(y) /\ 1 \in 0 .. Len(y) - (i + 1) /\ Len(y) \in Nat
  BY TextIs
<1>2. c \in Seq(Line) /\ Len(c) = Len(y) - 1
  BY <1>1, CutIs
<1> HIDE DEF c
<1>3. i + 1 \in 1 .. Len(c)
  BY <1>1, <1>2
<1>4. ASSUME NEW k \in Line
      PROVE  Leads(j \o e, [Merged(y, i, l) EXCEPT ![i + 1] = k], b)
  <2>1. [[c EXCEPT ![i + 1] = l] EXCEPT ![i + 1] = k] = [c EXCEPT ![i + 1] = k]
    BY <1>2, <1>3, EditTwice
  <2>2. [Merged(y, i, l) EXCEPT ![i + 1] = k] = Merged(y, i, k)
    BY <2>1 DEF Merged, c
  <2>3. Leads(j, Merged(y, i, k), y)
    BY JoinLeads
  <2> HIDE DEF j
  <2>4. Leads(j \o e, Merged(y, i, k), b)
    BY <2>3, LeadsThen
  <2> QED
    BY <2>2, <2>4
<1> HIDE DEF j
<1>5. Free(j \o e, Merged(y, i, l), i, b)
  BY <1>4 DEF Free
<1> QED
  BY <1>5 DEF j

\* The lines that BACKSPACE joins are parted again, and what has been popped and
\* dropped for it leaves both histories good.
LEMMA BackspaceJoinContinues ==
  ASSUME Sound, NEW h, Story(lines, cur, entry, undo, redo, h), Edges = {},
         NEW l \in Line, BackspaceJoin(l)
  PROVE  Continues(h)
<1> DEFINE c == cur - 1
           j == JoinEntry(c)
           x == Merged(lines, c, l)
           p == Trim(h.past)
           g == [text |-> h.text, past |-> p, future |-> <<>>]
<1>1. lines \in Text /\ cur \in 0 .. Len(lines) - 1 /\ Len(lines) \in Nat
  BY TextIs DEF Sound
<1>2. /\ CanJoin(c) /\ lines' = Joined(c, l) /\ cur' = c
      /\ undo' = Tail(Push(undo, <<>>)) /\ redo' = <<>>
      /\ entry' = j \o entry /\ mode' = "insert"
  BY DEF BackspaceJoin, Inserting, Typed
<1> HIDE DEF c
<1>3. /\ c \in 0 .. Len(lines) - 2 /\ c + 1 < Len(lines) - 1
      /\ j = <<Deleted(c + 1, lines[c + 2]), Replaced(c, lines[c + 1])>>
      /\ Joined(c, l) = x
  BY <1>1, <1>2, JoinIs
<1>4. x \in Text /\ Len(x) = Len(lines) - 1
  BY <1>1, <1>3, MergedHas DEF MergedIs
<1>5. Leads(entry, lines, h.text) /\ h \in Tale
  BY <1>1, StoryLeads
<1>6. Free(j \o entry, x, c, h.text)
  BY <1>1, <1>3, <1>5, MergedFree
<1>7. entry' # <<>>
  <2>1. Leads(j \o entry, [x EXCEPT ![c + 1] = l], h.text)
    BY <1>6 DEF Free
  <2>2. j \in Seq(Action) /\ Len(j) = 2 /\ entry \in Seq(Action)
    <3>1. Leads(j, x, lines)
      BY <1>1, <1>3, JoinLeads
    <3>2. Len(j) = 2
      BY <1>3
    <3> HIDE DEF j, x
    <3> QED
      BY <1>5, <3>1, <3>2, LeadsIs
  <2> HIDE DEF j
  <2>3. Len(j \o entry) = Len(j) + Len(entry)
    BY ONLY <2>2, ConcatIs
  <2>4. Len(entry) \in Nat
    BY <2>2
  <2>5. Len(j \o entry) # 0
    BY <2>2, <2>3, <2>4
  <2>6. Len(<<>>) = 0
    OBVIOUS
  <2> QED
    BY <1>2, <2>5, <2>6
<1>8. Tells(undo, h.text, h.past) /\ Len(undo) <= MaxUndo + 1
  BY DEF Story, Sound
<1>9. undo \in Seq(Seq(Action)) /\ h.past \in Seq(Text) /\ Len(h.past) = Len(undo) /\ h.text \in Text
  BY <1>8 DEF Tells
<1>10. undo' = Trim(undo) /\ Len(Trim(undo)) <= MaxUndo /\ Len(Trim(undo)) \in Nat
  <2>1. Trim(undo) \in Seq(Seq(Action)) /\ Len(Trim(undo)) <= MaxUndo
    BY <1>8, <1>9, TrimIs
  <2> QED
    BY <1>2, <1>8, <1>9, <2>1, PushedPopped
<1>11. Tells(undo', h.text, p)
  BY <1>8, <1>10, TellsTrim
<1>12. Tells(<<>>, h.text, <<>>)
  BY <1>9, TellsNothing
<1>13. IsPrefix(p, h.past)
  BY <1>8, <1>9, TrimPrefix
<1>14. p \in Seq(Text) /\ <<>> \in Seq(Text)
  BY <1>11, <1>12 DEF Tells
<1> HIDE DEF p, j, x
<1>15. g \in Tale /\ g.text = h.text /\ g.past = p /\ g.future = <<>>
  BY <1>9, <1>14 DEF Tale
<1> HIDE DEF g
<1>16. Story(lines', cur', entry', undo', redo', g)
  BY <1>2, <1>3, <1>6, <1>7, <1>11, <1>12, <1>15 DEF Story
<1>17. Moves(h, g)
  <2>1. History!IsPrefix(g.past, h.past)
    BY <1>13, <1>15 DEF IsPrefix, History!IsPrefix
  <2> QED
    BY <1>15, <2>1 DEF Moves, History!Forget
<1>18. Sound'
  <2>1. c \in 0 .. Len(x) - 1
    BY <1>1, <1>3, <1>4
  <2>2. Len(undo') <= MaxUndo + 1 /\ Len(redo') <= MaxUndo + 1
    BY <1>2, <1>10, Constants DEF Sizes
  <2> QED
    BY <1>2, <1>3, <1>4, <2>1, <2>2 DEF Sound
<1> QED
  BY <1>16, <1>17, <1>18 DEF Continues

\* Of no more than one row, none is left.
LEMMA TailOfOne ==
  ASSUME NEW S, NEW s \in Seq(S), s # <<>>, Len(s) <= 1
  PROVE  Tail(s) = <<>>
<1>1. Len(s) \in Nat /\ Len(s) # 0
  OBVIOUS
<1>2. Len(s) = 1
  BY <1>1
<1> DEFINE t == Tail(s)
<1>3. t \in Seq(S) /\ Len(t) = 0
  BY <1>2
<1> HIDE DEF t
<1>4. t = <<>>
  BY <1>3
<1> QED
  BY <1>4 DEF t

\* The join of DELETE with nothing else typed is an entry of its own.
LEMMA DeleteJoinContinues ==
  ASSUME Sound, NEW h, Story(lines, cur, entry, undo, redo, h), Edges = {},
         NEW l \in Line, DeleteJoin(l)
  PROVE  Continues(h)
<1>1. lines \in Text /\ cur \in 0 .. Len(lines) - 1 /\ Len(lines) \in Nat
  BY TextIs DEF Sound
<1>2. /\ mode = "insert" /\ mode' = mode /\ CanJoin(cur) /\ ~ (Len(entry) > 1)
      /\ Before.lines = lines
      /\ lines' = Joined(cur, l) /\ cur' = cur /\ Record(JoinEntry(cur))
      /\ entry' = IF entry = <<>> THEN <<>> ELSE Tail(entry)
  BY DEF DeleteJoin
<1>3. /\ cur \in 0 .. Len(lines) - 2 /\ cur + 1 < Len(lines) - 1
      /\ JoinEntry(cur) = <<Deleted(cur + 1, lines[cur + 2]), Replaced(cur, lines[cur + 1])>>
      /\ Joined(cur, l) = Merged(lines, cur, l)
  BY <1>1, <1>2, JoinIs
<1>4. h.text = lines
  BY <1>1, <1>2, StoryIs DEF Before
<1>5. Leads(JoinEntry(cur), lines', h.text)
  BY <1>1, <1>2, <1>3, <1>4, JoinLeads
<1>6. cur' \in 0 .. Len(lines') - 1
  <2>1. Len(lines') = Len(lines) - 1
    BY <1>1, <1>2, <1>3, MergedHas DEF MergedIs
  <2> QED
    BY <1>1, <1>2, <1>3, <2>1
<1>7. entry' = <<>>
  <2>1. CASE entry = <<>>
    BY <1>2, <2>1
  <2>2. CASE entry # <<>>
    <3>1. entry \in Seq(Action)
      BY <1>1, StoryLeads, LeadsIs
    <3>2. Len(entry) <= 1
      <4>1. ~ (Len(entry) > 1) /\ Len(entry) \in Nat
        BY <1>2, <3>1
      <4> QED
        BY ONLY <4>1
    <3>3. Tail(entry) = <<>>
      BY ONLY <2>2, <3>1, <3>2, TailOfOne
    <3> QED
      BY <1>2, <2>2, <3>3
  <2> QED
    BY <2>1, <2>2
<1> QED
  BY <1>2, <1>5, <1>6, <1>7, RecordContinues

-----------------------------------------------------------------------------
\* Every step goes on with the story of the history.
LEMMA NextContinues ==
  ASSUME Sound, NEW h, Story(lines, cur, entry, undo, redo, h), Edges = {}, [Next]_vars
  PROVE  Continues(h)
<1>1. CASE Undo
  BY <1>1, UndoContinues
<1>2. CASE Redo
  BY <1>2, RedoContinues
<1>3. CASE InsertMode
  BY <1>3, InsertModeContinues
<1>4. CASE Escape
  BY <1>4, EscapeContinues
<1>5. ASSUME NEW i \in Rows, Move(i) PROVE Continues(h)
  BY <1>5, MoveContinues
<1>6. ASSUME NEW i \in Rows, ChangeLine(i) PROVE Continues(h)
  BY <1>6, ChangeLineContinues
<1>7. ASSUME NEW i, NewLine(i) PROVE Continues(h)
  BY <1>7, NewLineContinues
<1>8. ASSUME NEW n \in 1 .. Len(lines), DeleteLines(n) PROVE Continues(h)
  BY <1>8, DeleteLinesContinues
<1>9. ASSUME NEW rs \in UNION {[1 .. n -> Line] : n \in 1 .. 2}, PutAfter(rs) \/ PutBefore(rs)
      PROVE  Continues(h)
  <2>1. PICK n \in 1 .. 2 : rs \in [1 .. n -> Line]
    OBVIOUS
  <2>2. rs \in Seq(Line)
    BY <2>1
  <2> QED
    BY <1>9, <2>2, PutAfterContinues, PutBeforeContinues
<1>10. ASSUME NEW l \in Line,
              \/ Change(l) \/ Join(l) \/ Type(l) \/ BackspaceJoin(l) \/ DeleteJoin(l)
       PROVE  Continues(h)
  BY <1>10, ChangeContinues, JoinContinues, TypeContinues, BackspaceJoinContinues,
     DeleteJoinContinues
<1>11. ASSUME NEW l \in Line, NEW m \in Line, BreakLine(l, m) PROVE Continues(h)
  BY <1>11, BreakLineContinues
<1>12. ASSUME NEW l \in Line, NEW n \in 1 .. Len(lines), NEW rows \in [1 .. n -> Rows],
              ChangeAll(rows, l)
       PROVE  Continues(h)
  BY <1>12, ChangeAllContinues
<1>13. ASSUME NEW l \in Line, NEW n \in 0 .. Len(lines), NEW rows \in [1 .. n -> Rows],
              ChangeBlock(rows, l)
       PROVE  Continues(h)
  BY <1>13, ChangeBlockContinues
<1>14. CASE UNCHANGED vars
  <2>1. /\ lines' = lines /\ cur' = cur /\ undo' = undo /\ redo' = redo /\ mode' = mode
        /\ entry' = entry
    BY <1>14 DEF vars
  <2>2. Sound' /\ Story(lines', cur', entry', undo', redo', h)
    BY <2>1 DEF Sound
  <2> QED
    BY <2>2 DEF Continues, Moves
<1> QED
  BY <1>1, <1>2, <1>3, <1>4, <1>5, <1>6, <1>7, <1>8, <1>9, <1>10, <1>11, <1>12, <1>13, <1>14
     DEF Next

-----------------------------------------------------------------------------
\* At the start there is nothing to go back to.
LEMMA InitStory ==
  ASSUME Init
  PROVE  UndoInv
<1>1. PICK n \in 1 .. MaxLines : lines \in [1 .. n -> Line]
  BY DEF Init
<1>2. lines \in Text /\ Len(lines) = n /\ n \in Nat /\ n > 0
  BY <1>1, Constants DEF Text, Sizes
<1>3. /\ cur = 0 /\ undo = <<>> /\ redo = <<>> /\ mode = "normal" /\ entry = <<>>
  BY DEF Init
<1> DEFINE h == [text |-> lines, past |-> <<>>, future |-> <<>>]
<1>4. Tells(<<>>, lines, <<>>)
  BY <1>2, TellsNothing
<1>5. h \in Tale /\ h.text = lines /\ h.past = <<>> /\ h.future = <<>>
  BY <1>2, <1>4 DEF Tale, Tells
<1> HIDE DEF h
<1>6. Story(lines, cur, entry, undo, redo, h)
  BY <1>3, <1>4, <1>5 DEF Story
<1>7. Len(<<>>) = 0 /\ 0 <= MaxUndo + 1
  BY Constants DEF Sizes
<1>8. 0 \in 0 .. Len(lines) - 1
  BY <1>2
<1>9. Sound
  BY <1>2, <1>3, <1>7, <1>8 DEF Sound
<1> QED
  BY <1>6, <1>9 DEF UndoInv

\* As long as none of the situations that E gets wrong occurs, the entries of
\* both histories lead, one after the other, through texts of the buffer, and
\* the entry of an insert mode leads back to the text of before it whatever is
\* typed into the current line.
THEOREM EntriesLead == Edges = {} /\ Spec => []UndoInv
<1> SUFFICES ASSUME Edges = {} PROVE Spec => []UndoInv
  OBVIOUS
<1>1. Init => UndoInv
  BY InitStory
<1>2. UndoInv /\ [Next]_vars => UndoInv'
  <2> SUFFICES ASSUME UndoInv, [Next]_vars PROVE UndoInv'
    OBVIOUS
  <2>1. PICK h : Story(lines, cur, entry, undo, redo, h)
    BY DEF UndoInv
  <2>2. Continues(h)
    BY <2>1, NextContinues DEF UndoInv
  <2> QED
    BY <2>2 DEF Continues, UndoInv
<1> QED
  BY <1>1, <1>2, PTL DEF Spec

\* What a history is made of.
LEMMA TellsEntries ==
  ASSUME NEW h, NEW x, NEW ts, Tells(h, x, ts), NEW i \in DOMAIN h
  PROVE  IsEntry(h[i])
<1>1. h \in Seq(Seq(Action))
  BY DEF Tells
<1>2. h[i] \in Seq(Action)
  BY <1>1
<1>3. \A k \in DOMAIN h[i] : h[i][k] \in Action
  BY <1>2
<1> QED
  BY <1>3 DEF IsEntry, Action

\* What the invariant says of the types.
LEMMA StoryTypes ==
  ASSUME UndoInv
  PROVE  TypeOK
<1>1. PICK h : Story(lines, cur, entry, undo, redo, h)
  BY DEF UndoInv
<1>2. /\ lines \in Text /\ cur \in 0 .. Len(lines) - 1 /\ mode \in {"normal", "insert"}
      /\ Len(undo) <= MaxUndo + 1 /\ Len(redo) <= MaxUndo + 1
  BY DEF UndoInv, Sound
<1>3. lines \in Seq(Line) /\ Len(lines) \in 1 .. MaxLines /\ cur \in 0 .. LastIdx(lines)
  BY <1>2 DEF Text, LastIdx
<1>4. Tells(undo, h.text, h.past) /\ Tells(redo, h.text, h.future)
  BY <1>1 DEF Story
<1>5. \A g \in {undo, redo} : \A i \in DOMAIN g : IsEntry(g[i])
  BY <1>4, TellsEntries
<1>6. entry \in Seq(Action)
  BY <1>1, <1>2, StoryLeads, LeadsIs
<1>7. \A k \in DOMAIN entry : entry[k] \in Action
  BY <1>6
<1>8. IsEntry(entry)
  BY <1>7 DEF IsEntry, Action
<1> QED
  BY <1>2, <1>3, <1>5, <1>8 DEF TypeOK

\* The buffer has from one to MaxLines lines and the cursor is on one of them,
\* no history exceeds its limit, and all that is recorded is an action.
THEOREM TypeCorrect == Edges = {} /\ Spec => []TypeOK
<1>1. UndoInv => TypeOK
  BY StoryTypes
<1> QED
  BY <1>1, EntriesLead, PTL

-----------------------------------------------------------------------------
\* The actions of the entry e find their lines, from the text x and the row c.
Meets(e, x, c) ==
  \A k \in DOMAIN e :
    e[k].idx <= LastIdx(Reversal(e, x, c)[k - 1].lines)
                  + IF e[k].type = "DELETE_LINE" THEN 1 ELSE 0

\* The actions of an entry that leads somewhere find their lines.
LEMMA LeadsMeets ==
  ASSUME NEW e, NEW x, NEW y, Leads(e, x, y), NEW c \in 0 .. Len(x) - 1
  PROVE  Meets(e, x, c)
<1>1. PICK t : Leading(t, e, x, y)
  BY DEF Leads
<1>2. e \in Seq(Action) /\ Len(e) \in Nat /\ \A k \in 1 .. Len(e) : Takes(e[k], t[k - 1], t[k])
  BY <1>1, LeadingIs
<1>3. ASSUME NEW k \in 1 .. Len(e)
      PROVE  e[k].idx <= LastIdx(Reversal(e, x, c)[k - 1].lines)
                           + IF e[k].type = "DELETE_LINE" THEN 1 ELSE 0
  <2>1. k - 1 \in 0 .. Len(e)
    BY <1>2
  <2>2. Reversal(e, x, c)[k - 1] \in Reached(t, k - 1)
    BY <1>1, <2>1, ReversalIs
  <2>3. Reversal(e, x, c)[k - 1].lines = t[k - 1]
    BY <2>2 DEF Reached
  <2> DEFINE z == t[k - 1]
             a == e[k]
  <2>4. a \in Action /\ z \in Text /\ Finds(a, z)
    BY <1>2 DEF Takes
  <2> HIDE DEF z, a
  <2>5. Len(z) \in Nat /\ a.idx \in Nat
    BY <2>4, Constants DEF Text, Action, Sizes
  <2>6. a.idx <= LastIdx(z) + IF a.type = "DELETE_LINE" THEN 1 ELSE 0
    <3>1. CASE a.type = "DELETE_LINE"
      BY <2>4, <2>5, <3>1 DEF Finds, LastIdx
    <3>2. CASE a.type # "DELETE_LINE"
      BY <2>4, <2>5, <3>2 DEF Finds, LastIdx
    <3> QED
      BY <3>1, <3>2
  <2> QED
    BY <2>3, <2>6 DEF z, a
<1>4. DOMAIN e = 1 .. Len(e)
  BY <1>2
<1> QED
  BY <1>3, <1>4 DEF Meets

\* So do those of the entries of a history that tells of texts.
LEMMA TellsMeets ==
  ASSUME NEW h, NEW x, NEW ts, Tells(h, x, ts), NEW c \in 0 .. Len(x) - 1, NEW i \in DOMAIN h
  PROVE  Meets(h[i], Passed(h, x, c)[i - 1].lines, Passed(h, x, c)[i - 1].cur)
<1> DEFINE us == [k \in 0 .. Len(h) |-> IF k = 0 THEN x ELSE ts[k]]
           s == Passed(h, x, c)[i - 1]
<1>1. Recalling(us, h, x)
  BY TellsRecalling
<1> HIDE DEF us
<1>2. h \in Seq(Seq(Action)) /\ \A k \in 1 .. Len(h) : Leads(h[k], us[k - 1], us[k])
  BY <1>1 DEF Recalling
<1>3. i \in 1 .. Len(h) /\ i - 1 \in 0 .. Len(h)
  <2>1. DOMAIN h = 1 .. Len(h) /\ Len(h) \in Nat
    BY <1>2
  <2> QED
    BY ONLY <2>1
<1>4. s \in At(us[i - 1])
  BY <1>1, <1>3, PassedIs
<1> HIDE DEF s
<1>5. s.lines = us[i - 1] /\ s.cur \in 0 .. Len(s.lines) - 1
  BY <1>4 DEF At
<1>6. Leads(h[i], s.lines, us[i])
  BY <1>2, <1>3, <1>5
<1>7. Meets(h[i], s.lines, s.cur)
  BY <1>5, <1>6, LeadsMeets
<1> QED
  BY <1>7 DEF s

\* What the invariant says of the indices that were recorded.
LEMMA StoryMeets ==
  ASSUME UndoInv
  PROVE  EveryIndexMet
<1>1. PICK h : Story(lines, cur, entry, undo, redo, h)
  BY DEF UndoInv
<1>2. lines \in Text /\ cur \in 0 .. Len(lines) - 1
  BY DEF UndoInv, Sound
<1>3. Before.lines = h.text /\ Before.cur \in 0 .. Len(h.text) - 1
  BY <1>1, <1>2, StoryIs DEF Before
<1>4. Tells(undo, h.text, h.past) /\ Tells(redo, h.text, h.future)
  BY <1>1 DEF Story
<1>5. ASSUME NEW g \in {undo, redo}, NEW i \in DOMAIN g
      PROVE  Meets(g[i], Passed(g, Before.lines, Before.cur)[i - 1].lines,
                         Passed(g, Before.lines, Before.cur)[i - 1].cur)
  BY <1>3, <1>4, TellsMeets
<1> QED
  BY <1>5 DEF EveryIndexMet, Meets

\* Every action of every entry finds its line when its turn comes: no index that
\* a command has recorded is out of the buffer when it is used.
THEOREM IndicesMet == Edges = {} /\ Spec => []EveryIndexMet
<1>1. UndoInv => EveryIndexMet
  BY StoryMeets
<1> QED
  BY <1>1, EntriesLead, PTL

-----------------------------------------------------------------------------
\* A history without entries tells of no text.
LEMMA NothingTold ==
  ASSUME NEW x, NEW ts, Tells(<<>>, x, ts)
  PROVE  ts = <<>>
<1>1. ts \in Seq(Text) /\ Len(ts) = 0
  BY DEF Tells
<1> QED
  BY ONLY <1>1

\* The history that the user is promised is the one of the story.
Promised == Only({Told(b) : b \in {Before}})

\* The story of a state is the history it promises.
LEMMA PromisedNow ==
  ASSUME NEW h, Sound, Story(lines, cur, entry, undo, redo, h)
  PROVE  Promised = h
<1>1. Tell(Reverted(entry, lines, cur), undo, redo) = h
  BY StoryIs DEF Sound
<1>2. {Told(b) : b \in {Before}} = {h}
  BY <1>1 DEF Told, Tell, Before
<1> QED
  BY <1>2, OnlyIs DEF Promised

\* The same after a step.
LEMMA PromisedNext ==
  ASSUME NEW h, Sound', Story(lines', cur', entry', undo', redo', h)
  PROVE  Promised' = h
<1>1. lines' \in Text /\ cur' \in 0 .. Len(lines') - 1
  BY DEF Sound
<1>2. Tell(Reverted(entry', lines', cur'), undo', redo') = h
  BY <1>1, StoryIs
<1>3. {Told(b) : b \in {Before}}' = {h}
  BY <1>2 DEF Told, Tell, Before
<1> QED
  BY <1>3, OnlyIs DEF Promised

\* Undo brings back the text of before the command and redo the text of after it,
\* for as many commands as are kept, whatever has been recorded and wherever the
\* cursor is: the editor implements the history of Timeline.
THEOREM Refinement == Edges = {} /\ Spec => HistoryRefined
<1> SUFFICES ASSUME Edges = {} PROVE Spec => HistoryRefined
  OBVIOUS
<1>1. Init => History!Init
  <2> SUFFICES ASSUME Init PROVE History!Init
    OBVIOUS
  <2>1. PICK h : Story(lines, cur, entry, undo, redo, h)
    BY InitStory DEF UndoInv
  <2>2. Promised = h
    BY <2>1, InitStory, PromisedNow DEF UndoInv
  <2>3. undo = <<>> /\ redo = <<>>
    BY DEF Init
  <2>4. Tells(undo, h.text, h.past) /\ Tells(redo, h.text, h.future)
    BY <2>1 DEF Story
  <2>5. h.past = <<>> /\ h.future = <<>>
    BY <2>3, <2>4, NothingTold
  <2> QED
    BY <2>2, <2>5 DEF History!Init, Promised
<1>2. UndoInv /\ [Next]_vars => [History!Next]_Promised
  <2> SUFFICES ASSUME UndoInv, [Next]_vars PROVE [History!Next]_Promised
    OBVIOUS
  <2>1. Sound
    BY DEF UndoInv
  <2>2. PICK h : Story(lines, cur, entry, undo, redo, h)
    BY DEF UndoInv
  <2>3. Continues(h)
    BY <2>1, <2>2, NextContinues
  <2>4. PICK g : Story(lines', cur', entry', undo', redo', g) /\ Moves(h, g)
    BY <2>3 DEF Continues
  <2>5. Sound'
    BY <2>3 DEF Continues
  <2>6. Promised = h /\ Promised' = g
    BY <2>1, <2>2, <2>4, <2>5, PromisedNow, PromisedNext
  <2>7. CASE g = h
    BY <2>6, <2>7
  <2>8. CASE g # h
    <3>1. \E b \in {Promised}, a \in {Promised'} :
            \/ History!Command(b, a) \/ History!Undo(b, a) \/ History!Redo(b, a)
            \/ History!Forget(b, a)
      BY <2>4, <2>6, <2>8 DEF Moves
    <3>2. History!Next
      BY <3>1 DEF History!Next, Promised
    <3> QED
      BY <3>2
  <2> QED
    BY <2>7, <2>8
<1>3. UndoInv /\ [Next]_vars => [History!Next]_(Only({Told(b) : b \in {Before}}))
  BY <1>2 DEF Promised
<1> QED
  BY <1>1, <1>3, EntriesLead, PTL DEF Spec, HistoryRefined, History!Spec

=============================================================================
