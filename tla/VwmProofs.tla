----------------------------- MODULE VwmProofs -----------------------------
(***************************************************************************)
(* Proofs about Vwm, for every number of windows, every height of the      *)
(* terminal and every count before a command.                              *)
(***************************************************************************)
EXTENDS Vwm, Foundations, FiniteSetTheorems

Frame == [rows : Int, proc : {"none", "starting", "running", "held", "zombie"}, tty : Int]
Window == [frames : Seq(Frame), cur : Nat, last : Nat, rows : Rows, max : {2, 3},
           started : BOOLEAN]

\* A window of r rows has two for each of n frames.
Wide(r, n) == r >= 3 * n - 1

\* The rows rs of one, two or three frames fill r rows.
Total(rs, n) == CASE n = 1 -> rs[1] [] n = 2 -> rs[1] + rs[2] [] OTHER -> rs[1] + rs[2] + rs[3]
Fill(rs, n, r) == Total(rs, n) + n - 1 = r /\ (Wide(r, n) => \A i \in 1 .. n : rs[i] >= 2)

RowsOf(fs) == [i \in 1 .. Len(fs) |-> fs[i].rows]

\* A window as the loop leaves it after every step.
Proper(w) ==
  /\ Len(w.frames) <= w.max
  /\ w.frames # <<>> =>
       /\ w.cur \in 1 .. Len(w.frames) /\ w.last \in 1 .. Len(w.frames)
       /\ Fill(RowsOf(w.frames), Len(w.frames), w.rows)

\* The place in the loop, and the frame that it is at.
Located ==
  /\ pc \in {"check", "scan", "select", "key", "reap", "read", "done"}
  /\ it \in Nat
  /\ wins = <<>> => pc \in {"check", "done"}
  /\ pc \in {"select", "key"} => frames # <<>>
  /\ pc = "reap" => it \in 1 .. Len(frames)
  /\ pc \in {"scan", "read"} => it \in 1 .. Len(frames) + 1
  /\ pc \in {"check", "select", "key", "done"} => it = 0

Linked ==
  wins # <<>> => /\ curWin \in 1 .. Len(wins)
                 /\ lastWin \in 1 .. Len(wins) \/ (lastWin = NULL /\ Len(wins) = 1)

WellFormed ==
  /\ wins \in Seq(Window) /\ Len(wins) <= MaxWins /\ screen \in Rows
  /\ \A w \in 1 .. Len(wins) : Proper(wins[w])
  /\ Linked

WinInv == WellFormed /\ Located

-----------------------------------------------------------------------------
\* The rows of a terminal are a number.
LEMMA Heights == Rows \subseteq Nat
BY VwmAssumption

\* win_frame_rows gives all of the rows to the frames, and at least 2 to each if
\* there are so many.
LEMMA ShareIs ==
  ASSUME NEW r \in Rows, NEW n \in 1 .. 3
  PROVE  Share(r, n) \in [1 .. n -> Int] /\ Fill(Share(r, n), n, r)
<1> DEFINE avail == r - (n - 1)
           each == IF avail < 0 THEN 0 ELSE avail \div n
           first == avail - (n - 1) * each
<1>1. r \in Nat /\ r \in Int
  BY Heights
<1>2. avail \in Int
  BY <1>1
<1>3. Share(r, n) = [i \in 1 .. n |-> IF i = 1 THEN first ELSE each]
  BY DEF Share
<1>4. each \in Nat /\ first \in Int /\ (Wide(r, n) => first >= 2 /\ each >= 2)
  <2>1. CASE avail < 0
    <3>1. each = 0 /\ first = avail
      BY <1>2, <2>1
    <3>2. ~ Wide(r, n)
      BY <1>1, <2>1 DEF Wide
    <3> HIDE DEF avail, each, first
    <3> QED
      BY <1>2, <3>1, <3>2
  <2>2. CASE ~ (avail < 0) /\ n = 1
    <3>1. each = avail \div 1 /\ avail \in Nat
      BY <1>2, <2>2
    <3>2. each \in Nat /\ first = avail
      BY <3>1, <2>2
    <3>3. avail = r
      BY <1>1, <2>2
    <3>4. each = r
      BY <1>1, <3>1, <3>3
    <3> HIDE DEF avail, each, first
    <3> QED
      BY <1>1, <2>2, <3>2, <3>3, <3>4 DEF Wide
  <2>3. CASE ~ (avail < 0) /\ n = 2
    <3>1. each = avail \div 2 /\ avail \in Nat /\ avail = r - 1
      BY <1>1, <1>2, <2>3
    <3>2. each \in Nat /\ first = avail - each
      BY <3>1, <2>3
    <3> HIDE DEF avail, each, first
    <3>3. avail >= 4 => each >= 2 /\ avail - each >= 2
      BY <3>1
    <3> QED
      BY <1>1, <2>3, <3>1, <3>2, <3>3 DEF Wide
  <2>4. CASE ~ (avail < 0) /\ n = 3
    <3>1. each = avail \div 3 /\ avail \in Nat /\ avail = r - 2
      BY <1>1, <1>2, <2>4
    <3>2. each \in Nat /\ first = avail - 2 * each
      BY <3>1, <2>4
    <3> HIDE DEF avail, each, first
    <3>3. avail >= 6 => each >= 2 /\ avail - 2 * each >= 2
      BY <3>1
    <3> QED
      BY <1>1, <2>4, <3>1, <3>2, <3>3 DEF Wide
  <2> QED
    BY <2>1, <2>2, <2>3, <2>4
<1>5. first = r - (n - 1) - (n - 1) * each
  OBVIOUS
<1> HIDE DEF first, each, avail
<1> DEFINE rs == Share(r, n)
<1>6. rs \in [1 .. n -> Int] /\ rs[1] = first /\ \A i \in 1 .. n : i # 1 => rs[i] = each
  BY <1>3, <1>4
<1> HIDE DEF rs
<1>7. Wide(r, n) => \A i \in 1 .. n : rs[i] >= 2
  BY <1>4, <1>6
<1>8. Total(rs, n) + n - 1 = r
  <2>1. CASE n = 1
    BY <1>1, <1>4, <1>5, <1>6, <2>1 DEF Total
  <2>2. CASE n = 2
    BY <1>1, <1>4, <1>5, <1>6, <2>2 DEF Total
  <2>3. CASE n = 3
    BY <1>1, <1>4, <1>5, <1>6, <2>3 DEF Total
  <2> QED
    BY <2>1, <2>2, <2>3
<1> QED
  BY <1>6, <1>7, <1>8 DEF Fill, rs

\* Only the rows of the first n matter.
LEMMA FillSame ==
  ASSUME NEW a, NEW b, NEW n \in 1 .. 3, NEW r, Fill(a, n, r), \A i \in 1 .. n : b[i] = a[i]
  PROVE  Fill(b, n, r)
BY DEF Fill, Total

\* The frames fs when they are given the rows rs.
LEMMA ResizedIs ==
  ASSUME NEW fs \in Seq(Frame), NEW rs \in [1 .. Len(fs) -> Int]
  PROVE  /\ Resized(fs, rs) \in Seq(Frame) /\ Len(Resized(fs, rs)) = Len(fs)
         /\ \A i \in 1 .. Len(fs) : /\ Resized(fs, rs)[i].rows = rs[i]
                                    /\ Resized(fs, rs)[i].proc = fs[i].proc
<1> DEFINE f(i) == [fs[i] EXCEPT !.rows = rs[i],
                                 !.tty = IF fs[i].proc \in {"none", "starting"} THEN @ ELSE rs[i]]
<1>1. ASSUME NEW i \in 1 .. Len(fs)
      PROVE  f(i) \in Frame /\ f(i).rows = rs[i] /\ f(i).proc = fs[i].proc
  <2>1. fs[i] \in Frame /\ rs[i] \in Int
    OBVIOUS
  <2> QED
    BY <2>1 DEF Frame
<1>2. Resized(fs, rs) = [i \in 1 .. Len(fs) |-> f(i)]
  BY DEF Resized
<1> HIDE DEF f
<1> QED
  BY <1>1, <1>2

\* The frames fs when programs have been forked for them.
LEMMA ForkedIs ==
  ASSUME NEW fs \in Seq(Frame), NEW failed
  PROVE  /\ Forked(fs, failed) \in Seq(Frame) /\ Len(Forked(fs, failed)) = Len(fs)
         /\ \A i \in 1 .. Len(fs) : Forked(fs, failed)[i].rows = fs[i].rows
<1> DEFINE f(i) == IF fs[i].proc # "none" \/ i \in failed THEN fs[i]
                   ELSE [fs[i] EXCEPT !.proc = "starting", !.tty = fs[i].rows]
<1>1. ASSUME NEW i \in 1 .. Len(fs) PROVE f(i) \in Frame /\ f(i).rows = fs[i].rows
  <2>1. fs[i] \in Frame
    OBVIOUS
  <2> QED
    BY <2>1 DEF Frame
<1>2. Forked(fs, failed) = [i \in 1 .. Len(fs) |-> f(i)]
  BY DEF Forked
<1> HIDE DEF f
<1> QED
  BY <1>1, <1>2

\* The same of one frame.
LEMMA ForkedOne ==
  ASSUME NEW g \in Frame, NEW failed
  PROVE  Forked(<<g>>, failed)[1] \in Frame /\ Forked(<<g>>, failed)[1].rows = g.rows
<1> DEFINE s == <<g>>
<1>1. s \in Seq(Frame) /\ Len(s) = 1 /\ s[1] = g
  OBVIOUS
<1> HIDE DEF s
<1>2. /\ Forked(s, failed) \in Seq(Frame) /\ Len(Forked(s, failed)) = 1
      /\ Forked(s, failed)[1].rows = g.rows
  BY <1>1, ForkedIs
<1>3. Forked(s, failed)[1] \in Frame
  BY <1>2
<1> QED
  BY <1>2, <1>3 DEF s

\* Frames with the same rows fill the same window.
LEMMA FillsSame ==
  ASSUME NEW fs \in Seq(Frame), NEW gs \in Seq(Frame), Len(fs) \in 1 .. 3,
         Len(gs) = Len(fs), NEW r, Fill(RowsOf(fs), Len(fs), r),
         \A i \in 1 .. Len(fs) : gs[i].rows = fs[i].rows
  PROVE  Fill(RowsOf(gs), Len(gs), r)
BY FillSame DEF RowsOf

\* What is known of the current window.
LEMMA CurrentWindow ==
  ASSUME WellFormed, wins # <<>>
  PROVE  /\ curWin \in 1 .. Len(wins) /\ win \in Window /\ Proper(win)
         /\ frames = win.frames /\ frames \in Seq(Frame) /\ Len(frames) \in 0 .. 3
         /\ win.max \in {2, 3} /\ win.cur \in Nat /\ win.last \in Nat /\ win.rows \in Rows
<1>1. /\ curWin \in 1 .. Len(wins) /\ wins \in Seq(Window)
      /\ \A w \in 1 .. Len(wins) : Proper(wins[w])
  BY DEF WellFormed, Linked
<1>2. win \in Window /\ Proper(win) /\ frames = win.frames
  BY <1>1 DEF win, frames
<1>3. /\ win.frames \in Seq(Frame) /\ win.max \in {2, 3} /\ win.cur \in Nat
      /\ win.last \in Nat /\ win.rows \in Rows
  BY <1>2 DEF Window
<1>4. Len(win.frames) <= 3 /\ Len(win.frames) \in Nat
  BY <1>2, <1>3 DEF Proper
<1>5. frames \in Seq(Frame) /\ Len(frames) \in 0 .. 3
  <2>1. frames = win.frames
    BY <1>2
  <2>2. frames \in Seq(Frame)
    BY <1>3, <2>1
  <2>3. Len(frames) = Len(win.frames)
    BY <2>1
  <2>4. Len(win.frames) \in 0 .. 3
    <3> DEFINE n == Len(win.frames)
    <3>1. n \in Nat /\ n <= 3
      BY <1>4
    <3> HIDE DEF n
    <3>2. n \in 0 .. 3
      BY <3>1
    <3> QED
      BY <3>2 DEF n
  <2> QED
    BY <2>2, <2>3, <2>4
<1> QED
  BY <1>1, <1>2, <1>3, <1>5

\* One window is replaced by another: the current one stays in range.
LEMMA ReplaceKeeps ==
  ASSUME WellFormed, NEW w \in Window, Proper(w), wins # <<>>,
         wins' = [wins EXCEPT ![curWin] = w], UNCHANGED <<curWin, lastWin, screen>>
  PROVE  WellFormed' /\ Len(wins') = Len(wins) /\ wins' # <<>> /\ frames' = w.frames
<1>1. /\ wins \in Seq(Window) /\ curWin \in 1 .. Len(wins) /\ Len(wins) <= MaxWins
      /\ \A v \in 1 .. Len(wins) : Proper(wins[v])
      /\ screen \in Rows /\ Linked
  BY CurrentWindow DEF WellFormed
<1>2. wins' \in Seq(Window) /\ Len(wins') = Len(wins) /\ Len(wins) \in Nat /\ Len(wins) >= 1
  BY <1>1
<1>3. wins' # <<>> /\ wins'[curWin] = w
  BY <1>1, <1>2
<1>4. \A v \in 1 .. Len(wins') : Proper(wins'[v])
  BY <1>1, <1>2
<1>5. frames' = w.frames
  BY <1>3 DEF frames, win
<1>6. Linked'
  BY <1>1, <1>2, <1>3 DEF Linked
<1>7. WellFormed'
  BY <1>1, <1>2, <1>3, <1>4, <1>6 DEF WellFormed
<1> QED
  BY <1>2, <1>3, <1>5, <1>7

\* What win_delete_frame makes of the window w when frame k goes: the frames that
\* are left, the current one, and the window.
Rest(w, k) == IF Len(w.frames) = 1 THEN <<>>
              ELSE Resized(RemoveAt(w.frames, k), Share(w.rows, Len(w.frames) - 1))
NewCur(w, k) == Current(w.cur, k, Len(w.frames))
Without(w, k) ==
  [w EXCEPT !.frames = Rest(w, k), !.cur = NewCur(w, k),
            !.last = LastOf(Shifted(w.last, k), NewCur(w, k), Len(w.frames) - 1)]

\* The window that has lost a frame is proper again.
LEMMA DeleteProper ==
  ASSUME NEW w \in Window, Proper(w), NEW k \in 1 .. Len(w.frames)
  PROVE  /\ Without(w, k) \in Window /\ Proper(Without(w, k))
         /\ Len(Without(w, k).frames) = Len(w.frames) - 1
<1> DEFINE n == Len(w.frames)
           c == NewCur(w, k)
           fs == Rest(w, k)
           l == LastOf(Shifted(w.last, k), c, n - 1)
           v == Without(w, k)
<1>1. /\ w.frames \in Seq(Frame) /\ w.cur \in Nat /\ w.last \in Nat /\ w.rows \in Rows
      /\ w.max \in {2, 3}
  BY DEF Window
<1>2. n \in 1 .. 3 /\ k \in 1 .. n /\ n <= w.max /\ w.cur \in 1 .. n /\ w.last \in 1 .. n
  <2>1. n \in Nat /\ n >= 1 /\ w.frames # <<>>
    BY <1>1
  <2>2. n <= w.max /\ w.cur \in 1 .. n /\ w.last \in 1 .. n
    BY <1>1, <2>1 DEF Proper
  <2> HIDE DEF n
  <2>3. n <= 3
    BY <1>1, <2>1, <2>2
  <2>4. n \in 1 .. 3
    BY <2>1, <2>3
  <2>5. k \in 1 .. n
    BY DEF n
  <2> QED
    BY <2>2, <2>4, <2>5
<1>3. c \in Nat /\ (n > 1 => c \in 1 .. n - 1)
  BY <1>2 DEF Current, NewCur
<1>4. l \in Nat /\ (n > 1 => l \in 1 .. n - 1)
  <2> DEFINE p == Shifted(w.last, k)
  <2>1. p \in Nat /\ (n > 1 => p \in 0 .. n - 1)
    BY <1>2 DEF Shifted, FREED
  <2>2. l = IF n - 1 > 0 /\ p \in {0, c} THEN OtherThan(c, n - 1) ELSE p
    BY DEF LastOf, FREED
  <2> HIDE DEF p, n
  <2>3. OtherThan(c, n - 1) \in Nat /\ (n > 1 => OtherThan(c, n - 1) \in 1 .. n - 1)
    BY <1>2, <1>3 DEF OtherThan
  <2> QED
    BY <1>2, <2>1, <2>2, <2>3
<1>5. fs \in Seq(Frame) /\ Len(fs) = n - 1 /\ (n > 1 => Fill(RowsOf(fs), n - 1, w.rows))
  <2>1. CASE n = 1
    BY <2>1 DEF Rest
  <2>2. CASE n # 1
    <3> DEFINE gs == RemoveAt(w.frames, k)
               rs == Share(w.rows, n - 1)
    <3>1. gs \in Seq(Frame) /\ Len(gs) = n - 1
      BY <1>1, RemoveIs
    <3>2. n - 1 \in 1 .. 3 /\ rs \in [1 .. n - 1 -> Int] /\ Fill(rs, n - 1, w.rows)
      <4>1. n - 1 \in 1 .. 3
        BY <1>2, <2>2
      <4> HIDE DEF n
      <4> QED
        BY <1>1, <4>1, ShareIs
    <3>3. fs = Resized(gs, rs)
      BY <2>2 DEF Rest
    <3> HIDE DEF gs, rs, n
    <3>4. /\ fs \in Seq(Frame) /\ Len(fs) = n - 1
          /\ \A i \in 1 .. n - 1 : fs[i].rows = rs[i]
      BY <3>1, <3>2, <3>3, ResizedIs
    <3>5. Fill(RowsOf(fs), n - 1, w.rows)
      BY <3>2, <3>4, FillSame DEF RowsOf
    <3> QED
      BY <3>4, <3>5
  <2> QED
    BY <2>1, <2>2
<1>6. v = [w EXCEPT !.frames = fs, !.cur = c, !.last = l]
  BY DEF Without
<1> HIDE DEF n, fs, c, l, v
<1>7. v \in Window /\ v.frames = fs /\ v.cur = c /\ v.last = l /\ v.rows = w.rows /\ v.max = w.max
  BY <1>3, <1>4, <1>5, <1>6 DEF Window
<1>8. fs # <<>> => n > 1
  BY <1>2, <1>5
<1>9. Proper(v)
  BY <1>1, <1>2, <1>3, <1>4, <1>5, <1>7, <1>8 DEF Proper
<1> QED
  BY <1>5, <1>7, <1>9 DEF n, v

\* win_delete_frame of a frame of the current window.
LEMMA Deleted ==
  ASSUME WellFormed, wins # <<>>, NEW k \in 1 .. Len(frames), Delete(k)
  PROVE  /\ WellFormed' /\ wins' # <<>> /\ Len(wins') = Len(wins) /\ curWin' = curWin
         /\ Len(frames') = Len(frames) - 1
<1>1. win \in Window /\ Proper(win) /\ frames = win.frames
  BY CurrentWindow
<1>2. k \in 1 .. Len(win.frames)
  BY <1>1
<1>3. /\ Without(win, k) \in Window /\ Proper(Without(win, k))
      /\ Len(Without(win, k).frames) = Len(win.frames) - 1
  BY <1>1, <1>2, DeleteProper
<1>4. wins' = [wins EXCEPT ![curWin] = Without(win, k)] /\ UNCHANGED <<curWin, lastWin, screen>>
  BY <1>1 DEF Delete, win, Without, NewCur, Rest
<1>5. /\ WellFormed' /\ Len(wins') = Len(wins) /\ wins' # <<>>
      /\ frames' = Without(win, k).frames
  BY <1>3, <1>4, ReplaceKeeps
<1> QED
  BY <1>1, <1>3, <1>4, <1>5

\* The first visit of a window changes no rows.
LEMMA OpenedProper ==
  ASSUME NEW w \in Window, Proper(w), NEW failed
  PROVE  Opened(w, failed) \in Window /\ Proper(Opened(w, failed))
<1> DEFINE fs == IF w.started THEN w.frames ELSE Forked(w.frames, failed)
           v == Opened(w, failed)
<1>1. w.frames \in Seq(Frame) /\ w.max \in {2, 3}
  BY DEF Window
<1>2. /\ fs \in Seq(Frame) /\ Len(fs) = Len(w.frames)
      /\ \A i \in 1 .. Len(fs) : fs[i].rows = w.frames[i].rows
  BY <1>1, ForkedIs
<1>3. v = [w EXCEPT !.frames = fs, !.started = TRUE]
  BY DEF Opened
<1> HIDE DEF fs, v
<1>4. /\ v \in Window /\ v.frames = fs /\ v.cur = w.cur /\ v.last = w.last
      /\ v.rows = w.rows /\ v.max = w.max
  BY <1>2, <1>3 DEF Window
<1>5. Len(fs) <= v.max
  BY <1>2, <1>4 DEF Proper
<1>6. ASSUME fs # <<>> PROVE Fill(RowsOf(fs), Len(fs), w.rows) /\ w.frames # <<>>
  <2> DEFINE n == Len(fs)
  <2>1. n \in Nat /\ n > 0 /\ n <= v.max /\ v.max \in {2, 3}
    BY <1>1, <1>2, <1>4, <1>5, <1>6
  <2> HIDE DEF n
  <2>2. n \in 1 .. 3
    BY <2>1
  <2>3. Len(fs) \in 1 .. 3 /\ Len(w.frames) \in 1 .. 3 /\ w.frames # <<>>
    BY <1>1, <1>2, <1>6, <2>2 DEF n
  <2>4. Fill(RowsOf(w.frames), Len(w.frames), w.rows)
    BY <2>3 DEF Proper
  <2> QED
    BY <1>1, <1>2, <2>3, <2>4, FillsSame
<1>7. Proper(v)
  <2>1. w.frames # <<>> => w.cur \in 1 .. Len(w.frames) /\ w.last \in 1 .. Len(w.frames)
    BY DEF Proper
  <2> QED
    BY <1>2, <1>4, <1>5, <1>6, <2>1 DEF Proper
<1> QED
  BY <1>4, <1>7 DEF v

\* The window that a change is made to is opened; the windows stay as many.
LEMMA OpenedWins ==
  ASSUME WellFormed, NEW i \in 1 .. Len(wins), NEW failed
  PROVE  LET ws == [wins EXCEPT ![i] = Opened(@, failed)]
         IN  /\ ws \in Seq(Window) /\ Len(ws) = Len(wins)
             /\ \A w \in 1 .. Len(ws) : Proper(ws[w])
<1>1. wins \in Seq(Window) /\ \A w \in 1 .. Len(wins) : Proper(wins[w])
  BY DEF WellFormed
<1> DEFINE v == Opened(wins[i], failed)
           ws == [wins EXCEPT ![i] = v]
<1>2. v \in Window /\ Proper(v)
  <2>1. wins[i] \in Window /\ Proper(wins[i])
    BY <1>1
  <2> QED
    BY <2>1, OpenedProper
<1> HIDE DEF v
<1>3. ws \in Seq(Window) /\ Len(ws) = Len(wins)
  BY <1>1, <1>2
<1>4. \A w \in 1 .. Len(ws) : Proper(ws[w])
  BY <1>1, <1>2, <1>3
<1> QED
  BY <1>3, <1>4 DEF v

-----------------------------------------------------------------------------
\* What is known where: the window has a frame in select and at a key.
LEMMA HasFrames ==
  ASSUME WinInv, pc \in {"select", "key", "reap"}
  PROVE  wins # <<>> /\ frames # <<>> /\ Len(frames) \in 1 .. 3
<1>1. wins # <<>>
  BY DEF WinInv, Located
<1>2. frames \in Seq(Frame) /\ Len(frames) \in 0 .. 3
  BY <1>1, CurrentWindow DEF WinInv
<1>3. frames # <<>>
  <2>1. CASE pc = "reap"
    BY <2>1, <1>2 DEF WinInv, Located
  <2>2. CASE pc \in {"select", "key"}
    BY <2>2 DEF WinInv, Located
  <2> QED
    BY <2>1, <2>2
<1> DEFINE n == Len(frames)
<1>4. n \in 0 .. 3 /\ n # 0
  BY <1>2, <1>3
<1> HIDE DEF n
<1>5. n \in 1 .. 3
  BY <1>4
<1> QED
  BY <1>1, <1>3, <1>5 DEF n

\* The frames after a step are some number of frames.
LEMMA FramesAfter ==
  ASSUME WellFormed', wins' # <<>>
  PROVE  /\ frames' \in Seq(Frame) /\ Len(frames') \in Nat
         /\ 1 \in 1 .. Len(frames') + 1
<1>1. curWin' \in 1 .. Len(wins') /\ wins' \in Seq(Window)
  BY DEF WellFormed, Linked
<1>2. wins'[curWin'] \in Window
  BY <1>1
<1>3. frames' = wins'[curWin'].frames
  BY DEF frames, win
<1>4. frames' \in Seq(Frame) /\ Len(frames') \in Nat
  BY <1>2, <1>3 DEF Window
<1> DEFINE n == Len(frames')
<1>5. n \in Nat
  BY <1>4
<1> HIDE DEF n
<1>6. 1 \in 1 .. n + 1
  BY <1>5
<1> QED
  BY <1>4, <1>6 DEF n

\* After a key the loop is at the first pty, or at its beginning.
LEMMA DoneLocated ==
  ASSUME WellFormed', wins' # <<>>, Done
  PROVE  WinInv'
<1>1. (pc' = "read" /\ it' = 1) \/ (pc' = "check" /\ it' = 0)
  BY DEF Done, Goto
<1>2. 1 \in 1 .. Len(frames') + 1
  BY FramesAfter
<1>3. Located'
  BY <1>1, <1>2 DEF Located
<1> QED
  BY <1>3 DEF WinInv

\* A command changes the current window only.
LEMMA InWinKeeps ==
  ASSUME WellFormed, wins # <<>>, NEW w \in Window, Proper(w), InWin(w)
  PROVE  WinInv'
<1>1. wins' = [wins EXCEPT ![curWin] = w] /\ UNCHANGED <<curWin, lastWin, screen>> /\ Done
  BY DEF InWin
<1>2. WellFormed' /\ wins' # <<>>
  BY <1>1, ReplaceKeeps
<1> QED
  BY <1>1, <1>2, DoneLocated

\* One frame of a window is replaced by one with the same rows.
LEMMA SameRowsProper ==
  ASSUME NEW w \in Window, Proper(w), NEW i \in 1 .. Len(w.frames), NEW f \in Frame,
         f.rows = w.frames[i].rows
  PROVE  LET v == [w EXCEPT !.frames = [@ EXCEPT ![i] = f]] IN v \in Window /\ Proper(v)
<1> DEFINE fs == [w.frames EXCEPT ![i] = f]
           v == [w EXCEPT !.frames = fs]
<1>1. w.frames \in Seq(Frame) /\ w.max \in {2, 3} /\ w.frames # <<>>
  BY DEF Window
<1>2. /\ fs \in Seq(Frame) /\ Len(fs) = Len(w.frames)
      /\ \A j \in 1 .. Len(fs) : fs[j].rows = w.frames[j].rows
  BY <1>1
<1>3. /\ Len(w.frames) <= w.max /\ w.cur \in 1 .. Len(w.frames) /\ w.last \in 1 .. Len(w.frames)
      /\ Fill(RowsOf(w.frames), Len(w.frames), w.rows)
  BY <1>1 DEF Proper
<1>4. Len(w.frames) \in 1 .. 3
  <2> DEFINE n == Len(w.frames)
  <2>1. n \in Nat /\ n <= w.max /\ i \in 1 .. n
    BY <1>1, <1>3
  <2> HIDE DEF n
  <2>2. n \in 1 .. 3
    BY <1>1, <2>1
  <2> QED
    BY <2>2 DEF n
<1> HIDE DEF fs
<1>5. Fill(RowsOf(fs), Len(fs), w.rows)
  BY <1>1, <1>2, <1>3, <1>4, FillsSame
<1>6. v \in Window /\ v.frames = fs /\ v.cur = w.cur /\ v.last = w.last /\ v.rows = w.rows /\ v.max = w.max
  BY <1>2 DEF Window
<1> HIDE DEF v
<1>7. Proper(v)
  BY <1>2, <1>3, <1>5, <1>6 DEF Proper
<1> QED
  BY <1>6, <1>7 DEF v, fs

\* `!', `c'.
LEMMA KeyOpenKeeps ==
  ASSUME WinInv, pc = "key", KeyOpen
  PROVE  WinInv'
<1>1. WellFormed /\ wins # <<>> /\ frames # <<>> /\ Len(frames) \in 1 .. 3
  BY HasFrames DEF WinInv
<1>2. /\ win \in Window /\ Proper(win) /\ frames = win.frames
      /\ win.frames \in Seq(Frame)
  BY <1>1, CurrentWindow
<1>3. win.cur \in 1 .. Len(win.frames)
  <2>1. win.frames # <<>>
    BY <1>1, <1>2
  <2> QED
    BY <1>2, <2>1 DEF Proper
<1>4. PICK failed : InWin([win EXCEPT !.frames[win.cur] = Forked(<<@>>, failed)[1]])
  BY DEF KeyOpen
<1> DEFINE f == Forked(<<win.frames[win.cur]>>, failed)[1]
<1>5. f \in Frame /\ f.rows = win.frames[win.cur].rows
  <2> DEFINE g == win.frames[win.cur]
  <2>1. g \in Frame
    BY <1>2, <1>3
  <2> HIDE DEF g
  <2>2. Forked(<<g>>, failed)[1] \in Frame /\ Forked(<<g>>, failed)[1].rows = g.rows
    BY <2>1, ForkedOne
  <2> QED
    BY <2>2 DEF g
<1> HIDE DEF f
<1> DEFINE v == [win EXCEPT !.frames = [@ EXCEPT ![win.cur] = f]]
<1>6. v \in Window /\ Proper(v)
  BY <1>2, <1>3, <1>5, SameRowsProper
<1>7. InWin(v)
  BY <1>4 DEF f
<1> HIDE DEF v
<1> QED
  BY <1>1, <1>6, <1>7, InWinKeeps

\* win_frame_change: the pointers stay in the window.
LEMMA KeyFrameKeeps ==
  ASSUME WinInv, pc = "key", KeyFrame
  PROVE  WinInv'
<1>1. WellFormed /\ wins # <<>> /\ frames # <<>> /\ Len(frames) \in 1 .. 3
  BY HasFrames DEF WinInv
<1>2. win \in Window /\ Proper(win) /\ frames = win.frames /\ win.frames \in Seq(Frame)
  BY <1>1, CurrentWindow
<1>3. win.frames # <<>>
  BY <1>1, <1>2
<1>4. PICK i \in 1 .. Len(win.frames) : InWin([win EXCEPT !.last = win.cur, !.cur = i])
  <2>1. PICK i \in DOMAIN frames : InWin([win EXCEPT !.last = win.cur, !.cur = i])
    BY DEF KeyFrame
  <2>2. i \in 1 .. Len(win.frames)
    BY <1>2
  <2> QED
    BY <2>1, <2>2
<1> DEFINE v == [win EXCEPT !.last = win.cur, !.cur = i]
<1>5. win.cur \in 1 .. Len(win.frames)
  BY <1>2, <1>3 DEF Proper
<1>6. i \in Nat /\ win.cur \in Nat
  BY <1>2, <1>5
<1>7. /\ v \in Window /\ v.frames = win.frames /\ v.cur = i /\ v.last = win.cur
      /\ v.rows = win.rows /\ v.max = win.max
  BY <1>2, <1>6 DEF Window
<1> HIDE DEF v
<1>8. Proper(v)
  BY <1>2, <1>3, <1>5, <1>7 DEF Proper
<1> QED
  BY <1>1, <1>4, <1>7, <1>8, InWinKeeps DEF v

\* A frame that is added last is the current one; all are given their share.
LEMMA SplitProper ==
  ASSUME NEW w \in Window, Proper(w), w.frames # <<>>, Len(w.frames) < w.max, NEW failed
  PROVE  LET n == Len(w.frames) + 1
             fs == Resized(Append(w.frames, NewFrame(0)), Share(w.rows, n))
             v == [w EXCEPT !.frames = [fs EXCEPT ![n] = Forked(<<@>>, failed)[1]], !.cur = n]
         IN  v \in Window /\ Proper(v)
<1> DEFINE n == Len(w.frames) + 1
           new == Append(w.frames, NewFrame(0))
           rs == Share(w.rows, n)
           fs == Resized(new, rs)
           f == Forked(<<fs[n]>>, failed)[1]
           gs == [fs EXCEPT ![n] = f]
           v == [w EXCEPT !.frames = gs, !.cur = n]
<1>1. w.frames \in Seq(Frame) /\ w.max \in {2, 3} /\ w.rows \in Rows
  BY DEF Window
<1>2. n \in 2 .. 3 /\ n <= w.max /\ n \in Nat
  <2> DEFINE m == Len(w.frames)
  <2>1. m \in Nat /\ m # 0 /\ m < w.max /\ n = m + 1
    BY <1>1
  <2> HIDE DEF m, n
  <2> QED
    BY <1>1, <2>1
<1>3. new \in Seq(Frame) /\ Len(new) = n
  <2>1. NewFrame(0) \in Frame
    BY DEF NewFrame, Frame
  <2> QED
    BY <1>1, <2>1
<1>4. rs \in [1 .. n -> Int] /\ Fill(rs, n, w.rows)
  <2> HIDE DEF n
  <2>1. n \in 1 .. 3
    BY <1>2
  <2> QED
    BY <1>1, <2>1, ShareIs
<1> HIDE DEF new, rs, n
<1>5. /\ fs \in Seq(Frame) /\ Len(fs) = n
      /\ \A i \in 1 .. n : fs[i].rows = rs[i]
  BY <1>3, <1>4, ResizedIs
<1> HIDE DEF fs
<1>6. fs[n] \in Frame /\ f \in Frame /\ f.rows = fs[n].rows
  <2>1. fs[n] \in Frame
    BY <1>2, <1>5
  <2> QED
    BY <2>1, ForkedOne
<1> HIDE DEF f
<1>7. /\ gs \in Seq(Frame) /\ Len(gs) = n
      /\ \A i \in 1 .. n : gs[i].rows = rs[i]
  BY <1>2, <1>5, <1>6
<1> HIDE DEF gs
<1>8. Fill(RowsOf(gs), n, w.rows)
  <2>1. n \in 1 .. 3
    BY <1>2
  <2> QED
    BY <1>4, <1>7, <2>1, FillSame DEF RowsOf
<1>9. w.last \in 1 .. n
  <2>1. w.last \in 1 .. Len(w.frames)
    BY DEF Proper
  <2> QED
    BY <1>1, <2>1 DEF n
<1>10. /\ v \in Window /\ v.frames = gs /\ v.cur = n /\ v.last = w.last
       /\ v.rows = w.rows /\ v.max = w.max
  BY <1>2, <1>7 DEF Window
<1> HIDE DEF v
<1>11. Proper(v)
  BY <1>2, <1>7, <1>8, <1>9, <1>10 DEF Proper
<1> QED
  BY <1>10, <1>11 DEF v, gs, f, fs, new, rs, n

\* `s', `S'.
LEMMA KeySplitKeeps ==
  ASSUME WinInv, pc = "key", KeySplit
  PROVE  WinInv'
<1>1. WellFormed /\ wins # <<>> /\ frames # <<>> /\ Len(frames) \in 1 .. 3
  BY HasFrames DEF WinInv
<1>2. win \in Window /\ Proper(win) /\ frames = win.frames
  BY <1>1, CurrentWindow
<1>3. win.frames # <<>> /\ Len(win.frames) < win.max
  BY <1>1, <1>2 DEF KeySplit
<1> DEFINE n == Len(win.frames) + 1
           fs == Resized(Append(win.frames, NewFrame(0)), Share(win.rows, n))
           v(failed) == [win EXCEPT !.frames = [fs EXCEPT ![n] = Forked(<<@>>, failed)[1]],
                                    !.cur = n]
<1>4. PICK failed : InWin(v(failed))
  BY <1>2 DEF KeySplit
<1>5. v(failed) \in Window /\ Proper(v(failed))
  BY <1>2, <1>3, SplitProper
<1> HIDE DEF v
<1> QED
  BY <1>1, <1>4, <1>5, InWinKeeps

\* A new window of n frames, which get programs at its first visit.
LEMMA NewProper ==
  ASSUME NEW r \in Rows, NEW n \in 1 .. 3, NEW failed
  PROVE  LET new == [i \in 1 .. n |-> NewFrame(Share(r, n)[i])]
             v == [frames |-> Forked(new, failed), cur |-> 1, last |-> 1,
                   rows |-> r, max |-> 3, started |-> FALSE]
         IN  v \in Window /\ Proper(v)
<1> DEFINE rs == Share(r, n)
           new == [i \in 1 .. n |-> NewFrame(rs[i])]
           fs == Forked(new, failed)
           v == [frames |-> fs, cur |-> 1, last |-> 1, rows |-> r, max |-> 3,
                 started |-> FALSE]
<1>1. rs \in [1 .. n -> Int] /\ Fill(rs, n, r)
  BY ShareIs
<1> HIDE DEF rs
<1>2. \A i \in 1 .. n : NewFrame(rs[i]) \in Frame /\ NewFrame(rs[i]).rows = rs[i]
  BY <1>1 DEF NewFrame, Frame
<1>3. new \in Seq(Frame) /\ Len(new) = n /\ \A i \in 1 .. n : new[i].rows = rs[i]
  BY <1>2
<1> HIDE DEF new
<1>4. fs \in Seq(Frame) /\ Len(fs) = n /\ \A i \in 1 .. n : fs[i].rows = rs[i]
  BY <1>3, ForkedIs
<1> HIDE DEF fs
<1>5. Fill(RowsOf(fs), n, r)
  BY <1>1, <1>4, FillSame DEF RowsOf
<1>6. /\ v \in Window /\ v.frames = fs /\ v.cur = 1 /\ v.last = 1 /\ v.rows = r /\ v.max = 3
  BY <1>4 DEF Window
<1> HIDE DEF v
<1>7. Proper(v)
  BY <1>4, <1>5, <1>6 DEF Proper
<1> QED
  BY <1>6, <1>7 DEF v, fs, new, rs

\* A window is appended, and becomes the current one.
LEMMA AppendKeeps ==
  ASSUME WellFormed, wins # <<>>, NEW v \in Window, Proper(v), Len(wins) < MaxWins,
         wins' = Append(wins, v), curWin' = Len(wins) + 1, lastWin' = curWin,
         screen' = screen
  PROVE  WellFormed' /\ wins' # <<>>
<1>1. /\ wins \in Seq(Window) /\ curWin \in 1 .. Len(wins) /\ screen \in Rows
      /\ \A w \in 1 .. Len(wins) : Proper(wins[w])
  BY DEF WellFormed, Linked
<1>2. wins' \in Seq(Window) /\ Len(wins') = Len(wins) + 1 /\ Len(wins) \in Nat
  BY <1>1
<1>3. Len(wins') <= MaxWins /\ wins' # <<>>
  BY <1>2, VwmAssumption
<1>4. \A w \in 1 .. Len(wins') : Proper(wins'[w])
  BY <1>1, <1>2
<1>5. Linked'
  BY <1>1, <1>2 DEF Linked
<1> QED
  BY <1>1, <1>2, <1>3, <1>4, <1>5 DEF WellFormed

\* `n'.
LEMMA KeyNewWinKeeps ==
  ASSUME WinInv, pc = "key", NEW n \in Params \cup {1}, KeyNewWin(n)
  PROVE  WinInv'
<1>1. WellFormed /\ wins # <<>> /\ screen \in Rows
  BY HasFrames DEF WinInv, WellFormed
<1>2. n \in 1 .. 3
  <2>1. n <= 3 /\ n \in Nat \ {0}
    BY VwmAssumption DEF KeyNewWin
  <2> QED
    BY <2>1
<1> DEFINE new == [i \in 1 .. n |-> NewFrame(Share(screen, n)[i])]
           v(failed) == [frames |-> Forked(new, failed), cur |-> 1, last |-> 1,
                         rows |-> screen, max |-> 3, started |-> FALSE]
<1>3. PICK failed : wins' = Append(wins, v(failed))
  BY DEF KeyNewWin
<1>4. v(failed) \in Window /\ Proper(v(failed))
  BY <1>1, <1>2, NewProper
<1> HIDE DEF v
<1>5. /\ Len(wins) < MaxWins /\ curWin' = Len(wins) + 1 /\ lastWin' = curWin
      /\ screen' = screen /\ Done
  BY DEF KeyNewWin
<1>6. WellFormed' /\ wins' # <<>>
  BY <1>1, <1>3, <1>4, <1>5, AppendKeeps
<1> QED
  BY <1>5, <1>6, DoneLocated

\* `h', `l', the key of the last window, and the function keys.
LEMMA KeyWinKeeps ==
  ASSUME WinInv, pc = "key", NEW i \in DOMAIN wins, KeyWin(i)
  PROVE  WinInv'
<1>1. WellFormed /\ wins # <<>> /\ wins \in Seq(Window) /\ Len(wins) <= MaxWins
      /\ screen \in Rows /\ curWin \in 1 .. Len(wins)
  BY HasFrames DEF WinInv, WellFormed, Linked
<1>2. i \in 1 .. Len(wins)
  BY <1>1
<1>3. /\ Len(wins) > 1 /\ lastWin' = curWin /\ curWin' = i /\ screen' = screen /\ Done
  BY DEF KeyWin, ChangeWin
<1>4. PICK failed : wins' = [wins EXCEPT ![i] = Opened(@, failed)]
  BY DEF KeyWin, ChangeWin
<1>5. /\ wins' \in Seq(Window) /\ Len(wins') = Len(wins)
      /\ \A w \in 1 .. Len(wins') : Proper(wins'[w])
  BY <1>1, <1>2, <1>4, OpenedWins
<1>6. WellFormed' /\ wins' # <<>>
  <2>1. wins' # <<>>
    BY <1>3, <1>5
  <2>2. Linked'
    BY <1>1, <1>2, <1>3, <1>5 DEF Linked
  <2> QED
    BY <1>1, <1>3, <1>5, <2>1, <2>2 DEF WellFormed
<1> QED
  BY <1>3, <1>6, DoneLocated

\* A window without frames goes; the one before it, which is opened, and the
\* other pointer stay in the list.
LEMMA CloseWinKeeps ==
  ASSUME WinInv, CloseWin
  PROVE  WinInv'
<1> DEFINE n == Len(wins)
<1>1. /\ WellFormed /\ wins # <<>> /\ wins \in Seq(Window) /\ Len(wins) <= MaxWins
      /\ screen \in Rows /\ curWin \in 1 .. Len(wins)
      /\ \A w \in 1 .. Len(wins) : Proper(wins[w])
  BY DEF CloseWin, WinInv, WellFormed, Linked
<1>2. pc' = "check" /\ it' = 0 /\ screen' = screen
  BY DEF CloseWin, Goto
<1>3. CASE n = 1
  <2>1. wins' = <<>>
    BY <1>3 DEF CloseWin
  <2>2. WellFormed'
    BY <1>1, <1>2, <2>1, VwmAssumption DEF WellFormed, Linked
  <2> QED
    BY <1>2, <2>1, <2>2 DEF WinInv, Located
<1>4. CASE n # 1
  <2>1. n \in Nat /\ n >= 2 /\ curWin \in 1 .. n
    <3>1. n \in Nat /\ n # 0 /\ curWin \in 1 .. n
      BY <1>1
    <3> HIDE DEF n
    <3> QED
      BY <1>4, <3>1
  <2>2. Prev \in 1 .. n /\ Prev # curWin
    <3>1. Prev = IF curWin > 1 THEN curWin - 1 ELSE n
      BY DEF Prev
    <3> HIDE DEF n
    <3> QED
      BY <2>1, <3>1
  <2>3. PICK failed : wins' = RemoveAt([wins EXCEPT ![Prev] = Opened(@, failed)], curWin)
    BY <1>4 DEF CloseWin
  <2>4. curWin' = Current(Prev, curWin, n) /\ lastWin' = OtherThan(curWin', n - 1)
    BY <1>4 DEF CloseWin
  <2> DEFINE ws == [wins EXCEPT ![Prev] = Opened(@, failed)]
  <2>5. ws \in Seq(Window) /\ Len(ws) = n /\ \A w \in 1 .. n : Proper(ws[w])
    BY <1>1, <2>2, OpenedWins
  <2> HIDE DEF ws
  <2>6. curWin \in 1 .. Len(ws)
    BY <2>1, <2>5
  <2>7. /\ wins' \in Seq(Window) /\ Len(wins') = n - 1
        /\ \A w \in 1 .. n - 1 : wins'[w] = IF w < curWin THEN ws[w] ELSE ws[w + 1]
    BY <2>3, <2>5, <2>6, RemoveIs DEF ws
  <2> HIDE DEF n
  <2>8. \A w \in 1 .. n - 1 : Proper(wins'[w])
    BY <2>1, <2>5, <2>7
  <2>9. curWin' \in 1 .. n - 1 /\ lastWin' \in 1 .. n - 1
    <3>1. curWin' \in 1 .. n - 1
      BY <2>1, <2>2, <2>4 DEF Current, Prev, n
    <3> QED
      BY <2>1, <2>4, <3>1 DEF OtherThan
  <2>10. WellFormed'
    <3>1. n - 1 <= MaxWins
      BY <1>1, <2>1, VwmAssumption DEF n
    <3> QED
      BY <1>1, <1>2, <2>7, <2>8, <2>9, <3>1 DEF WellFormed, Linked
  <2> QED
    BY <1>2, <2>10 DEF WinInv, Located
<1> QED
  BY <1>3, <1>4

\* vwm_handle_sigwinch: a window whose frames are given their share of r rows.
LEMMA ResizeProper ==
  ASSUME NEW w \in Window, Proper(w), NEW r \in Rows
  PROVE  LET v == [w EXCEPT !.rows = r, !.frames = Resized(@, Share(r, Len(@)))]
         IN  v \in Window /\ Proper(v)
<1> DEFINE n == Len(w.frames)
           rs == Share(r, n)
           fs == Resized(w.frames, rs)
           v == [w EXCEPT !.rows = r, !.frames = fs]
<1>1. w.frames \in Seq(Frame) /\ w.max \in {2, 3} /\ n <= w.max /\ n \in Nat
  BY DEF Window, Proper
<1>2. fs \in Seq(Frame) /\ Len(fs) = n /\ (n # 0 => Fill(RowsOf(fs), n, r))
  <2>1. CASE n = 0
    <3>1. w.frames = <<>>
      BY <1>1, <2>1
    <3>2. fs = <<>>
      BY <3>1 DEF Resized
    <3> HIDE DEF fs
    <3>3. fs \in Seq(Frame) /\ Len(fs) = 0
      BY <3>2
    <3> QED
      BY <2>1, <3>3
  <2>2. CASE n # 0
    <3>1. n \in 1 .. 3
      <4> HIDE DEF n
      <4> QED
        BY <1>1, <2>2
    <3>2. rs \in [1 .. n -> Int] /\ Fill(rs, n, r)
      <4> HIDE DEF n
      <4> QED
        BY <3>1, ShareIs
    <3> HIDE DEF rs
    <3>3. fs \in Seq(Frame) /\ Len(fs) = n /\ \A i \in 1 .. n : fs[i].rows = rs[i]
      BY <1>1, <3>2, ResizedIs
    <3> HIDE DEF fs, n
    <3>4. Fill(RowsOf(fs), n, r)
      BY <3>1, <3>2, <3>3, FillSame DEF RowsOf
    <3> QED
      BY <3>3, <3>4
  <2> QED
    BY <2>1, <2>2
<1> HIDE DEF fs
<1>3. /\ v \in Window /\ v.frames = fs /\ v.cur = w.cur /\ v.last = w.last /\ v.rows = r
      /\ v.max = w.max
  BY <1>2 DEF Window
<1>4. fs # <<>> => n # 0 /\ w.frames # <<>>
  BY <1>1, <1>2
<1>5. w.frames # <<>> => w.cur \in 1 .. n /\ w.last \in 1 .. n
  BY DEF Proper
<1> HIDE DEF n, v
<1>6. Proper(v)
  BY <1>1, <1>2, <1>3, <1>4, <1>5 DEF Proper
<1> QED
  BY <1>3, <1>6 DEF v, fs, rs, n

\* Every window is given the new rows.
LEMMA ResizeKeeps ==
  ASSUME WinInv, NEW r \in Rows, Resize(r)
  PROVE  WinInv'
<1>1. /\ wins \in Seq(Window) /\ Len(wins) <= MaxWins /\ Linked
      /\ \A w \in 1 .. Len(wins) : Proper(wins[w])
  BY DEF WinInv, WellFormed
<1> DEFINE v(w) == [wins[w] EXCEPT !.rows = r, !.frames = Resized(@, Share(r, Len(@)))]
<1>2. \A w \in 1 .. Len(wins) : v(w) \in Window /\ Proper(v(w))
  <2> TAKE w \in 1 .. Len(wins)
  <2>1. wins[w] \in Window /\ Proper(wins[w])
    BY <1>1
  <2> QED
    BY <2>1, ResizeProper
<1>3. wins' = [w \in 1 .. Len(wins) |-> v(w)]
  <2>1. wins' = [w \in DOMAIN wins |-> v(w)]
    BY DEF Resize
  <2>2. DOMAIN wins = 1 .. Len(wins)
    BY <1>1
  <2> HIDE DEF v
  <2> QED
    BY <2>1, <2>2
<1> HIDE DEF v
<1>4. /\ wins' \in Seq(Window) /\ Len(wins') = Len(wins)
      /\ \A w \in 1 .. Len(wins') : Proper(wins'[w])
  BY <1>1, <1>2, <1>3
<1>5. /\ frames # <<>> /\ pc' = "scan" /\ it' = 1 /\ screen' = r
      /\ curWin' = curWin /\ lastWin' = lastWin
  BY DEF Resize, Goto
<1>6. wins # <<>>
  BY <1>5 DEF frames
<1>7. wins' # <<>> /\ Linked'
  BY <1>1, <1>4, <1>5, <1>6 DEF Linked
<1>8. WellFormed'
  BY <1>1, <1>4, <1>5, <1>7 DEF WellFormed
<1>9. 1 \in 1 .. Len(frames') + 1
  BY <1>7, <1>8, FramesAfter
<1> QED
  BY <1>5, <1>7, <1>8, <1>9 DEF WinInv, Located

\* What the program of a frame does.
ProgramStep(w, i) == Starts(w, i) \/ Dies(w, i) \/ LetsGo(w, i)

\* A program starts or ends: its frame stays where it is.
LEMMA SetProcKeeps ==
  ASSUME WinInv, NEW w \in DOMAIN wins, NEW i \in DOMAIN wins[w].frames,
         NEW from, NEW p \in {"running", "held", "zombie"}, SetProc(w, i, from, p)
  PROVE  WinInv'
<1>1. /\ wins \in Seq(Window) /\ Len(wins) <= MaxWins /\ Linked /\ screen \in Rows
      /\ \A v \in 1 .. Len(wins) : Proper(wins[v])
  BY DEF WinInv, WellFormed
<1>2. w \in 1 .. Len(wins) /\ wins[w] \in Window /\ Proper(wins[w])
  BY <1>1
<1>3. wins[w].frames \in Seq(Frame)
  BY <1>2 DEF Window
<1>4. i \in 1 .. Len(wins[w].frames) /\ wins[w].frames[i] \in Frame
  BY <1>3
<1> DEFINE f == [wins[w].frames[i] EXCEPT !.proc = p]
           v == [wins[w] EXCEPT !.frames = [@ EXCEPT ![i] = f]]
<1>5. f \in Frame /\ f.rows = wins[w].frames[i].rows
  BY <1>4 DEF Frame
<1>6. /\ wins' = [wins EXCEPT ![w].frames[i] = f]
      /\ UNCHANGED <<curWin, lastWin, screen, pc, it>>
  BY DEF SetProc
<1>7. wins' = [wins EXCEPT ![w] = v]
  BY <1>6
<1> HIDE DEF f
<1>8. v \in Window /\ Proper(v)
  BY <1>2, <1>4, <1>5, SameRowsProper
<1>9. Len(v.frames) = Len(wins[w].frames)
  BY <1>2, <1>3, <1>4, <1>5 DEF Window
<1> HIDE DEF v
<1>10. wins' \in Seq(Window) /\ Len(wins') = Len(wins) /\ wins # <<>> /\ wins' # <<>>
  BY <1>1, <1>2, <1>7, <1>8
<1>11. \A u \in 1 .. Len(wins') : Proper(wins'[u])
  BY <1>1, <1>2, <1>7, <1>8, <1>10
<1>12. WellFormed'
  BY <1>1, <1>6, <1>10, <1>11 DEF WellFormed, Linked
<1>13. Len(frames') = Len(frames) /\ (frames # <<>> => frames' # <<>>)
  <2>1. curWin \in 1 .. Len(wins)
    BY <1>1, <1>10 DEF Linked
  <2>2. frames = wins[curWin].frames /\ frames' = wins'[curWin].frames
    BY <1>6, <1>10 DEF frames, win
  <2>3. Len(frames') = Len(frames)
    <3>1. CASE curWin = w
      BY <1>1, <1>7, <1>9, <2>1, <2>2, <3>1
    <3>2. CASE curWin # w
      BY <1>1, <1>7, <2>1, <2>2, <3>2
    <3> QED
      BY <3>1, <3>2
  <2>4. frames \in Seq(Frame) /\ frames' \in Seq(Frame)
    BY <1>10, <1>12, CurrentWindow, FramesAfter DEF WinInv
  <2> QED
    BY <2>3, <2>4
<1>14. Located'
  BY <1>6, <1>10, <1>13 DEF WinInv, Located
<1> QED
  BY <1>12, <1>14 DEF WinInv

\* A step that goes on without touching the windows.
LEMMA GoesOn ==
  ASSUME WinInv, UNCHANGED winVars, Located'
  PROVE  WinInv'
BY DEF WinInv, WellFormed, Linked, winVars

\* The steps that only go on.
LEMMA MovesOn ==
  ASSUME WinInv,
         End \/ NoResize \/ ScanNext \/ ScanEnd \/ Select \/ ReadNext \/ ReadBeyond \/ ReadEnd
           \/ AllocFails \/ (pc = "key" /\ (KeyDivides \/ KeyKill \/ KeyQuit))
  PROVE  WinInv'
<1>1. UNCHANGED winVars
  BY DEF End, NoResize, ScanNext, ScanEnd, Select, ReadNext, ReadBeyond, ReadEnd, AllocFails,
         KeyDivides, KeyKill, KeyQuit
<1>2. wins' = wins /\ frames' = frames
  BY <1>1 DEF winVars, frames, win
<1>3. Located
  BY DEF WinInv
<1>4. ASSUME wins # <<>>
      PROVE  /\ frames \in Seq(Frame) /\ Len(frames) \in 0 .. 3 /\ 1 \in 1 .. Len(frames) + 1
             /\ DOMAIN frames = 1 .. Len(frames)
  <2>1. frames \in Seq(Frame) /\ Len(frames) \in 0 .. 3
    BY <1>4, CurrentWindow DEF WinInv
  <2> DEFINE n == Len(frames)
  <2>2. n \in 0 .. 3
    BY <2>1
  <2> HIDE DEF n
  <2>3. 1 \in 1 .. n + 1
    BY <2>2
  <2> QED
    BY <2>1, <2>3 DEF n
<1>5. CASE End
  BY <1>1, <1>2, <1>5, GoesOn DEF End, Goto, Located
<1>6. CASE NoResize
  <2>1. wins # <<>> /\ pc' = "scan" /\ it' = 1
    BY <1>6 DEF NoResize, Goto, frames
  <2> QED
    BY <1>1, <1>2, <1>4, <2>1, GoesOn DEF Located
<1>7. CASE ScanNext \/ ReadNext
  <2>1. pc \in {"scan", "read"} /\ pc' = pc /\ it' = it + 1 /\ it \in DOMAIN frames /\ wins # <<>>
    BY <1>3, <1>7 DEF ScanNext, ReadNext, Goto, Located
  <2>2. it + 1 \in 1 .. Len(frames) + 1 /\ it + 1 \in Nat
    <3> DEFINE n == Len(frames)
    <3>1. n \in 0 .. 3 /\ it \in 1 .. n
      BY <1>4, <2>1
    <3> HIDE DEF n
    <3>2. it + 1 \in 1 .. n + 1 /\ it + 1 \in Nat
      BY <3>1
    <3> QED
      BY <3>2 DEF n
  <2> QED
    BY <1>1, <1>2, <2>1, <2>2, GoesOn DEF Located
<1>8. CASE ScanEnd \/ ReadEnd
  <2>1. pc \in {"scan", "read"} /\ it' = 0 /\ wins # <<>>
    BY <1>3, <1>8 DEF ScanEnd, ReadEnd, Goto, Located
  <2>2. pc' \in {"check", "select"} /\ (pc' = "select" => ~ NoProgram)
    BY <1>8 DEF ScanEnd, ReadEnd, Goto
  <2>3. frames = <<>> => NoProgram
    BY DEF NoProgram
  <2> QED
    BY <1>1, <1>2, <2>1, <2>2, <2>3, GoesOn DEF Located
<1>9. CASE Select
  <2>1. /\ wins # <<>> /\ frames # <<>>
        /\ \/ pc' = "key" /\ it' = 0
           \/ pc' = "read" /\ it' = 1
           \/ pc' = "check" /\ it' = 0
    BY <1>3, <1>9, HasFrames DEF Select, Goto
  <2> QED
    BY <1>1, <1>2, <1>4, <2>1, GoesOn DEF Located
<1>10. CASE pc = "key" /\ KeyKill
  <2>1. wins # <<>> /\ frames # <<>> /\ pc' = "reap" /\ it' = win.cur
    BY <1>10, HasFrames DEF KeyKill, Goto
  <2>2. win.cur \in 1 .. Len(frames) /\ win.cur \in Nat
    <3>1. Proper(win) /\ frames = win.frames /\ win.cur \in Nat
      BY <2>1, CurrentWindow DEF WinInv
    <3> QED
      BY <2>1, <3>1 DEF Proper
  <2> QED
    BY <1>1, <1>2, <2>1, <2>2, GoesOn DEF Located
<1>11. CASE (pc = "key" /\ (KeyDivides \/ KeyQuit)) \/ ReadBeyond \/ AllocFails
  <2>1. pc' = "done" /\ it' = 0
    BY <1>11 DEF KeyDivides, KeyQuit, ReadBeyond, AllocFails, Goto
  <2> QED
    BY <1>1, <1>2, <2>1, GoesOn DEF Located
<1> QED
  BY <1>5, <1>6, <1>7, <1>8, <1>9, <1>10, <1>11

\* The steps that wait for a program that has ended: its frame goes.
LEMMA DeleteSteps ==
  ASSUME WinInv, ScanDead \/ ReadDead \/ Reap \/ (pc = "key" /\ KeyDelete)
  PROVE  WinInv'
<1>1. WellFormed /\ Located
  BY DEF WinInv
<1>2. CASE ScanDead \/ ReadDead
  <2>1. wins # <<>> /\ pc \in {"scan", "read"} /\ it \in DOMAIN frames /\ Delete(it)
    BY <1>1, <1>2 DEF ScanDead, ReadDead, Located
  <2>2. frames \in Seq(Frame) /\ it \in 1 .. Len(frames)
    BY <1>1, <2>1, CurrentWindow
  <2>3. WellFormed' /\ wins' # <<>> /\ Len(frames') = Len(frames) - 1
    BY <1>1, <2>1, <2>2, Deleted
  <2>4. (pc' = "scan" /\ it' = it) \/ (pc' = "check" /\ it' = 0)
    BY <1>2 DEF ScanDead, ReadDead, Goto
  <2>5. it \in Nat /\ it \in 1 .. Len(frames') + 1
    <3> DEFINE n == Len(frames)
               m == Len(frames')
    <3>1. n \in Nat /\ it \in 1 .. n /\ m = n - 1
      BY <2>2, <2>3
    <3> HIDE DEF n, m
    <3>2. it \in Nat /\ it \in 1 .. m + 1
      BY <3>1
    <3> QED
      BY <3>2 DEF m
  <2> QED
    BY <2>3, <2>4, <2>5 DEF WinInv, Located
<1>3. CASE Reap
  <2>1. pc = "reap" /\ it \in 1 .. Len(frames) /\ wins # <<>> /\ Delete(it) /\ pc' = "read" /\ it' = 1
    BY <1>1, <1>3 DEF Reap, Located, Goto
  <2>2. WellFormed' /\ wins' # <<>>
    BY <1>1, <2>1, Deleted
  <2>3. 1 \in 1 .. Len(frames') + 1
    BY <2>2, FramesAfter
  <2> QED
    BY <2>1, <2>2, <2>3 DEF WinInv, Located
<1>4. CASE pc = "key" /\ KeyDelete
  <2>1. wins # <<>> /\ frames # <<>> /\ Delete(win.cur) /\ Done
    BY <1>4, HasFrames DEF KeyDelete
  <2>2. win.cur \in 1 .. Len(frames)
    <3>1. Proper(win) /\ frames = win.frames
      BY <1>1, <2>1, CurrentWindow
    <3> QED
      BY <2>1, <3>1 DEF Proper
  <2>3. WellFormed' /\ wins' # <<>>
    BY <1>1, <2>1, <2>2, Deleted
  <2> QED
    BY <2>1, <2>3, DoneLocated
<1> QED
  BY <1>2, <1>3, <1>4

-----------------------------------------------------------------------------
\* A state of the loops of `+' and `-', over n frames.
State(n) == [rows : [1 .. n -> Int], param : Int, mod : Int]

\* The rows of frame j change by x: so does the total.
Changed(rows, j, x) == [rows EXCEPT ![j] = @ + x]

IsChanged(new, rows, n, j, x) ==
  /\ new \in [1 .. n -> Int] /\ new[j] = rows[j] + x
  /\ \A o \in (1 .. n) \ {j} : new[o] = rows[o]
  /\ Total(new, n) = Total(rows, n) + x /\ Total(rows, n) \in Int

\* So it is when one frame changes.
LEMMA TotalChange ==
  ASSUME NEW n \in 2 .. 3, NEW rows \in [1 .. n -> Int], NEW j \in 1 .. n, NEW x \in Int
  PROVE  IsChanged(Changed(rows, j, x), rows, n, j, x)
<1> DEFINE new == Changed(rows, j, x)
<1>1. /\ new \in [1 .. n -> Int] /\ new[j] = rows[j] + x
      /\ \A o \in (1 .. n) \ {j} : new[o] = rows[o]
  BY DEF Changed
<1> HIDE DEF new
<1>2. \A i \in 1 .. n : rows[i] \in Int /\ new[i] \in Int
  BY <1>1
<1>3. Total(new, n) = Total(rows, n) + x /\ Total(rows, n) \in Int
  <2>1. CASE n = 2
    <3>1. Total(rows, n) = rows[1] + rows[2] /\ Total(new, n) = new[1] + new[2]
      BY <2>1 DEF Total
    <3>2. /\ rows[1] \in Int /\ rows[2] \in Int
          /\ \/ new[1] = rows[1] + x /\ new[2] = rows[2]
             \/ new[1] = rows[1] /\ new[2] = rows[2] + x
      BY <1>1, <1>2, <2>1
    <3> QED
      BY <3>1, <3>2
  <2>2. CASE n = 3
    <3>1. /\ Total(rows, n) = rows[1] + rows[2] + rows[3]
          /\ Total(new, n) = new[1] + new[2] + new[3]
      BY <2>2 DEF Total
    <3>2. /\ rows[1] \in Int /\ rows[2] \in Int /\ rows[3] \in Int
          /\ \/ new[1] = rows[1] + x /\ new[2] = rows[2] /\ new[3] = rows[3]
             \/ new[1] = rows[1] /\ new[2] = rows[2] + x /\ new[3] = rows[3]
             \/ new[1] = rows[1] /\ new[2] = rows[2] /\ new[3] = rows[3] + x
      BY <1>1, <1>2, <2>2
    <3> QED
      BY <3>1, <3>2
  <2> QED
    BY <2>1, <2>2
<1> QED
  BY <1>1, <1>3 DEF new, IsChanged

\* The total of some rows is a number.
LEMMA TotalIs == ASSUME NEW n \in 2 .. 3, NEW rows \in [1 .. n -> Int] PROVE Total(rows, n) \in Int
<1>1. 1 \in 1 .. n /\ 0 \in Int
  OBVIOUS
<1>2. IsChanged(Changed(rows, 1, 0), rows, n, 1, 0)
  BY <1>1, TotalChange
<1> QED
  BY <1>2 DEF IsChanged

\* The state t of the loops after s, with the rows of frame j changed by x.
IsMoved(t, s, n, j, x, d, more) ==
  /\ t \in State(n) /\ t.rows = Changed(s.rows, j, x)
  /\ t.param = s.param - d - more /\ t.mod = s.mod - more

\* Frame j loses d rows, and one more if more is 1.
LEMMA MovedAway ==
  ASSUME NEW n \in 2 .. 3, NEW s \in State(n), NEW j \in 1 .. n, NEW d \in Int,
         NEW more \in {0, 1}
  PROVE  IsMoved(Moved(s, j, d, -1, more), s, n, j, -(d + more), d, more)
<1>1. s.rows \in [1 .. n -> Int] /\ s.param \in Int /\ s.mod \in Int /\ s.rows[j] \in Int
  BY DEF State
<1>2. -(d + more) \in Int /\ s.param - d - more \in Int /\ s.mod - more \in Int
  BY <1>1
<1>3. Moved(s, j, d, -1, more) =
        [rows |-> Changed(s.rows, j, -(d + more)), param |-> s.param - d - more, mod |-> s.mod - more]
  <2>1. s.rows[j] + (-1) * (d + more) = s.rows[j] + -(d + more)
    BY <1>1
  <2> QED
    BY <2>1 DEF Moved, Changed
<1>4. Changed(s.rows, j, -(d + more)) \in [1 .. n -> Int]
  BY <1>1, <1>2, TotalChange DEF IsChanged
<1> DEFINE t == Moved(s, j, d, -1, more)
           R == Changed(s.rows, j, -(d + more))
<1>5. t = [rows |-> R, param |-> s.param - d - more, mod |-> s.mod - more]
  BY <1>3
<1>6. R \in [1 .. n -> Int]
  BY <1>4 DEF IsChanged
<1> HIDE DEF t, R
<1>7. /\ t \in State(n) /\ t.rows = R /\ t.param = s.param - d - more
      /\ t.mod = s.mod - more
  BY <1>2, <1>5, <1>6 DEF State
<1> QED
  BY <1>7 DEF t, R, IsMoved

\* Frame j is given d rows, and one more if more is 1.
LEMMA MovedTo ==
  ASSUME NEW n \in 2 .. 3, NEW s \in State(n), NEW j \in 1 .. n, NEW d \in Int,
         NEW more \in {0, 1}
  PROVE  IsMoved(Moved(s, j, d, 1, more), s, n, j, (d + more), d, more)
<1>1. s.rows \in [1 .. n -> Int] /\ s.param \in Int /\ s.mod \in Int /\ s.rows[j] \in Int
  BY DEF State
<1>2. (d + more) \in Int /\ s.param - d - more \in Int /\ s.mod - more \in Int
  BY <1>1
<1>3. Moved(s, j, d, 1, more) =
        [rows |-> Changed(s.rows, j, (d + more)), param |-> s.param - d - more, mod |-> s.mod - more]
  <2>1. s.rows[j] + (1) * (d + more) = s.rows[j] + (d + more)
    BY <1>1
  <2> QED
    BY <2>1 DEF Moved, Changed
<1>4. Changed(s.rows, j, (d + more)) \in [1 .. n -> Int]
  BY <1>1, <1>2, TotalChange DEF IsChanged
<1> DEFINE t == Moved(s, j, d, 1, more)
           R == Changed(s.rows, j, (d + more))
<1>5. t = [rows |-> R, param |-> s.param - d - more, mod |-> s.mod - more]
  BY <1>3
<1>6. R \in [1 .. n -> Int]
  BY <1>4 DEF IsChanged
<1> HIDE DEF t, R
<1>7. /\ t \in State(n) /\ t.rows = R /\ t.param = s.param - d - more
      /\ t.mod = s.mod - more
  BY <1>2, <1>5, <1>6 DEF State
<1> QED
  BY <1>7 DEF t, R, IsMoved

\* The loop of `+': each frame of a window that is wide keeps 2 rows, no row is
\* lost, and param goes down.
Taking(n, c, p, wide) ==
  {s \in State(n) : /\ wide => \A j \in 1 .. n : s.rows[j] >= 2
                    /\ Total(s.rows, n) - s.param = c /\ s.param <= p}

\* A frame that gives keeps 2 rows.
LEMMA TakeKeeps ==
  ASSUME NEW n \in 2 .. 3, NEW c \in Int, NEW p \in Int, NEW wide \in BOOLEAN,
         NEW s \in Taking(n, c, p, wide), NEW j \in 1 .. n, NEW num \in Int
  PROVE  Take(s, j, num) \in Taking(n, c, p, wide)
<1>1. /\ s \in State(n) /\ (wide => \A i \in 1 .. n : s.rows[i] >= 2)
      /\ Total(s.rows, n) - s.param = c /\ s.param <= p
  BY DEF Taking
<1>2. s.rows \in [1 .. n -> Int] /\ s.rows[j] \in Int /\ s.param \in Int /\ s.mod \in Int
  BY <1>1 DEF State
<1> DEFINE above == IF s.rows[j] > 2 THEN s.rows[j] - 2 ELSE 0
           d == IF num < 0 \/ num > above THEN above ELSE num
           more == IF s.rows[j] - d # 2 /\ s.mod # 0 THEN 1 ELSE 0
           t == Moved(s, j, d, -1, more)
<1>3. Take(s, j, num) = t
  BY DEF Take
<1>4. above \in Nat /\ (s.rows[j] >= 2 => s.rows[j] - above = 2)
  BY <1>2
<1> HIDE DEF above
<1>5. d \in Nat /\ d <= above
  BY <1>4
<1> HIDE DEF d
<1>6. more \in {0, 1} /\ (s.rows[j] >= 2 => s.rows[j] - (d + more) >= 2)
  BY <1>2, <1>4, <1>5
<1> HIDE DEF more
<1>7. /\ t \in State(n)
      /\ t.rows[j] = s.rows[j] - (d + more)
      /\ \A i \in (1 .. n) \ {j} : t.rows[i] = s.rows[i]
      /\ Total(t.rows, n) = Total(s.rows, n) - (d + more)
      /\ Total(s.rows, n) \in Int
      /\ t.param = s.param - d - more
  <2> DEFINE x == -(d + more)
  <2>1. d \in Int /\ x \in Int /\ more \in {0, 1} /\ s \in State(n)
    BY <1>1, <1>5, <1>6
  <2>2. \A y \in Int : y + x = y - (d + more)
    BY <1>5, <1>6
  <2>3. t \in State(n) /\ t.rows = Changed(s.rows, j, x) /\ t.param = s.param - d - more
    <3>1. IsMoved(Moved(s, j, d, -1, more), s, n, j, -(d + more), d, more)
      BY <2>1, MovedAway
    <3> QED
      BY <3>1 DEF IsMoved
  <2> HIDE DEF t, x
  <2>4. /\ t.rows[j] = s.rows[j] + x
        /\ \A i \in (1 .. n) \ {j} : t.rows[i] = s.rows[i]
        /\ Total(t.rows, n) = Total(s.rows, n) + x
        /\ Total(s.rows, n) \in Int
    <3> DEFINE R == s.rows
    <3>1. R \in [1 .. n -> Int] /\ x \in Int
      BY <1>2, <2>1
    <3> HIDE DEF R
    <3>2. IsChanged(Changed(R, j, x), R, n, j, x)
      BY <3>1, TotalChange
    <3> QED
      BY <2>3, <3>2 DEF R, IsChanged
  <2> QED
    BY <1>2, <2>2, <2>3, <2>4
<1> HIDE DEF t
<1>8. wide => \A i \in 1 .. n : t.rows[i] >= 2
  <2> SUFFICES ASSUME wide, NEW i \in 1 .. n PROVE t.rows[i] >= 2
    OBVIOUS
  <2>1. s.rows[i] >= 2 /\ s.rows[j] >= 2
    BY <1>1
  <2> QED
    BY <1>6, <1>7, <2>1
<1>9. Total(t.rows, n) - t.param = c /\ t.param <= p
  <2> DEFINE A == Total(s.rows, n)
             B == Total(t.rows, n)
             a == s.param
             b == t.param
  <2>1. /\ A \in Int /\ a \in Int /\ B = A - (d + more) /\ b = a - d - more
        /\ A - a = c /\ a <= p
    BY <1>1, <1>2, <1>7
  <2>2. d \in Nat /\ more \in {0, 1}
    BY <1>5, <1>6
  <2> HIDE DEF A, B, a, b
  <2>3. B - b = c /\ b <= p
    BY <2>1, <2>2
  <2> QED
    BY <2>3 DEF B, b
<1> QED
  BY <1>3, <1>7, <1>8, <1>9 DEF Taking

\* One visit of the loops of `+' and `-', the k-th, from the state s.
Visit(rs, i, num, sign, k, s) ==
  LET j == ((k - 1) % Len(rs)) + 1
  IN  IF s.param = 0 \/ j = i THEN s
      ELSE IF sign = 1 THEN Take(s, j, num) ELSE Give(s, j, num, rs[j])

Begin(rs, param) == [rows |-> rs, param |-> param, mod |-> Lines(param, Len(rs))[2]]

\* The states f of the loops, from visit to visit.
Visits(f, rs, i, param, sign) ==
  f = [k \in 0 .. 3 * (Len(rs) - 1) - 1 |->
         IF k = 0 THEN Begin(rs, param)
         ELSE Visit(rs, i, Lines(param, Len(rs))[1], sign, k, f[k - 1])]

\* What comes out of the loops is the last of their states.
LEMMA VisitedUnfold ==
  ASSUME NEW rs, NEW i, NEW param, NEW sign
  PROVE  LET f == CHOOSE f : Visits(f, rs, i, param, sign)
             last == f[3 * (Len(rs) - 1) - 1]
         IN  Visited(rs, i, param, sign) = [last.rows EXCEPT ![i] = @ + sign * (param - last.param)]
BY DEF Visited, Visits, Visit, Begin

\* The states f of the loops, all of them in S, and what comes out.
Loops(f, rs, m, i, param, sign, S) ==
  /\ f \in [0 .. m -> S] /\ f[0] = Begin(rs, param)
  /\ \A k \in 1 .. m : f[k] = Visit(rs, i, Lines(param, Len(rs))[1], sign, k, f[k - 1])
  /\ Visited(rs, i, param, sign) = [f[m].rows EXCEPT ![i] = @ + sign * (param - f[m].param)]

\* The loops stay in a set S of states that they begin in and no visit leaves.
LEMMA VisitedIs ==
  ASSUME NEW rs, NEW m \in Nat, m = 3 * (Len(rs) - 1) - 1,
         NEW i, NEW param, NEW sign, NEW S, Begin(rs, param) \in S,
         \A k \in 1 .. m : \A s \in S :
            Visit(rs, i, Lines(param, Len(rs))[1], sign, k, s) \in S
  PROVE  \E f : Loops(f, rs, m, i, param, sign, S)
<1> DEFINE a == Begin(rs, param)
           V(k, s) == Visit(rs, i, Lines(param, Len(rs))[1], sign, k, s)
           F == [q \in (1 .. m) \X S |-> V(q[1], q[2])]
           P(f) == Visits(f, rs, i, param, sign)
<1>1. \A f : P(f) <=> f = [k \in 0 .. m |-> IF k = 0 THEN a ELSE V(k, f[k - 1])]
  BY DEF Visits
<1>2. a \in S /\ \A k \in 1 .. m : \A s \in S : V(k, s) \in S
  OBVIOUS
<1>3. Visited(rs, i, param, sign) =
        [(CHOOSE f : P(f))[m].rows EXCEPT ![i] = @ + sign * (param - (CHOOSE f : P(f))[m].param)]
  BY VisitedUnfold
<1> HIDE DEF a, V, P
<1>4. \E f : P(f)
  <2>1. F \in [(1 .. m) \X S -> S]
    BY <1>2
  <2>2. \A k \in 1 .. m : \A s \in S : F[<<k, s>>] = V(k, s)
    OBVIOUS
  <2> HIDE DEF F
  <2>3. PICK f \in [0 .. m -> S] : f[0] = a /\ \A k \in 1 .. m : f[k] = F[<<k, f[k - 1]>>]
    <3>1. PICK f : Goes(f, S, a, m, F)
      BY <1>2, <2>1, Recursion
    <3> QED
      BY <3>1 DEF Goes
  <2>4. ASSUME NEW k \in 0 .. m PROVE f[k] = IF k = 0 THEN a ELSE V(k, f[k - 1])
    <3>1. CASE k = 0
      BY <2>3, <3>1
    <3>2. CASE k # 0
      <4>1. k \in 1 .. m /\ k - 1 \in 0 .. m
        BY <3>2
      <4>2. f[k] = F[<<k, f[k - 1]>>] /\ f[k - 1] \in S
        BY <2>3, <4>1
      <4> QED
        BY <2>2, <3>2, <4>1, <4>2
    <3> QED
      BY <3>1, <3>2
  <2>5. f = [k \in 0 .. m |-> IF k = 0 THEN a ELSE V(k, f[k - 1])]
    BY <2>4
  <2> QED
    BY <1>1, <2>5
<1> DEFINE g == CHOOSE f : P(f)
<1>5. P(g)
  BY <1>4
<1>6. g = [k \in 0 .. m |-> IF k = 0 THEN a ELSE V(k, g[k - 1])]
  BY <1>1, <1>5
<1>7. Visited(rs, i, param, sign) = [g[m].rows EXCEPT ![i] = @ + sign * (param - g[m].param)]
  BY <1>3
<1> HIDE DEF g
<1>8. g[0] = a /\ \A k \in 1 .. m : g[k] = V(k, g[k - 1])
  BY <1>6
<1>9. \A k \in 0 .. m : g[k] \in S
  <2> DEFINE T == {k \in 0 .. m : g[k] \in S}
  <2>1. 0 \in T
    BY <1>2, <1>8
  <2>2. \A k \in 0 .. m - 1 : k \in T => k + 1 \in T
    <3> TAKE k \in 0 .. m - 1
    <3> HAVE k \in T
    <3>1. k + 1 \in 1 .. m /\ (k + 1) - 1 = k /\ g[k] \in S
      OBVIOUS
    <3>2. g[k + 1] = V(k + 1, g[k])
      BY <1>8, <3>1
    <3> QED
      BY <1>2, <3>1, <3>2
  <2>3. \A k \in 0 .. m : k \in T
    <3> HIDE DEF T
    <3> QED
      BY <2>1, <2>2, Induction
  <2> QED
    BY <2>3
<1>10. g \in [0 .. m -> S]
  BY <1>6, <1>9
<1> QED
  BY <1>7, <1>8, <1>10 DEF a, V, Loops

\* The division of C.
LEMMA QuotIs == ASSUME NEW a \in Nat, NEW b \in Int, b # 0 PROVE Quot(a, b) \in Int
<1>1. CASE b > 0
  BY <1>1 DEF Quot
<1>2. CASE b < 0
  <2>1. -b \in Nat /\ -b > 0
    BY <1>2
  <2>2. a \div (-b) \in Int
    BY <2>1
  <2> QED
    BY <1>2, <2>2 DEF Quot
<1> QED
  BY <1>1, <1>2

\* The numbers of rows to move are numbers when there is something to divide by.
LEMMA LinesAre ==
  ASSUME NEW n \in 2 .. 3, NEW param \in Int, param # 0
  PROVE  Lines(param, n)[1] \in Int /\ Lines(param, n)[2] \in Int
<1>1. CASE param \in {1, n - 1}
  BY <1>1 DEF Lines
<1>2. CASE param \notin {1, n - 1} /\ param > n - 1
  <2>1. Lines(param, n) = <<param \div (n - 1), param % (n - 1)>>
    BY <1>2 DEF Lines
  <2>2. n - 1 \in Nat /\ n - 1 > 0
    OBVIOUS
  <2>3. param \div (n - 1) \in Int /\ param % (n - 1) \in Int
    BY <2>2
  <2> QED
    BY <2>1, <2>3
<1>3. CASE param \notin {1, n - 1} /\ ~ (param > n - 1)
  <2> DEFINE q == Quot(n - 1, param)
  <2>1. Lines(param, n) = <<q, (n - 1) - param * q>>
    BY <1>3 DEF Lines
  <2>2. n - 1 \in Nat
    OBVIOUS
  <2>3. q \in Int
    BY <2>2, QuotIs
  <2> HIDE DEF q
  <2>4. (n - 1) - param * q \in Int
    BY <2>2, <2>3
  <2> QED
    BY <2>1, <2>3, <2>4
<1> QED
  BY <1>1, <1>2, <1>3

\* The frame that is visited is one of the n.
LEMMA VisitedOne == ASSUME NEW n \in 2 .. 3, NEW k \in Nat, k >= 1 PROVE ((k - 1) % n) + 1 \in 1 .. n
<1>1. CASE n = 2
  BY <1>1
<1>2. CASE n = 3
  BY <1>2
<1> QED
  BY <1>1, <1>2

\* `+': the rows are those that the frames had, moved about.
LEMMA IncreasedIs ==
  ASSUME NEW n \in 2 .. 3, NEW rs \in [1 .. n -> Int], Len(rs) = n, NEW r \in Nat,
         r # 4 * n - 1, Fill(rs, n, r), NEW i \in 1 .. n, NEW p \in Nat \ {0}
  PROVE  Increased(rs, i, p, r) \in [1 .. n -> Int] /\ Fill(Increased(rs, i, p, r), n, r)
<1> DEFINE min == r - n - (n - 1) - n * 2
           param == IF p > min THEN min ELSE p
           m == 3 * (n - 1) - 1
           c == Total(rs, n) - param
           wide == Wide(r, n)
           S == Taking(n, c, param, wide)
           num == Lines(param, n)[1]
           new == Visited(rs, i, param, 1)
<1>1. Increased(rs, i, p, r) = new
  BY DEF Increased
<1>2. param \in Int /\ param # 0
  <2>2. CASE n = 2
    BY <2>2
  <2>3. CASE n = 3
    BY <2>3
  <2> QED
    BY <2>2, <2>3
<1>3. m \in Nat /\ m = 3 * (Len(rs) - 1) - 1
  OBVIOUS
<1>4. Total(rs, n) \in Int /\ (wide => \A j \in 1 .. n : rs[j] >= 2) /\ wide \in BOOLEAN
  <2>1. wide \in BOOLEAN
    BY DEF Wide
  <2>2. wide => \A j \in 1 .. n : rs[j] >= 2
    BY DEF Fill
  <2> QED
    BY <2>1, <2>2, TotalIs
<1> HIDE DEF param, m, wide
<1>5. c \in Int
  BY <1>2, <1>4
<1>6. num \in Int /\ Lines(param, n)[2] \in Int
  BY <1>2, LinesAre
<1> HIDE DEF num
<1>7. Begin(rs, param) \in S
  <2>1. Begin(rs, param) = [rows |-> rs, param |-> param, mod |-> Lines(param, n)[2]]
    BY DEF Begin
  <2>2. Begin(rs, param) \in State(n)
    BY <1>2, <1>6, <2>1 DEF State
  <2> QED
    BY <1>2, <1>4, <2>1, <2>2 DEF Taking
<1> HIDE DEF c
<1>8. ASSUME NEW k \in 1 .. m, NEW s \in S PROVE Visit(rs, i, num, 1, k, s) \in S
  <2> DEFINE j == ((k - 1) % n) + 1
  <2>1. j \in 1 .. n
    <3>1. k \in Nat /\ k >= 1
      BY <1>3
    <3> QED
      BY <3>1, VisitedOne
  <2>2. Visit(rs, i, num, 1, k, s) = IF s.param = 0 \/ j = i THEN s ELSE Take(s, j, num)
    BY DEF Visit
  <2> HIDE DEF j
  <2>3. Take(s, j, num) \in S
    BY <1>2, <1>4, <1>5, <1>6, <2>1, TakeKeeps
  <2> QED
    BY <2>2, <2>3
<1> HIDE DEF S
<1>9. PICK f : Loops(f, rs, m, i, param, 1, S)
  <2>1. \A k \in 1 .. m : \A s \in S : Visit(rs, i, Lines(param, Len(rs))[1], 1, k, s) \in S
    BY <1>8 DEF num
  <2> QED
    BY <1>3, <1>7, <2>1, VisitedIs
<1> DEFINE last == f[m]
           x == param - last.param
<1>10. last \in S /\ new = [last.rows EXCEPT ![i] = @ + 1 * x]
  BY <1>3, <1>9 DEF Loops
<1>11. /\ last \in State(n) /\ (wide => \A j \in 1 .. n : last.rows[j] >= 2)
       /\ Total(last.rows, n) - last.param = c /\ last.param <= param
  BY <1>10 DEF S, Taking
<1> HIDE DEF last, new
<1>12. last.rows \in [1 .. n -> Int] /\ last.param \in Int /\ x \in Int /\ x >= 0
  BY <1>2, <1>11 DEF State
<1>13. new = Changed(last.rows, i, x)
  <2>1. last.rows[i] + 1 * x = last.rows[i] + x
    BY <1>12
  <2> QED
    BY <1>10, <2>1 DEF Changed
<1> DEFINE R == last.rows
<1>14. /\ new \in [1 .. n -> Int] /\ new[i] = R[i] + x
       /\ \A j \in (1 .. n) \ {i} : new[j] = R[j]
       /\ Total(new, n) = Total(R, n) + x /\ Total(R, n) \in Int
       /\ R \in [1 .. n -> Int] /\ (wide => \A j \in 1 .. n : R[j] >= 2)
  <2>1. new = Changed(R, i, x) /\ (wide => \A j \in 1 .. n : R[j] >= 2)
    BY <1>11, <1>13
  <2>a. R \in [1 .. n -> Int]
    BY <1>12
  <2>b. x \in Int
    BY <1>12
  <2> HIDE DEF R, x
  <2>2. IsChanged(Changed(R, i, x), R, n, i, x)
    BY <2>a, <2>b, TotalChange
  <2> QED
    BY <2>1, <2>2, <2>a DEF IsChanged
<1>15. wide => \A j \in 1 .. n : new[j] >= 2
  <2>x. x \in Int /\ x >= 0
    BY <1>12
  <2> HIDE DEF R, x
  <2> SUFFICES ASSUME wide, NEW j \in 1 .. n PROVE new[j] >= 2
    OBVIOUS
  <2>1. new[j] \in Int /\ R[j] \in Int /\ R[j] >= 2
    BY <1>14
  <2>2. CASE j = i
    <3>1. new[j] = R[j] + x
      BY <1>14, <2>2
    <3> QED
      BY <2>x, <2>1, <3>1
  <2>3. CASE j # i
    BY <1>14, <2>1, <2>3
  <2> QED
    BY <2>2, <2>3
<1>16. Total(new, n) = Total(rs, n)
  <2> DEFINE old == Total(rs, n)
             was == Total(R, n)
             now == Total(new, n)
             left == last.param
  <2>1. /\ old \in Int /\ was \in Int /\ left \in Int /\ now = was + (param - left)
        /\ was - left = old - param
    BY <1>4, <1>11, <1>12, <1>14 DEF c
  <2> HIDE DEF old, was, now, left
  <2>2. now = old
    BY <1>2, <2>1
  <2> QED
    BY <2>2 DEF now, old
<1>17. Fill(new, n, r)
  BY <1>15, <1>16 DEF Fill, wide
<1> QED
  BY <1>1, <1>14, <1>17

\* The loop of `-': no frame of a window that is wide has less than 2 rows, and
\* what was given and what is missing are the count.
Giving(n, rs, i, c, wide) ==
  {s \in State(n) : /\ wide => \A j \in 1 .. n : s.rows[j] >= 2
                    /\ s.rows[i] = rs[i] /\ Total(s.rows, n) + s.param = c}

\* What a visit of frame j makes of s, e rows being given.
Given(t, s, n, rs, i, c, j, e, wide) ==
  /\ t \in Giving(n, rs, i, c, wide)
  /\ \A o \in (1 .. n) \ {j} : t.rows[o] = s.rows[o]
  /\ t.param = s.param - e

\* A frame that is given its rows back and some more.
LEMMA GiveKeeps ==
  ASSUME NEW n \in 2 .. 3, NEW rs, NEW i \in 1 .. n, NEW c \in Int,
         NEW wide \in BOOLEAN, NEW s \in Giving(n, rs, i, c, wide),
         NEW j \in 1 .. n, j # i, s.rows[j] = rs[j],
         NEW num \in Nat, s.mod \in {0, 1}
  PROVE  /\ Given(Give(s, j, num, rs[j]), s, n, rs, i, c, j, num + s.mod, wide)
         /\ Give(s, j, num, rs[j]).mod = 0
<1>1. /\ s \in State(n) /\ s.rows[i] = rs[i] /\ Total(s.rows, n) + s.param = c
      /\ wide => \A o \in 1 .. n : s.rows[o] >= 2
  BY DEF Giving
<1>2. /\ s.rows \in [1 .. n -> Int] /\ s.param \in Int /\ s.rows[j] \in Int
      /\ [s EXCEPT !.rows[j] = rs[j]] = s
  <2>1. [s.rows EXCEPT ![j] = rs[j]] = s.rows
    BY <1>1 DEF State
  <2> QED
    BY <1>1, <2>1 DEF State
<1> DEFINE more == IF s.mod # 0 THEN 1 ELSE 0
           t == Moved(s, j, num, 1, more)
           e == num + more
           R == s.rows
<1>3. Give(s, j, num, rs[j]) = t
  BY <1>2 DEF Give
<1>4. more = s.mod /\ more \in {0, 1}
  OBVIOUS
<1> HIDE DEF more
<1>5. num \in Int /\ e \in Int /\ e >= 0 /\ e = num + s.mod
  BY <1>4
<1>6. t \in State(n) /\ t.rows = Changed(R, j, e) /\ t.param = s.param - e /\ t.mod = 0
  <2>1. /\ t \in State(n) /\ t.rows = Changed(s.rows, j, num + more)
        /\ t.param = s.param - num - more /\ t.mod = s.mod - more
    <3>1. IsMoved(Moved(s, j, num, 1, more), s, n, j, (num + more), num, more)
      BY <1>1, <1>4, <1>5, MovedTo
    <3> QED
      BY <3>1 DEF IsMoved
  <2>2. s.param - num - more = s.param - e /\ s.mod - more = 0
    BY <1>2, <1>4, <1>5
  <2> HIDE DEF t
  <2> QED
    BY <2>1, <2>2
<1> HIDE DEF t, e
<1>7. IsChanged(Changed(R, j, e), R, n, j, e)
  <2>1. R \in [1 .. n -> Int]
    BY <1>2
  <2> HIDE DEF R
  <2> QED
    BY <1>5, <2>1, TotalChange
<1>8. /\ t.rows[j] = R[j] + e /\ \A o \in (1 .. n) \ {j} : t.rows[o] = R[o]
      /\ Total(t.rows, n) = Total(R, n) + e /\ Total(R, n) \in Int
  BY <1>6, <1>7 DEF IsChanged
<1>9. wide => \A o \in 1 .. n : t.rows[o] >= 2
  <2> SUFFICES ASSUME wide, NEW o \in 1 .. n PROVE t.rows[o] >= 2
    OBVIOUS
  <2>1. CASE o = j
    <3>1. t.rows[o] = R[j] + e /\ R[j] \in Int /\ R[j] >= 2
      BY <1>1, <1>2, <1>8, <2>1
    <3> HIDE DEF R
    <3> QED
      BY <1>5, <3>1
  <2>2. CASE o # j
    BY <1>1, <1>8, <2>2
  <2> QED
    BY <2>1, <2>2
<1>10. Total(t.rows, n) + t.param = c
  BY <1>1, <1>2, <1>5, <1>6, <1>8
<1>11. t.rows[i] = rs[i]
  BY <1>1, <1>8
<1>12. t \in Giving(n, rs, i, c, wide)
  BY <1>6, <1>9, <1>10, <1>11 DEF Giving
<1> QED
  BY <1>3, <1>5, <1>6, <1>8, <1>12 DEF Given

\* A count of two frames goes to the other one; of three, to one or to both.
LEMMA LinesUp ==
  ASSUME NEW q \in Nat \ {0}
  PROVE  /\ Lines(q, 2) = <<q, 0>>
         /\ \E num \in Nat \ {0}, mod \in {0, 1} :
              /\ Lines(q, 3) = <<num, mod>>
              /\ q = num + mod \/ q = num + mod + num
<1>1. Lines(q, 2) = <<q, 0>>
  <2>1. CASE q = 1
    BY <2>1 DEF Lines
  <2>2. CASE q > 1
    <3>1. q \div 1 = q /\ q % 1 = 0
      OBVIOUS
    <3>2. Lines(q, 2) = <<q \div (2 - 1), q % (2 - 1)>>
      BY <2>2 DEF Lines
    <3> QED
      BY <3>1, <3>2
  <2> QED
    BY <2>1, <2>2
<1>2. \E num \in Nat \ {0}, mod \in {0, 1} :
        Lines(q, 3) = <<num, mod>> /\ (q = num + mod \/ q = num + mod + num)
  <2>1. CASE q \in {1, 2}
    <3>1. Lines(q, 3) = <<1, 0>>
      BY <2>1 DEF Lines
    <3> QED
      BY <2>1, <3>1
  <2>2. CASE q > 2
    <3>1. Lines(q, 3) = <<q \div 2, q % 2>>
      BY <2>2 DEF Lines
    <3>2. q \div 2 \in Nat \ {0} /\ q % 2 \in {0, 1} /\ q = (q \div 2) + (q % 2) + (q \div 2)
      BY <2>2
    <3> QED
      BY <3>1, <3>2
  <2> QED
    BY <2>1, <2>2
<1> QED
  BY <1>1, <1>2

\* A visit of `-' leads from state to state.
LEMMA GiveState ==
  ASSUME NEW n \in 2 .. 3, NEW s \in State(n), NEW j \in 1 .. n, NEW num \in Int, NEW r \in Int
  PROVE  Give(s, j, num, r) \in State(n)
<1> DEFINE z == [s EXCEPT !.rows[j] = r]
           more == IF s.mod # 0 THEN 1 ELSE 0
<1>1. z \in State(n)
  <2>1. s.rows \in [1 .. n -> Int] /\ s.param \in Int /\ s.mod \in Int
    BY DEF State
  <2>2. [s.rows EXCEPT ![j] = r] \in [1 .. n -> Int]
    BY <2>1
  <2> QED
    BY <2>1, <2>2 DEF State
<1>2. Give(s, j, num, r) = Moved(z, j, num, 1, more)
  BY DEF Give
<1>3. more \in {0, 1}
  OBVIOUS
<1> HIDE DEF z, more
<1>4. IsMoved(Moved(z, j, num, 1, more), z, n, j, (num + more), num, more)
  BY <1>1, <1>3, MovedTo
<1> QED
  BY <1>2, <1>4 DEF IsMoved

\* The rows that a window of n frames has, of which frame i gives q.
Lends(rs, n, i, q, wide) ==
  /\ rs \in [1 .. n -> Int] /\ Len(rs) = n /\ i \in 1 .. n /\ q \in Nat \ {0}
  /\ wide \in BOOLEAN /\ (wide => \A j \in 1 .. n : rs[j] >= 2)

\* The state that `-' begins in.
LEMMA BeginGives ==
  ASSUME NEW n \in 2 .. 3, NEW rs, NEW i, NEW q, NEW wide, Lends(rs, n, i, q, wide), Lines(q, n)[2] \in {0, 1}
  PROVE  /\ Begin(rs, q) \in Giving(n, rs, i, Total(rs, n) + q, wide)
         /\ Total(rs, n) + q \in Int /\ Total(rs, n) \in Int
         /\ Begin(rs, q).rows = rs /\ Begin(rs, q).param = q
         /\ Begin(rs, q).mod = Lines(q, n)[2]
<1>1. rs \in [1 .. n -> Int] /\ Len(rs) = n /\ i \in 1 .. n /\ q \in Nat \ {0} /\ q \in Int
  BY DEF Lends
<1>2. Total(rs, n) \in Int
  BY <1>1, TotalIs
<1> DEFINE mod == Lines(q, n)[2]
           s == Begin(rs, q)
<1>3. s = [rows |-> rs, param |-> q, mod |-> mod]
  BY <1>1 DEF Begin
<1> HIDE DEF mod, s
<1>4. mod \in {0, 1} /\ mod \in Int
  BY DEF mod
<1>5. s \in State(n) /\ s.rows = rs /\ s.param = q /\ s.mod = mod
  BY <1>1, <1>3, <1>4 DEF State
<1>6. s \in Giving(n, rs, i, Total(rs, n) + q, wide)
  BY <1>1, <1>5 DEF Giving, Lends
<1>7. Total(rs, n) + q \in Int
  BY <1>1, <1>2
<1> QED
  BY <1>2, <1>5, <1>6, <1>7 DEF mod, s

\* Every visit leads from state to state, for as long as the loops may go on.
LEMMA GivesOn ==
  ASSUME NEW n \in 2 .. 3, NEW rs, NEW i, NEW q, NEW wide, Lends(rs, n, i, q, wide),
         NEW num \in Nat, Lines(q, n)[1] = num, Lines(q, n)[2] \in {0, 1},
         NEW m \in Nat, m = 3 * (n - 1) - 1
  PROVE  \E f : Loops(f, rs, m, i, q, -1, State(n))
<1>1. rs \in [1 .. n -> Int] /\ Len(rs) = n /\ num \in Int
  BY DEF Lends
<1>2. Begin(rs, q) \in State(n)
  BY BeginGives DEF Giving
<1>3. \A k \in 1 .. m : \A s \in State(n) :
         Visit(rs, i, Lines(q, Len(rs))[1], -1, k, s) \in State(n)
  <2> TAKE k \in 1 .. m
  <2> TAKE s \in State(n)
  <2> DEFINE j == ((k - 1) % n) + 1
  <2>1. j \in 1 .. n
    <3>1. k \in Nat /\ k >= 1
      OBVIOUS
    <3> QED
      BY <3>1, VisitedOne
  <2>2. Visit(rs, i, Lines(q, Len(rs))[1], -1, k, s) =
          IF s.param = 0 \/ j = i THEN s ELSE Give(s, j, num, rs[j])
    BY <1>1 DEF Visit
  <2> HIDE DEF j
  <2>3. rs[j] \in Int
    BY <1>1, <2>1
  <2>4. Give(s, j, num, rs[j]) \in State(n)
    BY <1>1, <2>1, <2>3, GiveState
  <2> QED
    BY <2>2, <2>4
<1>4. m = 3 * (Len(rs) - 1) - 1
  BY <1>1
<1> QED
  BY <1>2, <1>3, <1>4, VisitedIs

\* One visit of `-' among the states f of its loops, of frame j.
GoesTo(f, h, k, j, i, num, rs) ==
  f[k] = IF f[h].param = 0 \/ j = i THEN f[h] ELSE Give(f[h], j, num, rs[j])

\* It is what the loops do at their visit k.
LEMMA GiveStep ==
  ASSUME NEW n \in 2 .. 3, NEW rs, Len(rs) = n, NEW i, NEW q, NEW m \in Nat, NEW f,
         Loops(f, rs, m, i, q, -1, State(n)),
         NEW k \in 1 .. m, NEW j, j = ((k - 1) % n) + 1, NEW h, h = k - 1
  PROVE  GoesTo(f, h, k, j, i, Lines(q, n)[1], rs)
BY DEF Loops, Visit, GoesTo

\* What the loops of `-' come to: all of the count has been given.
AllGiven(s, n, rs, i, q, wide) == s \in Giving(n, rs, i, Total(rs, n) + q, wide) /\ s.param = 0

\* Of two frames, the other one takes the whole count.
LEMMA TwoVisits ==
  ASSUME NEW rs, NEW i, NEW q, NEW wide, Lends(rs, 2, i, q, wide), NEW f,
         Loops(f, rs, 2, i, q, -1, State(2))
  PROVE  AllGiven(f[2], 2, rs, i, q, wide)
<1> DEFINE a == IF i = 1 THEN 2 ELSE 1
           E == Begin(rs, q)
           c == Total(rs, 2) + q
           G == Give(E, a, q, rs[a])
<1>1. Len(rs) = 2 /\ i \in {1, 2} /\ q \in Nat /\ q # 0 /\ 2 \in 2 .. 3
  BY DEF Lends
<1>2. Lines(q, 2)[1] = q /\ Lines(q, 2)[2] = 0
  BY <1>1, LinesUp
<1>3. E \in Giving(2, rs, i, c, wide) /\ c \in Int /\ E.rows = rs /\ E.param = q /\ E.mod = 0
  BY <1>1, <1>2, BeginGives
<1>4. f[0] = E
  BY DEF Loops
<1>5. /\ f[1] = IF f[0].param = 0 \/ 1 = i THEN f[0] ELSE Give(f[0], 1, q, rs[1])
      /\ f[2] = IF f[1].param = 0 \/ 2 = i THEN f[1] ELSE Give(f[1], 2, q, rs[2])
  <2> DEFINE num == Lines(q, 2)[1]
  <2>1. GoesTo(f, 0, 1, 1, i, num, rs)
    <3>1. 1 \in 1 .. 2 /\ 2 \in Nat /\ 1 = ((1 - 1) % 2) + 1 /\ 0 = 1 - 1
      OBVIOUS
    <3> QED
      BY <1>1, <3>1, GiveStep
  <2>2. GoesTo(f, 1, 2, 2, i, num, rs)
    <3>1. 2 \in 1 .. 2 /\ 2 \in Nat /\ 2 = ((2 - 1) % 2) + 1 /\ 1 = 2 - 1
      OBVIOUS
    <3> QED
      BY <1>1, <3>1, GiveStep
  <2> QED
    BY <1>2, <2>1, <2>2 DEF GoesTo
<1> HIDE DEF E
<1>6. a \in 1 .. 2 /\ a # i /\ E.rows[a] = rs[a]
  BY <1>1, <1>3
<1> HIDE DEF a, c
<1>7. Given(G, E, 2, rs, i, c, a, q + E.mod, wide)
  BY <1>1, <1>3, <1>6, GiveKeeps DEF Lends
<1>8. G \in Giving(2, rs, i, c, wide) /\ G.param = 0
  BY <1>1, <1>3, <1>7 DEF Given
<1>9. f[2] = G
  <2>1. CASE i = 1
    BY <1>1, <1>3, <1>4, <1>5, <2>1 DEF a
  <2>2. CASE i = 2
    BY <1>1, <1>3, <1>4, <1>5, <2>2 DEF a
  <2> QED
    BY <1>1, <2>1, <2>2
<1> QED
  BY <1>8, <1>9 DEF AllGiven, c

\* Of three frames, one of the others takes the count or both do, once each.
LEMMA ThreeVisits ==
  ASSUME NEW rs, NEW i, NEW q, NEW wide, Lends(rs, 3, i, q, wide), NEW f,
         Loops(f, rs, 5, i, q, -1, State(3)), NEW num \in Nat \ {0}, NEW mod \in {0, 1},
         Lines(q, 3) = <<num, mod>>, q = num + mod \/ q = num + mod + num
  PROVE  AllGiven(f[5], 3, rs, i, q, wide)
<1> DEFINE a == IF i = 1 THEN 2 ELSE 1
           b == IF i = 3 THEN 2 ELSE 3
           E == Begin(rs, q)
           c == Total(rs, 3) + q
           G == Give(E, a, num, rs[a])
           H == Give(G, b, num, rs[b])
<1>1. Len(rs) = 3 /\ i \in {1, 2, 3} /\ q \in Nat /\ q # 0 /\ 3 \in 2 .. 3
  BY DEF Lends
<1>2. Lines(q, 3)[1] = num /\ Lines(q, 3)[2] = mod
  OBVIOUS
<1>3. /\ E \in Giving(3, rs, i, c, wide) /\ c \in Int /\ E.rows = rs /\ E.param = q
      /\ E.mod = mod
  BY <1>1, <1>2, BeginGives
<1>4. f[0] = E /\ E.param # 0
  BY <1>1, <1>3 DEF Loops
<1>5. /\ f[1] = IF f[0].param = 0 \/ 1 = i THEN f[0] ELSE Give(f[0], 1, num, rs[1])
      /\ f[2] = IF f[1].param = 0 \/ 2 = i THEN f[1] ELSE Give(f[1], 2, num, rs[2])
      /\ f[3] = IF f[2].param = 0 \/ 3 = i THEN f[2] ELSE Give(f[2], 3, num, rs[3])
      /\ f[4] = IF f[3].param = 0 \/ 1 = i THEN f[3] ELSE Give(f[3], 1, num, rs[1])
      /\ f[5] = IF f[4].param = 0 \/ 2 = i THEN f[4] ELSE Give(f[4], 2, num, rs[2])
  <2>1. GoesTo(f, 0, 1, 1, i, num, rs)
    <3>1. 1 \in 1 .. 5 /\ 5 \in Nat /\ 1 = ((1 - 1) % 3) + 1 /\ 0 = 1 - 1
      OBVIOUS
    <3> QED
      BY <1>1, <1>2, <3>1, GiveStep
  <2>2. GoesTo(f, 1, 2, 2, i, num, rs)
    <3>1. 2 \in 1 .. 5 /\ 5 \in Nat /\ 2 = ((2 - 1) % 3) + 1 /\ 1 = 2 - 1
      OBVIOUS
    <3> QED
      BY <1>1, <1>2, <3>1, GiveStep
  <2>3. GoesTo(f, 2, 3, 3, i, num, rs)
    <3>1. 3 \in 1 .. 5 /\ 5 \in Nat /\ 3 = ((3 - 1) % 3) + 1 /\ 2 = 3 - 1
      OBVIOUS
    <3> QED
      BY <1>1, <1>2, <3>1, GiveStep
  <2>4. GoesTo(f, 3, 4, 1, i, num, rs)
    <3>1. 4 \in 1 .. 5 /\ 5 \in Nat /\ 1 = ((4 - 1) % 3) + 1 /\ 3 = 4 - 1
      OBVIOUS
    <3> QED
      BY <1>1, <1>2, <3>1, GiveStep
  <2>5. GoesTo(f, 4, 5, 2, i, num, rs)
    <3>1. 5 \in 1 .. 5 /\ 5 \in Nat /\ 2 = ((5 - 1) % 3) + 1 /\ 4 = 5 - 1
      OBVIOUS
    <3> QED
      BY <1>1, <1>2, <3>1, GiveStep
  <2> QED
    BY <1>2, <2>1, <2>2, <2>3, <2>4, <2>5 DEF GoesTo
<1> HIDE DEF E
<1>6. a \in 1 .. 3 /\ b \in 1 .. 3 /\ a # i /\ b # i /\ a # b
  BY <1>1
<1> HIDE DEF a, b, c
<1>7. Given(G, E, 3, rs, i, c, a, num + mod, wide) /\ G.mod = 0
  <2>1. num \in Nat /\ E.mod = mod /\ E.mod \in {0, 1} /\ E.rows[a] = rs[a] /\ i \in 1 .. 3
        /\ wide \in BOOLEAN
    BY <1>1, <1>3 DEF Lends
  <2>2. Given(G, E, 3, rs, i, c, a, num + E.mod, wide) /\ G.mod = 0
    BY <1>1, <1>3, <1>6, <2>1, GiveKeeps
  <2> QED
    BY <2>1, <2>2
<1> HIDE DEF G
<1>8. G \in Giving(3, rs, i, c, wide) /\ G.param = q - (num + mod) /\ G.rows[b] = rs[b]
  BY <1>3, <1>6, <1>7 DEF Given
<1>9. CASE q = num + mod
  <2>0. G.param = 0
    BY <1>8, <1>9
  <2>1. f[5] = G
    <3>1. CASE i = 1
      BY <1>4, <1>5, <2>0, <3>1 DEF a, G
    <3>2. CASE i = 2
      BY <1>4, <1>5, <2>0, <3>2 DEF a, G
    <3>3. CASE i = 3
      BY <1>4, <1>5, <2>0, <3>3 DEF a, G
    <3> QED
      BY <1>1, <3>1, <3>2, <3>3
  <2> QED
    BY <1>8, <2>0, <2>1 DEF AllGiven, c
<1>10. CASE q = num + mod + num
  <2>1. Given(H, G, 3, rs, i, c, b, num, wide)
    <3>1. num \in Nat /\ G.mod \in {0, 1} /\ i \in 1 .. 3 /\ num + G.mod = num
          /\ wide \in BOOLEAN
      BY <1>1, <1>7 DEF Lends
    <3>2. Given(H, G, 3, rs, i, c, b, num + G.mod, wide)
      BY <1>1, <1>3, <1>6, <1>8, <3>1, GiveKeeps
    <3> QED
      BY <3>1, <3>2
  <2>2. G.param = num /\ num # 0
    BY <1>8, <1>10
  <2> HIDE DEF H
  <2>3. H \in Giving(3, rs, i, c, wide) /\ H.param = 0
    BY <2>1, <2>2 DEF Given
  <2>4. f[5] = H
    <3>1. CASE i = 1
      BY <1>4, <1>5, <2>2, <2>3, <3>1 DEF a, b, G, H
    <3>2. CASE i = 2
      BY <1>4, <1>5, <2>2, <2>3, <3>2 DEF a, b, G, H
    <3>3. CASE i = 3
      BY <1>4, <1>5, <2>2, <2>3, <3>3 DEF a, b, G, H
    <3> QED
      BY <1>1, <3>1, <3>2, <3>3
  <2> QED
    BY <2>3, <2>4 DEF AllGiven, c
<1> QED
  BY <1>9, <1>10

\* `-': the rows are those that the frames had, moved about.
LEMMA DecreasedIs ==
  ASSUME NEW n \in 2 .. 3, NEW rs \in [1 .. n -> Int], Len(rs) = n, NEW r \in Nat,
         Fill(rs, n, r), NEW i \in 1 .. n, rs[i] > 2, NEW p \in Nat \ {0}
  PROVE  Decreased(rs, i, p) \in [1 .. n -> Int] /\ Fill(Decreased(rs, i, p), n, r)
<1> DEFINE wide == Wide(r, n)
           q == IF rs[i] - p <= 2 THEN rs[i] - 2 ELSE p
           m == 3 * (n - 1) - 1
           new == Visited(rs, i, q, -1)
<1>1. Decreased(rs, i, p) = new
  BY DEF Decreased
<1>2. q \in Nat /\ q # 0 /\ rs[i] - q >= 2
  BY DEF Fill
<1>w. wide \in BOOLEAN /\ (wide => \A j \in 1 .. n : rs[j] >= 2)
  BY DEF Fill, Wide
<1> HIDE DEF q, wide
<1>3. Lends(rs, n, i, q, wide)
  BY <1>2, <1>w DEF Lends
<1>4. \E f : Loops(f, rs, m, i, q, -1, State(n)) /\ AllGiven(f[m], n, rs, i, q, wide)
  <2>1. CASE n = 2
    <3>1. m = 2 /\ Lines(q, n)[1] = q /\ Lines(q, n)[2] = 0 /\ q \in Nat \ {0}
      BY <1>2, <2>1, LinesUp
    <3>2. PICK f : Loops(f, rs, 2, i, q, -1, State(2))
      BY <1>3, <2>1, <3>1, GivesOn
    <3>3. AllGiven(f[2], 2, rs, i, q, wide)
      BY <1>3, <2>1, <3>2, TwoVisits
    <3> QED
      BY <2>1, <3>1, <3>2, <3>3
  <2>2. CASE n = 3
    <3>1. PICK num \in Nat \ {0}, mod \in {0, 1} :
            Lines(q, 3) = <<num, mod>> /\ (q = num + mod \/ q = num + mod + num)
      BY <1>2, LinesUp
    <3>2. m = 5 /\ Lines(q, n)[1] = num /\ Lines(q, n)[2] = mod /\ num \in Nat
      BY <2>2, <3>1
    <3>3. PICK f : Loops(f, rs, 5, i, q, -1, State(3))
      BY <1>3, <2>2, <3>2, GivesOn
    <3>4. AllGiven(f[5], 3, rs, i, q, wide)
      BY <1>3, <2>2, <3>1, <3>3, ThreeVisits
    <3> QED
      BY <2>2, <3>2, <3>3, <3>4
  <2> QED
    BY <2>1, <2>2
<1>5. PICK f : Loops(f, rs, m, i, q, -1, State(n)) /\ AllGiven(f[m], n, rs, i, q, wide)
  BY <1>4
<1> DEFINE last == f[m]
           R == last.rows
           x == -q
<1>6. /\ last \in State(n) /\ R[i] = rs[i] /\ Total(R, n) + last.param = Total(rs, n) + q
      /\ last.param = 0 /\ (wide => \A j \in 1 .. n : R[j] >= 2)
  BY <1>5 DEF AllGiven, Giving
<1>7. R \in [1 .. n -> Int] /\ x \in Int /\ Total(rs, n) \in Int
  <2>1. R \in [1 .. n -> Int]
    BY <1>6 DEF State
  <2>2. Total(rs, n) \in Int
    BY TotalIs
  <2> QED
    BY <1>2, <2>1, <2>2
<1>8. new = [R EXCEPT ![i] = @ + (-1) * (q - last.param)]
  BY <1>5 DEF Loops
<1> HIDE DEF last, new, R, m
<1>9. new = Changed(R, i, x)
  <2>1. R[i] + (-1) * (q - last.param) = R[i] + x
    BY <1>2, <1>6, <1>7
  <2> QED
    BY <1>8, <2>1 DEF Changed
<1> HIDE DEF x
<1>10. IsChanged(new, R, n, i, x)
  BY <1>7, <1>9, TotalChange
<1>11. wide => \A j \in 1 .. n : new[j] >= 2
  <2> SUFFICES ASSUME wide, NEW j \in 1 .. n PROVE new[j] >= 2
    OBVIOUS
  <2>1. new[j] \in Int /\ R[j] \in Int /\ R[j] >= 2
    BY <1>6, <1>7, <1>10 DEF IsChanged
  <2>2. CASE j = i
    <3>1. new[j] = rs[i] + x /\ rs[i] \in Int
      BY <1>6, <1>10, <2>2 DEF IsChanged
    <3> QED
      BY <1>2, <2>1, <3>1 DEF x
  <2>3. CASE j # i
    <3>1. new[j] = R[j]
      BY <1>10, <2>3 DEF IsChanged
    <3> QED
      BY <2>1, <3>1
  <2> QED
    BY <2>2, <2>3
<1>12. Total(new, n) = Total(rs, n)
  <2>1. /\ Total(new, n) = Total(R, n) + x /\ Total(R, n) \in Int
        /\ Total(R, n) + 0 = Total(rs, n) + q
    BY <1>6, <1>10 DEF IsChanged
  <2> QED
    BY <1>2, <1>7, <2>1 DEF x
<1>13. new \in [1 .. n -> Int] /\ Fill(new, n, r)
  BY <1>10, <1>11, <1>12 DEF Fill, IsChanged, wide
<1> QED
  BY <1>1, <1>13

\* A window whose frames have been given rows that fill it.
LEMMA SizedProper ==
  ASSUME NEW w \in Window, Proper(w), w.frames # <<>>,
         NEW rs \in [1 .. Len(w.frames) -> Int], Fill(rs, Len(w.frames), w.rows)
  PROVE  LET v == [w EXCEPT !.frames = Resized(@, rs)] IN v \in Window /\ Proper(v)
<1> DEFINE fs == Resized(w.frames, rs)
           v == [w EXCEPT !.frames = fs]
           n == Len(w.frames)
<1>1. w.frames \in Seq(Frame) /\ w.max \in {2, 3}
  BY DEF Window
<1>2. n \in Nat /\ n # 0 /\ n <= w.max
  BY <1>1 DEF Proper
<1>3. fs \in Seq(Frame) /\ Len(fs) = n /\ \A j \in 1 .. n : fs[j].rows = rs[j]
  BY <1>1, ResizedIs
<1>4. w.cur \in 1 .. n /\ w.last \in 1 .. n
  BY DEF Proper
<1>x. Fill(rs, n, w.rows)
  OBVIOUS
<1> HIDE DEF fs, n
<1>5. n \in 1 .. 3
  BY <1>1, <1>2
<1>6. Fill(RowsOf(fs), n, w.rows)
  BY <1>3, <1>5, <1>x, FillSame DEF RowsOf
<1>7. /\ v \in Window /\ v.frames = fs /\ v.cur = w.cur /\ v.last = w.last
      /\ v.rows = w.rows /\ v.max = w.max
  BY <1>3 DEF Window
<1> HIDE DEF v
<1>8. Proper(v)
  BY <1>2, <1>3, <1>4, <1>6, <1>7 DEF Proper
<1> QED
  BY <1>7, <1>8 DEF v, fs

\* `+', `-', `=': the frames fill the window as before.
LEMMA KeySizeKeeps ==
  ASSUME WinInv, pc = "key", KeySize
  PROVE  WinInv'
<1>1. WellFormed /\ wins # <<>> /\ frames # <<>> /\ Len(frames) \in 1 .. 3 /\ Len(frames) > 1
  BY HasFrames DEF WinInv, KeySize
<1>2. win \in Window /\ Proper(win) /\ frames = win.frames /\ win.frames # <<>> /\ frames \in Seq(Frame)
      /\ win.rows \in Rows
  BY <1>1, CurrentWindow
<1> DEFINE n == Len(frames)
           now == [i \in DOMAIN frames |-> frames[i].rows]
           c == win.cur
           r == win.rows
           more == IF NoLines THEN {}
                   ELSE Params \cup {1} \cup {p - now[c] : p \in {q \in Params : q > now[c]}}
           less == IF now[c] <= 2 THEN {}
                   ELSE Params \cup {1} \cup {now[c] - p : p \in {q \in Params : q < now[c]}}
<1>3. n \in 2 .. 3 /\ c \in 1 .. n /\ Fill(RowsOf(frames), n, r)
  <2>1. c \in 1 .. n /\ Fill(RowsOf(frames), n, r)
    BY <1>2 DEF Proper
  <2>2. n \in 1 .. 3 /\ n > 1
    BY <1>1
  <2> HIDE DEF n
  <2> QED
    BY <2>1, <2>2
<1>4. now \in [1 .. n -> Int] /\ Len(now) = n /\ now = RowsOf(frames) /\ now[c] \in Int
  <2>1. DOMAIN frames = 1 .. n /\ \A i \in 1 .. n : frames[i].rows \in Int
    <3>1. DOMAIN frames = 1 .. n /\ \A i \in 1 .. n : frames[i] \in Frame
      BY <1>2
    <3> HIDE DEF n
    <3> QED
      BY <3>1 DEF Frame
  <2>2. now = [i \in 1 .. n |-> frames[i].rows]
    BY <2>1
  <2> HIDE DEF now
  <2>3. now \in [1 .. n -> Int]
    BY <2>1, <2>2
  <2>4. now = RowsOf(frames) /\ n \in Nat
    BY <2>2, <1>3 DEF RowsOf
  <2> HIDE DEF n
  <2>5. now \in Seq(Int) /\ Len(now) = n
    BY <2>3, <2>4
  <2> QED
    BY <1>3, <2>3, <2>4, <2>5
<1>5. r \in Rows /\ r \in Nat
  BY <1>2, Heights
<1>6. PICK rs \in {Increased(now, c, p, r) : p \in more} \cup {Decreased(now, c, p) : p \in less} :
         InWin([win EXCEPT !.frames = Resized(@, rs)])
  BY DEF KeySize
<1> HIDE DEF now, n, r, c
<1>7. \A p \in more : p \in Nat \ {0} /\ r # 4 * n - 1
  <2> DEFINE x == now[c]
  <2>1. x \in Int /\ (NoLines <=> r = 4 * n - 1)
    BY <1>4 DEF NoLines, r, n
  <2>2. more = IF NoLines THEN {}
               ELSE Params \cup {1} \cup {p - x : p \in {q \in Params : q > x}}
    OBVIOUS
  <2> HIDE DEF x, more
  <2> TAKE p \in more
  <2>3. ~ NoLines /\ (p \in Params \cup {1} \/ \E q \in Params : q > x /\ p = q - x)
    BY <2>2
  <2>4. CASE p \in Params \cup {1}
    BY <2>1, <2>3, <2>4, VwmAssumption
  <2>5. CASE \E q \in Params : q > x /\ p = q - x
    <3>1. PICK q \in Params : q > x /\ p = q - x
      BY <2>5
    <3>2. q \in Nat
      BY VwmAssumption
    <3>3. p \in Nat \ {0}
      BY <2>1, <3>1, <3>2
    <3> QED
      BY <2>1, <2>3, <3>3
  <2> QED
    BY <2>3, <2>4, <2>5
<1>8. \A p \in less : p \in Nat \ {0} /\ now[c] > 2
  <2> DEFINE x == now[c]
  <2>1. x \in Int
    BY <1>4
  <2>2. less = IF x <= 2 THEN {}
               ELSE Params \cup {1} \cup {x - p : p \in {q \in Params : q < x}}
    OBVIOUS
  <2> HIDE DEF x, less
  <2> TAKE p \in less
  <2>3. x > 2
    BY <2>1, <2>2
  <2>4. p \in Params \cup {1} \/ \E q \in Params : q < x /\ p = x - q
    BY <2>1, <2>2, <2>3
  <2>5. p \in Nat \ {0}
    <3>1. CASE p \in Params \cup {1}
      BY <3>1, VwmAssumption
    <3>2. CASE \E q \in Params : q < x /\ p = x - q
      <4>1. PICK q \in Params : q < x /\ p = x - q
        BY <3>2
      <4>2. q \in Nat
        BY VwmAssumption
      <4> QED
        BY <2>1, <4>1, <4>2
    <3> QED
      BY <2>4, <3>1, <3>2
  <2> QED
    BY <2>3, <2>5 DEF x
<1> HIDE DEF more, less
<1>9. rs \in [1 .. n -> Int] /\ Fill(rs, n, r)
  <2>1. CASE rs \in {Increased(now, c, p, r) : p \in more}
    <3>1. PICK p \in more : rs = Increased(now, c, p, r)
      BY <2>1
    <3> QED
      BY <1>3, <1>4, <1>5, <1>7, <3>1, IncreasedIs
  <2>2. CASE rs \in {Decreased(now, c, p) : p \in less}
    <3>1. PICK p \in less : rs = Decreased(now, c, p)
      BY <2>2
    <3> QED
      BY <1>3, <1>4, <1>5, <1>8, <3>1, DecreasedIs
  <2> QED
    BY <1>6, <2>1, <2>2
<1> DEFINE v == [win EXCEPT !.frames = Resized(@, rs)]
<1>10. v \in Window /\ Proper(v)
  BY <1>2, <1>9, SizedProper DEF n, r
<1>11. InWin(v)
  BY <1>6
<1> HIDE DEF v
<1> QED
  BY <1>1, <1>10, <1>11, InWinKeeps

-----------------------------------------------------------------------------
\* The first window has one frame, or none if its fork has failed.
LEMMA InitWin == Init => WinInv
<1> SUFFICES ASSUME Init PROVE WinInv
  OBVIOUS
<1>1. PICK r \in Rows, failed \in {{}, {1}} :
        wins = <<[frames |-> IF failed = {} THEN Forked(<<NewFrame(r)>>, {}) ELSE <<>>,
                  cur |-> 1, last |-> IF failed = {} THEN 1 ELSE FREED,
                  rows |-> r, max |-> 2, started |-> TRUE]>> /\ screen = r
  BY DEF Init
<1> DEFINE fs == IF failed = {} THEN Forked(<<NewFrame(r)>>, {}) ELSE <<>>
           l == IF failed = {} THEN 1 ELSE FREED
           w == [frames |-> fs, cur |-> 1, last |-> l, rows |-> r, max |-> 2, started |-> TRUE]
<1>2. curWin = 1 /\ lastWin = NULL /\ pc = "check" /\ it = 0
  BY DEF Init
<1>3. r \in Nat
  BY Heights
<1>4. /\ fs \in Seq(Frame) /\ Len(fs) <= 2
      /\ fs # <<>> => Len(fs) = 1 /\ fs[1].rows = r /\ l = 1
  <2> DEFINE s == <<NewFrame(r)>>
  <2>1. s \in Seq(Frame) /\ Len(s) = 1 /\ s[1].rows = r
    BY <1>3 DEF NewFrame, Frame
  <2> HIDE DEF s
  <2>2. Forked(s, {}) \in Seq(Frame) /\ Len(Forked(s, {})) = 1 /\ Forked(s, {})[1].rows = r
    BY <2>1, ForkedIs
  <2>3. CASE failed = {}
    BY <2>2, <2>3 DEF s
  <2>4. CASE failed # {}
    BY <2>4
  <2> QED
    BY <2>3, <2>4
<1>5. l \in Nat
  BY DEF FREED
<1> HIDE DEF fs, l
<1>6. /\ w \in Window /\ w.frames = fs /\ w.cur = 1 /\ w.last = l /\ w.rows = r /\ w.max = 2
  BY <1>4, <1>5 DEF Window
<1> HIDE DEF w
<1>7. fs # <<>> => Fill(RowsOf(fs), 1, r)
  BY <1>3, <1>4 DEF Fill, Wide, Total, RowsOf
<1>8. Proper(w)
  <2>1. fs # <<>> => Len(fs) = 1 /\ w.cur \in 1 .. Len(fs) /\ w.last \in 1 .. Len(fs)
    BY <1>4, <1>6
  <2>2. fs # <<>> => Fill(RowsOf(fs), Len(fs), w.rows)
    BY <1>6, <1>7, <2>1
  <2> QED
    BY <1>4, <1>6, <2>1, <2>2 DEF Proper
<1>9. wins = <<w>>
  BY <1>1 DEF w, fs, l
<1>10. wins \in Seq(Window) /\ Len(wins) = 1 /\ wins # <<>> /\ \A v \in 1 .. Len(wins) : Proper(wins[v])
  BY <1>6, <1>8, <1>9
<1>11. WellFormed
  BY <1>1, <1>2, <1>10, VwmAssumption DEF WellFormed, Linked
<1>12. Located
  BY <1>2, <1>10 DEF Located
<1> QED
  BY <1>11, <1>12 DEF WinInv

\* Every step keeps the windows proper.
LEMMA NextWin == WinInv /\ [Next]_vars => WinInv'
<1> SUFFICES ASSUME WinInv, [Next]_vars PROVE WinInv'
  OBVIOUS
<1>1. CASE CloseWin
  BY <1>1, CloseWinKeeps
<1>2. CASE \/ End \/ NoResize \/ ScanNext \/ ScanEnd \/ Select \/ ReadNext \/ ReadBeyond \/ ReadEnd
           \/ AllocFails \/ (pc = "key" /\ (KeyDivides \/ KeyKill \/ KeyQuit))
  BY <1>2, MovesOn
<1>3. CASE ScanDead \/ ReadDead \/ Reap \/ (pc = "key" /\ KeyDelete)
  BY <1>3, DeleteSteps
<1>4. CASE \E r \in Rows : Resize(r)
  BY <1>4, ResizeKeeps
<1>5. CASE pc = "key" /\ KeyOther
  <2>1. WellFormed' /\ wins' # <<>>
    BY <1>5, HasFrames DEF WinInv, WellFormed, Linked, KeyOther, winVars
  <2> QED
    BY <1>5, <2>1, DoneLocated DEF KeyOther
<1>6. CASE pc = "key" /\ KeyOpen
  BY <1>6, KeyOpenKeeps
<1>7. CASE pc = "key" /\ KeySplit
  BY <1>7, KeySplitKeeps
<1>8. CASE pc = "key" /\ KeyFrame
  BY <1>8, KeyFrameKeeps
<1>9. CASE pc = "key" /\ KeySize
  BY <1>9, KeySizeKeeps
<1>10. CASE pc = "key" /\ \E n \in Params \cup {1} : KeyNewWin(n)
  BY <1>10, KeyNewWinKeeps
<1>11. CASE pc = "key" /\ \E i \in DOMAIN wins : KeyWin(i)
  BY <1>11, KeyWinKeeps
<1>12. CASE \E w \in DOMAIN wins : \E i \in DOMAIN wins[w].frames : ProgramStep(w, i)
  BY <1>12, SetProcKeeps DEF ProgramStep, Starts, Dies, LetsGo
<1>13. CASE UNCHANGED vars
  BY <1>13 DEF WinInv, WellFormed, Linked, Located, frames, win, vars, winVars
<1> QED
  BY <1>1, <1>2, <1>3, <1>4, <1>5, <1>6, <1>7, <1>8, <1>9, <1>10, <1>11, <1>12, <1>13
     DEF Next, Main, Loop, ProgramStep

\* What holds after every step of the loop, for any number of windows.
THEOREM WindowsProper == Spec => []WinInv
<1> QED
  BY InitWin, NextWin, PTL DEF Spec

\* A frame of the proofs is one of TypeOK.
LEMMA FrameIs == \A f \in Frame : IsFrame(f)
BY DEF Frame, IsFrame

\* The types that the runs check.
THEOREM TypeCorrect == Spec => []TypeOK
<1>1. WinInv => TypeOK
  <2> SUFFICES ASSUME WinInv PROVE TypeOK
    OBVIOUS
  <2>1. /\ wins \in Seq(Window) /\ Len(wins) <= MaxWins /\ Linked /\ Located
        /\ \A w \in 1 .. Len(wins) : Proper(wins[w])
    BY DEF WinInv, WellFormed
  <2>2. wins # <<>> => curWin \in DOMAIN wins
    BY <2>1 DEF Linked
  <2>3. ASSUME NEW w \in DOMAIN wins
        PROVE  LET fs == wins[w].frames
               IN  /\ \A i \in DOMAIN fs : IsFrame(fs[i])
                   /\ fs # <<>> => wins[w].cur \in DOMAIN fs
                   /\ Len(fs) <= wins[w].max
    <3>1. wins[w] \in Window /\ Proper(wins[w])
      BY <2>1
    <3> DEFINE fs == wins[w].frames
    <3>2. fs \in Seq(Frame)
      BY <3>1 DEF Window
    <3>3. (fs # <<>> => wins[w].cur \in 1 .. Len(fs)) /\ Len(fs) <= wins[w].max
      BY <3>1 DEF Proper
    <3> HIDE DEF fs
    <3>4. DOMAIN fs = 1 .. Len(fs) /\ \A i \in DOMAIN fs : IsFrame(fs[i])
      BY <3>2, FrameIs
    <3> QED
      BY <3>3, <3>4 DEF fs
  <2>4. it \in 0 .. 4
    <3>1. CASE wins = <<>>
      BY <2>1, <3>1 DEF Located
    <3>2. CASE wins # <<>>
      <4> DEFINE n == Len(frames)
      <4>1. n \in 0 .. 3
        BY <3>2, CurrentWindow DEF WinInv
      <4>2. /\ it \in Nat /\ pc \in {"check", "scan", "select", "key", "reap", "read", "done"}
            /\ pc = "reap" => it \in 1 .. n
            /\ pc \in {"scan", "read"} => it \in 1 .. n + 1
            /\ pc \in {"check", "select", "key", "done"} => it = 0
        BY <2>1 DEF Located
      <4> HIDE DEF n
      <4> QED
        BY <4>1, <4>2
    <3> QED
      BY <3>1, <3>2
  <2> QED
    BY <2>1, <2>2, <2>3, <2>4 DEF TypeOK, Located
<1> QED
  BY <1>1, WindowsProper, PTL

\* The pointers that the loop looks into are into the lists.
THEOREM PointersGood == Spec => []NothingFreed
<1>1. WinInv => NothingFreed
  <2> SUFFICES ASSUME WinInv, wins # <<>>
               PROVE  /\ \A w \in DOMAIN wins :
                           wins[w].frames # <<>> => wins[w].last \in DOMAIN wins[w].frames
                      /\ lastWin \in DOMAIN wins \/ (lastWin = NULL /\ Len(wins) = 1)
    BY DEF NothingFreed
  <2>1. wins \in Seq(Window) /\ Linked /\ \A w \in 1 .. Len(wins) : Proper(wins[w])
    BY DEF WinInv, WellFormed
  <2>2. lastWin \in DOMAIN wins \/ (lastWin = NULL /\ Len(wins) = 1)
    BY <2>1 DEF Linked
  <2>3. ASSUME NEW w \in DOMAIN wins, wins[w].frames # <<>>
        PROVE  wins[w].last \in DOMAIN wins[w].frames
    <3>1. wins[w] \in Window /\ Proper(wins[w])
      BY <2>1
    <3>2. wins[w].frames \in Seq(Frame)
      BY <3>1 DEF Window
    <3>3. wins[w].last \in 1 .. Len(wins[w].frames)
      BY <2>3, <3>1 DEF Proper
    <3> QED
      BY <3>2, <3>3
  <2> QED
    BY <2>2, <2>3
<1> QED
  BY <1>1, WindowsProper, PTL

\* The sum of the rows of the first frames fs, as RowsFilled states it.
IsSum(s, fs) == s = [k \in 0 .. Len(fs) |-> IF k = 0 THEN 0 ELSE s[k - 1] + fs[k].rows]
Sum(fs) == LET s == CHOOSE s : IsSum(s, fs) IN s[Len(fs)]

\* Of up to three frames it is their total.
LEMMA SumIs ==
  ASSUME NEW fs \in Seq(Frame), Len(fs) \in 1 .. 3
  PROVE  Sum(fs) = Total(RowsOf(fs), Len(fs))
<1> DEFINE n == Len(fs)
           F == [q \in (1 .. n) \X Int |-> q[2] + fs[q[1]].rows]
           s == CHOOSE s : IsSum(s, fs)
<1>1. \A k \in 1 .. n : fs[k].rows \in Int
  <2>1. \A k \in 1 .. n : fs[k] \in Frame
    OBVIOUS
  <2> HIDE DEF n
  <2> QED
    BY <2>1 DEF Frame
<1>2. n \in Nat /\ n \in 1 .. 3
  OBVIOUS
<1>3. F \in [(1 .. n) \X Int -> Int] /\ \A k \in 1 .. n : \A x \in Int : F[<<k, x>>] = x + fs[k].rows
  <2> HIDE DEF n
  <2> QED
    BY <1>1
<1>4. \A f : IsSum(f, fs) <=> f = [k \in 0 .. n |-> IF k = 0 THEN 0 ELSE f[k - 1] + fs[k].rows]
  BY DEF IsSum
<1> HIDE DEF F, n
<1>5. PICK g : Goes(g, Int, 0, n, F)
  <2>1. 0 \in Int
    OBVIOUS
  <2> QED
    BY <1>2, <1>3, <2>1, Recursion
<1>6. IsSum(g, fs)
  <2>1. ASSUME NEW k \in 0 .. n PROVE g[k] = IF k = 0 THEN 0 ELSE g[k - 1] + fs[k].rows
    <3>1. CASE k = 0
      BY <1>5, <3>1 DEF Goes
    <3>2. CASE k # 0
      <4>1. k \in 1 .. n /\ k - 1 \in 0 .. n
        BY <1>2, <3>2
      <4>2. g[k] = F[<<k, g[k - 1]>>] /\ g[k - 1] \in Int
        BY <1>5, <4>1 DEF Goes
      <4> QED
        BY <1>3, <3>2, <4>1, <4>2
    <3> QED
      BY <3>1, <3>2
  <2>2. g = [k \in 0 .. n |-> IF k = 0 THEN 0 ELSE g[k - 1] + fs[k].rows]
    BY <1>5, <2>1 DEF Goes
  <2> QED
    BY <1>4, <2>2
<1>7. IsSum(s, fs)
  BY <1>6
<1> HIDE DEF s
<1>8. s = [k \in 0 .. n |-> IF k = 0 THEN 0 ELSE s[k - 1] + fs[k].rows]
  BY <1>4, <1>7
<1>9. s[n] = Total(RowsOf(fs), n)
  <2>1. /\ s[0] = 0 /\ s[1] = s[0] + fs[1].rows
        /\ n >= 2 => s[2] = s[1] + fs[2].rows
        /\ n = 3 => s[3] = s[2] + fs[3].rows
    BY <1>2, <1>8
  <2>2. /\ RowsOf(fs)[1] = fs[1].rows /\ fs[1].rows \in Int
        /\ n >= 2 => RowsOf(fs)[2] = fs[2].rows /\ fs[2].rows \in Int
        /\ n = 3 => RowsOf(fs)[3] = fs[3].rows /\ fs[3].rows \in Int
    BY <1>1, <1>2 DEF RowsOf, n
  <2>3. CASE n = 1
    BY <2>1, <2>2, <2>3 DEF Total
  <2>4. CASE n = 2
    BY <2>1, <2>2, <2>4 DEF Total
  <2>5. CASE n = 3
    BY <2>1, <2>2, <2>5 DEF Total
  <2> QED
    BY <1>2, <2>3, <2>4, <2>5
<1> QED
  BY <1>9 DEF s, n, Sum

\* No command and no resize loses a row, or leaves a frame less than two in a
\* window that has so many for each, at whatever height of the terminal.
THEOREM WindowsFilled == Spec => []RowsFilled
<1>1. WinInv => RowsFilled
  <2> SUFFICES ASSUME WinInv PROVE RowsFilled
    OBVIOUS
  <2>1. wins \in Seq(Window) /\ \A w \in 1 .. Len(wins) : Proper(wins[w])
    BY DEF WinInv, WellFormed
  <2>2. ASSUME NEW w \in DOMAIN wins, wins[w].frames # <<>>
        PROVE  /\ Sum(wins[w].frames) + Len(wins[w].frames) - 1 = wins[w].rows
               /\ wins[w].rows >= 3 * Len(wins[w].frames) - 1 =>
                    \A i \in DOMAIN wins[w].frames : wins[w].frames[i].rows >= 2
    <3> DEFINE fs == wins[w].frames
               r == wins[w].rows
               n == Len(fs)
    <3>1. fs \in Seq(Frame) /\ wins[w].max \in {2, 3} /\ Proper(wins[w])
      <4>1. wins[w] \in Window /\ Proper(wins[w])
        BY <2>1
      <4> QED
        BY <4>1 DEF Window
    <3>2. Fill(RowsOf(fs), n, r) /\ n <= wins[w].max /\ fs # <<>>
      BY <2>2, <3>1 DEF Proper
    <3>3. n \in 1 .. 3
      <4>1. n \in Nat /\ n # 0
        BY <3>1, <3>2
      <4> HIDE DEF n
      <4> QED
        BY <3>1, <3>2, <4>1
    <3>4. Sum(fs) = Total(RowsOf(fs), n)
      BY <3>1, <3>3, SumIs
    <3>5. \A i \in DOMAIN fs : fs[i].rows = RowsOf(fs)[i] /\ i \in 1 .. n
      BY <3>1 DEF RowsOf
    <3> HIDE DEF fs, r, n
    <3>6. Sum(fs) + n - 1 = r /\ (r >= 3 * n - 1 => \A i \in DOMAIN fs : fs[i].rows >= 2)
      BY <3>2, <3>4, <3>5 DEF Fill, Wide
    <3> QED
      BY <3>6 DEF fs, r, n
  <2> QED
    BY <2>2 DEF RowsFilled, Sum, IsSum
<1> QED
  BY <1>1, WindowsProper, PTL

-----------------------------------------------------------------------------
(***************************************************************************)
(* The programs: how many there are of a kind before and after a step.     *)
(***************************************************************************)

\* The frames of all windows by their places, and the places of those in F.
Places(ws) == {p \in (DOMAIN ws) \X (1 .. 3) : p[2] \in DOMAIN ws[p[1]].frames}
At(ws, p) == ws[p[1]].frames[p[2]]
Has(ws, F) == {p \in Places(ws) : At(ws, p) \in F}

Program == {f \in Frame : f.proc # "none"}
Dead == {f \in Frame : f.proc \in {"held", "zombie"}}
NotYet == {f \in Frame : f.proc = "starting"}
Ignorant == {f \in Frame : f.proc = "running" /\ f.tty # f.rows}

\* A place has a frame.
LEMMA AtFrame == ASSUME NEW ws \in Seq(Window), NEW p \in Places(ws) PROVE At(ws, p) \in Frame
<1>1. ws[p[1]] \in Window
  BY DEF Places
<1>2. ws[p[1]].frames \in Seq(Frame) /\ p[2] \in DOMAIN ws[p[1]].frames
  BY <1>1 DEF Window, Places
<1> QED
  BY <1>2 DEF At

\* There are finitely many.
LEMMA HasFinite ==
  ASSUME NEW ws \in Seq(Window), NEW F
  PROVE  IsFiniteSet(Has(ws, F)) /\ Cardinality(Has(ws, F)) \in Nat
<1> DEFINE P == (DOMAIN ws) \X (1 .. 3)
<1>1. DOMAIN ws = 1 .. Len(ws) /\ Len(ws) \in Nat
  OBVIOUS
<1>2. IsFiniteSet(1 .. Len(ws)) /\ IsFiniteSet(1 .. 3)
  <2>1. \A n \in Nat : n \in Int /\ 1 \in Int
    OBVIOUS
  <2>2. \A n \in Nat : IsFiniteSet(1 .. n)
    BY <2>1, FS_Interval
  <2> QED
    BY <1>1, <2>2
<1>3. IsFiniteSet(P)
  BY <1>1, <1>2, FS_Product
<1>4. Has(ws, F) \in SUBSET P
  BY DEF Has, Places
<1> HIDE DEF P
<1>5. IsFiniteSet(Has(ws, F))
  BY <1>3, <1>4, FS_Subset
<1> QED
  BY <1>5, FS_CardinalityType

\* The counts of the properties are those of these sets.
LEMMA CountIs ==
  ASSUME wins \in Seq(Window)
  PROVE  /\ Programs = Cardinality(Has(wins, Program))
         /\ Zombies = Cardinality(Has(wins, Dead))
         /\ Starting = Cardinality(Has(wins, NotYet))
         /\ Untold = Cardinality(Has(wins, Ignorant))
<1>1. \A p \in Places(wins) : At(wins, p) \in Frame
  BY AtFrame
<1>2. Has(wins, Program) = {p \in (DOMAIN wins) \X (1 .. 3) :
        p[2] \in DOMAIN wins[p[1]].frames /\ wins[p[1]].frames[p[2]].proc # "none"}
  BY <1>1 DEF Has, Places, At, Program
<1>3. Has(wins, Dead) = {p \in (DOMAIN wins) \X (1 .. 3) :
        p[2] \in DOMAIN wins[p[1]].frames /\ Ended(wins[p[1]].frames[p[2]])}
  BY <1>1 DEF Has, Places, At, Dead, Ended
<1>4. Has(wins, NotYet) = {p \in (DOMAIN wins) \X (1 .. 3) :
        p[2] \in DOMAIN wins[p[1]].frames /\ wins[p[1]].frames[p[2]].proc = "starting"}
  BY <1>1 DEF Has, Places, At, NotYet
<1>5. Has(wins, Ignorant) = {p \in (DOMAIN wins) \X (1 .. 3) :
        p[2] \in DOMAIN wins[p[1]].frames
          /\ wins[p[1]].frames[p[2]].proc = "running"
          /\ wins[p[1]].frames[p[2]].tty # wins[p[1]].frames[p[2]].rows}
  BY <1>1 DEF Has, Places, At, Ignorant
<1> QED
  BY <1>2, <1>3, <1>4, <1>5 DEF Programs, Zombies, Starting, Untold, Count

\* If each place of the one kind has one of the other kind for itself there are
\* no more of them, and less if one of those is for none.
LEMMA Injects ==
  ASSUME NEW ws \in Seq(Window), NEW vs \in Seq(Window), NEW F, NEW G, NEW g,
         \A p \in Has(vs, G) : g[p] \in Has(ws, F),
         \A p, q \in Has(vs, G) : g[p] = g[q] => p = q
  PROVE  /\ Cardinality(Has(vs, G)) <= Cardinality(Has(ws, F))
         /\ (\E q \in Has(ws, F) : \A p \in Has(vs, G) : g[p] # q) =>
              Cardinality(Has(vs, G)) < Cardinality(Has(ws, F))
<1> DEFINE S == Has(vs, G)
           T == Has(ws, F)
           f == [p \in S |-> g[p]]
<1>1. IsFiniteSet(T) /\ Cardinality(T) \in Nat /\ Cardinality(S) \in Nat
  BY HasFinite
<1>2. f \in Injection(S, T)
  BY DEF Injection, IsInjective
<1> HIDE DEF S, T
<1>3. /\ Cardinality(S) <= Cardinality(T)
      /\ Cardinality(S) = Cardinality(T) <=> f \in Surjection(S, T)
  <2> HIDE DEF f
  <2> QED
    BY <1>1, <1>2, FS_Injection
<1>4. (\E q \in T : \A p \in S : g[p] # q) => f \notin Surjection(S, T)
  BY DEF Surjection
<1>5. \A m, n \in Nat : m <= n /\ m # n => m < n
  OBVIOUS
<1>6. (\E q \in T : \A p \in S : g[p] # q) => Cardinality(S) < Cardinality(T)
  BY <1>1, <1>3, <1>4, <1>5
<1> QED
  BY <1>3, <1>6 DEF S, T

\* What a step that is not of a program makes of a frame: its program stays, or
\* is forked; one that runs and does not know its rows did not before.
Evolves(f, e) ==
  /\ e.proc = f.proc \/ (f.proc = "none" /\ e.proc = "starting")
  /\ e.proc = "running" /\ e.tty # e.rows => f.tty # f.rows

\* The windows ws become vs: the frame at p was at g[p], or is a new one, and
\* those at the places gone are gone.
Traced(ws, vs, g, gone) ==
  /\ \A p \in Places(vs) :
       IF g[p] \in Places(ws) THEN g[p] \notin gone /\ Evolves(At(ws, g[p]), At(vs, p))
                              ELSE At(vs, p).proc \in {"none", "starting"}
  /\ \A p, q \in Places(vs) : g[p] = g[q] => p = q
  /\ \A q \in Places(ws) \ gone : \E p \in Places(vs) : g[p] = q

\* Only a frame goes whose program has been waited for, or that has none.
Orderly(ws, vs) ==
  \E g, gone : /\ Traced(ws, vs, g, gone) /\ gone \subseteq Places(ws)
               /\ \A q \in gone : At(ws, q).proc \in {"none", "held", "zombie"}

\* Then no program is left behind, and none is not told.
LEMMA OrderlyCounts ==
  ASSUME NEW ws \in Seq(Window), NEW vs \in Seq(Window), Orderly(ws, vs)
  PROVE  /\ Cardinality(Has(vs, Program)) < Cardinality(Has(ws, Program)) =>
              Cardinality(Has(vs, Dead)) < Cardinality(Has(ws, Dead))
         /\ Cardinality(Has(vs, Ignorant)) <= Cardinality(Has(ws, Ignorant))
<1> PICK g, gone : /\ Traced(ws, vs, g, gone) /\ gone \subseteq Places(ws)
                   /\ \A q \in gone : At(ws, q).proc \in {"none", "held", "zombie"}
  BY DEF Orderly
<1>1. /\ \A p \in Places(ws) : At(ws, p) \in Frame
      /\ \A p \in Places(vs) : At(vs, p) \in Frame
  BY AtFrame
<1>2. \A F : Has(vs, F) \subseteq Places(vs) /\ Has(ws, F) \subseteq Places(ws)
  BY DEF Has
<1>3. \A F : \A p, q \in Has(vs, F) : g[p] = g[q] => p = q
  BY <1>2 DEF Traced
<1>4. Cardinality(Has(vs, Ignorant)) <= Cardinality(Has(ws, Ignorant))
  <2>1. \A p \in Has(vs, Ignorant) : g[p] \in Has(ws, Ignorant)
    <3> SUFFICES ASSUME NEW p \in Has(vs, Ignorant) PROVE g[p] \in Has(ws, Ignorant)
      OBVIOUS
    <3>1. p \in Places(vs) /\ At(vs, p).proc = "running" /\ At(vs, p).tty # At(vs, p).rows
      BY DEF Has, Ignorant
    <3>2. g[p] \in Places(ws) /\ Evolves(At(ws, g[p]), At(vs, p))
      BY <3>1 DEF Traced
    <3> QED
      BY <1>1, <3>1, <3>2 DEF Evolves, Has, Ignorant
  <2> QED
    BY <1>3, <2>1, Injects
<1>5. CASE \E q \in gone : At(ws, q).proc \in {"held", "zombie"}
  <2> PICK q \in gone : At(ws, q).proc \in {"held", "zombie"}
    BY <1>5
  <2>1. q \in Has(ws, Dead)
    BY <1>1 DEF Has, Dead
  <2>2. \A p \in Has(vs, Dead) : g[p] \in Has(ws, Dead) /\ g[p] # q
    <3> SUFFICES ASSUME NEW p \in Has(vs, Dead) PROVE g[p] \in Has(ws, Dead) /\ g[p] # q
      OBVIOUS
    <3>1. p \in Places(vs) /\ At(vs, p).proc \in {"held", "zombie"}
      BY DEF Has, Dead
    <3>2. g[p] \in Places(ws) /\ g[p] \notin gone /\ Evolves(At(ws, g[p]), At(vs, p))
      BY <3>1 DEF Traced
    <3> QED
      BY <1>1, <3>1, <3>2 DEF Evolves, Has, Dead
  <2>3. Cardinality(Has(vs, Dead)) < Cardinality(Has(ws, Dead))
    BY <1>3, <2>1, <2>2, Injects
  <2> QED
    BY <1>4, <2>3
<1>6. CASE \A q \in gone : At(ws, q).proc = "none"
  <2> DEFINE h == [q \in Has(ws, Program) |-> CHOOSE p \in Places(vs) : g[p] = q]
  <2>1. \A q \in Has(ws, Program) : h[q] \in Places(vs) /\ g[h[q]] = q
    <3> SUFFICES ASSUME NEW q \in Has(ws, Program) PROVE h[q] \in Places(vs) /\ g[h[q]] = q
      OBVIOUS
    <3>1. q \in Places(ws) \ gone
      BY <1>6 DEF Has, Program
    <3>2. \E p \in Places(vs) : g[p] = q
      BY <3>1 DEF Traced
    <3> QED
      BY <3>2
  <2> HIDE DEF h
  <2>2. \A q \in Has(ws, Program) : h[q] \in Has(vs, Program)
    <3> SUFFICES ASSUME NEW q \in Has(ws, Program) PROVE h[q] \in Has(vs, Program)
      OBVIOUS
    <3>1. q \in Places(ws) /\ At(ws, q).proc # "none" /\ g[h[q]] = q /\ h[q] \in Places(vs)
      BY <2>1 DEF Has, Program
    <3>2. Evolves(At(ws, q), At(vs, h[q]))
      BY <3>1 DEF Traced
    <3> QED
      BY <1>1, <3>1, <3>2 DEF Evolves, Has, Program
  <2>3. \A p, q \in Has(ws, Program) : h[p] = h[q] => p = q
    BY <2>1
  <2>4. Cardinality(Has(ws, Program)) <= Cardinality(Has(vs, Program))
    BY <2>2, <2>3, Injects
  <2>5. ~ (Cardinality(Has(vs, Program)) < Cardinality(Has(ws, Program)))
    <3>1. \A m, n \in Nat : m <= n => ~ (n < m)
      OBVIOUS
    <3> QED
      BY <2>4, <3>1, HasFinite
  <2> QED
    BY <1>4, <2>5
<1> QED
  BY <1>5, <1>6

-----------------------------------------------------------------------------
(***************************************************************************)
(* Each step but those of the programs is orderly.                         *)
(***************************************************************************)

\* The frames fs become gs: those that were there stay at their places.
FramesEvolve(fs, gs) ==
  /\ \A i \in DOMAIN fs : i \in DOMAIN gs /\ Evolves(fs[i], gs[i])
  /\ \A i \in (DOMAIN gs) \ (DOMAIN fs) : gs[i].proc \in {"none", "starting"}

\* Frames that stay as they are.
LEMMA EvolveSame == \A fs : FramesEvolve(fs, fs)
BY DEF FramesEvolve, Evolves

\* A frame that is resized, with its program.
LEMMA ResizedEvolve ==
  ASSUME NEW fs \in Seq(Frame), NEW rs
  PROVE  FramesEvolve(fs, Resized(fs, rs))
<1> DEFINE f(i) == [fs[i] EXCEPT !.rows = rs[i],
                                 !.tty = IF fs[i].proc \in {"none", "starting"} THEN @ ELSE rs[i]]
<1>1. ASSUME NEW i \in DOMAIN fs PROVE Evolves(fs[i], f(i))
  <2>1. fs[i] \in Frame
    OBVIOUS
  <2> QED
    BY <2>1 DEF Frame, Evolves
<1>2. Resized(fs, rs) = [i \in DOMAIN fs |-> f(i)]
  BY DEF Resized
<1> HIDE DEF f
<1> QED
  BY <1>1, <1>2 DEF FramesEvolve

\* A program that is forked for a frame.
LEMMA ForkedEvolve ==
  ASSUME NEW fs \in Seq(Frame), NEW failed
  PROVE  FramesEvolve(fs, Forked(fs, failed))
<1> DEFINE f(i) == IF fs[i].proc # "none" \/ i \in failed THEN fs[i]
                   ELSE [fs[i] EXCEPT !.proc = "starting", !.tty = fs[i].rows]
<1>1. ASSUME NEW i \in DOMAIN fs PROVE Evolves(fs[i], f(i))
  <2>1. fs[i] \in Frame
    OBVIOUS
  <2> QED
    BY <2>1 DEF Frame, Evolves
<1>2. Forked(fs, failed) = [i \in DOMAIN fs |-> f(i)]
  BY DEF Forked
<1> HIDE DEF f
<1> QED
  BY <1>1, <1>2 DEF FramesEvolve

\* The same of one frame.
LEMMA ForkedOneEvolves ==
  ASSUME NEW g \in Frame, NEW failed
  PROVE  Evolves(g, Forked(<<g>>, failed)[1])
<1> DEFINE s == <<g>>
<1>1. s \in Seq(Frame) /\ 1 \in DOMAIN s /\ s[1] = g
  OBVIOUS
<1> HIDE DEF s
<1> QED
  BY <1>1, ForkedEvolve DEF FramesEvolve, s

\* The windows stay where they are, and others come behind them.
LEMMA AllEvolve ==
  ASSUME NEW ws \in Seq(Window), NEW vs \in Seq(Window), Len(ws) <= Len(vs),
         \A w \in 1 .. Len(ws) : FramesEvolve(ws[w].frames, vs[w].frames),
         \A w \in 1 .. Len(vs) : w > Len(ws) =>
           \A i \in DOMAIN vs[w].frames : vs[w].frames[i].proc \in {"none", "starting"}
  PROVE  Orderly(ws, vs)
<1> DEFINE g == [p \in Places(vs) |-> p]
<1>1. /\ DOMAIN ws = 1 .. Len(ws) /\ DOMAIN vs = 1 .. Len(vs)
      /\ Len(ws) \in Nat /\ Len(vs) \in Nat
  OBVIOUS
<1>2. Places(ws) \subseteq Places(vs)
  <2> SUFFICES ASSUME NEW p \in Places(ws) PROVE p \in Places(vs)
    OBVIOUS
  <2>1. /\ p \in (DOMAIN ws) \X (1 .. 3) /\ p[2] \in DOMAIN ws[p[1]].frames
    BY DEF Places
  <2>2. p[1] \in 1 .. Len(ws) /\ p[1] \in 1 .. Len(vs)
    BY <1>1, <2>1
  <2>3. p \in (DOMAIN vs) \X (1 .. 3)
    BY <1>1, <2>1, <2>2
  <2> QED
    BY <2>1, <2>2, <2>3 DEF Places, FramesEvolve
<1>3. ASSUME NEW p \in Places(vs)
      PROVE  IF p \in Places(ws) THEN Evolves(At(ws, p), At(vs, p))
                                 ELSE At(vs, p).proc \in {"none", "starting"}
  <2>1. /\ p[1] \in 1 .. Len(vs) /\ p[2] \in DOMAIN vs[p[1]].frames /\ p[2] \in 1 .. 3
        /\ p = <<p[1], p[2]>>
    BY <1>1 DEF Places
  <2>2. CASE p[1] > Len(ws)
    <3>1. p \notin Places(ws)
      BY <1>1, <2>1, <2>2 DEF Places
    <3> QED
      BY <2>1, <2>2, <3>1 DEF At
  <2>3. CASE ~ (p[1] > Len(ws))
    <3>1. p[1] \in 1 .. Len(ws)
      BY <1>1, <2>1, <2>3
    <3>2. p \in Places(ws) <=> p[2] \in DOMAIN ws[p[1]].frames
      BY <1>1, <2>1, <3>1 DEF Places
    <3> QED
      BY <2>1, <3>1, <3>2 DEF At, FramesEvolve
  <2> QED
    BY <2>2, <2>3
<1>4. Traced(ws, vs, g, {})
  BY <1>2, <1>3 DEF Traced
<1> QED
  BY <1>4 DEF Orderly

\* A command changes the frames of the current window.
LEMMA InWinOrderly ==
  ASSUME WellFormed, wins # <<>>, NEW w \in Window, FramesEvolve(win.frames, w.frames),
         wins' = [wins EXCEPT ![curWin] = w]
  PROVE  Orderly(wins, wins')
<1>1. wins \in Seq(Window) /\ curWin \in 1 .. Len(wins)
  BY CurrentWindow DEF WellFormed
<1>2. wins' \in Seq(Window) /\ Len(wins') = Len(wins)
  BY <1>1
<1>3. \A v \in 1 .. Len(wins) : FramesEvolve(wins[v].frames, wins'[v].frames)
  BY <1>1, EvolveSame DEF win
<1>4. \A l \in Nat : l <= l /\ \A v \in 1 .. l : ~ (v > l)
  OBVIOUS
<1>5. Len(wins) \in Nat
  BY <1>1
<1>6. Len(wins) <= Len(wins') /\ \A v \in 1 .. Len(wins') : ~ (v > Len(wins))
  BY ONLY <1>2, <1>4, <1>5
<1> QED
  BY <1>1, <1>2, <1>3, <1>6, AllEvolve

\* `!', `c': the frame is given a program.
LEMMA KeyOpenOrderly ==
  ASSUME WinInv, pc = "key", KeyOpen
  PROVE  Orderly(wins, wins')
<1>1. WellFormed /\ wins # <<>> /\ frames # <<>> /\ Len(frames) \in 1 .. 3
  BY HasFrames DEF WinInv
<1>2. /\ win \in Window /\ Proper(win) /\ frames = win.frames
      /\ win.frames \in Seq(Frame)
  BY <1>1, CurrentWindow
<1>3. win.cur \in 1 .. Len(win.frames)
  <2>1. win.frames # <<>>
    BY <1>1, <1>2
  <2> QED
    BY <1>2, <2>1 DEF Proper
<1>4. PICK failed : InWin([win EXCEPT !.frames[win.cur] = Forked(<<@>>, failed)[1]])
  BY DEF KeyOpen
<1> DEFINE g == win.frames[win.cur]
           f == Forked(<<g>>, failed)[1]
<1>5. g \in Frame
  BY <1>2, <1>3
<1>6. f \in Frame /\ f.rows = g.rows /\ Evolves(g, f)
  <2> HIDE DEF g
  <2> QED
    BY <1>5, ForkedOne, ForkedOneEvolves
<1> HIDE DEF f
<1> DEFINE v == [win EXCEPT !.frames = [@ EXCEPT ![win.cur] = f]]
<1>7. v \in Window
  BY <1>2, <1>3, <1>6, SameRowsProper
<1>8. FramesEvolve(win.frames, v.frames)
  <2>1. v.frames = [win.frames EXCEPT ![win.cur] = f]
    BY <1>2 DEF Window
  <2> QED
    BY <1>2, <1>3, <1>6, <2>1, EvolveSame DEF FramesEvolve
<1>9. wins' = [wins EXCEPT ![curWin] = v]
  BY <1>4 DEF InWin, f
<1> HIDE DEF v
<1> QED
  BY <1>1, <1>7, <1>8, <1>9, InWinOrderly

\* `j', `k', `w': the frames stay as they are.
LEMMA KeyFrameOrderly ==
  ASSUME WinInv, pc = "key", KeyFrame
  PROVE  Orderly(wins, wins')
<1>1. WellFormed /\ wins # <<>>
  BY HasFrames DEF WinInv
<1>2. /\ win \in Window /\ win.cur \in Nat /\ win.frames \in Seq(Frame) /\ frames = win.frames
  BY <1>1, CurrentWindow
<1>3. PICK i \in DOMAIN frames :
        /\ (i - win.cur) % Len(frames) \in {1, Len(frames) - 1}
        /\ InWin([win EXCEPT !.last = win.cur, !.cur = i])
  BY DEF KeyFrame
<1> DEFINE v == [win EXCEPT !.last = win.cur, !.cur = i]
<1>4. v \in Window /\ v.frames = win.frames
  <2>1. i \in Nat
    BY <1>2
  <2> QED
    BY <1>2, <2>1 DEF Window
<1>5. wins' = [wins EXCEPT ![curWin] = v]
  BY <1>3 DEF InWin
<1> HIDE DEF v
<1> QED
  BY <1>1, <1>4, <1>5, EvolveSame, InWinOrderly

\* A new frame behind those of the window: it has no program, or one that starts.
LEMMA SplitEvolve ==
  ASSUME NEW fs \in Seq(Frame), NEW rs \in [1 .. Len(fs) + 1 -> Int], NEW failed
  PROVE  LET n == Len(fs) + 1
             es == Resized(Append(fs, NewFrame(0)), rs)
         IN  FramesEvolve(fs, [es EXCEPT ![n] = Forked(<<@>>, failed)[1]])
<1> DEFINE n == Len(fs) + 1
           new == Append(fs, NewFrame(0))
           es == Resized(new, rs)
           f == Forked(<<es[n]>>, failed)[1]
           gs == [es EXCEPT ![n] = f]
<1>1. /\ new \in Seq(Frame) /\ Len(new) = n /\ n \in Nat /\ n \in 1 .. n
      /\ DOMAIN fs = 1 .. n - 1 /\ \A i \in 1 .. n - 1 : new[i] = fs[i]
      /\ new[n] = NewFrame(0)
  <2>1. NewFrame(0) \in Frame
    BY DEF NewFrame, Frame
  <2> QED
    BY <2>1
<1>2. rs \in [1 .. n -> Int]
  OBVIOUS
<1> HIDE DEF new, n
<1>3. FramesEvolve(new, es)
  BY <1>1, ResizedEvolve
<1>4. /\ es \in Seq(Frame) /\ Len(es) = n /\ \A i \in 1 .. n : es[i].proc = new[i].proc
  BY <1>1, <1>2, ResizedIs
<1> HIDE DEF es
<1>5. es[n] \in Frame /\ es[n].proc = "none" /\ DOMAIN es = 1 .. n
  BY <1>1, <1>4 DEF NewFrame
<1>6. f.proc \in {"none", "starting"}
  <2> DEFINE e == es[n]
  <2>1. e \in Frame /\ e.proc = "none"
    BY <1>5
  <2> HIDE DEF e
  <2>2. Evolves(e, Forked(<<e>>, failed)[1])
    BY <2>1, ForkedOneEvolves
  <2> QED
    BY <2>1, <2>2 DEF Evolves, e
<1> HIDE DEF f
<1>7. DOMAIN gs = 1 .. n /\ gs[n] = f /\ \A i \in 1 .. n - 1 : gs[i] = es[i]
  BY <1>1, <1>5
<1> HIDE DEF gs
<1>8. \A i \in 1 .. n - 1 : i \in 1 .. n /\ Evolves(fs[i], gs[i])
  <2> TAKE i \in 1 .. n - 1
  <2>1. i \in 1 .. n
    BY <1>1
  <2>2. Evolves(new[i], es[i])
    BY <1>1, <1>3, <2>1 DEF FramesEvolve
  <2> QED
    BY <1>1, <1>7, <2>1, <2>2
<1>9. \A i \in (1 .. n) \ (1 .. n - 1) : i = n
  BY <1>1
<1>10. FramesEvolve(fs, gs)
  BY <1>1, <1>6, <1>7, <1>8, <1>9 DEF FramesEvolve
<1> QED
  BY <1>10 DEF gs, f, es, new, n

\* `s', `S'.
LEMMA KeySplitOrderly ==
  ASSUME WinInv, pc = "key", KeySplit
  PROVE  Orderly(wins, wins')
<1>1. WellFormed /\ wins # <<>> /\ frames # <<>> /\ Len(frames) \in 1 .. 3
  BY HasFrames DEF WinInv
<1>2. /\ win \in Window /\ Proper(win) /\ frames = win.frames /\ win.frames \in Seq(Frame)
      /\ win.max \in {2, 3} /\ win.rows \in Rows
  BY <1>1, CurrentWindow
<1>3. win.frames # <<>> /\ Len(win.frames) < win.max
  BY <1>1, <1>2 DEF KeySplit
<1> DEFINE n == Len(win.frames) + 1
           rs == Share(win.rows, n)
           fs == Resized(Append(win.frames, NewFrame(0)), rs)
           v(failed) == [win EXCEPT !.frames = [fs EXCEPT ![n] = Forked(<<@>>, failed)[1]],
                                    !.cur = n]
<1>4. PICK failed : InWin(v(failed))
  BY <1>2 DEF KeySplit
<1> DEFINE gs == [fs EXCEPT ![n] = Forked(<<@>>, failed)[1]]
<1>5. v(failed) \in Window /\ v(failed) = [win EXCEPT !.frames = gs, !.cur = n]
  BY <1>2, <1>3, SplitProper
<1> HIDE DEF v
<1>6. rs \in [1 .. n -> Int]
  <2> DEFINE m == Len(win.frames)
  <2>1. m \in Nat /\ m < win.max /\ n = m + 1
    BY <1>2, <1>3
  <2> HIDE DEF m, n
  <2>2. n \in 1 .. 3
    BY <1>2, <2>1
  <2> QED
    BY <1>2, <2>2, ShareIs
<1>7. FramesEvolve(win.frames, gs)
  <2> HIDE DEF rs
  <2> QED
    BY <1>2, <1>6, SplitEvolve
<1> HIDE DEF gs, n
<1>8. v(failed).frames = gs
  BY <1>2, <1>5 DEF Window
<1>9. wins' = [wins EXCEPT ![curWin] = v(failed)]
  BY <1>4 DEF InWin
<1> QED
  BY <1>1, <1>5, <1>7, <1>8, <1>9, InWinOrderly

\* `+', `-', `='.
LEMMA KeySizeOrderly ==
  ASSUME WinInv, pc = "key", KeySize
  PROVE  Orderly(wins, wins')
<1>1. WellFormed /\ wins # <<>> /\ wins \in Seq(Window)
  BY HasFrames DEF WinInv, WellFormed
<1>2. win \in Window /\ win.frames \in Seq(Frame) /\ curWin \in 1 .. Len(wins)
  BY <1>1, CurrentWindow
<1>3. \E rs : InWin([win EXCEPT !.frames = Resized(@, rs)])
  BY DEF KeySize
<1>4. PICK rs : InWin([win EXCEPT !.frames = Resized(@, rs)])
  BY <1>3
<1> DEFINE fs == Resized(win.frames, rs)
           v == [win EXCEPT !.frames = fs]
<1>5. wins' = [wins EXCEPT ![curWin] = v]
  BY <1>4 DEF InWin
<1>6. FramesEvolve(win.frames, fs)
  BY <1>2, ResizedEvolve
<1> HIDE DEF fs
<1>7. v.frames = fs
  BY <1>2 DEF Window
<1> HIDE DEF v
<1>8. v \in Window
  <2>1. wins' \in Seq(Window)
    BY KeySizeKeeps DEF WinInv, WellFormed
  <2>2. wins'[curWin] = v /\ curWin \in 1 .. Len(wins')
    BY <1>1, <1>2, <1>5
  <2> QED
    BY <2>1, <2>2
<1> QED
  BY <1>1, <1>5, <1>6, <1>7, <1>8, InWinOrderly

\* The windows are as many as before.
LEMMA SameOrderly ==
  ASSUME NEW ws \in Seq(Window), NEW vs \in Seq(Window), Len(vs) = Len(ws),
         \A w \in 1 .. Len(ws) : FramesEvolve(ws[w].frames, vs[w].frames)
  PROVE  Orderly(ws, vs)
<1>1. \A l \in Nat : l <= l /\ \A v \in 1 .. l : ~ (v > l)
  OBVIOUS
<1>2. Len(ws) \in Nat
  OBVIOUS
<1>3. Len(ws) <= Len(vs) /\ \A v \in 1 .. Len(vs) : ~ (v > Len(ws))
  BY ONLY <1>1, <1>2, Len(vs) = Len(ws)
<1> QED
  BY <1>3, AllEvolve

\* Nothing happens to the windows.
LEMMA NothingOrderly ==
  ASSUME WinInv, wins' = wins
  PROVE  Orderly(wins, wins')
<1>1. wins \in Seq(Window)
  BY DEF WinInv, WellFormed
<1> QED
  BY <1>1, EvolveSame, SameOrderly

\* All windows are given their rows.
LEMMA ResizeOrderly ==
  ASSUME WinInv, NEW r \in Rows, Resize(r)
  PROVE  Orderly(wins, wins')
<1>1. wins \in Seq(Window)
  BY DEF WinInv, WellFormed
<1>2. wins' \in Seq(Window)
  BY ResizeKeeps DEF WinInv, WellFormed
<1> DEFINE fs(w) == Resized(wins[w].frames, Share(r, Len(wins[w].frames)))
           v(w) == [wins[w] EXCEPT !.rows = r, !.frames = fs(w)]
<1>3. wins' = [w \in DOMAIN wins |-> v(w)]
  BY DEF Resize
<1>4. ASSUME NEW w \in 1 .. Len(wins) PROVE FramesEvolve(wins[w].frames, v(w).frames)
  <2>1. wins[w] \in Window
    BY <1>1
  <2>2. FramesEvolve(wins[w].frames, fs(w))
    <3>1. wins[w].frames \in Seq(Frame)
      BY <2>1 DEF Window
    <3> QED
      BY <3>1, ResizedEvolve
  <2> HIDE DEF fs
  <2>3. v(w).frames = fs(w)
    BY <2>1 DEF Window
  <2> QED
    BY <2>2, <2>3
<1> HIDE DEF v
<1>5. DOMAIN wins = 1 .. Len(wins) /\ Len(wins) \in Nat
  BY <1>1
<1>6. Len(wins') = Len(wins) /\ \A w \in 1 .. Len(wins) : wins'[w] = v(w)
  BY <1>3, <1>5
<1> QED
  BY <1>1, <1>2, <1>4, <1>6, SameOrderly

\* A window is opened: what had no program yet gets one.
LEMMA OpenedEvolve ==
  ASSUME NEW w \in Window, NEW failed
  PROVE  FramesEvolve(w.frames, Opened(w, failed).frames)
<1> DEFINE fs == IF w.started THEN w.frames ELSE Forked(w.frames, failed)
<1>1. FramesEvolve(w.frames, fs)
  <2>1. w.frames \in Seq(Frame)
    BY DEF Window
  <2> QED
    BY <2>1, EvolveSame, ForkedEvolve
<1>2. Opened(w, failed) = [w EXCEPT !.frames = fs, !.started = TRUE]
  BY DEF Opened
<1> HIDE DEF fs
<1>3. Opened(w, failed).frames = fs
  BY <1>2 DEF Window
<1> QED
  BY <1>1, <1>3

\* `h', `l', the key of the last window, and the function keys.
LEMMA KeyWinOrderly ==
  ASSUME WinInv, pc = "key", NEW i \in DOMAIN wins, KeyWin(i)
  PROVE  Orderly(wins, wins')
<1>1. wins \in Seq(Window) /\ i \in 1 .. Len(wins)
  BY DEF WinInv, WellFormed
<1>2. wins' \in Seq(Window)
  BY KeyWinKeeps DEF WinInv, WellFormed
<1>3. PICK failed : wins' = [wins EXCEPT ![i] = Opened(@, failed)]
  BY DEF KeyWin, ChangeWin
<1>4. FramesEvolve(wins[i].frames, Opened(wins[i], failed).frames)
  <2>1. wins[i] \in Window
    BY <1>1
  <2> QED
    BY <2>1, OpenedEvolve
<1>5. Len(wins') = Len(wins)
  BY <1>1, <1>3
<1>6. \A w \in 1 .. Len(wins) : FramesEvolve(wins[w].frames, wins'[w].frames)
  BY <1>1, <1>3, <1>4, EvolveSame
<1> QED
  BY <1>1, <1>2, <1>5, <1>6, SameOrderly

\* `n': the frames of the new window have no program, or one that starts.
LEMMA KeyNewWinOrderly ==
  ASSUME WinInv, pc = "key", NEW n \in Params \cup {1}, KeyNewWin(n)
  PROVE  Orderly(wins, wins')
<1>1. wins \in Seq(Window)
  BY DEF WinInv, WellFormed
<1>2. wins' \in Seq(Window)
  BY KeyNewWinKeeps DEF WinInv, WellFormed
<1> DEFINE new == [i \in 1 .. n |-> NewFrame(Share(screen, n)[i])]
           v(failed) == [frames |-> Forked(new, failed), cur |-> 1, last |-> 1,
                         rows |-> screen, max |-> 3, started |-> FALSE]
<1>3. PICK failed : wins' = Append(wins, v(failed))
  BY DEF KeyNewWin
<1>4. \A i \in DOMAIN v(failed).frames : v(failed).frames[i].proc \in {"none", "starting"}
  <2> DEFINE fs == Forked(new, failed)
  <2>1. \A i \in 1 .. n : new[i] = NewFrame(Share(screen, n)[i])
    OBVIOUS
  <2>2. DOMAIN new = 1 .. n
    OBVIOUS
  <2> HIDE DEF new
  <2>3. ASSUME NEW i \in DOMAIN fs PROVE fs[i].proc \in {"none", "starting"}
    <3>1. i \in 1 .. n /\ new[i] = NewFrame(Share(screen, n)[i])
      BY <2>1, <2>2 DEF Forked
    <3> DEFINE r == Share(screen, n)[i]
    <3>2. fs[i] = IF new[i].proc # "none" \/ i \in failed THEN new[i]
                  ELSE [new[i] EXCEPT !.proc = "starting", !.tty = new[i].rows]
      BY <2>2, <3>1 DEF Forked
    <3> HIDE DEF r
    <3>3. new[i] = [rows |-> r, proc |-> "none", tty |-> 0]
      BY <3>1 DEF NewFrame, r
    <3> HIDE DEF fs
    <3> QED
      BY <3>2, <3>3
  <2> HIDE DEF fs
  <2>4. v(failed).frames = fs
    BY DEF fs
  <2> QED
    BY <2>3, <2>4
<1> HIDE DEF v
<1>5. /\ Len(wins) \in Nat /\ Len(wins') = Len(wins) + 1 /\ wins'[Len(wins) + 1] = v(failed)
      /\ \A w \in 1 .. Len(wins) : wins'[w] = wins[w]
  BY <1>1, <1>3
<1>6. \A l \in Nat : l <= l + 1 /\ \A w \in 1 .. l + 1 : w > l => w = l + 1
  OBVIOUS
<1>7. Len(wins) <= Len(wins') /\ \A w \in 1 .. Len(wins') : w > Len(wins) => w = Len(wins) + 1
  BY ONLY <1>5, <1>6
<1>8. \A w \in 1 .. Len(wins') : w > Len(wins) =>
        \A i \in DOMAIN wins'[w].frames : wins'[w].frames[i].proc \in {"none", "starting"}
  BY <1>4, <1>5, <1>7
<1>9. \A w \in 1 .. Len(wins) : FramesEvolve(wins[w].frames, wins'[w].frames)
  BY <1>5, EvolveSame
<1> QED
  BY <1>1, <1>2, <1>7, <1>8, <1>9, AllEvolve

\* A place is the number of a window and that of a frame of it.
LEMMA PlaceIs ==
  ASSUME NEW ws \in Seq(Window)
  PROVE  /\ \A p \in Places(ws) : p = <<p[1], p[2]>>
         /\ \A w, i : <<w, i>> \in Places(ws) <=>
                        w \in 1 .. Len(ws) /\ i \in 1 .. 3 /\ i \in DOMAIN ws[w].frames
         /\ \A w, i : At(ws, <<w, i>>) = ws[w].frames[i]
<1>1. DOMAIN ws = 1 .. Len(ws)
  OBVIOUS
<1> QED
  BY <1>1 DEF Places, At

\* Where frame i was before frame k went, or window i before window k.
Before(i, k) == IF i < k THEN i ELSE i + 1

\* No two come from the same place, none from k, and there is one from every other.
LEMMA BeforeIs ==
  ASSUME NEW n \in Nat, NEW k \in 1 .. n
  PROVE  /\ \A i \in 1 .. n - 1 : Before(i, k) \in 1 .. n /\ Before(i, k) # k
         /\ \A i, j \in 1 .. n - 1 : Before(i, k) = Before(j, k) => i = j
         /\ \A j \in 1 .. n : j # k => \E i \in 1 .. n - 1 : Before(i, k) = j
<1>1. ASSUME NEW j \in 1 .. n, j # k PROVE \E i \in 1 .. n - 1 : Before(i, k) = j
  <2>1. CASE j < k
    <3>1. j \in 1 .. n - 1 /\ Before(j, k) = j
      BY <2>1 DEF Before
    <3> QED
      BY <3>1
  <2>2. CASE ~ (j < k)
    <3>1. j - 1 \in 1 .. n - 1 /\ Before(j - 1, k) = j
      BY <1>1, <2>2 DEF Before
    <3> QED
      BY <3>1
  <2> QED
    BY <2>1, <2>2
<1> QED
  BY <1>1 DEF Before

\* A frame goes whose program has been waited for, or that has none.
LEMMA FrameGone ==
  ASSUME NEW ws \in Seq(Window), NEW vs \in Seq(Window), Len(vs) = Len(ws),
         NEW c \in 1 .. Len(ws), NEW n \in 1 .. 3, NEW k \in 1 .. n,
         DOMAIN ws[c].frames = 1 .. n, DOMAIN vs[c].frames = 1 .. n - 1,
         \A w \in 1 .. Len(ws) : w # c => vs[w].frames = ws[w].frames,
         \A i \in 1 .. n - 1 : Evolves(ws[c].frames[Before(i, k)], vs[c].frames[i]),
         ws[c].frames[k].proc \in {"none", "held", "zombie"}
  PROVE  Orderly(ws, vs)
<1> DEFINE from(p) == IF p[1] = c THEN <<c, Before(p[2], k)>> ELSE p
           g == [p \in Places(vs) |-> from(p)]
           gone == {<<c, k>>}
<1>1. /\ \A i \in 1 .. n - 1 : i \in 1 .. 3 /\ Before(i, k) \in 1 .. n /\ Before(i, k) # k
      /\ \A i, j \in 1 .. n - 1 : Before(i, k) = Before(j, k) => i = j
      /\ \A j \in 1 .. n : j # k => \E i \in 1 .. n - 1 : Before(i, k) = j
      /\ \A i \in 1 .. n : i \in 1 .. 3
  <2>1. n \in Nat /\ \A i \in 1 .. n - 1 : i \in 1 .. 3
    OBVIOUS
  <2>2. \A i \in 1 .. n : i \in 1 .. 3
    OBVIOUS
  <2> QED
    BY <2>1, <2>2, BeforeIs
<1>2. ASSUME NEW p \in Places(vs)
      PROVE  /\ p = <<p[1], p[2]>> /\ p[1] \in 1 .. Len(ws) /\ p[2] \in 1 .. 3
             /\ p[1] = c => p[2] \in 1 .. n - 1
             /\ p[1] # c => p[2] \in DOMAIN ws[p[1]].frames
  BY PlaceIs
<1>3. ASSUME NEW p \in Places(vs)
      PROVE  /\ from(p) \in Places(ws) /\ from(p) \notin gone
             /\ Evolves(At(ws, from(p)), At(vs, p))
  <2>1. CASE p[1] = c
    <3>1. p[2] \in 1 .. n - 1 /\ p = <<c, p[2]>>
      BY <1>2, <2>1
    <3>2. Before(p[2], k) \in 1 .. n /\ Before(p[2], k) # k
      BY <1>1, <3>1
    <3>3. from(p) = <<c, Before(p[2], k)>>
      BY <2>1
    <3>4. from(p) \in Places(ws) /\ from(p) \notin gone
      BY <1>1, <3>2, <3>3, PlaceIs
    <3>5. At(ws, from(p)) = ws[c].frames[Before(p[2], k)] /\ At(vs, p) = vs[c].frames[p[2]]
      BY <3>1, <3>3, PlaceIs
    <3> QED
      BY <3>1, <3>4, <3>5
  <2>2. CASE p[1] # c
    <3>1. from(p) = p /\ p[1] \in 1 .. Len(ws) /\ p[2] \in DOMAIN ws[p[1]].frames
      BY <1>2, <2>2
    <3>2. p \in Places(ws) /\ p \notin gone
      BY <1>2, <2>2, <3>1, PlaceIs
    <3>3. At(ws, p) = At(vs, p)
      BY <2>2, <3>1 DEF At
    <3> QED
      BY <3>1, <3>2, <3>3 DEF Evolves
  <2> QED
    BY <2>1, <2>2
<1>4. ASSUME NEW p \in Places(vs), NEW q \in Places(vs), from(p) = from(q) PROVE p = q
  <2>1. CASE p[1] = c /\ q[1] = c
    <3>1. p[2] \in 1 .. n - 1 /\ q[2] \in 1 .. n - 1 /\ p = <<c, p[2]>> /\ q = <<c, q[2]>>
      BY <1>2, <2>1
    <3>2. Before(p[2], k) = Before(q[2], k)
      BY <1>4, <2>1
    <3> QED
      BY <1>1, <3>1, <3>2
  <2>2. CASE p[1] # c \/ q[1] # c
    <3>1. from(p)[1] = p[1] /\ from(q)[1] = q[1]
      BY <1>2
    <3> QED
      BY <1>4, <2>2, <3>1
  <2> QED
    BY <2>1, <2>2
<1>5. ASSUME NEW q \in Places(ws) \ gone PROVE \E p \in Places(vs) : from(p) = q
  <2>1. q = <<q[1], q[2]>> /\ q[1] \in 1 .. Len(ws) /\ q[2] \in 1 .. 3
        /\ q[2] \in DOMAIN ws[q[1]].frames
    BY PlaceIs
  <2>2. CASE q[1] = c
    <3>1. q[2] \in 1 .. n /\ q[2] # k
      BY <1>5, <2>1, <2>2
    <3>2. PICK i \in 1 .. n - 1 : Before(i, k) = q[2]
      BY <1>1, <3>1
    <3>3. <<c, i>> \in Places(vs)
      BY <1>1, PlaceIs
    <3>4. from(<<c, i>>) = q
      BY <2>1, <2>2, <3>2
    <3> QED
      BY <3>3, <3>4
  <2>3. CASE q[1] # c
    <3>1. q \in Places(vs) /\ from(q) = q
      BY <2>1, <2>3, PlaceIs
    <3> QED
      BY <3>1
  <2> QED
    BY <2>2, <2>3
<1>6. \A p \in Places(vs) : g[p] = from(p)
  OBVIOUS
<1> HIDE DEF from, g
<1>7. Traced(ws, vs, g, gone)
  BY <1>3, <1>4, <1>5, <1>6 DEF Traced
<1>8. gone \subseteq Places(ws) /\ \A q \in gone : At(ws, q).proc \in {"none", "held", "zombie"}
  BY <1>1, PlaceIs
<1> HIDE DEF gone
<1> QED
  BY <1>7, <1>8 DEF Orderly

\* A window without frames goes.
LEMMA WindowGone ==
  ASSUME NEW ws \in Seq(Window), NEW vs \in Seq(Window), Len(vs) = Len(ws) - 1,
         NEW c \in 1 .. Len(ws), DOMAIN ws[c].frames = {},
         \A w \in 1 .. Len(ws) - 1 : FramesEvolve(ws[Before(w, c)].frames, vs[w].frames)
  PROVE  Orderly(ws, vs)
<1> DEFINE from(p) == <<Before(p[1], c), p[2]>>
           g == [p \in Places(vs) |-> from(p)]
           n == Len(ws)
<1>1. /\ \A i \in 1 .. n - 1 : Before(i, c) \in 1 .. n
      /\ \A i, j \in 1 .. n - 1 : Before(i, c) = Before(j, c) => i = j
      /\ \A j \in 1 .. n : j # c => \E i \in 1 .. n - 1 : Before(i, c) = j
  <2>1. n \in Nat /\ c \in 1 .. n
    OBVIOUS
  <2> HIDE DEF n
  <2> QED
    BY <2>1, BeforeIs
<1>2. ASSUME NEW p \in Places(vs)
      PROVE  /\ p = <<p[1], p[2]>> /\ p[1] \in 1 .. n - 1 /\ p[2] \in 1 .. 3
             /\ p[2] \in DOMAIN vs[p[1]].frames
  BY PlaceIs
<1>3. ASSUME NEW p \in Places(vs)
      PROVE  IF from(p) \in Places(ws) THEN Evolves(At(ws, from(p)), At(vs, p))
                                       ELSE At(vs, p).proc \in {"none", "starting"}
  <2>1. Before(p[1], c) \in 1 .. n /\ p[1] \in 1 .. n - 1
    BY <1>1, <1>2
  <2>2. from(p) \in Places(ws) <=> p[2] \in DOMAIN ws[Before(p[1], c)].frames
    BY <1>2, <2>1, PlaceIs
  <2>3. At(ws, from(p)) = ws[Before(p[1], c)].frames[p[2]] /\ At(vs, p) = vs[p[1]].frames[p[2]]
    BY DEF At
  <2>4. FramesEvolve(ws[Before(p[1], c)].frames, vs[p[1]].frames)
    BY <2>1
  <2> QED
    BY <1>2, <2>2, <2>3, <2>4 DEF FramesEvolve
<1>4. ASSUME NEW p \in Places(vs), NEW q \in Places(vs), from(p) = from(q) PROVE p = q
  <2>1. Before(p[1], c) = Before(q[1], c) /\ p[2] = q[2]
    BY <1>4
  <2>2. p[1] = q[1]
    BY <1>1, <1>2, <2>1
  <2> QED
    BY <1>2, <2>1, <2>2
<1>5. ASSUME NEW q \in Places(ws) PROVE \E p \in Places(vs) : from(p) = q
  <2>1. q = <<q[1], q[2]>> /\ q[1] \in 1 .. n /\ q[2] \in 1 .. 3
        /\ q[2] \in DOMAIN ws[q[1]].frames
    BY PlaceIs
  <2>2. q[1] # c
    BY <2>1
  <2>3. PICK w \in 1 .. n - 1 : Before(w, c) = q[1]
    BY <1>1, <2>1, <2>2
  <2>4. q[2] \in DOMAIN vs[w].frames
    BY <2>1, <2>3 DEF FramesEvolve
  <2>5. <<w, q[2]>> \in Places(vs)
    BY <2>1, <2>4, PlaceIs
  <2>6. from(<<w, q[2]>>) = q
    BY <2>1, <2>3
  <2> QED
    BY <2>5, <2>6
<1>6. \A p \in Places(vs) : g[p] = from(p)
  OBVIOUS
<1> HIDE DEF from, g
<1>7. Traced(ws, vs, g, {})
  BY <1>3, <1>4, <1>5, <1>6 DEF Traced
<1> QED
  BY <1>7 DEF Orderly

\* win_delete_frame: the frames that are left have their programs.
LEMMA DeleteOrderly ==
  ASSUME WellFormed, wins # <<>>, NEW k \in 1 .. Len(frames), Delete(k),
         frames[k].proc \in {"none", "held", "zombie"}
  PROVE  Orderly(wins, wins')
<1> DEFINE n == Len(win.frames)
           fs == Rest(win, k)
           v == Without(win, k)
<1>1. /\ win \in Window /\ Proper(win) /\ frames = win.frames /\ win.frames \in Seq(Frame)
      /\ curWin \in 1 .. Len(wins) /\ win.rows \in Rows /\ wins \in Seq(Window)
  BY CurrentWindow DEF WellFormed
<1>2. n \in 1 .. 3 /\ k \in 1 .. n
  <2>1. n \in 0 .. 3 /\ k \in 1 .. n
    BY <1>1, CurrentWindow
  <2> HIDE DEF n
  <2> QED
    BY <2>1
<1>3. v \in Window /\ Len(v.frames) = n - 1
  BY <1>1, <1>2, DeleteProper
<1>4. v.frames = fs
  <2> DEFINE c == NewCur(win, k)
             l == LastOf(Shifted(win.last, k), c, n - 1)
  <2>1. v = [win EXCEPT !.frames = fs, !.cur = c, !.last = l]
    BY DEF Without
  <2> HIDE DEF v, fs, c, l
  <2> QED
    BY <1>1, <2>1 DEF Window
<1>5. wins' = [wins EXCEPT ![curWin] = v]
  BY <1>1 DEF Delete, win, Without, NewCur, Rest
<1> HIDE DEF v
<1>6. fs \in Seq(Frame) /\ DOMAIN fs = 1 .. n - 1
  <2>1. v.frames \in Seq(Frame)
    BY <1>3 DEF Window
  <2> QED
    BY <1>3, <1>4, <2>1
<1>7. ASSUME NEW i \in 1 .. n - 1 PROVE Evolves(win.frames[Before(i, k)], fs[i])
  <2> DEFINE gs == RemoveAt(win.frames, k)
             rs == Share(win.rows, n - 1)
  <2>1. /\ gs \in Seq(Frame) /\ DOMAIN gs = 1 .. n - 1
        /\ gs[i] = win.frames[Before(i, k)]
    <3>1. /\ gs \in Seq(Frame) /\ Len(gs) = n - 1
          /\ \A j \in 1 .. n - 1 : gs[j] = IF j < k THEN win.frames[j] ELSE win.frames[j + 1]
      BY <1>1, <1>2, RemoveIs
    <3> HIDE DEF gs, n
    <3>2. DOMAIN gs = 1 .. n - 1
      BY <3>1
    <3> QED
      BY <3>1, <3>2 DEF Before
  <2>2. fs = Resized(gs, rs)
    <3>1. n # 1
      <4> HIDE DEF n
      <4> QED
        BY <1>2
    <3> QED
      BY <3>1 DEF Rest
  <2> HIDE DEF gs, rs, n
  <2>3. FramesEvolve(gs, fs)
    BY <2>1, <2>2, ResizedEvolve
  <2> QED
    BY <2>1, <2>3 DEF FramesEvolve
<1> HIDE DEF fs
<1>8. wins' \in Seq(Window) /\ Len(wins') = Len(wins) /\ wins'[curWin].frames = fs
  BY <1>1, <1>3, <1>4, <1>5
<1>9. \A w \in 1 .. Len(wins) : w # curWin => wins'[w].frames = wins[w].frames
  BY <1>1, <1>5
<1>10. /\ wins[curWin].frames = win.frames /\ DOMAIN win.frames = 1 .. n
       /\ win.frames[k].proc \in {"none", "held", "zombie"}
  BY <1>1 DEF win
<1> HIDE DEF n
<1>11. /\ DOMAIN wins[curWin].frames = 1 .. n /\ DOMAIN wins'[curWin].frames = 1 .. n - 1
       /\ wins[curWin].frames[k].proc \in {"none", "held", "zombie"}
       /\ \A i \in 1 .. n - 1 :
            Evolves(wins[curWin].frames[Before(i, k)], wins'[curWin].frames[i])
  BY <1>6, <1>7, <1>8, <1>10
<1> QED
  BY <1>1, <1>2, <1>8, <1>9, <1>11, FrameGone

\* The programs that are waited for have ended.
LEMMA DeleteStepsOrderly ==
  ASSUME WinInv, ScanDead \/ ReadDead \/ Reap \/ (pc = "key" /\ KeyDelete)
  PROVE  Orderly(wins, wins')
<1>1. WellFormed /\ Located
  BY DEF WinInv
<1>2. CASE ScanDead \/ ReadDead
  <2>1. /\ wins # <<>> /\ it \in DOMAIN frames /\ Delete(it) /\ Ended(frames[it])
    BY <1>1, <1>2 DEF ScanDead, ReadDead, Located, Ended
  <2>2. it \in 1 .. Len(frames)
    BY <1>1, <2>1, CurrentWindow
  <2> QED
    BY <1>1, <2>1, <2>2, DeleteOrderly DEF Ended
<1>3. CASE Reap
  <2>1. /\ wins # <<>> /\ it \in 1 .. Len(frames) /\ Delete(it) /\ Ended(frames[it])
    BY <1>1, <1>3 DEF Reap, Located
  <2> QED
    BY <1>1, <2>1, DeleteOrderly DEF Ended
<1>4. CASE pc = "key" /\ KeyDelete
  <2>1. wins # <<>> /\ frames # <<>> /\ Delete(win.cur) /\ frame.proc = "none"
    BY <1>4, HasFrames DEF KeyDelete
  <2>2. win.cur \in 1 .. Len(frames)
    <3>1. Proper(win) /\ frames = win.frames
      BY <1>1, <2>1, CurrentWindow
    <3> QED
      BY <2>1, <3>1 DEF Proper
  <2> QED
    BY <1>1, <2>1, <2>2, DeleteOrderly DEF frame
<1> QED
  BY <1>2, <1>3, <1>4

\* A window without frames goes; the one before it may be opened.
LEMMA CloseWinOrderly ==
  ASSUME WinInv, CloseWin
  PROVE  Orderly(wins, wins')
<1> DEFINE n == Len(wins)
<1>1. /\ WellFormed /\ wins # <<>> /\ wins \in Seq(Window) /\ curWin \in 1 .. n
      /\ n \in Nat \ {0}
  BY DEF CloseWin, WinInv, WellFormed, Linked
<1>2. wins' \in Seq(Window)
  BY CloseWinKeeps DEF WinInv, WellFormed
<1>3. wins[curWin].frames = <<>>
  BY <1>1 DEF CloseWin, frames, win
<1>4. DOMAIN wins[curWin].frames = {}
  BY <1>3
<1>5. Len(wins') = n - 1
      /\ \A w \in 1 .. n - 1 : FramesEvolve(wins[Before(w, curWin)].frames, wins'[w].frames)
  <2>1. CASE n = 1
    <3>1. wins' = <<>>
      BY <2>1 DEF CloseWin
    <3> QED
      BY <2>1, <3>1
  <2>2. CASE n # 1
    <3>1. Prev \in 1 .. n
      <4>1. Prev = IF curWin > 1 THEN curWin - 1 ELSE n
        BY DEF Prev
      <4> HIDE DEF n
      <4> QED
        BY <1>1, <4>1
    <3>2. PICK failed : wins' = RemoveAt([wins EXCEPT ![Prev] = Opened(@, failed)], curWin)
      BY <2>2 DEF CloseWin
    <3> DEFINE o == Opened(wins[Prev], failed)
               ws == [wins EXCEPT ![Prev] = o]
    <3>3. o \in Window /\ FramesEvolve(wins[Prev].frames, o.frames)
      <4>1. wins[Prev] \in Window /\ Proper(wins[Prev])
        BY <1>1, <3>1 DEF WellFormed
      <4> QED
        BY <4>1, OpenedProper, OpenedEvolve
    <3> HIDE DEF o
    <3>4. ws \in Seq(Window) /\ Len(ws) = n
      BY <1>1, <3>1, <3>3
    <3>5. \A w \in 1 .. n : FramesEvolve(wins[w].frames, ws[w].frames)
      BY <1>1, <3>1, <3>3, EvolveSame
    <3>6. wins' = RemoveAt(ws, curWin)
      BY <3>2 DEF o
    <3> HIDE DEF ws
    <3>7. /\ Len(wins') = n - 1
          /\ \A w \in 1 .. n - 1 : wins'[w] = ws[Before(w, curWin)]
      BY <1>1, <3>4, <3>6, RemoveIs DEF Before
    <3> HIDE DEF n
    <3>8. \A w \in 1 .. n - 1 : Before(w, curWin) \in 1 .. n
      BY <1>1, BeforeIs
    <3> QED
      BY <3>5, <3>7, <3>8
  <2> QED
    BY <2>1, <2>2
<1> QED
  BY <1>1, <1>2, <1>4, <1>5, WindowGone

\* The program of the frame at the place a is set to p; the others stay as they are.
ProcSet(ws, vs, a, from, p) ==
  /\ vs \in Seq(Window) /\ Places(vs) = Places(ws) /\ a \in Places(ws)
  /\ At(ws, a).proc \in from /\ At(vs, a) = [At(ws, a) EXCEPT !.proc = p]
  /\ \A q \in Places(ws) : q # a => At(vs, q) = At(ws, q)

\* A step of a program is such a change.
LEMMA SetProcIs ==
  ASSUME WinInv, NEW w \in DOMAIN wins, NEW i \in DOMAIN wins[w].frames,
         NEW from, NEW p \in {"running", "held", "zombie"}, SetProc(w, i, from, p)
  PROVE  ProcSet(wins, wins', <<w, i>>, from, p)
<1>1. wins \in Seq(Window) /\ \A v \in 1 .. Len(wins) : Proper(wins[v])
  BY DEF WinInv, WellFormed
<1>2. wins' \in Seq(Window)
  BY SetProcKeeps DEF WinInv, WellFormed
<1>3. w \in 1 .. Len(wins) /\ wins[w] \in Window /\ Proper(wins[w])
  BY <1>1
<1>4. wins[w].frames \in Seq(Frame) /\ Len(wins[w].frames) <= wins[w].max /\ wins[w].max \in {2, 3}
  BY <1>3 DEF Window, Proper
<1>5. i \in 1 .. 3
  <2> DEFINE n == Len(wins[w].frames)
  <2>1. n \in Nat /\ i \in 1 .. n /\ n <= 3
    BY <1>4
  <2> HIDE DEF n
  <2> QED
    BY <2>1
<1> DEFINE f == [wins[w].frames[i] EXCEPT !.proc = p]
           fs == [wins[w].frames EXCEPT ![i] = f]
           v == [wins[w] EXCEPT !.frames = fs]
<1>6. wins' = [wins EXCEPT ![w] = v] /\ wins[w].frames[i].proc \in from
  BY DEF SetProc
<1> HIDE DEF f
<1>7. DOMAIN fs = DOMAIN wins[w].frames /\ fs[i] = f
      /\ \A j \in DOMAIN wins[w].frames : j # i => fs[j] = wins[w].frames[j]
  OBVIOUS
<1> HIDE DEF fs
<1>8. v.frames = fs
  BY <1>3 DEF Window
<1> HIDE DEF v
<1>9. DOMAIN wins' = DOMAIN wins /\ wins'[w].frames = fs
      /\ \A u \in DOMAIN wins : u # w => wins'[u] = wins[u]
  BY <1>6, <1>8
<1>10. \A u \in DOMAIN wins : DOMAIN wins'[u].frames = DOMAIN wins[u].frames
  BY <1>7, <1>9
<1>11. Places(wins') = Places(wins)
  BY <1>9, <1>10 DEF Places
<1>12. <<w, i>> \in Places(wins)
  BY <1>5 DEF Places
<1>13. At(wins, <<w, i>>) = wins[w].frames[i] /\ At(wins', <<w, i>>) = f
  BY <1>7, <1>9 DEF At
<1>14. ASSUME NEW q \in Places(wins), q # <<w, i>> PROVE At(wins', q) = At(wins, q)
  <2>1. q = <<q[1], q[2]>> /\ q[1] \in DOMAIN wins /\ q[2] \in DOMAIN wins[q[1]].frames
    BY DEF Places
  <2>2. CASE q[1] = w
    <3>1. q[2] # i /\ q[2] \in DOMAIN wins[w].frames
      BY <1>14, <2>1, <2>2
    <3> QED
      BY <1>7, <1>9, <2>2, <3>1 DEF At
  <2>3. CASE q[1] # w
    BY <1>9, <2>1, <2>3 DEF At
  <2> QED
    BY <2>2, <2>3
<1> QED
  BY <1>2, <1>6, <1>11, <1>12, <1>13, <1>14 DEF f, ProcSet

\* The programs stay as many; there may be one more that does not know its rows
\* if it was starting.
LEMMA ProgramSteps ==
  ASSUME WinInv, NEW w \in DOMAIN wins, NEW i \in DOMAIN wins[w].frames,
         ProgramStep(w, i)
  PROVE  /\ Has(wins', Program) = Has(wins, Program)
         /\ \/ Cardinality(Has(wins', Ignorant)) <= Cardinality(Has(wins, Ignorant))
            \/ Cardinality(Has(wins', NotYet)) < Cardinality(Has(wins, NotYet))
<1>1. PICK from \in SUBSET {"starting", "running", "held"}, p \in {"running", "held", "zombie"} :
        /\ SetProc(w, i, from, p)
        /\ p = "running" => from = {"starting"}
  BY DEF ProgramStep, Starts, Dies, LetsGo
<1> DEFINE a == <<w, i>>
           g == [q \in Places(wins) |-> q]
<1>2. /\ wins' \in Seq(Window) /\ Places(wins') = Places(wins) /\ a \in Places(wins)
      /\ At(wins, a).proc \in from /\ At(wins', a) = [At(wins, a) EXCEPT !.proc = p]
      /\ \A q \in Places(wins) : q # a => At(wins', q) = At(wins, q)
  <2>1. ProcSet(wins, wins', <<w, i>>, from, p)
    BY <1>1, SetProcIs
  <2> QED
    BY <2>1 DEF ProcSet
<1>3. wins \in Seq(Window)
  BY DEF WinInv, WellFormed
<1> HIDE DEF a
<1>4. /\ \A q \in Places(wins) : At(wins, q) \in Frame /\ At(wins', q) \in Frame
      /\ At(wins, a) \in Frame /\ At(wins', a) \in Frame
  BY <1>2, <1>3, AtFrame
<1>5. /\ At(wins, a).proc \in {"starting", "running", "held"} /\ At(wins', a).proc = p
      /\ p = "running" => At(wins, a).proc = "starting"
  BY <1>1, <1>2, <1>4 DEF Frame
<1>6. Has(wins', Program) = Has(wins, Program)
  BY <1>2, <1>4, <1>5 DEF Has, Program
<1>7. CASE At(wins, a).proc = "starting"
  <2>1. a \in Has(wins, NotYet) /\ a \notin Has(wins', NotYet)
    BY <1>2, <1>4, <1>5, <1>7 DEF Has, NotYet
  <2>2. \A q \in Has(wins', NotYet) : q \in Places(wins) /\ q \in Has(wins, NotYet)
    BY <1>2, <1>4, <1>5 DEF Has, NotYet
  <2>3. /\ \A q \in Has(wins', NotYet) : g[q] \in Has(wins, NotYet) /\ g[q] # a
        /\ \A q, r \in Has(wins', NotYet) : g[q] = g[r] => q = r
    BY <2>1, <2>2
  <2> HIDE DEF g
  <2>4. Cardinality(Has(wins', NotYet)) < Cardinality(Has(wins, NotYet))
    BY <1>2, <1>3, <2>1, <2>3, Injects
  <2> QED
    BY <1>6, <2>4
<1>8. CASE At(wins, a).proc # "starting"
  <2>1. p # "running"
    BY <1>5, <1>8
  <2>2. \A q \in Has(wins', Ignorant) : q \in Places(wins) /\ q \in Has(wins, Ignorant)
    BY <1>2, <1>4, <1>5, <2>1 DEF Has, Ignorant
  <2>3. /\ \A q \in Has(wins', Ignorant) : g[q] \in Has(wins, Ignorant)
        /\ \A q, r \in Has(wins', Ignorant) : g[q] = g[r] => q = r
    BY <2>2
  <2> HIDE DEF g
  <2>4. Cardinality(Has(wins', Ignorant)) <= Cardinality(Has(wins, Ignorant))
    BY <1>2, <1>3, <2>3, Injects
  <2> QED
    BY <1>6, <2>4
<1> QED
  BY <1>7, <1>8

\* Every step is orderly, or one of a program.
LEMMA StepOrderly ==
  ASSUME WinInv, [Next]_vars
  PROVE  \/ Orderly(wins, wins')
         \/ \E w \in DOMAIN wins : \E i \in DOMAIN wins[w].frames : ProgramStep(w, i)
<1>1. CASE CloseWin
  BY <1>1, CloseWinOrderly
<1>2. CASE \/ End \/ NoResize \/ ScanNext \/ ScanEnd \/ Select \/ ReadNext \/ ReadBeyond \/ ReadEnd
           \/ (pc = "key" /\ (KeyOther \/ KeyDivides \/ KeyKill \/ KeyQuit)) \/ AllocFails
           \/ UNCHANGED vars
  <2>1. wins' = wins
    BY <1>2 DEF End, NoResize, ScanNext, ScanEnd, Select, ReadNext, ReadBeyond, ReadEnd,
                KeyOther, KeyDivides, KeyKill, KeyQuit, AllocFails, vars, winVars
  <2> QED
    BY <2>1, NothingOrderly
<1>3. CASE ScanDead \/ ReadDead \/ Reap \/ (pc = "key" /\ KeyDelete)
  BY <1>3, DeleteStepsOrderly
<1>4. CASE \E r \in Rows : Resize(r)
  BY <1>4, ResizeOrderly
<1>5. CASE pc = "key" /\ (KeyOpen \/ KeySplit \/ KeyFrame \/ KeySize)
  BY <1>5, KeyOpenOrderly, KeySplitOrderly, KeyFrameOrderly, KeySizeOrderly
<1>6. CASE pc = "key" /\ \E n \in Params \cup {1} : KeyNewWin(n)
  BY <1>6, KeyNewWinOrderly
<1>7. CASE pc = "key" /\ \E i \in DOMAIN wins : KeyWin(i)
  BY <1>7, KeyWinOrderly
<1> QED
  BY <1>1, <1>2, <1>3, <1>4, <1>5, <1>6, <1>7 DEF Next, Main, Loop, ProgramStep

\* The counts of the properties are the sizes of the sets of places.
Counted ==
  /\ Programs = Cardinality(Has(wins, Program))
  /\ Zombies = Cardinality(Has(wins, Dead))
  /\ Starting = Cardinality(Has(wins, NotYet))
  /\ Untold = Cardinality(Has(wins, Ignorant))

\* What a step does to the numbers.
LEMMA StepCounts ==
  WinInv /\ WinInv' /\ Counted /\ Counted' /\ [Next]_vars =>
    /\ Programs' < Programs => Zombies' < Zombies
    /\ Untold' > Untold => Starting' < Starting
<1> SUFFICES ASSUME WinInv, WinInv', Counted, Counted', [Next]_vars
             PROVE  /\ Programs' < Programs => Zombies' < Zombies
                    /\ Untold' > Untold => Starting' < Starting
  OBVIOUS
<1>1. wins \in Seq(Window) /\ wins' \in Seq(Window)
  BY DEF WinInv, WellFormed
<1>2. /\ Programs \in Nat /\ Zombies \in Nat /\ Starting \in Nat /\ Untold \in Nat
      /\ Programs' \in Nat /\ Zombies' \in Nat /\ Starting' \in Nat /\ Untold' \in Nat
  BY <1>1, HasFinite DEF Counted
<1>3. \A m, n \in Nat : m <= n => ~ (m > n)
  OBVIOUS
<1>4. CASE Orderly(wins, wins')
  <2>1. (Programs' < Programs => Zombies' < Zombies) /\ Untold' <= Untold
    BY <1>1, <1>4, OrderlyCounts DEF Counted
  <2> QED
    BY <1>2, <1>3, <2>1
<1>5. CASE \E w \in DOMAIN wins : \E i \in DOMAIN wins[w].frames : ProgramStep(w, i)
  <2>1. Programs' = Programs /\ (Untold' <= Untold \/ Starting' < Starting)
    BY <1>5, ProgramSteps DEF Counted
  <2>2. \A n \in Nat : ~ (n < n)
    OBVIOUS
  <2> QED
    BY <1>2, <1>3, <2>1, <2>2
<1> QED
  BY <1>4, <1>5, StepOrderly

\* In every state of the loop the counts are the sizes of those sets.
LEMMA WinCounted == WinInv => Counted
BY CountIs DEF WinInv, WellFormed, Counted

\* No frame, and no window, is freed over a program that has not been waited for.
THEOREM ProgramsReaped == Spec => NoneLeftBehind
<1>1. WinInv /\ WinInv' /\ Counted /\ Counted' /\ [Next]_vars =>
        [Programs' < Programs => Zombies' < Zombies]_vars
  BY StepCounts
<1> QED
  BY <1>1, WinCounted, WindowsProper, PTL DEF Spec, NoneLeftBehind

\* A program that runs is told the rows of its frame whenever they change.
THEOREM ProgramsTold == Spec => SizeTold
<1>1. WinInv /\ WinInv' /\ Counted /\ Counted' /\ [Next]_vars =>
        [Untold' > Untold => Starting' < Starting]_vars
  BY StepCounts
<1> QED
  BY <1>1, WinCounted, WindowsProper, PTL DEF Spec, SizeTold

=============================================================================
