-------------------------------- MODULE Vwm --------------------------------
(***************************************************************************)
(* The windows and frames of src/z/lib/Vwm/src/libvwm.c: vwm_main, the     *)
(* commands of vwm_process_input, and the programs on the ptys of the      *)
(* frames.  A turn of the main loop checks the current window (check),     *)
(* reaps the dead programs of its frames one by one (scan), sleeps in      *)
(* select, handles one key (key), waits for the program that the key has   *)
(* killed (reap), and reads the ptys one by one (read); programs start and *)
(* die, keys and SIGWINCH arrive in between.                               *)
(*                                                                         *)
(* The nodes of both lists are their positions, counted from 1; a pointer  *)
(* to a node that was freed is FREED.  A frame has its pid, and the        *)
(* descriptor of its pty, for as long as its program has not been waited   *)
(* for.  All frames are visible: only scripts hide some.  A command is the *)
(* key after the mode key; until it is typed vwm_process_input blocks.     *)
(* need_resize is looked at in check only, and may have been set at any    *)
(* time before: it is not kept.  Nor is FD_ISSET: any program may have     *)
(* closed its terminal before select.                                      *)
(***************************************************************************)
EXTENDS Integers, SequencesExt

CONSTANTS MaxWins, MaxFrames,    \* bounds on the windows, and on the frames of all
          Rows,                  \* the heights that the terminal may have
          Params                 \* the counts that are typed before a command

ASSUME VwmAssumption ==
  /\ MaxWins \in Nat \ {0} /\ MaxFrames \in Nat \ {0}
  /\ Rows \subseteq Nat /\ Params \subseteq Nat \ {0}

VARIABLES
  wins, curWin,  \* the list of windows and its current one
  lastWin,       \* last_win
  screen,        \* num_rows of Vwm
  pc, it         \* the place in the loop, and the frame that it is at

winVars == <<wins, curWin, lastWin, screen>>
vars == <<winVars, pc, it>>

NULL == -1
FREED == 0

(***************************************************************************)
(* A window: its frames, the current one, last_frame, num_rows,            *)
(* max_frames, is_initialized.  A frame: num_rows, its program, and the    *)
(* rows of the program's terminal; while the program is starting, those    *)
(* of the child's copy of the frame.  A program that has ended is a        *)
(* zombie; it is held for as long as another process that it has started   *)
(* keeps the terminal open.                                                *)
(***************************************************************************)
win == wins[curWin]
frames == IF wins = <<>> THEN <<>> ELSE win.frames
frame == frames[win.cur]

IsFrame(f) ==
  /\ f.proc \in {"none", "starting", "running", "held", "zombie"}
  /\ f.rows \in Int /\ f.tty \in Int

TypeOK ==
  /\ Len(wins) <= MaxWins /\ (wins # <<>> => curWin \in DOMAIN wins)
  /\ \A w \in DOMAIN wins :
       LET fs == wins[w].frames
       IN  /\ \A i \in DOMAIN fs : IsFrame(fs[i])
           /\ fs # <<>> => wins[w].cur \in DOMAIN fs
           /\ Len(fs) <= wins[w].max
  /\ pc \in {"check", "scan", "select", "key", "reap", "read", "done"}
  /\ it \in 0 .. 4   \* a window has at most 3 frames

\* Mutated: what is left over goes to no frame.
ShareEvenly(rows, n) == [i \in 1 .. n |-> (rows - (n - 1)) \div n]

\* win_frame_rows: the rows of n frames, the first of which takes the rest.  The
\* division truncates, and fewer than none are there for less than n - 1 rows.
Share(rows, n) ==
  LET avail == rows - (n - 1)
      each == IF avail < 0 THEN 0 ELSE avail \div n
  IN  [i \in 1 .. n |-> IF i = 1 THEN avail - (n - 1) * each ELSE each]

\* Mutated: the programs are not told.
ResizedAlone(fs, rs) == [i \in DOMAIN fs |-> [fs[i] EXCEPT !.rows = rs[i]]]

\* The frames fs are given the rows rs, and so are the programs on them; the
\* child that is starting sets its own.
Resized(fs, rs) ==
  [i \in DOMAIN fs |->
     [fs[i] EXCEPT !.rows = rs[i],
                   !.tty = IF fs[i].proc \in {"none", "starting"} THEN @ ELSE rs[i]]]

NewFrame(rows) == [rows |-> rows, proc |-> "none", tty |-> 0]

\* frame_fork of the frames fs: all but those of failed have a program then,
\* which starts with a copy of its frame.
Forked(fs, failed) ==
  [i \in DOMAIN fs |-> IF fs[i].proc # "none" \/ i \in failed THEN fs[i]
                       ELSE [fs[i] EXCEPT !.proc = "starting", !.tty = fs[i].rows]]

\* waitpid gets the program of a frame.
Ended(f) == f.proc \in {"held", "zombie"}

\* The programs of all frames for which P holds.
Count(P(_)) ==
  Cardinality({p \in (DOMAIN wins) \X (1 .. 3) :
                 p[2] \in DOMAIN wins[p[1]].frames /\ P(wins[p[1]].frames[p[2]])})

\* The bound on the frames.
Bounded == Count(LAMBDA f : TRUE) <= MaxFrames

\* Mutated: the current position stays.
CurrentStays(c, k, n) == c

\* DListPopAt: the current node c of n when node k goes, and any other pointer p.
Current(c, k, n) == IF k < c \/ (k = c /\ c = n /\ c > 1) THEN c - 1 ELSE c
Shifted(p, k) == IF p = k THEN FREED ELSE IF p > k THEN p - 1 ELSE p

\* The first of n nodes that is not c, and c if there is no other.
OtherThan(c, n) == IF n = 1 THEN c ELSE IF c = 1 THEN 2 ELSE 1

\* Mutated: only a last frame that has become the current one is replaced.
LastOrOther(last, c, n) == IF n > 0 /\ last = c THEN OtherThan(c, n) ELSE last

\* last_frame when n frames are left.
LastOf(last, c, n) == IF n > 0 /\ last \in {FREED, c} THEN OtherThan(c, n) ELSE last

Init ==
  \E r \in Rows, failed \in {{}, {1}} :
    /\ wins = <<[frames |-> IF failed = {} THEN Forked(<<NewFrame(r)>>, {}) ELSE <<>>,
                 cur |-> 1, last |-> IF failed = {} THEN 1 ELSE FREED,
                 rows |-> r, max |-> 2, started |-> TRUE]>>
    /\ curWin = 1 /\ lastWin = NULL /\ screen = r /\ pc = "check" /\ it = 0
-----------------------------------------------------------------------------
Goto(l, i) == pc' = l /\ it' = i

\* win_delete_frame of frame k, whose program has been waited for.
Delete(k) ==
  LET n == Len(frames)
      rest == RemoveAt(frames, k)
      c == Current(win.cur, k, n)
  IN  /\ wins' = [wins EXCEPT ![curWin] =
                     [@ EXCEPT !.frames = IF n = 1 THEN <<>> ELSE Resized(rest, Share(win.rows, n - 1)),
                               !.cur = c,
                               !.last = LastOf(Shifted(win.last, k), c, n - 1)]]
      /\ UNCHANGED <<curWin, lastWin, screen>>

Opened(w, failed) == [w EXCEPT !.frames = IF w.started THEN @ ELSE Forked(@, failed),
                               !.started = TRUE]

\* vwm_change_win to window i: its first visit starts what has no program yet.
ChangeWin(i) ==
  /\ lastWin' = curWin /\ curWin' = i
  /\ \E failed \in SUBSET DOMAIN wins[i].frames : wins' = [wins EXCEPT ![i] = Opened(@, failed)]

Prev == IF curWin > 1 THEN curWin - 1 ELSE Len(wins)

\* A window without frames goes, after the change to the previous one: it is
\* last_win then, which release_win makes another than the current one.
CloseWin ==
  /\ pc = "check" /\ wins # <<>> /\ frames = <<>>
  /\ LET n == Len(wins)
         c == Current(Prev, curWin, n)
     IN  IF n = 1 THEN wins' = <<>> /\ UNCHANGED <<curWin, lastWin>>
         ELSE /\ \E failed \in SUBSET DOMAIN wins[Prev].frames :
                   wins' = RemoveAt([wins EXCEPT ![Prev] = Opened(@, failed)], curWin)
              /\ curWin' = c /\ lastWin' = OtherThan(c, n - 1)
  /\ screen' = screen /\ Bounded' /\ Goto("check", 0)

End == pc = "check" /\ wins = <<>> /\ Goto("done", 0) /\ UNCHANGED winVars

\* vwm_handle_sigwinch: every window, and the programs on it, are given r rows.
Resize(r) ==
  /\ pc = "check" /\ frames # <<>> /\ screen' = r
  /\ wins' = [w \in DOMAIN wins |->
                [wins[w] EXCEPT !.rows = r, !.frames = Resized(@, Share(r, Len(@)))]]
  /\ Goto("scan", 1) /\ UNCHANGED <<curWin, lastWin>>

NoResize == pc = "check" /\ frames # <<>> /\ Goto("scan", 1) /\ UNCHANGED winVars

\* Mutated: the dead program is seen, and its frame stays.
ScanDeadStays ==
  pc = "scan" /\ it \in DOMAIN frames /\ Ended(frames[it])
    /\ Goto("scan", it + 1) /\ UNCHANGED winVars

\* frame_check_pid: the frame goes, and the one after it takes its position.
ScanDead ==
  /\ pc = "scan" /\ it \in DOMAIN frames /\ Ended(frames[it])
  /\ Delete(it) /\ Goto("scan", it)

ScanNext ==
  /\ pc = "scan" /\ it \in DOMAIN frames /\ ~Ended(frames[it])
  /\ Goto("scan", it + 1) /\ UNCHANGED winVars

\* Without a descriptor to watch there is no select.
NoProgram == \A i \in DOMAIN frames : frames[i].proc = "none"

\* Mutated: a program that is starting is not watched yet.
ScanEndStarting ==
  /\ pc = "scan" /\ it \notin DOMAIN frames
  /\ Goto(IF \A i \in DOMAIN frames : frames[i].proc # "running" THEN "check" ELSE "select", 0)
  /\ UNCHANGED winVars

ScanEnd ==
  /\ pc = "scan" /\ it \notin DOMAIN frames
  /\ Goto(IF NoProgram THEN "check" ELSE "select", 0) /\ UNCHANGED winVars

\* select: a key or a pty; or SIGWINCH interrupts it.
Select ==
  /\ pc = "select" /\ (Goto("key", 0) \/ Goto("read", 1) \/ Goto("check", 0))
  /\ UNCHANGED winVars

ReadNext ==
  /\ pc = "read" /\ it \in DOMAIN frames /\ Goto("read", it + 1) /\ UNCHANGED winVars

\* A program of a frame without rows writes: what is stored beyond the memory of
\* the frame is not noticed, as in ReadNext, or it ends the Vwm.
ReadBeyond ==
  /\ pc = "read" /\ it \in DOMAIN frames /\ frames[it].rows = 0
  /\ frames[it].proc \notin {"none", "starting"} /\ Goto("done", 0) /\ UNCHANGED winVars

\* EIO: the program has ended, nobody has its terminal and nothing is left to read.
ReadDead ==
  /\ pc = "read" /\ it \in DOMAIN frames /\ frames[it].proc = "zombie"
  /\ Delete(it) /\ Goto("check", 0)

ReadEnd == pc = "read" /\ it \notin DOMAIN frames /\ Goto("check", 0) /\ UNCHANGED winVars
-----------------------------------------------------------------------------
\* vwm_process_input returns: the frames of the window are visited next; if it
\* is another one, its ptys are not in the set.
Done ==
  /\ pc = "key"
  /\ IF Len(wins') = Len(wins) /\ curWin' = curWin THEN Goto("read", 1) ELSE Goto("check", 0)

\* A key for the program, and the commands that change nothing.
KeyOther == UNCHANGED winVars /\ Done

InWin(w) == wins' = [wins EXCEPT ![curWin] = w] /\ UNCHANGED <<curWin, lastWin, screen>> /\ Done

\* `!', `c': a frame whose fork failed is given a program.
KeyOpen ==
  /\ frame.proc = "none"
  /\ \E failed \in {{}, {1}} :
       InWin([win EXCEPT !.frames[win.cur] = Forked(<<@>>, failed)[1]])

\* `n': a window with n frames.
KeyNewWin(n) ==
  /\ Len(wins) < MaxWins /\ n <= 3
  /\ LET new == [i \in 1 .. n |-> NewFrame(Share(screen, n)[i])]
     IN  \E failed \in SUBSET DOMAIN new :
           wins' = Append(wins, [frames |-> Forked(new, failed), cur |-> 1, last |-> 1,
                                 rows |-> screen, max |-> 3, started |-> FALSE])
  /\ curWin' = Len(wins) + 1 /\ lastWin' = curWin /\ screen' = screen /\ Bounded' /\ Done

\* `s', `S': win_add_frame, and the fork of the new frame.
KeySplit ==
  /\ Len(frames) < win.max
  /\ LET n == Len(frames) + 1
         fs == Resized(Append(frames, NewFrame(0)), Share(win.rows, n))
     IN  \E failed \in {{}, {1}} :
           InWin([win EXCEPT !.frames = [fs EXCEPT ![n] = Forked(<<@>>, failed)[1]], !.cur = n])
  /\ Bounded'

\* `j', `k', `w': win_frame_change.
KeyFrame ==
  /\ Len(frames) > 1
  /\ \E i \in DOMAIN frames :
       /\ (i - win.cur) % Len(frames) \in {1, Len(frames) - 1}
       /\ InWin([win EXCEPT !.last = win.cur, !.cur = i])

\* `h', `l', the key of the last window, and the function keys.
KeyWin(i) == Len(wins) > 1 /\ ChangeWin(i) /\ screen' = screen /\ Bounded' /\ Done

\* Mutated: nobody waits for the program.
KeyKillOnly == pc = "key" /\ frame.proc # "none" /\ Delete(win.cur) /\ Goto("read", 1)

\* `K', `d': the program is killed, and the wait for it begins.
KeyKill == pc = "key" /\ frame.proc # "none" /\ Goto("reap", win.cur) /\ UNCHANGED winVars

Reap == pc = "reap" /\ Ended(frames[it]) /\ Delete(it) /\ Goto("read", 1)

\* `d' of a frame without a program.
KeyDelete == frame.proc = "none" /\ Delete(win.cur) /\ Done

KeyQuit == pc = "key" /\ Goto("done", 0) /\ UNCHANGED winVars
-----------------------------------------------------------------------------
\* The division of C, which truncates; a is not negative.
Quot(a, b) == IF b > 0 THEN a \div b ELSE -(a \div (-b))

\* How many rows each other frame gives or takes, and how many of them one more.
Lines(param, n) ==
  CASE param \in {1, n - 1} -> <<1, 0>>
    [] param > n - 1 -> <<param \div (n - 1), param % (n - 1)>>
    [] OTHER -> <<Quot(n - 1, param), (n - 1) - param * Quot(n - 1, param)>>

\* s with the rows of j changed by d, and then by one more if some are left.
Moved(s, j, d, sign, more) ==
  [rows |-> [s.rows EXCEPT ![j] = @ + sign * (d + more)],
   param |-> s.param - d - more,
   mod |-> s.mod - more]

\* Frame j gives: it keeps 2 rows; a negative number of lines takes all above.
Take(s, j, num) ==
  LET above == IF s.rows[j] > 2 THEN s.rows[j] - 2 ELSE 0
      d == IF num < 0 \/ num > above THEN above ELSE num
  IN  Moved(s, j, d, -1, IF s.rows[j] - d # 2 /\ s.mod # 0 THEN 1 ELSE 0)

\* Frame j, which has r rows, is given some, whatever a visit before gave it.
Give(s, j, num, r) ==
  Moved([s EXCEPT !.rows[j] = r], j, num, 1, IF s.mod # 0 THEN 1 ELSE 0)

\* The visits of the loops, frame after frame, for as long as param is not 0;
\* frame i then gets (sign 1) or gives (sign -1) what is missing in param.
Visited(rs, i, param, sign) ==
  LET n == Len(rs)
      num == Lines(param, n)[1]
      r[k \in 0 .. 3 * (n - 1) - 1] ==
        IF k = 0 THEN [rows |-> rs, param |-> param, mod |-> Lines(param, n)[2]]
        ELSE LET s == r[k - 1]
                 j == ((k - 1) % n) + 1
             IN  IF s.param = 0 \/ j = i THEN s
                 ELSE IF sign = 1 THEN Take(s, j, num) ELSE Give(s, j, num, rs[j])
      last == r[3 * (n - 1) - 1]
  IN  [last.rows EXCEPT ![i] = @ + sign * (param - last.param)]

\* win_frame_increase_size: the others keep 2 rows each.
Increased(rs, i, p, rows) ==
  LET n == Len(rs)
      min == rows - n - (n - 1) - n * 2
  IN  Visited(rs, i, IF p > min THEN min ELSE p, 1)

\* win_frame_decrease_size.
Decreased(rs, i, p) == Visited(rs, i, IF rs[i] - p <= 2 THEN rs[i] - 2 ELSE p, -1)

\* In a window of so many rows `+' has nothing to divide by.
NoLines == win.rows = 4 * Len(frames) - 1

\* `+', `-', `='; MIN_ROWS is 2.
KeySize ==
  /\ Len(frames) > 1
  /\ LET now == [i \in DOMAIN frames |-> frames[i].rows]
         c == win.cur
         more == IF NoLines THEN {}
                 ELSE Params \cup {1} \cup {p - now[c] : p \in {q \in Params : q > now[c]}}
         less == IF now[c] <= 2 THEN {}
                 ELSE Params \cup {1} \cup {now[c] - p : p \in {q \in Params : q < now[c]}}
     IN  \E rs \in {Increased(now, c, p, win.rows) : p \in more}
                    \cup {Decreased(now, c, p) : p \in less} :
           InWin([win EXCEPT !.frames = Resized(@, rs)])

\* `+' divides by zero, which ends the Vwm.
KeyDivides ==
  /\ pc = "key" /\ Len(frames) > 1 /\ NoLines /\ Goto("done", 0) /\ UNCHANGED winVars

\* Nor does it survive a frame of less than no rows: it exits when it gets no
\* memory for them.
Fits == \A w \in DOMAIN wins : \A i \in DOMAIN wins[w].frames : wins[w].frames[i].rows >= 0

AllocFails == pc # "done" /\ ~Fits /\ Goto("done", 0) /\ UNCHANGED winVars
-----------------------------------------------------------------------------
SetProc(w, i, from, f) ==
  /\ pc # "done" /\ wins[w].frames[i].proc \in from
  /\ wins' = [wins EXCEPT ![w].frames[i] = [@ EXCEPT !.proc = f]]
  /\ UNCHANGED <<curWin, lastWin, screen, pc, it>>

\* The child has set the size of its terminal, and runs the program.
Starts(w, i) == SetProc(w, i, {"starting"}, "running")

Dies(w, i) ==
  \E f \in {"held", "zombie"} : SetProc(w, i, {"starting", "running"}, f)

\* The last process that had the terminal of a dead program lets it go.
LetsGo(w, i) == SetProc(w, i, {"held"}, "zombie")

Loop ==
  \/ CloseWin \/ End \/ NoResize \/ ScanDead \/ ScanNext \/ ScanEnd \/ Select
  \/ ReadNext \/ ReadBeyond \/ ReadDead \/ ReadEnd \/ Reap
  \/ \E r \in Rows : Resize(r)
  \/ /\ pc = "key"
     /\ \/ KeyOther \/ KeyOpen \/ KeySplit \/ KeyFrame \/ KeySize \/ KeyDivides
        \/ KeyKill \/ KeyDelete \/ KeyQuit
        \/ \E n \in Params \cup {1} : KeyNewWin(n)
        \/ \E i \in DOMAIN wins : KeyWin(i)

Main == (Fits /\ Loop) \/ AllocFails

Next ==
  \/ Main
  \/ \E w \in DOMAIN wins : \E i \in DOMAIN wins[w].frames :
       Starts(w, i) \/ Dies(w, i) \/ LetsGo(w, i)

Spec == Init /\ [][Next]_vars

\* A program has ended and its terminal is at its end, which select reports; there
\* is no handler for SIGCHLD.
Gone == \E i \in DOMAIN frames : frames[i].proc = "zombie"

\* The loop goes on while it does not wait: for a key or a pty in select, for the
\* rest of a command, for a program.  No program has to end, and nobody has to type.
FairSpec == Spec /\ WF_vars(pc # "key" /\ (pc = "select" => Gone) /\ Main)
-----------------------------------------------------------------------------
\* set_frame and draw look into last_frame, the key of the last window goes to
\* last_win: neither has been freed (libvwm.c:2347, 2871-2885, 3564-3577).
NothingFreed ==
  wins # <<>> =>
    /\ \A w \in DOMAIN wins :
         wins[w].frames # <<>> => wins[w].last \in DOMAIN wins[w].frames
    /\ lastWin \in DOMAIN wins \/ (lastWin = NULL /\ Len(wins) = 1)

\* The frames of a window fill its rows but for the separators, whatever commands
\* and resizes came before, and each keeps 2 rows in a window that has so many for
\* each of them (libvwm.c:2835-2839, 3113-3253).
RowsFilled ==
  \A w \in DOMAIN wins :
    LET fs == wins[w].frames
        sum[k \in 0 .. Len(fs)] == IF k = 0 THEN 0 ELSE sum[k - 1] + fs[k].rows
    IN  fs # <<>> => /\ sum[Len(fs)] + Len(fs) - 1 = wins[w].rows
                     /\ wins[w].rows >= 3 * Len(fs) - 1 =>
                          \A i \in DOMAIN fs : fs[i].rows >= 2

Starting == Count(LAMBDA f : f.proc = "starting")
Zombies == Count(Ended)
Programs == Count(LAMBDA f : f.proc # "none")
Untold == Count(LAMBDA f : f.proc = "running" /\ f.tty # f.rows)

\* A program that was started leaves its frame, and its window, only when it has
\* ended and has been waited for: no frame or window is freed over a program
\* that nobody would reap (libvwm.c:2596-2629, 2841-2953, 3548-3561).
NoneLeftBehind == [][Programs' < Programs => Zombies' < Zombies]_vars

\* A program knows the rows of its frame, in whatever window that is and whatever
\* has changed them; only one that was resized while it was starting knows those
\* at its fork (libvwm.c:3101-3105, 3678, 3780-3784).
SizeTold == [][Untold' > Untold => Starting' < Starting]_vars

\* The wait for a program that was sent SIGHUP and has not ended.
Unkilled == pc = "reap" /\ ~Ended(frames[it])

\* The frames of programs that have ended go while no key is typed, however many
\* end together, once nobody else has their terminals: until then such a program
\* wakes nobody, and its frame stays until something else does.  Nor do they go
\* while the loop waits for a program that SIGHUP does not end (libvwm.c:2622-2625,
\* 3902-3911, 3927, 3951-3960).
DeadFramesGo == []<>(~Gone \/ pc \in {"key", "done"}) \/ <>[]Unkilled

\* The loop comes back to where keys are read after every command, resize and
\* death.  Only two things keep it from there: a window in which no frame has a
\* program, where it goes round without select, and the wait for a program that
\* SIGHUP does not end (libvwm.c:2622-2625, 3923).
KeysHeard == []<>(pc \in {"select", "key", "done"}) \/ <>[]NoProgram \/ <>[]Unkilled
=============================================================================
