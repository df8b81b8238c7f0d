-------------------------------- MODULE VTty --------------------------------
(***************************************************************************)
(* The programs that talk to the master of a session (libv.c): the         *)
(* terminal client v_tty_main, which attaches a terminal to the session,   *)
(* and v_send, which pushes data and never attaches.                       *)
(*                                                                         *)
(* Each keeps its place in the code in tpc:                                *)
(*   start      before connect                                             *)
(*   attach     connected, MSG_ATTACH to be written                        *)
(*   redraw     MSG_REDRAW to be written, then the select loop             *)
(*   loop       blocked in select, or on the way to it                     *)
(*   input      output handled, and stdin is readable too                  *)
(*   push       MSG_PUSH to be written                                     *)
(*   getkey     the mode key was typed, blocked in Vwm.getkey              *)
(*   prefix     MSG_PUSH to be written for the mode key, before push       *)
(*   suspend    MSG_DETACH to be written                                   *)
(*   check      input handled, win_changed to be looked at                 *)
(*   winch      win_changed cleared, MSG_WINCH to be written               *)
(*   stopped    suspended with SIGTSTP                                     *)
(*   reattach   resumed, MSG_ATTACH to be written                          *)
(*   reredraw   likewise MSG_REDRAW, then the win_changed test             *)
(*   send       the loop of v_send                                         *)
(*   gone       the process has ended                                      *)
(***************************************************************************)
EXTENDS VWire

CONSTANT MaxInput  \* MaxInput[c]: how often the user of c acts
ASSUME TtyAssumption == MaxInput \in [Client -> Nat]

VARIABLES
  tpc,          \* where the process is
  size,         \* the size of its terminal
  win_changed,  \* the flag its SIGWINCH handler sets
  pkt_ws,       \* the size ioctl has put into its packet, until that is sent
  input         \* how often its user has acted

ttyVars == <<tpc, size, win_changed, pkt_ws, input>>

TtyPc == {"start", "attach", "redraw", "loop", "input", "push", "getkey",
          "prefix", "suspend", "check", "winch", "stopped", "reattach",
          "reredraw", "send", "gone"}

TtyTypeOK ==
  /\ tpc \in [Client -> TtyPc]
  /\ size \in [Client -> Size]
  /\ win_changed \in [Client -> BOOLEAN]
  /\ pkt_ws \in [Client -> Size \cup {NoSize}]
  /\ input \in [Client -> Nat]

TtyInit ==
  /\ tpc = [c \in Client |-> "start"]
  /\ size \in [Client -> Size]
  /\ win_changed = [c \in Client |-> FALSE]
  /\ pkt_ws = [c \in Client |-> NoSize]
  /\ input = [c \in Client |-> 0]

Goto(c, l) == tpc' = [tpc EXCEPT ![c] = l]

\* The user acts; MaxInput bounds the model, not the program.
Acts(c) ==
  /\ input[c] < MaxInput[c]
  /\ input' = [input EXCEPT ![c] = @ + 1]

\* There is something to read on stdin.
StdinReady(c) ==
  \/ tpc[c] = "loop" /\ Acts(c)
  \/ tpc[c] = "input" /\ UNCHANGED input

Plain(type) == [type |-> type, ws |-> NoSize]

\* Write a packet, and go on at l once it is written.
Send(c, pkt, l) ==
  /\ CanWrite(c)
  /\ c2s' = Written(c, pkt)
  /\ Goto(c, l)
  /\ UNCHANGED <<sockfile, listening, backlog, hup, s2c>>

-----------------------------------------------------------------------------
\* connect(2) finds the path and somebody who listens, or the program ends.
Connect(c) ==
  /\ tpc[c] = "start"
  /\ IF sockfile # "absent" /\ listening
     THEN /\ backlog' = Append(backlog, c)
          /\ Goto(c, IF c \in Tty THEN "attach" ELSE "send")
     ELSE /\ backlog' = backlog
          /\ Goto(c, "gone")
  /\ UNCHANGED <<sockfile, listening, hup, c2s, s2c, size, win_changed, pkt_ws, input>>

\* MSG_ATTACH, on the way in and on the return from a suspension.
TtyAttach(c) ==
  /\ \/ tpc[c] = "attach" /\ Send(c, Plain("attach"), "redraw")
     \/ tpc[c] = "reattach" /\ Send(c, Plain("attach"), "reredraw")
  /\ UNCHANGED <<size, win_changed, pkt_ws, input>>

\* TIOCGWINSZ, before MSG_REDRAW and MSG_WINCH are written.
TtyIoctl(c) ==
  /\ tpc[c] \in {"redraw", "reredraw", "winch"} /\ pkt_ws[c] = NoSize
  /\ pkt_ws' = [pkt_ws EXCEPT ![c] = size[c]]
  /\ UNCHANGED <<wireVars, tpc, size, win_changed, input>>

\* A packet with that size.
SendSize(c, type, l) ==
  /\ pkt_ws[c] # NoSize
  /\ Send(c, [type |-> type, ws |-> pkt_ws[c]], l)
  /\ pkt_ws' = [pkt_ws EXCEPT ![c] = NoSize]
  /\ UNCHANGED <<size, input>>

TtyRedraw(c) ==
  /\ \/ tpc[c] = "redraw" /\ SendSize(c, "redraw", "loop")
     \/ tpc[c] = "reredraw" /\ SendSize(c, "redraw", "check")
  /\ UNCHANGED win_changed

\* Some of the output is read and written to the terminal.  When stdin was
\* found readable as well it is read in the same turn.
TtyRead(c) ==
  /\ tpc[c] = "loop"
  /\ \E n \in 1..Len(s2c[c]) :
        s2c' = [s2c EXCEPT ![c] = SubSeq(@, n + 1, Len(@))]
  /\ \/ Goto(c, "check") /\ UNCHANGED input
     \/ Goto(c, "input") /\ Acts(c)
  /\ UNCHANGED <<sockfile, listening, backlog, hup, c2s, size, win_changed, pkt_ws>>

\* The process ends; on its way out it may remove the path of the socket.
Leave(c, unlink) ==
  /\ Goto(c, "gone")
  /\ Hangup(c)
  /\ sockfile' = IF unlink THEN "absent" ELSE sockfile
  /\ UNCHANGED <<listening, backlog, c2s, size, win_changed, pkt_ws>>

\* Mutated: the end of file is taken for nothing to read.
TtyEofAgain(c) ==
  /\ tpc[c] = "loop"
  /\ ~listening
  /\ s2c[c] = <<>>
  /\ Goto(c, "check")
  /\ UNCHANGED <<wireVars, size, win_changed, pkt_ws, input>>

\* The master has ended and its output is read: end of file, or an error when
\* it left packets unread.
TtyEof(c) ==
  /\ tpc[c] = "loop"
  /\ ~listening
  /\ s2c[c] = <<>>
  /\ Leave(c, TRUE)
  /\ UNCHANGED input

\* The user types, and stdin is read.
Types(c, l) ==
  /\ StdinReady(c)
  /\ Goto(c, l)
  /\ UNCHANGED <<wireVars, size, pkt_ws>>

\* A key, or a few bytes that were typed together.
TtyKey(c) == Types(c, "push") /\ UNCHANGED win_changed

\* A form feed also asks for the size to be sent again.
TtyFormFeed(c) ==
  /\ Types(c, "push")
  /\ win_changed' = [win_changed EXCEPT ![c] = TRUE]

\* The mode key: the client waits for the key that follows, and meanwhile
\* neither reads output nor looks at win_changed.
TtyModeKey(c) == Types(c, "getkey") /\ UNCHANGED win_changed

\* A key other than the detach key: the mode key and that key are sent.
TtyPrefixed(c) ==
  /\ tpc[c] = "getkey"
  /\ Goto(c, "prefix")
  /\ UNCHANGED <<wireVars, size, win_changed, pkt_ws, input>>

\* What was typed is written to the master, and the client blocks until the
\* queue has room.
TtyPush(c) ==
  /\ \/ tpc[c] = "prefix" /\ Send(c, Plain("push"), "push")
     \/ tpc[c] = "push" /\ Send(c, Plain("push"), "check")
  /\ UNCHANGED <<size, win_changed, pkt_ws, input>>

\* The detach key: retval is 1, and the path is left alone.
TtyDetach(c) ==
  /\ tpc[c] = "getkey"
  /\ Leave(c, FALSE)
  /\ UNCHANGED input

\* The suspend key.
TtySuspend(c) == Types(c, "suspend") /\ UNCHANGED win_changed

\* MSG_DETACH, then SIGTSTP.
TtyStop(c) ==
  /\ tpc[c] = "suspend"
  /\ Send(c, Plain("detach"), "stopped")
  /\ UNCHANGED <<size, win_changed, pkt_ws, input>>

\* Mutated: the client goes on without telling the master.
TtyContinueOnly(c) ==
  /\ tpc[c] = "stopped"
  /\ Goto(c, "check")
  /\ UNCHANGED <<wireVars, size, win_changed, pkt_ws, input>>

TtyContinue(c) ==
  /\ tpc[c] = "stopped"
  /\ Goto(c, "reattach")
  /\ UNCHANGED <<wireVars, size, win_changed, pkt_ws, input>>

\* The terminal is closed under the client: read(2) on stdin returns 0.
TtyStdinEof(c) ==
  /\ StdinReady(c)
  /\ Leave(c, TRUE)

\* SIGHUP, SIGTERM, SIGINT, SIGQUIT (tty_die) or SIGKILL.
Die(c) ==
  /\ tpc[c] \notin {"start", "gone"}
  /\ Acts(c)
  /\ Leave(c, FALSE)

\* The terminal is resized.  The handler interrupts select(2), or runs just
\* before it, when the flag stays unseen until select returns again.
Resize(c) ==
  /\ c \in Tty
  /\ tpc[c] # "gone"
  /\ Acts(c)
  /\ \E s \in Size \ {size[c]} : size' = [size EXCEPT ![c] = s]
  /\ win_changed' = [win_changed EXCEPT ![c] = tpc[c] # "start"]
  /\ tpc' = tpc \/ (tpc[c] = "loop" /\ Goto(c, "check"))
  /\ UNCHANGED <<wireVars, pkt_ws>>

\* The end of a turn of the loop: the flag is cleared before the size is read.
TtyCheck(c) ==
  /\ tpc[c] = "check"
  /\ Goto(c, IF win_changed[c] THEN "winch" ELSE "loop")
  /\ win_changed' = [win_changed EXCEPT ![c] = FALSE]
  /\ UNCHANGED <<wireVars, size, pkt_ws, input>>

\* Mutated: the flag is cleared once the size is sent.
TtyWinchThenClear(c) ==
  /\ tpc[c] = "winch"
  /\ SendSize(c, "winch", "loop")
  /\ win_changed' = [win_changed EXCEPT ![c] = FALSE]

TtyWinch(c) ==
  /\ tpc[c] = "winch"
  /\ SendSize(c, "winch", "loop")
  /\ UNCHANGED win_changed

\* v_send pushes its data and closes the connection.
SenderPush(c) ==
  /\ tpc[c] = "send"
  /\ Acts(c)
  /\ Send(c, Plain("push"), "send")
  /\ UNCHANGED <<size, win_changed, pkt_ws>>

SenderClose(c) ==
  /\ tpc[c] = "send"
  /\ Leave(c, FALSE)
  /\ UNCHANGED input

-----------------------------------------------------------------------------
\* The steps the program takes by itself, and those its user makes it take.
TtyStep(c) ==
  \/ Connect(c) \/ TtyAttach(c) \/ TtyIoctl(c) \/ TtyRedraw(c)
  \/ TtyRead(c) \/ TtyEof(c) \/ TtyPush(c) \/ TtyStop(c)
  \/ TtyCheck(c) \/ TtyWinch(c)

UserStep(c) ==
  \/ TtyKey(c) \/ TtyFormFeed(c)
  \/ TtyModeKey(c) \/ TtyDetach(c) \/ TtyPrefixed(c)
  \/ TtySuspend(c) \/ TtyContinue(c) \/ TtyStdinEof(c)
  \/ Die(c) \/ Resize(c)
  \/ SenderPush(c) \/ SenderClose(c)
=============================================================================
