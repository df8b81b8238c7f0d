------------------------------ MODULE VMaster ------------------------------
(***************************************************************************)
(* The master of a V session (libv.c): the daemon that holds the pseudo    *)
(* terminal of a program and multiplexes it over the connected clients,    *)
(* and the program at the other end of that terminal.                      *)
(*                                                                         *)
(* pc is the place in pty_process and pty_activity:                        *)
(*   top     the top of the main loop                                      *)
(*   select  blocked in its select, or on the way to it                    *)
(*   accept  "New client?"                                                 *)
(*   client  the loop over the clients, todo still ahead                   *)
(*   read    the read of the pty                                           *)
(*   ptop    the label top of pty_activity, and its select                 *)
(*   pwrite  the loop that writes buf to the clients, todo still ahead     *)
(***************************************************************************)
EXTENDS VWire, Integers

CONSTANTS
  MaxOut,    \* units of output the program produces
  MaxStops,  \* times the program is stopped or continued
  PtyOut,    \* units of output the pty holds
  PtyIn,     \* writes the pty holds for the program
  Chunk      \* units one read of the pty returns at most

ASSUME MasterAssumption ==
  /\ MaxOut \in Nat
  /\ MaxStops \in Nat
  /\ PtyOut \in Nat \ {0}
  /\ PtyIn \in Nat \ {0}
  /\ Chunk \in Nat \ {0}

VARIABLES
  pc,
  clients,              \* the list of accepted connections, newest first
  attached,             \* attached[c]: c is sent output
  waitattach,           \* the pty is not read yet
  has_attached_client,  \* what the mode of the socket was last set from
  ws,                   \* the window size of the pty
  bychild,              \* history: it was last set by the child of pty_child
  readfds,              \* what the last select was given, then what it found
  todo,                 \* the clients a loop over the list has still to visit
  buf,                  \* the chunk of output in hand
  writefds,             \* the clients the inner select found writable
  written,              \* units of buf written to the first of todo
  nclients,             \* clients that took the whole of buf, or -1

  prog,                 \* the program lives
  starting,             \* its process has not set the size of the pty yet
  stops,                \* how often it was stopped or continued
  chld,                 \* a SIGCHLD is pending
  outn,                 \* units of output the program has produced
  readn,                \* units of output the master has read
  pin                   \* writes the program has not read

loopVars == <<waitattach, has_attached_client, ws, bychild>>
ioVars == <<readfds, todo, buf, writefds, written, nclients>>
progVars == <<prog, starting, stops, chld, outn, readn, pin>>
masterVars == <<pc, clients, attached, loopVars, ioVars, progVars>>

FdSet == [listen : BOOLEAN, pty : BOOLEAN, client : SUBSET Client]

MasterPc == {"top", "select", "accept", "client", "read", "ptop", "pwrite"}

\* pty_activity has a chunk in hand exactly while it hands it out.
ChunkInHand ==
  /\ buf # <<>> <=> pc \in {"ptop", "pwrite"}
  /\ written <= Len(buf)

MasterTypeOK ==
  /\ pc \in MasterPc
  /\ clients \in Seq(Client)
  /\ attached \in [Client -> BOOLEAN]
  /\ waitattach \in BOOLEAN
  /\ has_attached_client \in BOOLEAN
  /\ ws \in Size \cup {NoSize}
  /\ bychild \in BOOLEAN
  /\ readfds \in FdSet
  /\ todo \in Seq(Client)
  /\ buf \in Seq(Nat)
  /\ writefds \subseteq Client
  /\ written \in Nat
  /\ nclients \in Int
  /\ prog \in BOOLEAN
  /\ starting \in BOOLEAN
  /\ stops \in Nat
  /\ chld \in BOOLEAN
  /\ outn \in Nat
  /\ readn \in Nat
  /\ pin \in Nat
  /\ ChunkInHand

MasterInit ==
  /\ pc = "top"
  /\ clients = <<>>
  /\ attached = [c \in Client |-> FALSE]
  /\ waitattach = TRUE
  /\ has_attached_client = FALSE
  /\ ws = NoSize
  /\ bychild = FALSE
  /\ readfds = [listen |-> FALSE, pty |-> FALSE, client |-> {}]
  /\ todo = <<>>
  /\ buf = <<>>
  /\ writefds = {}
  /\ written = 0
  /\ nclients = 0
  /\ prog = TRUE
  /\ starting = TRUE
  /\ stops = 0
  /\ chld = FALSE
  /\ outn = 0
  /\ readn = 0
  /\ pin = 0

\* The clients of the list that are attached.
Attached == {c \in Elements(clients) : attached[c]}

-----------------------------------------------------------------------------
(***************************************************************************)
(* pty_process.                                                            *)
(***************************************************************************)

\* The wait for a client ends when the head of the list is attached, and
\* the pty is watched from the next turn on.
EndWaitEarly == waitattach  \* mutated: nobody is waited for
EndWait == waitattach /\ clients # <<>> /\ attached[Head(clients)]

\* Mutated: the bit is never taken back.
SocketModeSticky(exec) ==
  IF sockfile = "absent" THEN sockfile ELSE IF exec THEN "exec" ELSE sockfile

\* update_socket_modes: the path may be gone, and then nothing happens.
SocketMode(exec) ==
  IF sockfile = "absent" THEN sockfile ELSE IF exec THEN "exec" ELSE "plain"

Top ==
  /\ listening /\ pc = "top"
  /\ waitattach' = (waitattach /\ ~EndWait)
  /\ readfds' = [listen |-> TRUE, pty |-> ~waitattach,
                 client |-> Elements(clients)]
  /\ has_attached_client' = (Attached # {})
  /\ sockfile' = IF has_attached_client' # has_attached_client
                 THEN SocketMode(has_attached_client') ELSE sockfile
  /\ pc' = "select"
  /\ UNCHANGED <<listening, backlog, hup, c2s, s2c, clients, attached, ws,
                 bychild, todo, buf, writefds, written, nclients, progVars>>

Ready == [listen |-> readfds.listen /\ backlog # <<>>,
          pty |-> readfds.pty /\ (outn > readn \/ ~prog),
          client |-> {c \in readfds.client : Readable(c)}]

Select ==
  /\ listening /\ pc = "select"
  /\ Ready.listen \/ Ready.pty \/ Ready.client # {}
  /\ readfds' = Ready
  /\ pc' = "accept"
  /\ UNCHANGED <<wireVars, clients, attached, loopVars, todo, buf, writefds,
                 written, nclients, progVars>>

\* pty_socket_activity: the connection enters the list at its head.
Accept ==
  /\ listening /\ pc = "accept"
  /\ IF readfds.listen
     THEN /\ clients' = <<Head(backlog)>> \o clients
          /\ attached' = [attached EXCEPT ![Head(backlog)] = FALSE]
          /\ backlog' = Tail(backlog)
     ELSE UNCHANGED <<clients, attached, backlog>>
  /\ todo' = clients'
  /\ pc' = "client"
  /\ UNCHANGED <<sockfile, listening, hup, c2s, s2c, loopVars, readfds, buf,
                 writefds, written, nclients, progVars>>

\* The loop over the clients is at p; next is saved before p is handled.
Visit(p) ==
  /\ listening /\ pc = "client"
  /\ todo # <<>> /\ p = Head(todo)
  /\ todo' = Tail(todo)

ClientSkip(p) ==
  /\ Visit(p)
  /\ p \notin readfds.client
  /\ UNCHANGED <<wireVars, pc, clients, attached, loopVars, readfds, buf,
                 writefds, written, nclients, progVars>>

\* The list without p.
Unlinked(p) ==
  LET k == CHOOSE k \in DOMAIN clients : clients[k] = p
  IN  SubSeq(clients, 1, k - 1) \o SubSeq(clients, k + 1, Len(clients))

\* Mutated: next is taken from the client that was just freed.
ClientHangupThenNext(p) ==
  /\ listening /\ pc = "client"
  /\ todo # <<>> /\ p = Head(todo)
  /\ p \in readfds.client /\ c2s[p] = <<>> /\ p \in hup
  /\ clients' = Unlinked(p)
  /\ UNCHANGED <<wireVars, pc, attached, loopVars, ioVars, progVars>>

\* The client's read returns 0: it is closed, and leaves the list.
ClientHangup(p) ==
  /\ Visit(p)
  /\ p \in readfds.client /\ c2s[p] = <<>> /\ p \in hup
  /\ clients' = Unlinked(p)
  /\ UNCHANGED <<wireVars, pc, attached, loopVars, readfds, buf, writefds,
                 written, nclients, progVars>>

\* The client's read returns a packet of a type in types.
Receive(p, types) ==
  /\ Visit(p)
  /\ p \in readfds.client /\ c2s[p] # <<>>
  /\ Head(c2s[p]).type \in types
  /\ c2s' = [c2s EXCEPT ![p] = Tail(@)]
  /\ UNCHANGED <<sockfile, listening, backlog, hup, s2c, pc, clients,
                 waitattach, has_attached_client, readfds, buf, writefds,
                 written, nclients, prog, starting, stops, chld, outn, readn>>

\* The write to the pty blocks while the pty holds all it can.
ClientPush(p) ==
  /\ Receive(p, {"push"})
  /\ prog => pin < PtyIn
  /\ pin' = IF prog THEN pin + 1 ELSE pin
  /\ UNCHANGED <<attached, ws, bychild>>

ClientFlag(p) ==
  /\ Receive(p, FlagType)
  /\ attached' = [attached EXCEPT ![p] = Head(c2s[p]).type = "attach"]
  /\ UNCHANGED <<ws, bychild, pin>>

ClientSize(p) ==
  /\ Receive(p, {"winch", "redraw"})
  /\ ws' = Head(c2s[p]).ws
  /\ bychild' = FALSE
  /\ UNCHANGED <<attached, pin>>

\* The loop is over; pty_activity is called when the pty was readable.
ClientsDone ==
  /\ listening /\ pc = "client"
  /\ todo = <<>>
  /\ pc' = IF readfds.pty THEN "read" ELSE "top"
  /\ UNCHANGED <<wireVars, clients, attached, loopVars, ioVars, progVars>>

-----------------------------------------------------------------------------
(***************************************************************************)
(* pty_activity.                                                           *)
(***************************************************************************)

\* Mutated: the result of the read is not looked at.
PtyReadUnchecked ==
  LET n == IF outn - readn < Chunk THEN outn - readn ELSE Chunk IN
  /\ listening /\ pc = "read"
  /\ buf' = [i \in 1..n |-> readn + i]
  /\ readn' = readn + n
  /\ pc' = "ptop"
  /\ UNCHANGED <<wireVars, clients, attached, loopVars, readfds, todo,
                 writefds, written, nclients, prog, starting, stops, chld, outn,
                 pin>>

\* A chunk of output is read.
PtyRead ==
  LET n == IF outn - readn < Chunk THEN outn - readn ELSE Chunk IN
  /\ listening /\ pc = "read"
  /\ outn > readn
  /\ buf' = [i \in 1..n |-> readn + i]
  /\ readn' = readn + n
  /\ pc' = "ptop"
  /\ UNCHANGED <<wireVars, clients, attached, loopVars, readfds, todo,
                 writefds, written, nclients, prog, starting, stops, chld, outn,
                 pin>>

\* The locals of pty_activity are gone.
Forget ==
  /\ pc' = "top"
  /\ buf' = <<>>
  /\ writefds' = {}
  /\ written' = 0
  /\ nclients' = 0

\* pty_activity returns to the main loop.
Return ==
  /\ Forget
  /\ UNCHANGED <<wireVars, clients, attached, loopVars, readfds, todo>>

\* The master ends, and with it its list; the path stays.  The program loses
\* its terminal and is not followed any further.
Exit ==
  /\ MasterGone
  /\ Forget
  /\ clients' = <<>>
  /\ todo' = <<>>
  /\ prog' = FALSE
  /\ chld' = FALSE
  /\ pin' = 0
  /\ UNCHANGED <<sockfile, hup, c2s, s2c, attached, loopVars, readfds,
                 starting, stops, outn, readn>>

\* Mutated: the main loop goes on after the end of file.
PtyEofReturns ==
  /\ listening /\ pc = "read"
  /\ outn = readn
  /\ Return
  /\ UNCHANGED progVars

\* The program has ended and its output is read: exit.
PtyEof ==
  /\ listening /\ pc = "read"
  /\ outn = readn
  /\ Exit

\* Mutated: the inner select is entered for the listening socket alone.
PtyNobodyWaits ==
  /\ listening /\ pc = "ptop"
  /\ Attached = {} /\ backlog # <<>>
  /\ Return
  /\ UNCHANGED progVars

\* Nobody is attached: the chunk is dropped.
PtyNobody ==
  /\ listening /\ pc = "ptop"
  /\ Attached = {}
  /\ Return
  /\ UNCHANGED progVars

\* Mutated: a client that is not attached is written to as well.
PtySelectAll ==
  LET room == {c \in Elements(clients) : Writable(c)} IN
  /\ listening /\ pc = "ptop"
  /\ Attached # {}
  /\ backlog # <<>> \/ room # {}
  /\ readfds' = [readfds EXCEPT !.listen = backlog # <<>>]
  /\ writefds' = room
  /\ todo' = clients
  /\ nclients' = 0
  /\ written' = 0
  /\ pc' = "pwrite"
  /\ UNCHANGED <<wireVars, clients, attached, loopVars, buf, progVars>>

\* The inner select: a connection waits, or some attached client has room.
PtySelect ==
  LET room == {c \in Attached : Writable(c)} IN
  /\ listening /\ pc = "ptop"
  /\ Attached # {}
  /\ backlog # <<>> \/ room # {}
  /\ readfds' = [readfds EXCEPT !.listen = backlog # <<>>]
  /\ writefds' = room
  /\ todo' = clients
  /\ nclients' = 0
  /\ written' = 0
  /\ pc' = "pwrite"
  /\ UNCHANGED <<wireVars, clients, attached, loopVars, buf, progVars>>

\* The write loop is at p.
Writing(p) ==
  /\ listening /\ pc = "pwrite"
  /\ todo # <<>> /\ p = Head(todo)
  /\ UNCHANGED <<sockfile, listening, backlog, hup, c2s, pc, clients, attached,
                 loopVars, readfds, buf, writefds, progVars>>

\* Mutated: written keeps what the last client took.
NextClientOnly ==
  /\ todo' = Tail(todo)
  /\ UNCHANGED written

NextClient ==
  /\ todo' = Tail(todo)
  /\ written' = 0

PtySkip(p) ==
  /\ Writing(p)
  /\ p \notin writefds
  /\ NextClient
  /\ UNCHANGED <<s2c, nclients>>

\* Mutated: any write counts.
CountWrites(n) == IF nclients # -1 THEN nclients + 1 ELSE nclients

\* A client counts when it has taken all of buf, and no write has failed.
Count(n) == IF nclients # -1 /\ n = Len(buf) THEN nclients + 1 ELSE nclients

\* One write: as much of the rest of buf as there is room for.
PtyWrite(p) ==
  LET room == SMax - Len(s2c[p])
      rest == Len(buf) - written
      n == IF room < rest THEN room ELSE rest
  IN
  /\ Writing(p)
  /\ p \in writefds /\ p \notin hup
  /\ n > 0
  /\ s2c' = [s2c EXCEPT ![p] = @ \o SubSeq(buf, written + 1, written + n)]
  /\ IF n < rest
     THEN written' = written + n /\ UNCHANGED todo
     ELSE NextClient
  /\ nclients' = Count(written + n)

\* EAGAIN: the rest of buf is not for this client.
PtyAgain(p) ==
  /\ Writing(p)
  /\ p \in writefds /\ p \notin hup
  /\ Len(s2c[p]) = SMax
  /\ NextClient
  /\ UNCHANGED <<s2c, nclients>>

\* EPIPE or the like.
PtyError(p) ==
  /\ Writing(p)
  /\ p \in writefds /\ p \in hup
  /\ NextClient
  /\ nclients' = -1
  /\ UNCHANGED s2c

\* "Try again if nothing happened."
PtyRetry ==
  /\ listening /\ pc = "pwrite"
  /\ todo = <<>>
  /\ ~readfds.listen /\ nclients = 0
  /\ pc' = "ptop"
  /\ UNCHANGED <<wireVars, clients, attached, loopVars, ioVars, progVars>>

PtyDone ==
  /\ listening /\ pc = "pwrite"
  /\ todo = <<>>
  /\ readfds.listen \/ nclients # 0
  /\ Return
  /\ UNCHANGED progVars

-----------------------------------------------------------------------------
(***************************************************************************)
(* Signals to the master, and the program.                                 *)
(***************************************************************************)

\* SIGINT or SIGTERM: exit.
MasterDie ==
  /\ listening
  /\ Exit

\* SIGCHLD: the handler does nothing, but interrupts a select that blocks;
\* pty_activity then returns with its chunk, and the main loop turns.
Sigchld ==
  /\ listening /\ chld
  /\ chld' = FALSE
  /\ \/ UNCHANGED <<wireVars, pc, clients, attached, loopVars, ioVars>>
     \/ pc \in {"select", "ptop"} /\ Return
  /\ UNCHANGED <<prog, starting, stops, outn, readn, pin>>

\* The child of pty_child sets the size Vwm had when it was forked, and becomes
\* the program; the master does not wait for it.
ProgStart ==
  /\ listening /\ prog /\ starting
  /\ starting' = FALSE
  /\ ws' \in Size
  /\ bychild' = TRUE
  /\ UNCHANGED <<wireVars, pc, clients, attached, waitattach, has_attached_client,
                 ioVars, prog, stops, chld, outn, readn, pin>>

ProgOutput ==
  /\ listening /\ prog /\ ~starting
  /\ outn < MaxOut /\ outn - readn < PtyOut
  /\ outn' = outn + 1
  /\ UNCHANGED <<wireVars, pc, clients, attached, loopVars, ioVars, prog,
                 starting, stops, chld, readn, pin>>

ProgInput ==
  /\ listening /\ prog /\ ~starting
  /\ pin > 0
  /\ pin' = pin - 1
  /\ UNCHANGED <<wireVars, pc, clients, attached, loopVars, ioVars, prog,
                 starting, stops, chld, outn, readn>>

\* The program is stopped, or continued: SIGCHLD too, for SA_NOCLDSTOP is not set.
ProgStop ==
  /\ listening /\ prog
  /\ stops < MaxStops
  /\ stops' = stops + 1
  /\ chld' = TRUE
  /\ UNCHANGED <<wireVars, pc, clients, attached, loopVars, ioVars, prog,
                 starting, outn, readn, pin>>

ProgExit ==
  /\ listening /\ prog
  /\ prog' = FALSE
  /\ chld' = TRUE
  /\ pin' = 0
  /\ UNCHANGED <<wireVars, pc, clients, attached, loopVars, ioVars, starting,
                 stops, outn, readn>>

-----------------------------------------------------------------------------
ClientStep ==
  \E p \in Client :
    \/ ClientSkip(p) \/ ClientHangup(p)
    \/ ClientPush(p) \/ ClientFlag(p) \/ ClientSize(p)

WriteStep ==
  \E p \in Client : PtySkip(p) \/ PtyWrite(p) \/ PtyAgain(p) \/ PtyError(p)

MasterStep ==
  \/ Top \/ Select \/ Accept \/ ClientStep \/ ClientsDone
  \/ PtyRead \/ PtyEof \/ PtyNobody \/ PtySelect \/ WriteStep
  \/ PtyRetry \/ PtyDone

ProgStep == ProgStart \/ ProgOutput \/ ProgInput \/ ProgStop \/ ProgExit
=============================================================================
