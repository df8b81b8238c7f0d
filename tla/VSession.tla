------------------------------ MODULE VSession ------------------------------
(***************************************************************************)
(* A session: one master with its program, and the clients that come and   *)
(* go, over the sockets of VWire.                                          *)
(***************************************************************************)
EXTENDS VTty, VMaster

\* History: the last unit of output that was put into a client's stream.
VARIABLE seen

vars == <<wireVars, ttyVars, masterVars, seen>>

Grew(c) == Len(s2c'[c]) > Len(s2c[c])

Remember ==
  seen' = [c \in Client |-> IF Grew(c) THEN s2c'[c][Len(s2c'[c])] ELSE seen[c]]

Init ==
  /\ WireInit /\ TtyInit /\ MasterInit
  /\ seen = [c \in Client |-> 0]

ClientProcess(c) == (TtyStep(c) \/ UserStep(c)) /\ UNCHANGED <<masterVars, seen>>

MasterProcess ==
  /\ MasterStep \/ Sigchld \/ MasterDie \/ ProgStep
  /\ Remember
  /\ UNCHANGED ttyVars

Next == MasterProcess \/ \E c \in Client : ClientProcess(c)

Spec == Init /\ [][Next]_vars

-----------------------------------------------------------------------------
(***************************************************************************)
(* Safety.                                                                 *)
(***************************************************************************)

\* Every variable has its type.
TypeOK ==
  /\ WireTypeOK /\ TtyTypeOK /\ MasterTypeOK
  /\ seen \in [Client -> Nat]

\* A connection waits in the backlog or is in the list, at most once in
\* either, and the loops over the list (in the main loop and in pty_activity)
\* visit no client that has been unlinked and freed, although clients leave
\* the list while it is walked.
NoFreedClient ==
  /\ Distinct(clients) /\ Distinct(backlog)
  /\ Elements(backlog) \cap Elements(clients) = {}
  /\ pc \in {"client", "pwrite"} => Elements(todo) \subseteq Elements(clients)

\* The places of v_tty_main between its MSG_ATTACH and its MSG_DETACH.
WantsOutput(c) ==
  tpc[c] \in {"redraw", "loop", "input", "push", "getkey", "prefix", "suspend",
              "check", "winch", "reredraw"}

Flags(c) == {i \in DOMAIN c2s[c] : c2s[c][i].type \in FlagType}

\* What the master will hold of a client when it has read all that the client
\* has sent so far is what the client counts on: p->attached never ends up
\* stale, however packets, suspensions and the master's loops interleave.
AttachReplay ==
  listening =>
    \A c \in Client \ hup :
      /\ Flags(c) = {} => attached[c] = WantsOutput(c)
      /\ \A i \in Flags(c) :
           (\A j \in Flags(c) : j <= i) =>
             (c2s[c][i].type = "attach") = WantsOutput(c)

\* While the master sleeps in the main select, the S_IXUSR bit of the socket,
\* if its path is still there, says whether some client is attached
\* ("chmod the socket if necessary", update_socket_modes).
SocketModeAgrees ==
  listening /\ pc = "select" /\ sockfile # "absent" =>
    (sockfile = "exec") = (Attached # {})

\* A user who has the session for himself and has not acted yet misses no
\* output, not even what came before he was attached (waitattach, the retry
\* of pty_activity), up to the first SIGCHLD: that of the program's end, or of
\* its being stopped or continued.
LoneClientMissesNothing ==
  \A c \in Tty :
    listening /\ prog /\ stops = 0 /\ input[c] = 0 /\ pc \notin {"ptop", "pwrite"}
      /\ (\A d \in Client \ {c} : tpc[d] = "start") => seen[c] = readn

\* When a lone client waits in its select and all it sent is read, the pty
\* has the size of its terminal, or it is about to learn of a resize: no
\* resize is lost between the test of win_changed and the size that is sent.
\* One write of the size comes from elsewhere, that of pty_child's process
\* before it becomes the program: nobody waits for it, and when it comes after
\* a client's the pty keeps it until that client sends its size again.
SizeSettles ==
  \A c \in Tty :
    listening /\ tpc[c] = "loop" /\ c2s[c] = <<>> /\ ~win_changed[c]
      /\ (\A d \in Client \ {c} : tpc[d] = "start") => ws = size[c] \/ bychild

\* What a client receives is in order: each write starts with the unit after
\* the last one it was sent, or with the first unit of a chunk; no client is
\* sent the rest of a chunk whose beginning it did not get.
OutputInOrder ==
  [][\A c \in Client : Grew(c) =>
       LET u == s2c'[c][Len(s2c[c]) + 1] IN u \in {seen[c] + 1, Head(buf)}]_vars

\* pty_activity gives a chunk up only when some attached client has been sent
\* its last unit, a connection waits, or a write has failed.
ChunkReachesSomebody ==
  [][listening' /\ pc = "pwrite" /\ pc' = "top" /\ ~readfds.listen /\ nclients # -1 =>
       \E c \in Attached : seen[c] = buf[Len(buf)]]_vars

\* The comment of the retry, "Try again if nothing happened.": a chunk is
\* written again only when none of it was written.
RetryOnlyIfNothingHappened ==
  [][pc = "pwrite" /\ pc' = "ptop" =>
       \A c \in Attached : seen[c] < Head(buf)]_vars

\* The chunk in hand is what Broadcast has taken and not given.  A signal calls,
\* and in the write loop a connection that waits, and a write that has failed.
Promised ==
  INSTANCE Broadcast WITH
    Terminal <- Client, open <- listening, made <- outn, taken <- readn,
    given <- readn - Len(buf), members <- Attached, stream <- s2c, cursor <- seen,
    called <- chld \/ (pc = "pwrite" /\ (readfds.listen \/ nclients = -1))

\* The loops of the master hand out the output as Broadcast promises, however the
\* steps of the clients, the signals and the program come in between.
OutputBroadcast == Promised!Spec

-----------------------------------------------------------------------------
(***************************************************************************)
(* The inductive invariant behind NoFreedClient, AttachReplay and           *)
(* SocketModeAgrees.                                                        *)
(***************************************************************************)

\* A loop meets a client once, so one that is freed is not met again, and
\* accept(2) is called when there is a connection for it.
ListInv ==
  /\ NoFreedClient
  /\ Distinct(todo)
  /\ pc = "accept" /\ readfds.listen => backlog # <<>>

\* Before it connects a client is nowhere, and before it is accepted it is
\* not attached.
FreshInv ==
  /\ \A c \in Client : tpc[c] = "start" =>
       /\ c \notin hup /\ c \notin Elements(backlog) /\ c \notin Elements(clients)
       /\ c2s[c] = <<>> /\ ~attached[c]
  /\ \A c \in Elements(backlog) : ~attached[c]

\* The mode is that of has_attached_client, which is up to date in select.
ModeInv ==
  /\ listening /\ sockfile # "absent" => (sockfile = "exec") = has_attached_client
  /\ pc = "select" => has_attached_client = (Attached # {})

IInv == TypeOK /\ ListInv /\ FreshInv /\ AttachReplay /\ ModeInv

-----------------------------------------------------------------------------
(***************************************************************************)
(* Liveness.  The master, the terminal clients and the kernel make their    *)
(* steps, and the program reads what it is sent.  What was typed is read,   *)
(* a user comes back to a suspended client and finishes a key sequence;     *)
(* nothing else is asked of users, and v_send may stay connected for ever.  *)
(***************************************************************************)
Fairness ==
  /\ WF_vars(MasterProcess /\ MasterStep)
  /\ WF_vars(MasterProcess /\ (ProgStart \/ ProgInput))
  /\ \A c \in Tty :
       /\ WF_vars(ClientProcess(c) /\ TtyStep(c))
       /\ WF_vars(ClientProcess(c) /\ UserStep(c)
                    /\ tpc[c] \in {"input", "getkey", "stopped"})

FairSpec == Spec /\ Fairness

\* A client waits to write a packet, and reads nothing meanwhile.
Blocked(c) ==
  /\ tpc[c] \in {"redraw", "push", "prefix", "suspend", "winch", "reattach", "reredraw"}
  /\ ~CanWrite(c)

\* The one way the master may sleep for ever: it waits in pty_activity until
\* an attached client has room, and that client waits to write a packet.
Clogged ==
  /\ pc = "ptop"
  /\ \E c \in Attached : ~Writable(c) /\ Blocked(c)

\* A client that has sent its MSG_ATTACH is attached, however often it was
\* suspended before and whatever the master is at, unless it gives up first.
AttachServed ==
  \A c \in Tty :
    WantsOutput(c) ~> attached[c] \/ ~WantsOutput(c) \/ ~listening \/ Clogged

\* When the program ends the master does too, once it watches the pty at all.
ExitEndsMaster ==
  ~prog /\ pc = "select" /\ readfds.pty ~> ~listening \/ Clogged

\* When the master ends, every terminal client does.
MasterEndEndsClients ==
  \A c \in Tty : ~listening ~> tpc[c] \in {"start", "gone"}
=============================================================================
