---------------------------- MODULE VSocketFile ----------------------------
(***************************************************************************)
(* The path of a V session's socket over several invocations of v          *)
(* (libv.c): each looks at the path, may remove it, bind a socket to it,   *)
(* fork a master and connect to whatever the path leads to by then.  The   *)
(* steps are system calls, so invocations interleave between them.         *)
(*                                                                         *)
(* An invocation's mode is its options: "plain" none, "force" --force,     *)
(* "remove" --remove-socket, "attach" -a, "attachremove" both, "send"      *)
(* --send, and "la" and "laforce" the v_main of a loaded file              *)
(* (la_v_main) without and with the force option.                          *)
(***************************************************************************)
CONSTANTS
  Inv,    \* the invocations of v with this socket name
  None,
  Modes   \* the options used

AllModes == {"plain", "force", "remove", "attach", "attachremove", "send",
             "la", "laforce"}

ASSUME SocketFileAssumption ==
  /\ None \notin Inv
  /\ Modes \subseteq AllModes

VARIABLES
  mode,    \* mode[i]: the options of i
  ipc,     \* ipc[i]: the system call i makes next
  path,    \* whose socket the path leads to, or None
  sock,    \* sock[i]: the socket i made and, after the fork, its master
  conn,    \* conn[i]: the session i's terminal is attached to
  known    \* history: the sessions that lived when i last looked at the path

vars == <<mode, ipc, path, sock, conn, known>>

TypeOK ==
  /\ mode \in [Inv -> Modes]
  /\ ipc \in [Inv -> {"exists", "probe", "remove", "bind", "listen", "chmod",
                      "fork", "connect", "tty", "unlink", "gone"}]
  /\ path \in Inv \cup {None}
  /\ sock \in [Inv -> {"none", "bound", "listening", "closed"}]
  /\ conn \in [Inv -> Inv \cup {None}]
  /\ known \in [Inv -> SUBSET Inv]
  /\ path # None => sock[path] # "none"
  /\ \A i \in Inv : ipc[i] \in {"tty", "unlink"} => conn[i] # None

Init ==
  /\ mode \in [Inv -> Modes]
  /\ ipc = [i \in Inv |-> "exists"]
  /\ path = None
  /\ sock = [i \in Inv |-> "none"]
  /\ conn = [i \in Inv |-> None]
  /\ known = [i \in Inv |-> {}]

Attaches(i) == mode[i] \in {"attach", "attachremove", "send"}

Live(m) == sock[m] = "listening"

\* connect(2) on the path: ENOENT, ECONNREFUSED or a connection.
Connectable == path # None /\ Live(path)

\* i goes on at l; the probe, bind and connect are its looks at the path.
Goto(i, l) ==
  /\ ipc' = [ipc EXCEPT ![i] = l]
  /\ known' = [known EXCEPT ![i] =
                 IF l = "gone" THEN {}
                 ELSE IF ipc[i] \in {"probe", "bind", "connect"} THEN {m \in Inv : Live(m)}
                 ELSE @]

\* Where v_main goes after pty.main, whatever that returned: with --exit it ends.
AfterPty(i) == IF mode[i] \in {"la", "laforce"} THEN {"connect"} ELSE {"connect", "gone"}

-----------------------------------------------------------------------------
\* File.exists: a plain invocation refuses, the others look closer.
Exists(i) ==
  /\ ipc[i] = "exists"
  /\ IF path # None
     THEN Goto(i, IF mode[i] = "plain" THEN "gone" ELSE "probe")
     ELSE Goto(i, IF Attaches(i) THEN "connect" ELSE "bind")
  /\ UNCHANGED <<mode, path, sock, conn>>

\* Mutated: whoever may remove does, as --remove-socket without -a.
AfterProbeAnyway(i, connected) ==
  CASE mode[i] = "force"                                 -> "bind"
    [] mode[i] \in {"remove", "attachremove", "laforce"} -> "remove"
    [] OTHER                           -> IF connected THEN "connect" ELSE "gone"

\* What v_main and la_v_main do with the outcome of their connect.
AfterProbe(i, connected) ==
  CASE mode[i] = "force"          -> "bind"
    [] mode[i] = "remove"         -> "remove"
    [] mode[i] = "attachremove"   -> IF connected THEN "connect" ELSE "remove"
    [] mode[i] = "laforce"        -> IF connected THEN "connect" ELSE "remove"
    [] OTHER                      -> IF connected THEN "connect" ELSE "gone"

\* File.is_sock and the probing connect.  When the path has vanished since,
\* is_sock fails, or just the connect does.
Probe(i) ==
  /\ ipc[i] = "probe"
  /\ \/ Goto(i, AfterProbe(i, Connectable))
     \/ path = None /\ Goto(i, "gone")
  /\ UNCHANGED <<mode, path, sock, conn>>

\* unlink, after the probe and whatever has become of the path.
Remove(i) ==
  /\ ipc[i] = "remove"
  /\ path' = None
  /\ Goto(i, IF mode[i] = "attachremove" \/ (mode[i] = "laforce" /\ path = None)
             THEN "gone" ELSE "bind")
  /\ UNCHANGED <<mode, sock, conn>>

\* v_sock_create: bind.  That pty.main failed is ignored by its callers.
Bind(i) ==
  /\ ipc[i] = "bind"
  /\ IF path = None
     THEN /\ path' = i
          /\ sock' = [sock EXCEPT ![i] = "bound"]
          /\ Goto(i, "listen")
     ELSE /\ \E l \in AfterPty(i) : Goto(i, l)
          /\ UNCHANGED <<path, sock>>
  /\ UNCHANGED <<mode, conn>>

Listen(i) ==
  /\ ipc[i] = "listen"
  /\ sock' = [sock EXCEPT ![i] = "listening"]
  /\ Goto(i, "chmod")
  /\ UNCHANGED <<mode, path, conn>>

\* chmod, by name: when the path is gone by then the socket is closed again.
Chmod(i) ==
  /\ ipc[i] = "chmod"
  /\ IF path # None
     THEN Goto(i, "fork") /\ UNCHANGED sock
     ELSE /\ sock' = [sock EXCEPT ![i] = "closed"]
          /\ \E l \in AfterPty(i) : Goto(i, l)
  /\ UNCHANGED <<mode, path, conn>>

\* The master is forked.
Fork(i) ==
  /\ ipc[i] = "fork"
  /\ \E l \in AfterPty(i) : Goto(i, l)
  /\ UNCHANGED <<mode, path, sock, conn>>

\* pty_main_cb or fork fails: the path is removed; the caller goes on.
ForkFails(i) ==
  /\ ipc[i] = "fork"
  /\ path' = None
  /\ sock' = [sock EXCEPT ![i] = "closed"]
  /\ \E l \in AfterPty(i) : Goto(i, l)
  /\ UNCHANGED <<mode, conn>>

\* Mutated: the result of connect is not looked at.
ConnectUnchecked(i) ==
  /\ ipc[i] = "connect"
  /\ conn' = [conn EXCEPT ![i] = path]
  /\ Goto(i, "tty")
  /\ UNCHANGED <<mode, path, sock>>

\* v_tty_main, or v_send, which ends when its data is sent.
Connect(i) ==
  /\ ipc[i] = "connect"
  /\ IF Connectable /\ mode[i] # "send"
     THEN conn' = [conn EXCEPT ![i] = path] /\ Goto(i, "tty")
     ELSE UNCHANGED conn /\ Goto(i, "gone")
  /\ UNCHANGED <<mode, path, sock>>

\* The user detaches.
Detach(i) ==
  /\ ipc[i] = "tty"
  /\ Goto(i, "gone")
  /\ UNCHANGED <<mode, path, sock, conn>>

\* The session has ended, or the terminal of the client has.
TtyEnd(i) ==
  /\ ipc[i] = "tty"
  /\ Goto(i, "unlink")
  /\ UNCHANGED <<mode, path, sock, conn>>

Eof(i) == TtyEnd(i) /\ sock[conn[i]] = "closed"
StdinEof(i) == TtyEnd(i) /\ sock[conn[i]] # "closed"

Unlink(i) ==
  /\ ipc[i] = "unlink"
  /\ path' = None
  /\ Goto(i, "gone")
  /\ UNCHANGED <<mode, sock, conn>>

\* A signal ends the invocation, before the fork with its socket.
Die(i) ==
  /\ ipc[i] # "gone"
  /\ Goto(i, "gone")
  /\ sock' = IF ipc[i] \in {"listen", "chmod", "fork"}
             THEN [sock EXCEPT ![i] = "closed"] ELSE sock
  /\ UNCHANGED <<mode, path, conn>>

Forked(i) == Live(i) /\ ipc[i] \notin {"chmod", "fork"}

\* The master ends, the path stays.
MasterEnds(i) ==
  /\ Forked(i)
  /\ sock' = [sock EXCEPT ![i] = "closed"]
  /\ UNCHANGED <<mode, ipc, path, conn, known>>

\* There is no pty for the program: the master removes the path and ends.
MasterFails(i) ==
  /\ Forked(i)
  /\ sock' = [sock EXCEPT ![i] = "closed"]
  /\ path' = None
  /\ UNCHANGED <<mode, ipc, conn, known>>

Next ==
  \E i \in Inv :
    \/ Exists(i) \/ Probe(i) \/ Remove(i)
    \/ Bind(i) \/ Listen(i) \/ Chmod(i) \/ Fork(i) \/ ForkFails(i) \/ Connect(i)
    \/ Detach(i) \/ Eof(i) \/ StdinEof(i) \/ Unlink(i) \/ Die(i)
    \/ MasterEnds(i) \/ MasterFails(i)

Spec == Init /\ [][Next]_vars

-----------------------------------------------------------------------------
\* The path is removed by name, often long after it was looked at, and may
\* belong to somebody else by then.  All the same nobody cuts off a live session
\* that was there when he looked: it is his own (the fork or the master failed),
\* the one his terminal was attached to (and was closed under him), or one that
\* came to life after his last look at the path.  Only --remove-socket without
\* -a removes whatever it finds.  (MasterFails is the step of no invocation: the
\* master that gets no pty removes the path whoever has it by then.)
OnlyNewcomersCutOff ==
  [][\A i, m \in Inv : ipc'[i] # ipc[i] /\ path = m /\ Live(m) /\ path' # m =>
       \/ m = i
       \/ ipc[i] = "unlink" /\ conn[i] = m
       \/ m \notin known[i]
       \/ ipc[i] = "remove" /\ mode[i] = "remove"]_vars

-----------------------------------------------------------------------------
(***************************************************************************)
(* The inductive invariant behind OnlyNewcomersCutOff: a path never comes   *)
(* back to a socket that was there when it was found to lead elsewhere.    *)
(***************************************************************************)
LookInv ==
  \A i \in Inv :
    /\ ipc[i] \in {"exists", "probe", "remove", "bind"} => sock[i] = "none"
    /\ \A m \in known[i] : sock[m] # "none"
    /\ path \in known[i] =>
         \/ ipc[i] = "remove" /\ mode[i] = "remove"
         \/ ipc[i] \in {"tty", "unlink"} /\ path = conn[i]
         \/ ipc[i] \in {"bind", "connect"}
=============================================================================
