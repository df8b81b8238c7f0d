------------------------------- MODULE VWire -------------------------------
(***************************************************************************)
(* What the processes of one V session share: the path of the socket in    *)
(* the file system, the listening socket with its backlog, and for every   *)
(* connection the two byte streams of an AF_UNIX socket.  The kernel is    *)
(* external to the repository; it is modelled from how libv.c uses it.     *)
(*                                                                         *)
(* A connection carries fixed size packets to the master, one write(2) and *)
(* one read(2) each, and terminal output to the client, whose unit is a    *)
(* piece of output small enough to be written whole.                       *)
(***************************************************************************)
EXTENDS Naturals, Sequences, FiniteSets

CONSTANTS
  Tty,      \* invocations of v that run v_tty_main once
  Sender,   \* invocations of v --send; one that sends nothing is v_main's probe
  Size,     \* window sizes of a terminal
  NoSize,   \* the ws field of a packet that carries no window size
  QMax,     \* packets the kernel holds for the master before a write blocks
  SMax,     \* units of output the kernel holds for a client
  LowWater  \* free units from which select(2) calls a stream writable

Client == Tty \cup Sender

ASSUME WireAssumption ==
  /\ Tty \cap Sender = {}
  /\ NoSize \notin Size
  /\ QMax \in Nat \ {0}
  /\ SMax \in Nat \ {0}
  /\ LowWater \in 1..SMax

PacketType == {"push", "attach", "detach", "winch", "redraw"}
Packet == [type : PacketType, ws : Size \cup {NoSize}]

\* The packets that change whether the master sends output to a client.
FlagType == {"attach", "detach"}

VARIABLES
  sockfile,   \* the path: "absent", or there without or with S_IXUSR
  listening,  \* the master lives, and with it its end of every connection
  backlog,    \* connections that wait for accept(2)
  hup,        \* clients that have closed their end
  c2s,        \* c2s[c]: packets written by c that the master has not read
  s2c         \* s2c[c]: output written to c that c has not read

wireVars == <<sockfile, listening, backlog, hup, c2s, s2c>>

WireTypeOK ==
  /\ sockfile \in {"absent", "plain", "exec"}
  /\ listening \in BOOLEAN
  /\ backlog \in Seq(Client)
  /\ hup \subseteq Client
  /\ c2s \in [Client -> Seq(Packet)]
  /\ s2c \in [Client -> Seq(Nat)]

\* v_sock_create has bound the path with mode 0600 and nobody is connected.
WireInit ==
  /\ sockfile = "plain"
  /\ listening = TRUE
  /\ backlog = <<>>
  /\ hup = {}
  /\ c2s = [c \in Client |-> <<>>]
  /\ s2c = [c \in Client |-> <<>>]

Elements(s) == {s[i] : i \in DOMAIN s}
Distinct(s) == \A i, j \in DOMAIN s : s[i] = s[j] => i = j

\* A client's socket blocks: a write waits until the queue has room, and
\* fails at once (unnoticed by the caller) when the master's end is closed.
CanWrite(c) == listening => Len(c2s[c]) < QMax

Written(c, pkt) ==
  IF listening THEN [c2s EXCEPT ![c] = Append(@, pkt)] ELSE c2s

\* The master's read on a connection returns: a packet, or the end of file.
Readable(c) == c2s[c] # <<>> \/ c \in hup

\* select(2) reports a stream writable with LowWater units free, or closed.
Writable(c) == c \in hup \/ Len(s2c[c]) + LowWater <= SMax

Hangup(c) ==
  /\ hup' = hup \cup {c}
  /\ s2c' = [s2c EXCEPT ![c] = <<>>]

\* The master's end of everything is closed when its process ends.
MasterGone ==
  /\ listening' = FALSE
  /\ backlog' = <<>>
=============================================================================
