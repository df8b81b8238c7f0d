--------------------------- MODULE VSessionProofs ---------------------------
(***************************************************************************)
(* Proofs about VSession: its types and IInv, the account of the output     *)
(* that pty_activity hands out, what a user alone is owed, the size of the  *)
(* pty, and Broadcast as what the loops over the clients implement.         *)
(***************************************************************************)
EXTENDS VSession, SequenceTheorems, TLAPS

(***************************************************************************)
(* Sequences without duplicates.                                           *)
(***************************************************************************)

\* What the tail of a sequence holds: nothing but elements of the sequence,
\* and its head only if that occurs twice.
LEMMA TailFacts ==
  ASSUME NEW S, NEW s \in Seq(S), s # <<>>
  PROVE  /\ Head(s) \in S /\ Head(s) \in Elements(s)
         /\ Tail(s) \in Seq(S)
         /\ Elements(Tail(s)) \subseteq Elements(s)
         /\ Distinct(s) => Distinct(Tail(s)) /\ Head(s) \notin Elements(Tail(s))
  BY DEF Elements, Distinct

\* A new element at the end keeps a sequence without duplicates so.
LEMMA AppendFacts ==
  ASSUME NEW S, NEW s \in Seq(S), NEW x \in S
  PROVE  /\ Append(s, x) \in Seq(S) /\ Append(s, x) # <<>>
         /\ Elements(Append(s, x)) = Elements(s) \cup {x}
         /\ Distinct(s) /\ x \notin Elements(s) => Distinct(Append(s, x))
<1> DEFINE t == Append(s, x)
<1>1. /\ t \in Seq(S) /\ Len(t) = Len(s) + 1 /\ t[Len(s) + 1] = x
      /\ \A i \in 1..Len(s) : t[i] = s[i]
  OBVIOUS
<1>2. Elements(t) = Elements(s) \cup {x}
  BY <1>1 DEF Elements
<1>3. Distinct(s) /\ x \notin Elements(s) => Distinct(t)
  BY <1>1 DEF Elements, Distinct
<1> QED
  BY <1>1, <1>2, <1>3

\* Likewise at the head.
LEMMA ConsFacts ==
  ASSUME NEW S, NEW s \in Seq(S), NEW x \in S
  PROVE  /\ <<x>> \o s \in Seq(S)
         /\ Elements(<<x>> \o s) = Elements(s) \cup {x}
         /\ Distinct(s) /\ x \notin Elements(s) => Distinct(<<x>> \o s)
<1> DEFINE t == <<x>> \o s
<1>1. /\ t \in Seq(S) /\ Len(t) = Len(s) + 1 /\ t[1] = x
      /\ \A i \in 1..Len(s) : t[i + 1] = s[i]
      /\ \A i \in 2..Len(t) : t[i] = s[i - 1]
  OBVIOUS
<1> HIDE DEF t
<1>2. Elements(t) = Elements(s) \cup {x}
  <2>1. Elements(t) \subseteq Elements(s) \cup {x}
    <3> SUFFICES ASSUME NEW i \in 1..Len(t), i # 1
                 PROVE  t[i] \in Elements(s)
      BY <1>1 DEF Elements
    <3>1. i - 1 \in 1..Len(s) /\ t[i] = s[i - 1]
      BY <1>1
    <3> QED
      BY <3>1 DEF Elements
  <2>2. Elements(s) \subseteq Elements(t)
    <3> SUFFICES ASSUME NEW i \in 1..Len(s)
                 PROVE  s[i] \in Elements(t)
      BY DEF Elements
    <3>1. i + 1 \in 1..Len(t) /\ t[i + 1] = s[i]
      BY <1>1
    <3> QED
      BY <3>1, <1>1 DEF Elements
  <2>3. x \in Elements(t)
    <3>1. 1 \in DOMAIN t /\ t[1] = x
      BY <1>1
    <3> QED
      BY <3>1 DEF Elements
  <2> QED
    BY <2>1, <2>2, <2>3
<1>3. Distinct(s) /\ x \notin Elements(s) => Distinct(t)
  BY <1>1 DEF Elements, Distinct
<1> QED
  BY <1>1, <1>2, <1>3 DEF t

\* Unlinking a client from the list removes it, and only it.
LEMMA UnlinkFacts ==
  ASSUME clients \in Seq(Client), Distinct(clients), NEW p \in Elements(clients)
  PROVE  /\ Unlinked(p) \in Seq(Client)
         /\ Elements(Unlinked(p)) = Elements(clients) \ {p}
         /\ Distinct(Unlinked(p))
<1> DEFINE k == CHOOSE k \in DOMAIN clients : clients[k] = p
           n == Len(clients)
           a == SubSeq(clients, 1, k - 1)
           b == SubSeq(clients, k + 1, n)
           t == a \o b
<1>1. k \in 1..n /\ clients[k] = p
  BY DEF Elements
<1> HIDE DEF k
<1>2. /\ a \in Seq(Client) /\ Len(a) = k - 1
      /\ \A i \in 1..(k - 1) : a[i] = clients[i]
  BY <1>1
<1>3. /\ b \in Seq(Client) /\ Len(b) = n - k
      /\ \A i \in 1..(n - k) : b[i] = clients[i + k]
  BY <1>1
<1> HIDE DEF a, b
<1>4. /\ t \in Seq(Client) /\ Len(t) = n - 1
      /\ \A i \in 1..(k - 1) : t[i] = clients[i]
      /\ \A i \in k..(n - 1) : t[i] = clients[i + 1]
  <2>1. /\ t \in Seq(Client) /\ Len(t) = Len(a) + Len(b)
        /\ \A i \in 1..(Len(a) + Len(b)) : t[i] = IF i <= Len(a) THEN a[i] ELSE b[i - Len(a)]
    BY <1>2, <1>3, ConcatProperties
  <2> HIDE DEF t
  <2>2. n \in Nat /\ Len(t) = n - 1
    BY <2>1, <1>1, <1>2, <1>3
  <2>3. ASSUME NEW i \in 1..(k - 1) PROVE t[i] = clients[i]
    <3>1. i \in 1..(Len(a) + Len(b)) /\ i <= Len(a)
      BY <2>2, <1>1, <1>2, <1>3
    <3> QED
      BY <3>1, <2>1, <1>2
  <2>4. ASSUME NEW i \in k..(n - 1) PROVE t[i] = clients[i + 1]
    <3>1. i \in 1..(Len(a) + Len(b)) /\ ~(i <= Len(a)) /\ i - Len(a) \in 1..(n - k)
      BY <2>2, <1>1, <1>2, <1>3
    <3>2. t[i] = b[i - Len(a)]
      BY <3>1, <2>1
    <3>3. i - Len(a) + k = i + 1
      BY <1>1, <1>2, <2>2
    <3> QED
      BY <3>1, <3>2, <3>3, <1>3
  <2> QED
    BY <2>1, <2>2, <2>3, <2>4
<1> HIDE DEF t
<1> DEFINE old(i) == IF i < k THEN i ELSE i + 1
<1>a. /\ \A i \in 1..(n - 1) : old(i) \in 1..n /\ old(i) # k /\ t[i] = clients[old(i)]
      /\ \A i, j \in 1..(n - 1) : old(i) = old(j) => i = j
  BY <1>1, <1>4
<1>b. /\ DOMAIN t = 1..(n - 1) /\ DOMAIN clients = 1..n
      /\ \A i, j \in 1..n : clients[i] = clients[j] => i = j
  BY <1>4 DEF Distinct
<1> HIDE DEF old
<1>5. Distinct(t)
  BY <1>a, <1>b DEF Distinct
<1>6. Elements(t) \subseteq Elements(clients) \ {p}
  <2> SUFFICES ASSUME NEW i \in 1..(n - 1)
               PROVE  t[i] \in Elements(clients) /\ t[i] # p
    BY <1>b DEF Elements
  <2> QED
    BY <1>1, <1>a, <1>b DEF Elements
<1>7. Elements(clients) \ {p} \subseteq Elements(t)
  <2> SUFFICES ASSUME NEW j \in 1..n, clients[j] # p
               PROVE  clients[j] \in Elements(t)
    BY DEF Elements
  <2>1. CASE j < k
    BY <2>1, <1>1, <1>4 DEF Elements
  <2>2. CASE j > k
    <3>1. j - 1 \in k..(n - 1) /\ t[j - 1] = clients[j]
      BY <2>2, <1>1, <1>4
    <3> QED
      BY <3>1, <1>1, <1>4 DEF Elements
  <2> QED
    BY <1>1, <2>1, <2>2
<1> QED
  BY <1>4, <1>5, <1>6, <1>7 DEF Unlinked, t, a, b, k

-----------------------------------------------------------------------------
(***************************************************************************)
(* Types.                                                                  *)
(***************************************************************************)

\* A client's write to the master keeps the types of the wire.
LEMMA SendType ==
  ASSUME WireTypeOK, TtyTypeOK, NEW c \in Client,
         NEW pkt \in Packet, NEW l \in TtyPc, Send(c, pkt, l)
  PROVE  WireTypeOK' /\ tpc' \in [Client -> TtyPc]
<1>1. Written(c, pkt) \in [Client -> Seq(Packet)]
  BY DEF Written, WireTypeOK
<1> QED
  BY <1>1 DEF Send, Goto, WireTypeOK, TtyTypeOK

\* So does the end of a client.
LEMMA LeaveType ==
  ASSUME WireTypeOK, TtyTypeOK, NEW c \in Client, NEW u \in BOOLEAN, Leave(c, u)
  PROVE  WireTypeOK' /\ tpc' \in [Client -> TtyPc]
  BY DEF Leave, Hangup, Goto, WireTypeOK, TtyTypeOK, TtyPc

\* The packets that carry no size are packets.
LEMMA PlainType == \A type \in PacketType : Plain(type) \in Packet
  BY DEF Plain, Packet

\* Every step of a client keeps the types of the wire and of the clients.
LEMMA ClientType ==
  ASSUME WireTypeOK, TtyTypeOK, NEW c \in Client, TtyStep(c) \/ UserStep(c)
  PROVE  WireTypeOK' /\ TtyTypeOK'
<1> USE PlainType DEF TtyTypeOK
<1>t. /\ {"start", "attach", "redraw", "loop", "input", "push", "getkey", "prefix",
          "suspend", "check", "winch", "stopped", "reattach", "reredraw", "send",
          "gone"} \subseteq TtyPc
      /\ {"push", "attach", "detach", "winch", "redraw"} \subseteq PacketType
  BY DEF TtyPc, PacketType
<1>s. Acts(c) => input' \in [Client -> Nat]
  BY DEF Acts
<1>r. StdinReady(c) => input' \in [Client -> Nat]
  BY <1>s DEF StdinReady
<1>z. \A type \in PacketType, l \in TtyPc : SendSize(c, type, l) =>
         WireTypeOK' /\ tpc' \in [Client -> TtyPc] /\ size' = size /\ input' = input
         /\ pkt_ws' \in [Client -> Size \cup {NoSize}]
  <2> SUFFICES ASSUME NEW type \in PacketType, NEW l \in TtyPc, SendSize(c, type, l)
               PROVE  WireTypeOK' /\ tpc' \in [Client -> TtyPc] /\ size' = size
                      /\ input' = input /\ pkt_ws' \in [Client -> Size \cup {NoSize}]
    OBVIOUS
  <2>1. [type |-> type, ws |-> pkt_ws[c]] \in Packet
    BY DEF Packet
  <2> QED
    BY <2>1, SendType DEF SendSize
<1>1. CASE Connect(c)
  <2>1. tpc' \in [Client -> TtyPc]
    BY <1>1, <1>t DEF Connect, Goto
  <2>2. backlog' \in Seq(Client)
    <3>1. backlog \in Seq(Client)
      BY DEF WireTypeOK
    <3>2. Append(backlog, c) \in Seq(Client)
      BY ONLY <3>1, c \in Client, AppendFacts
    <3> QED
      BY <3>1, <3>2, <1>1 DEF Connect
  <2> QED
    BY <2>1, <2>2, <1>1 DEF Connect, WireTypeOK
<1>2. CASE TtyAttach(c)
  BY <1>2, <1>t, SendType DEF TtyAttach
<1>3. CASE TtyIoctl(c)
  BY <1>3 DEF TtyIoctl, wireVars, WireTypeOK
<1>4. CASE TtyRedraw(c)
  BY <1>4, <1>t, <1>z DEF TtyRedraw
<1>5. CASE TtyRead(c)
  <2>1. s2c' \in [Client -> Seq(Nat)]
    BY <1>5 DEF TtyRead, WireTypeOK
  <2>2. input' \in [Client -> Nat]
    BY <1>s, <1>5, <1>t DEF TtyRead
  <2> QED
    BY <2>1, <2>2, <1>5, <1>t DEF TtyRead, Goto, WireTypeOK
<1>6. CASE TtyEof(c)
  BY <1>6, LeaveType DEF TtyEof, Leave
<1>7. CASE TtyCheck(c)
  BY <1>7, <1>t DEF TtyCheck, Goto, wireVars, WireTypeOK
<1>8. CASE TtyWinch(c)
  BY <1>8, <1>t, <1>z DEF TtyWinch
<1>k. \A l \in TtyPc : Types(c, l) =>
         WireTypeOK' /\ tpc' \in [Client -> TtyPc] /\ size' = size /\ pkt_ws' = pkt_ws
         /\ input' \in [Client -> Nat]
  <2>1. SUFFICES ASSUME NEW l \in TtyPc, Types(c, l)
                 PROVE  WireTypeOK' /\ tpc' \in [Client -> TtyPc] /\ size' = size /\ pkt_ws' = pkt_ws
                        /\ input' \in [Client -> Nat]
    OBVIOUS
  <2>2. input' \in [Client -> Nat]
    BY <1>r, <2>1 DEF Types
  <2> QED
    BY <2>1, <2>2, <1>t DEF Types, Goto, wireVars, WireTypeOK
<1>9. CASE TtyPrefixed(c)
  BY <1>9, <1>t DEF TtyPrefixed, Goto, wireVars, WireTypeOK
<1>10. CASE TtyKey(c)
  BY <1>10, <1>t, <1>k DEF TtyKey
<1>11. CASE TtyFormFeed(c)
  BY <1>11, <1>t, <1>k DEF TtyFormFeed
<1>12. CASE TtyModeKey(c)
  BY <1>12, <1>t, <1>k DEF TtyModeKey
<1>13. CASE TtyDetach(c)
  BY <1>13, LeaveType DEF TtyDetach, Leave
<1>14. CASE TtySuspend(c)
  BY <1>14, <1>t, <1>k DEF TtySuspend
<1>15. CASE TtyContinue(c)
  BY <1>15, <1>t DEF TtyContinue, Goto, wireVars, WireTypeOK
<1>16. CASE TtyStdinEof(c)
  BY <1>16, <1>r, LeaveType DEF TtyStdinEof, Leave
<1>17. CASE Die(c)
  BY <1>17, <1>s, LeaveType DEF Die, Leave
<1>18. CASE Resize(c)
  <2>1. /\ WireTypeOK' /\ pkt_ws' = pkt_ws /\ input' \in [Client -> Nat]
        /\ size' \in [Client -> Size] /\ win_changed' \in [Client -> BOOLEAN]
    BY <1>18, <1>s DEF Resize, wireVars, WireTypeOK
  <2>2. tpc' \in [Client -> TtyPc]
    BY <1>18, <1>t DEF Resize, Goto
  <2> QED
    BY <2>1, <2>2
<1>19. CASE SenderPush(c)
  BY <1>19, <1>t, <1>s, SendType DEF SenderPush
<1>20. CASE SenderClose(c)
  BY <1>20, LeaveType DEF SenderClose, Leave
<1>21. CASE TtyPush(c)
  BY <1>21, <1>t, SendType DEF TtyPush
<1>22. CASE TtyStop(c)
  BY <1>22, <1>t, SendType DEF TtyStop
<1> QED
  BY <1>1, <1>2, <1>3, <1>4, <1>5, <1>6, <1>7, <1>8, <1>9, <1>10, <1>11, <1>12,
     <1>13, <1>14, <1>15, <1>16, <1>17, <1>18, <1>19, <1>20, <1>21, <1>22
     DEF TtyStep, UserStep

\* Every step of the master, of its program and of its signals keeps the
\* types of the wire and of the master.
LEMMA MasterType ==
  ASSUME WireTypeOK, MasterTypeOK, ListInv, MasterStep \/ Sigchld \/ MasterDie \/ ProgStep
  PROVE  WireTypeOK' /\ MasterTypeOK'
<1> USE WireAssumption, MasterAssumption
<1> USE DEF WireTypeOK, MasterTypeOK, MasterPc, ChunkInHand, masterVars, wireVars, loopVars,
            ioVars, progVars
<1>1. CASE Top
  BY <1>1 DEF Top, SocketMode, FdSet, Elements
<1>2. CASE Select
  BY <1>2 DEF Select, Ready, FdSet
<1>3. CASE Accept
  <2>1. CASE readfds.listen
    <3>1. backlog # <<>>
      BY <2>1, <1>3 DEF Accept, ListInv
    <3>2. Head(backlog) \in Client /\ Tail(backlog) \in Seq(Client)
      BY <3>1
    <3>3. <<Head(backlog)>> \o clients \in Seq(Client)
      BY <3>2, ConsFacts
    <3>4. /\ clients' \in Seq(Client) /\ attached' \in [Client -> BOOLEAN]
          /\ backlog' \in Seq(Client) /\ todo' \in Seq(Client)
      BY <2>1, <3>2, <3>3, <1>3 DEF Accept
    <3> QED
      BY <3>4, <1>3 DEF Accept
  <2>2. CASE ~readfds.listen
    BY <2>2, <1>3 DEF Accept
  <2> QED
    BY <2>1, <2>2
<1>4. CASE ClientStep
  <2> SUFFICES ASSUME NEW p \in Client,
                      \/ ClientSkip(p) \/ ClientHangup(p)
                      \/ ClientPush(p) \/ ClientFlag(p) \/ ClientSize(p)
               PROVE  WireTypeOK' /\ MasterTypeOK'
    BY <1>4 DEF ClientStep
  <2>1. CASE ClientSkip(p)
    BY <2>1 DEF ClientSkip, Visit
  <2>2. CASE ClientHangup(p)
    <3>1. p \in Elements(todo)
      BY <2>2, TailFacts DEF ClientHangup, Visit
    <3>2. p \in Elements(clients)
      BY <3>1, <2>2 DEF ClientHangup, Visit, ListInv, NoFreedClient
    <3>3. clients' \in Seq(Client)
      <4>1. clients \in Seq(Client) /\ Distinct(clients) /\ clients' = Unlinked(p)
        BY <2>2 DEF ClientHangup, ListInv, NoFreedClient
      <4> QED
        BY ONLY <3>2, <4>1, UnlinkFacts
    <3> QED
      BY <3>3, <2>2 DEF ClientHangup, Visit
  <2>3. CASE ClientPush(p)
    BY <2>3 DEF ClientPush, Receive, Visit
  <2>4. CASE ClientFlag(p)
    BY <2>4 DEF ClientFlag, Receive, Visit
  <2>5. CASE ClientSize(p)
    <3>1. Head(c2s[p]) \in Packet
      BY <2>5 DEF ClientSize, Receive
    <3>2. ws' \in Size \cup {NoSize} /\ bychild' \in BOOLEAN
      BY <3>1, <2>5 DEF ClientSize, Packet
    <3> QED
      BY <3>2, <2>5 DEF ClientSize, Receive, Visit
  <2> QED
    BY <2>1, <2>2, <2>3, <2>4, <2>5
<1>5. CASE ClientsDone
  BY <1>5 DEF ClientsDone
<1>6. CASE PtyRead
  <2> DEFINE n == IF outn - readn < Chunk THEN outn - readn ELSE Chunk
  <2>1. n \in Nat \ {0} /\ readn + n \in Nat
    BY <1>6 DEF PtyRead
  <2>2. /\ buf' = [i \in 1..n |-> readn + i] /\ readn' = readn + n /\ pc' = "ptop"
        /\ written' = written /\ written \in Nat /\ pc = "read"
    BY <1>6 DEF PtyRead
  <2> HIDE DEF n
  <2>3. buf' \in Seq(Nat) /\ Len(buf') = n
    <3>1. \A i \in 1..n : readn + i \in Nat
      BY <2>1
    <3> QED
      BY ONLY <2>1, <2>2, <3>1
  <2>4. buf = <<>> /\ written = 0
    BY <2>2
  <2>5. ChunkInHand'
    <3>1. buf' # <<>>
      BY ONLY <2>1, <2>3
    <3>2. written' <= Len(buf')
      BY ONLY <2>1, <2>2, <2>3, <2>4
    <3>3. pc' \in {"ptop", "pwrite"}
      BY ONLY <2>2
    <3> QED
      BY ONLY <3>1, <3>2, <3>3, Zenon DEF ChunkInHand
  <2>6. readn' \in Nat
    BY <2>1, <2>2
  <2> HIDE DEF ChunkInHand
  <2> QED
    BY <2>2, <2>3, <2>5, <2>6, <1>6 DEF PtyRead
<1>7. CASE PtyEof \/ MasterDie
  <2>1. Exit
    BY <1>7 DEF PtyEof, MasterDie
  <2>2. ChunkInHand'
    BY <2>1 DEF Exit, Forget
  <2> HIDE DEF ChunkInHand
  <2>3. /\ clients' \in Seq(Client) /\ todo' \in Seq(Client)
        /\ buf' \in Seq(Nat) /\ backlog' \in Seq(Client)
    BY <2>1, EmptySeq DEF Exit, Forget, MasterGone
  <2> QED
    <3>1. WireTypeOK'
      BY <2>1, <2>3 DEF Exit, MasterGone
    <3>2. /\ pc' = "top" /\ writefds' = {} /\ written' = 0 /\ nclients' = 0
          /\ prog' = FALSE /\ chld' = FALSE /\ pin' = 0
          /\ attached' = attached /\ waitattach' = waitattach
          /\ has_attached_client' = has_attached_client /\ ws' = ws
          /\ UNCHANGED <<bychild, starting, stops>>
          /\ readfds' = readfds /\ outn' = outn /\ readn' = readn
      BY <2>1 DEF Exit, Forget
    <3>3. /\ pc' \in MasterPc /\ attached' \in [Client -> BOOLEAN]
          /\ waitattach' \in BOOLEAN /\ has_attached_client' \in BOOLEAN
          /\ ws' \in Size \cup {NoSize} /\ bychild' \in BOOLEAN /\ readfds' \in FdSet
      BY <3>2
    <3>4. /\ writefds' \subseteq Client /\ prog' \in BOOLEAN /\ chld' \in BOOLEAN
          /\ starting' \in BOOLEAN /\ stops' \in Nat
      BY <3>2
    <3>5. /\ written' \in Nat /\ nclients' \in Int
          /\ outn' \in Nat /\ readn' \in Nat /\ pin' \in Nat
      BY <3>2
    <3> QED
      BY ONLY <2>2, <2>3, <3>1, <3>3, <3>4, <3>5, Zenon DEF MasterTypeOK
<1>8. CASE PtyNobody
  BY <1>8 DEF PtyNobody, Return, Forget
<1>9. CASE PtyDone
  BY <1>9 DEF PtyDone, Return, Forget
<1>10. CASE Sigchld
  <2>1. CASE UNCHANGED <<wireVars, pc, clients, attached, loopVars, ioVars>>
    BY <1>10, <2>1 DEF Sigchld
  <2>2. CASE Return
    <3>1. buf' \in Seq(Nat) /\ ChunkInHand'
      BY <2>2, EmptySeq DEF Return, Forget
    <3> HIDE DEF ChunkInHand
    <3>2. /\ pc' = "top" /\ writefds' = {} /\ written' = 0 /\ nclients' = 0
          /\ UNCHANGED <<wireVars, clients, attached, loopVars, readfds, todo>>
          /\ chld' = FALSE /\ UNCHANGED <<prog, starting, stops, outn, readn, pin>>
      BY <1>10, <2>2 DEF Sigchld, Return, Forget
    <3>3. /\ WireTypeOK'
          /\ pc' \in MasterPc /\ clients' \in Seq(Client) /\ todo' \in Seq(Client)
          /\ attached' \in [Client -> BOOLEAN]
          /\ waitattach' \in BOOLEAN /\ has_attached_client' \in BOOLEAN
          /\ ws' \in Size \cup {NoSize} /\ bychild' \in BOOLEAN /\ readfds' \in FdSet
      BY <3>2
    <3>4. /\ writefds' \subseteq Client /\ prog' \in BOOLEAN /\ chld' \in BOOLEAN
          /\ starting' \in BOOLEAN /\ stops' \in Nat
      BY <3>2
    <3>5. /\ written' \in Nat /\ nclients' \in Int
          /\ outn' \in Nat /\ readn' \in Nat /\ pin' \in Nat
      BY <3>2
    <3> QED
      BY ONLY <3>1, <3>3, <3>4, <3>5, Zenon DEF MasterTypeOK
  <2> QED
    BY <1>10, <2>1, <2>2 DEF Sigchld
<1>11. CASE PtySelect
  <2>1. readfds' \in FdSet
    BY <1>11 DEF PtySelect, FdSet
  <2>2. writefds' \subseteq Client
    BY <1>11 DEF PtySelect, Attached, Elements
  <2>3. ChunkInHand'
    BY <1>11 DEF PtySelect
  <2> HIDE DEF ChunkInHand
  <2>4. /\ pc' = "pwrite" /\ todo' = clients /\ nclients' = 0 /\ written' = 0
        /\ UNCHANGED <<wireVars, clients, attached, loopVars, buf, progVars>>
    BY <1>11 DEF PtySelect
  <2> QED
    BY <2>1, <2>2, <2>3, <2>4
<1>12. CASE WriteStep
  <2> SUFFICES ASSUME NEW p \in Client,
                      PtySkip(p) \/ PtyWrite(p) \/ PtyAgain(p) \/ PtyError(p)
               PROVE  WireTypeOK' /\ MasterTypeOK'
    BY <1>12 DEF WriteStep
  <2>1. CASE PtySkip(p)
    BY <2>1 DEF PtySkip, Writing, NextClient
  <2>2. CASE PtyAgain(p)
    BY <2>2 DEF PtyAgain, Writing, NextClient
  <2>3. CASE PtyError(p)
    BY <2>3 DEF PtyError, Writing, NextClient
  <2>4. CASE PtyWrite(p)
    <3> DEFINE rest == Len(buf) - written
               n == IF SMax - Len(s2c[p]) < rest THEN SMax - Len(s2c[p]) ELSE rest
    <3>1. n \in Nat /\ rest \in Nat /\ n <= rest /\ written + n \in Nat
      <4>1. written \in Nat /\ Len(buf) \in Nat /\ written <= Len(buf)
        BY DEF ChunkInHand
      <4>2. SMax - Len(s2c[p]) \in Int
        BY WireAssumption
      <4>3. n > 0
        BY <2>4 DEF PtyWrite
      <4> QED
        BY ONLY <4>1, <4>2, <4>3
    <3>2. /\ s2c' = [s2c EXCEPT ![p] = @ \o SubSeq(buf, written + 1, written + n)]
          /\ \/ n < rest /\ written' = written + n /\ todo' = todo
             \/ todo' = Tail(todo) /\ written' = 0
          /\ nclients' = Count(written + n)
          /\ todo # <<>> /\ Writing(p)
      BY <2>4 DEF PtyWrite, NextClient, Writing
    <3>3. n < rest => written + n <= Len(buf)
      BY <3>1
    <3> HIDE DEF n, rest
    <3>4. SubSeq(buf, written + 1, written + n) \in Seq(Nat)
      <4>1. buf \in Seq(Nat) /\ written \in Nat
        OBVIOUS
      <4>2. n + written <= Len(buf)
        BY <3>1 DEF rest
      <4> QED
        BY ONLY <3>1, <4>1, <4>2
    <3>5. s2c' \in [Client -> Seq(Nat)]
      <4>1. s2c[p] \o SubSeq(buf, written + 1, written + n) \in Seq(Nat)
        <5>1. s2c[p] \in Seq(Nat)
          OBVIOUS
        <5> QED
          BY ONLY <3>4, <5>1, ConcatProperties
      <4> QED
        BY <3>2, <4>1
    <3>6. todo' \in Seq(Client) /\ nclients' \in Int
      <4>1. Tail(todo) \in Seq(Client)
        BY <3>2
      <4>2. Count(written + n) \in Int
        BY <3>1 DEF Count
      <4> QED
        BY <3>2, <4>1, <4>2
    <3>7. written' \in Nat /\ written' <= Len(buf)
      BY <3>1, <3>2, <3>3
    <3> QED
      BY <3>2, <3>5, <3>6, <3>7 DEF Writing
  <2> QED
    BY <2>1, <2>2, <2>3, <2>4
<1>13. CASE PtyRetry
  BY <1>13 DEF PtyRetry
<1>14. CASE ProgOutput
  BY <1>14 DEF ProgOutput
<1>15. CASE ProgInput
  BY <1>15 DEF ProgInput
<1>16. CASE ProgExit
  BY <1>16 DEF ProgExit
<1>17. CASE ProgStart
  BY <1>17 DEF ProgStart
<1>18. CASE ProgStop
  BY <1>18 DEF ProgStop
<1> QED
  BY <1>1, <1>2, <1>3, <1>4, <1>5, <1>6, <1>7, <1>8, <1>9, <1>10, <1>11, <1>12,
     <1>13, <1>14, <1>15, <1>16, <1>17, <1>18 DEF MasterStep, ProgStep

-----------------------------------------------------------------------------
(***************************************************************************)
(* What a step of a client does to what the invariant is about.            *)
(***************************************************************************)

\* The packet a client sends changes its flag to what the client wants from
\* then on, or it is no flag and the client wants what it wanted.
Sends(c) ==
  \E pkt \in Packet :
    /\ c2s' = Written(c, pkt)
    /\ IF pkt.type \in FlagType
       THEN WantsOutput(c)' = (pkt.type = "attach")
       ELSE WantsOutput(c)' = WantsOutput(c)

ClientEffect(c) ==
  /\ listening' = listening
  /\ sockfile' \in {sockfile, "absent"}
  /\ \A d \in Client \ {c} : tpc'[d] = tpc[d]
  /\ tpc'[c] = "start" => tpc[c] = "start" /\ UNCHANGED wireVars
  /\ \/ backlog' = backlog
     \/ tpc[c] = "start" /\ backlog' = Append(backlog, c)
  /\ \/ hup' = hup /\ c2s' = c2s /\ WantsOutput(c)' = WantsOutput(c)
     \/ hup' = hup \cup {c} /\ c2s' = c2s
     \/ hup' = hup /\ Sends(c)

\* The effect of a write that blocks, given where it leads.
LEMMA SendEffect ==
  ASSUME WireTypeOK, TtyTypeOK, NEW c \in Client, NEW pkt \in Packet,
         NEW l \in TtyPc, Send(c, pkt, l), l # "start",
         IF pkt.type \in FlagType THEN WantsOutput(c)' = (pkt.type = "attach")
                                  ELSE WantsOutput(c)' = WantsOutput(c)
  PROVE  ClientEffect(c)
<1>1. /\ listening' = listening /\ sockfile' = sockfile /\ backlog' = backlog
      /\ hup' = hup /\ c2s' = Written(c, pkt)
  BY DEF Send
<1>2. tpc'[c] = l /\ \A d \in Client \ {c} : tpc'[d] = tpc[d]
  BY DEF Send, Goto, TtyTypeOK
<1>3. Sends(c)
  BY <1>1 DEF Sends
<1> QED
  BY <1>1, <1>2, <1>3 DEF ClientEffect

\* What the end of a client does to its queue and its flag.
LEMMA LeaveEffect ==
  ASSUME WireTypeOK, TtyTypeOK, NEW c \in Client, NEW u \in BOOLEAN, Leave(c, u)
  PROVE  ClientEffect(c)
<1>1. tpc'[c] = "gone" /\ \A d \in Client \ {c} : tpc'[d] = tpc[d]
  BY DEF Leave, Goto, TtyTypeOK
<1> QED
  BY <1>1 DEF Leave, Hangup, ClientEffect

\* A step that sends nothing and leaves the client's wish as it was.
LEMMA StayEffect ==
  ASSUME WireTypeOK, TtyTypeOK, NEW c \in Client, NEW l \in TtyPc, Goto(c, l),
         UNCHANGED <<sockfile, listening, hup, c2s>>, l # "start",
         UNCHANGED backlog \/ (tpc[c] = "start" /\ backlog' = Append(backlog, c)),
         WantsOutput(c)' = WantsOutput(c)
  PROVE  ClientEffect(c)
<1>1. tpc'[c] = l /\ \A d \in Client \ {c} : tpc'[d] = tpc[d]
  BY DEF Goto, TtyTypeOK
<1> QED
  BY <1>1 DEF ClientEffect

\* What any step of a client does to them.
LEMMA ClientStepEffect ==
  ASSUME WireTypeOK, TtyTypeOK, NEW c \in Client, TtyStep(c) \/ UserStep(c)
  PROVE  ClientEffect(c)
<1> USE PlainType DEF WantsOutput
<1>t. /\ TtyPc = {"start", "attach", "redraw", "loop", "input", "push", "getkey",
          "prefix", "suspend", "check", "winch", "stopped", "reattach", "reredraw",
          "send", "gone"}
      /\ PacketType = {"push", "attach", "detach", "winch", "redraw"}
      /\ FlagType = {"attach", "detach"}
      /\ \A type \in PacketType : Plain(type).type = type
  BY DEF TtyPc, PacketType, FlagType, Plain
<1>g. \A l \in TtyPc : Goto(c, l) => tpc'[c] = l
  BY DEF Goto, TtyTypeOK
<1>s. \A pkt \in Packet, l \in TtyPc : Send(c, pkt, l) => tpc'[c] = l
  BY <1>g DEF Send
<1>z. \A type \in PacketType, l \in TtyPc :
        /\ SendSize(c, type, l) => tpc'[c] = l
        /\ SendSize(c, type, l) /\ type \notin FlagType /\ l # "start"
             /\ WantsOutput(c)' = WantsOutput(c) => ClientEffect(c)
  <2> SUFFICES ASSUME NEW type \in PacketType, NEW l \in TtyPc, SendSize(c, type, l)
               PROVE  /\ tpc'[c] = l
                      /\ type \notin FlagType /\ l # "start"
                           /\ WantsOutput(c)' = WantsOutput(c) => ClientEffect(c)
    OBVIOUS
  <2> DEFINE pkt == [type |-> type, ws |-> pkt_ws[c]]
  <2>1. pkt \in Packet /\ pkt.type = type
    BY DEF Packet, SendSize, TtyTypeOK
  <2>2. Send(c, pkt, l)
    BY DEF SendSize
  <2> QED
    BY <2>1, <2>2, <1>s, SendEffect
<1>1. CASE Connect(c)
  <2>1. CASE sockfile # "absent" /\ listening
    BY <1>1, <2>1, <1>t, <1>g, StayEffect DEF Connect
  <2>2. CASE ~(sockfile # "absent" /\ listening)
    BY <1>1, <2>2, <1>t, <1>g, StayEffect DEF Connect
  <2> QED
    BY <2>1, <2>2
<1>2. CASE TtyAttach(c)
  BY <1>2, <1>t, <1>s, SendEffect DEF TtyAttach
<1>3. CASE TtyIoctl(c)
  BY <1>3 DEF TtyIoctl, wireVars, ClientEffect
<1>4. CASE TtyRedraw(c)
  BY <1>4, <1>t, <1>z DEF TtyRedraw
<1>5. CASE TtyRead(c)
  BY <1>5, <1>t, <1>g, StayEffect DEF TtyRead
<1>6. CASE TtyEof(c)
  BY <1>6, LeaveEffect DEF TtyEof
<1>7. CASE TtyCheck(c)
  BY <1>7, <1>t, <1>g, StayEffect DEF TtyCheck, wireVars
<1>8. CASE TtyWinch(c)
  BY <1>8, <1>t, <1>z DEF TtyWinch
<1>k. \A l \in {"push", "getkey", "suspend"} : Types(c, l) => ClientEffect(c)
  BY <1>t, <1>g, StayEffect DEF Types, StdinReady, wireVars
<1>9. CASE TtyPrefixed(c)
  BY <1>9, <1>t, <1>g, StayEffect DEF TtyPrefixed, wireVars
<1>10. CASE TtyKey(c)
  BY <1>10, <1>k DEF TtyKey
<1>11. CASE TtyFormFeed(c)
  BY <1>11, <1>k DEF TtyFormFeed
<1>12. CASE TtyModeKey(c)
  BY <1>12, <1>k DEF TtyModeKey
<1>13. CASE TtyDetach(c)
  BY <1>13, LeaveEffect DEF TtyDetach
<1>14. CASE TtySuspend(c)
  BY <1>14, <1>k DEF TtySuspend
<1>15. CASE TtyContinue(c)
  BY <1>15, <1>t, <1>g, StayEffect DEF TtyContinue, wireVars
<1>16. CASE TtyStdinEof(c)
  BY <1>16, LeaveEffect DEF TtyStdinEof
<1>17. CASE Die(c)
  BY <1>17, LeaveEffect DEF Die
<1>18. CASE Resize(c)
  <2>1. CASE tpc' = tpc
    BY <1>18, <2>1 DEF Resize, wireVars, ClientEffect
  <2>2. CASE tpc[c] = "loop" /\ Goto(c, "check")
    BY <1>18, <2>2, <1>t, <1>g, StayEffect DEF Resize, wireVars
  <2> QED
    BY <1>18, <2>1, <2>2 DEF Resize
<1>19. CASE SenderPush(c)
  BY <1>19, <1>t, <1>s, SendEffect DEF SenderPush
<1>20. CASE SenderClose(c)
  BY <1>20, LeaveEffect DEF SenderClose
<1>21. CASE TtyPush(c)
  BY <1>21, <1>t, <1>s, SendEffect DEF TtyPush
<1>22. CASE TtyStop(c)
  BY <1>22, <1>t, <1>s, SendEffect DEF TtyStop
<1> QED
  BY <1>1, <1>2, <1>3, <1>4, <1>5, <1>6, <1>7, <1>8, <1>9, <1>10, <1>11, <1>12,
     <1>13, <1>14, <1>15, <1>16, <1>17, <1>18, <1>19, <1>20, <1>21, <1>22
     DEF TtyStep, UserStep

-----------------------------------------------------------------------------
(***************************************************************************)
(* What a step of the master does to what the invariant is about.          *)
(***************************************************************************)

\* Nothing, an accept, the end of p, a packet of p, or the master's own end.
Accepts ==
  /\ backlog # <<>>
  /\ clients' = <<Head(backlog)>> \o clients
  /\ attached' = [attached EXCEPT ![Head(backlog)] = FALSE]
  /\ backlog' = Tail(backlog)
  /\ UNCHANGED <<listening, c2s>>

Frees(p) ==
  /\ p \in Elements(clients)
  /\ clients' = Unlinked(p)
  /\ UNCHANGED <<listening, c2s, attached, backlog>>

Receives(p) ==
  /\ p \in Elements(clients)
  /\ c2s[p] # <<>>
  /\ c2s' = [c2s EXCEPT ![p] = Tail(@)]
  /\ attached' = IF Head(c2s[p]).type \in FlagType
                 THEN [attached EXCEPT ![p] = Head(c2s[p]).type = "attach"]
                 ELSE attached
  /\ UNCHANGED <<listening, clients, backlog>>

Ends ==
  /\ listening' = FALSE /\ backlog' = <<>> /\ clients' = <<>>
  /\ UNCHANGED <<c2s, attached>>

MasterEffect ==
  /\ hup' = hup
  /\ \/ UNCHANGED <<listening, backlog, clients, attached, c2s>>
     \/ Accepts
     \/ \E p \in Client : Frees(p) \/ Receives(p)
     \/ Ends

\* What any step of the master does to the queues and the flags.
LEMMA MasterStepEffect ==
  ASSUME WireTypeOK, MasterTypeOK, ListInv, MasterStep \/ Sigchld \/ MasterDie \/ ProgStep
  PROVE  MasterEffect
<1> USE DEF MasterEffect, wireVars
<1>f. /\ FlagType = {"attach", "detach"}
  BY DEF FlagType
<1>e. Exit => Ends /\ hup' = hup
  BY DEF Exit, MasterGone, Forget, Ends
<1>1. CASE Top
  BY <1>1 DEF Top
<1>2. CASE Select
  BY <1>2 DEF Select
<1>3. CASE Accept
  <2>1. CASE readfds.listen
    <3>1. Accepts /\ hup' = hup
      BY <2>1, <1>3 DEF Accept, ListInv, Accepts
    <3> QED
      BY <3>1
  <2>2. CASE ~readfds.listen
    BY <2>2, <1>3 DEF Accept
  <2> QED
    BY <2>1, <2>2
<1>4. CASE ClientStep
  <2> SUFFICES ASSUME NEW p \in Client,
                      \/ ClientSkip(p) \/ ClientHangup(p)
                      \/ ClientPush(p) \/ ClientFlag(p) \/ ClientSize(p)
               PROVE  MasterEffect
    BY <1>4 DEF ClientStep
  <2>1. p \in Elements(clients)
    <3>1. Visit(p)
      BY DEF ClientSkip, ClientHangup, ClientPush, ClientFlag, ClientSize, Receive
    <3>2. p \in Elements(todo)
      BY <3>1, TailFacts DEF Visit, MasterTypeOK
    <3> QED
      BY <3>1, <3>2 DEF Visit, ListInv, NoFreedClient
  <2>2. CASE ClientSkip(p)
    BY <2>2 DEF ClientSkip
  <2>3. CASE ClientHangup(p)
    BY <2>1, <2>3 DEF ClientHangup, Frees
  <2>4. CASE ClientPush(p)
    BY <2>1, <2>4, <1>f DEF ClientPush, Receive, Receives
  <2>5. CASE ClientFlag(p)
    BY <2>1, <2>5, <1>f DEF ClientFlag, Receive, Receives
  <2>6. CASE ClientSize(p)
    BY <2>1, <2>6, <1>f DEF ClientSize, Receive, Receives
  <2> QED
    BY <2>2, <2>3, <2>4, <2>5, <2>6
<1>5. CASE ClientsDone
  BY <1>5 DEF ClientsDone
<1>6. CASE PtyRead
  BY <1>6 DEF PtyRead
<1>7. CASE PtyEof
  BY <1>7, <1>e DEF PtyEof
<1>8. CASE MasterDie
  BY <1>8, <1>e DEF MasterDie
<1>9. CASE PtyNobody
  BY <1>9 DEF PtyNobody, Return
<1>10. CASE PtyDone
  BY <1>10 DEF PtyDone, Return
<1>11. CASE Sigchld
  BY <1>11 DEF Sigchld, Return
<1>12. CASE PtySelect
  BY <1>12 DEF PtySelect
<1>13. CASE WriteStep
  <2> SUFFICES ASSUME NEW p \in Client, Writing(p)
               PROVE  MasterEffect
    BY <1>13 DEF WriteStep, PtySkip, PtyWrite, PtyAgain, PtyError
  <2> QED
    BY DEF Writing
<1>14. CASE PtyRetry
  BY <1>14 DEF PtyRetry
<1>15. CASE ProgStep
  BY <1>15 DEF ProgStep, ProgStart, ProgOutput, ProgInput, ProgStop, ProgExit
<1> QED
  BY <1>1, <1>2, <1>3, <1>4, <1>5, <1>6, <1>7, <1>8, <1>9, <1>10, <1>11, <1>12,
     <1>13, <1>14, <1>15 DEF MasterStep

-----------------------------------------------------------------------------
(***************************************************************************)
(* The list of clients.                                                    *)
(***************************************************************************)

\* A client that connects was nowhere before.
LEMMA ListClient ==
  ASSUME WireTypeOK, ListInv, FreshInv, NEW c \in Client, ClientEffect(c),
         UNCHANGED masterVars
  PROVE  ListInv'
<1> USE DEF ListInv, NoFreedClient, masterVars, ioVars
<1>1. CASE backlog' = backlog
  BY <1>1
<1>2. CASE tpc[c] = "start" /\ backlog' = Append(backlog, c)
  <2>1. c \notin Elements(backlog) /\ c \notin Elements(clients)
    BY <1>2 DEF FreshInv
  <2>2. /\ Distinct(backlog') /\ Elements(backlog') = Elements(backlog) \cup {c}
        /\ backlog' # <<>>
    BY <1>2, <2>1, AppendFacts DEF WireTypeOK
  <2> QED
    BY <2>1, <2>2
<1> QED
  BY <1>1, <1>2 DEF ClientEffect

\* A step that leaves the list alone, and todo too, or takes its head off, or
\* starts a loop over the list.
LEMMA ListKept ==
  ASSUME WireTypeOK, MasterTypeOK, ListInv, UNCHANGED <<backlog, clients>>,
         \/ todo' = todo /\ (pc' \in {"client", "pwrite"} => pc' = pc)
         \/ todo # <<>> /\ todo' = Tail(todo) /\ pc' = pc
         \/ todo' = clients,
         pc' = "accept" /\ readfds'.listen => backlog # <<>>
  PROVE  ListInv'
<1> USE DEF ListInv, NoFreedClient
<1>t. todo # <<>> => Distinct(Tail(todo)) /\ Elements(Tail(todo)) \subseteq Elements(todo)
  BY TailFacts DEF MasterTypeOK
<1>1. Distinct(todo')
  BY <1>t
<1>2. pc' \in {"client", "pwrite"} => Elements(todo') \subseteq Elements(clients)
  BY <1>t
<1> QED
  BY <1>1, <1>2

\* The master keeps its list of clients, and what it has still to visit, in order.
LEMMA ListMaster ==
  ASSUME WireTypeOK, MasterTypeOK, ListInv, MasterStep \/ Sigchld \/ MasterDie \/ ProgStep
  PROVE  ListInv'
<1> USE DEF wireVars, ioVars
<1>e. ASSUME Exit PROVE ListInv'
  BY <1>e DEF Exit, MasterGone, Forget, ListInv, NoFreedClient, Distinct, Elements
<1>r. ASSUME Return PROVE ListInv'
  BY <1>r, ListKept DEF Return, Forget
<1>1. CASE Top
  BY <1>1, ListKept DEF Top
<1>2. CASE Select
  BY <1>2, ListKept DEF Select, Ready
<1>3. CASE Accept
  <2>1. CASE ~readfds.listen
    BY <1>3, <2>1, ListKept DEF Accept
  <2>2. CASE readfds.listen
    <3> DEFINE c == Head(backlog)
    <3>1. /\ backlog # <<>> /\ backlog' = Tail(backlog) /\ clients' = <<c>> \o clients
          /\ todo' = clients' /\ pc' = "client"
      BY <1>3, <2>2 DEF Accept, ListInv
    <3>2. /\ c \in Client /\ c \in Elements(backlog) /\ Distinct(backlog')
          /\ Elements(backlog') \subseteq Elements(backlog) \ {c}
      BY <3>1, TailFacts DEF WireTypeOK, ListInv, NoFreedClient
    <3>3. c \notin Elements(clients)
      BY <3>2 DEF ListInv, NoFreedClient
    <3>4. /\ Distinct(clients') /\ Elements(clients') = Elements(clients) \cup {c}
      BY <3>1, <3>2, <3>3, ConsFacts DEF MasterTypeOK, ListInv, NoFreedClient
    <3> QED
      BY <3>1, <3>2, <3>4 DEF ListInv, NoFreedClient
  <2> QED
    BY <2>1, <2>2
<1>4. CASE ClientStep
  <2> SUFFICES ASSUME NEW p \in Client,
                      \/ ClientSkip(p) \/ ClientHangup(p)
                      \/ ClientPush(p) \/ ClientFlag(p) \/ ClientSize(p)
               PROVE  ListInv'
    BY <1>4 DEF ClientStep
  <2>1. CASE ClientSkip(p)
    BY <2>1, ListKept DEF ClientSkip, Visit
  <2>2. CASE ClientHangup(p)
    <3>1. /\ todo # <<>> /\ p = Head(todo) /\ todo' = Tail(todo) /\ pc' = "client"
          /\ pc = "client" /\ clients' = Unlinked(p) /\ backlog' = backlog
      BY <2>2 DEF ClientHangup, Visit
    <3>2. /\ p \in Elements(todo) /\ Distinct(todo')
          /\ Elements(todo') \subseteq Elements(todo) \ {p}
      BY <3>1, TailFacts DEF MasterTypeOK, ListInv
    <3>3. p \in Elements(clients)
      BY <3>1, <3>2 DEF ListInv, NoFreedClient
    <3>4. Distinct(clients') /\ Elements(clients') = Elements(clients) \ {p}
      BY <3>1, <3>3, UnlinkFacts DEF MasterTypeOK, ListInv, NoFreedClient
    <3> QED
      BY <3>1, <3>2, <3>4 DEF ListInv, NoFreedClient
  <2>3. CASE ClientPush(p) \/ ClientFlag(p) \/ ClientSize(p)
    <3>1. Receive(p, PacketType)
      BY <2>3 DEF ClientPush, ClientFlag, ClientSize, Receive, PacketType, FlagType
    <3> QED
      BY <3>1, ListKept DEF Receive, Visit
  <2> QED
    BY <2>1, <2>2, <2>3
<1>5. CASE ClientsDone
  BY <1>5, ListKept DEF ClientsDone
<1>6. CASE PtyRead
  BY <1>6, ListKept DEF PtyRead
<1>7. CASE PtyEof
  BY <1>7, <1>e DEF PtyEof
<1>8. CASE MasterDie
  BY <1>8, <1>e DEF MasterDie
<1>9. CASE PtyNobody
  BY <1>9, <1>r DEF PtyNobody
<1>10. CASE PtyDone
  BY <1>10, <1>r DEF PtyDone
<1>11. CASE Sigchld
  <2>1. CASE UNCHANGED <<wireVars, pc, clients, attached, loopVars, ioVars>>
    BY <2>1 DEF ListInv, NoFreedClient
  <2>2. CASE Return
    BY <2>2, <1>r
  <2> QED
    BY <1>11, <2>1, <2>2 DEF Sigchld
<1>12. CASE PtySelect
  BY <1>12, ListKept DEF PtySelect
<1>13. CASE WriteStep
  <2> SUFFICES ASSUME NEW p \in Client,
                      PtySkip(p) \/ PtyWrite(p) \/ PtyAgain(p) \/ PtyError(p)
               PROVE  ListInv'
    BY <1>13 DEF WriteStep
  <2>1. Writing(p) /\ (todo' = todo \/ todo' = Tail(todo))
    BY DEF PtySkip, PtyWrite, PtyAgain, PtyError, NextClient
  <2> QED
    BY <2>1, ListKept DEF Writing
<1>14. CASE PtyRetry
  BY <1>14, ListKept DEF PtyRetry
<1>15. CASE ProgStep
  <2>1. UNCHANGED <<wireVars, pc, clients, ioVars>>
    BY <1>15 DEF ProgStep, ProgStart, ProgOutput, ProgInput, ProgStop, ProgExit
  <2> QED
    BY <2>1 DEF ListInv, NoFreedClient
<1> QED
  BY <1>1, <1>2, <1>3, <1>4, <1>5, <1>6, <1>7, <1>8, <1>9, <1>10, <1>11, <1>12,
     <1>13, <1>14, <1>15 DEF MasterStep

-----------------------------------------------------------------------------
(***************************************************************************)
(* Clients that have not connected, or not been accepted yet.              *)
(***************************************************************************)

\* A client that has not connected is nowhere; a step of a client keeps that.
LEMMA FreshClient ==
  ASSUME WireTypeOK, TtyTypeOK, MasterTypeOK, FreshInv, NEW c \in Client,
         ClientEffect(c), UNCHANGED masterVars
  PROVE  FreshInv'
<1>m. clients' = clients /\ attached' = attached
  BY DEF masterVars
<1>1. ASSUME NEW d \in Client, tpc'[d] = "start"
      PROVE  /\ d \notin hup' /\ d \notin Elements(backlog') /\ d \notin Elements(clients')
             /\ c2s'[d] = <<>> /\ ~attached'[d]
  <2>1. CASE d = c
    BY <1>1, <1>m, <2>1 DEF ClientEffect, FreshInv, wireVars
  <2>2. CASE d # c
    <3>1. /\ d \notin hup /\ d \notin Elements(backlog) /\ d \notin Elements(clients)
          /\ c2s[d] = <<>> /\ ~attached[d]
      BY <1>1, <2>2 DEF ClientEffect, FreshInv
    <3>2. Elements(backlog') \subseteq Elements(backlog) \cup {c}
      <4>1. backlog' \in {backlog, Append(backlog, c)}
        BY DEF ClientEffect
      <4>2. backlog \in Seq(Client)
        BY DEF WireTypeOK
      <4>3. Elements(Append(backlog, c)) = Elements(backlog) \cup {c}
        BY ONLY <4>2, c \in Client, AppendFacts
      <4> QED
        BY ONLY <4>1, <4>3
    <3>3. c2s'[d] = c2s[d]
      BY <2>2 DEF ClientEffect, Sends, Written, WireTypeOK
    <3> QED
      BY <3>1, <3>2, <3>3, <2>2, <1>m DEF ClientEffect
  <2> QED
    BY <2>1, <2>2
<1>2. ASSUME NEW d \in Elements(backlog')
      PROVE  ~attached'[d]
  <2>1. CASE backlog' = backlog
    BY <1>m, <2>1 DEF FreshInv
  <2>2. CASE tpc[c] = "start" /\ backlog' = Append(backlog, c)
    <3>1. d \in Elements(backlog) \cup {c}
      BY <2>2, AppendFacts DEF WireTypeOK
    <3> QED
      BY <3>1, <1>m, <2>2 DEF FreshInv
  <2> QED
    BY <2>1, <2>2 DEF ClientEffect
<1> QED
  BY <1>1, <1>2 DEF FreshInv

\* So does a step of the master.
LEMMA FreshMaster ==
  ASSUME WireTypeOK, MasterTypeOK, ListInv, FreshInv, MasterEffect, UNCHANGED tpc
  PROVE  FreshInv'
<1> USE DEF FreshInv
<1>1. CASE UNCHANGED <<listening, backlog, clients, attached, c2s>>
  BY <1>1 DEF MasterEffect
<1>2. CASE Accepts
  <2> DEFINE h == Head(backlog)
  <2>1. /\ h \in Client /\ h \in Elements(backlog)
        /\ Elements(backlog') \subseteq Elements(backlog) \ {h}
    BY <1>2, TailFacts DEF Accepts, WireTypeOK, ListInv, NoFreedClient
  <2>2. Elements(clients') = Elements(clients) \cup {h}
    BY <1>2, <2>1, ConsFacts DEF Accepts, MasterTypeOK
  <2>3. \A d \in Client : attached'[d] => attached[d]
    BY <1>2, <2>1 DEF Accepts, MasterTypeOK
  <2>4. Elements(backlog) \subseteq Client
    BY DEF Elements, WireTypeOK
  <2> QED
    BY <1>2, <2>1, <2>2, <2>3, <2>4 DEF MasterEffect, Accepts
<1>3. ASSUME NEW p \in Client, Frees(p) PROVE FreshInv'
  <2>1. Elements(clients') \subseteq Elements(clients)
    BY <1>3, UnlinkFacts DEF Frees, MasterTypeOK, ListInv, NoFreedClient
  <2> QED
    BY <1>3, <2>1 DEF MasterEffect, Frees
<1>4. ASSUME NEW p \in Client, Receives(p) PROVE FreshInv'
  <2>1. p \notin Elements(backlog) /\ tpc[p] # "start"
    BY <1>4 DEF Receives, ListInv, NoFreedClient
  <2>2. \A d \in Client \ {p} : c2s'[d] = c2s[d] /\ attached'[d] = attached[d]
    BY <1>4 DEF Receives, WireTypeOK, MasterTypeOK
  <2>3. Elements(backlog) \subseteq Client
    BY DEF Elements, WireTypeOK
  <2> QED
    BY <1>4, <2>1, <2>2, <2>3 DEF MasterEffect, Receives
<1>5. CASE Ends
  BY <1>5 DEF MasterEffect, Ends, Elements
<1> QED
  BY <1>1, <1>2, <1>3, <1>4, <1>5 DEF MasterEffect

-----------------------------------------------------------------------------
(***************************************************************************)
(* The flag of a client, and the packets that change it.                   *)
(***************************************************************************)

\* The packets of the queue q that are in K, and what the last of them is read
\* as by V, w; it is a if there is none.
Within(q, K) == {i \in DOMAIN q : q[i] \in K}

Says(q, K, V, a, w) ==
  /\ Within(q, K) = {} => a = w
  /\ \A i \in Within(q, K) : (\A j \in Within(q, K) : j <= i) => V[q[i]] = w

\* A packet at the end of the queue decides when it is in K, and else changes
\* nothing.
LEMMA SaysAppend ==
  ASSUME NEW S, NEW q \in Seq(S), NEW pkt \in S, NEW K, NEW V, NEW a, NEW w, NEW v,
         pkt \notin K => Says(q, K, V, a, w), v = IF pkt \in K THEN V[pkt] ELSE w
  PROVE  Says(Append(q, pkt), K, V, a, v)
<1> DEFINE r == Append(q, pkt)
           n == Len(q)
<1>1. /\ n \in Nat /\ DOMAIN q = 1..n /\ DOMAIN r = 1..(n + 1) /\ r[n + 1] = pkt
      /\ \A i \in 1..n : r[i] = q[i]
  OBVIOUS
<1> HIDE DEF r, n
<1>2. CASE pkt \in K
  <2>1. n + 1 \in Within(r, K) /\ \A i \in Within(r, K) : i \in 1..(n + 1)
    BY <1>1, <1>2 DEF Within
  <2>2. \A i \in Within(r, K) : (\A j \in Within(r, K) : j <= i) => i = n + 1
    BY <2>1, <1>1
  <2> QED
    BY <2>1, <2>2, <1>1, <1>2 DEF Says, r
<1>3. CASE pkt \notin K
  <2>1. Within(r, K) = Within(q, K)
    BY <1>1, <1>3 DEF Within
  <2>2. \A i \in Within(q, K) : r[i] = q[i]
    BY <1>1 DEF Within
  <2> QED
    BY <2>1, <2>2, <1>3 DEF Says, r
<1> QED
  BY <1>2, <1>3

\* A packet that is read from the head of the queue is obeyed.
LEMMA SaysTail ==
  ASSUME NEW S, NEW q \in Seq(S), q # <<>>, NEW K, NEW V, NEW a, NEW w, NEW b,
         Says(q, K, V, a, w), b = IF Head(q) \in K THEN V[Head(q)] ELSE a
  PROVE  Says(Tail(q), K, V, b, w)
<1> DEFINE r == Tail(q)
           n == Len(q)
<1>1. /\ n \in Nat \ {0} /\ DOMAIN q = 1..n /\ DOMAIN r = 1..(n - 1) /\ Head(q) = q[1]
      /\ \A i \in 1..(n - 1) : r[i] = q[i + 1]
  OBVIOUS
<1> HIDE DEF r, n
<1>2. \A i \in Within(r, K) : i \in 1..(n - 1) /\ i + 1 \in Within(q, K) /\ r[i] = q[i + 1]
  BY <1>1 DEF Within
<1>3. \A k \in Within(q, K) : k \in 1..n /\ (k # 1 => k - 1 \in Within(r, K))
  <2> SUFFICES ASSUME NEW k \in Within(q, K), k # 1
               PROVE  k - 1 \in Within(r, K)
    BY <1>1 DEF Within
  <2>1. k - 1 \in 1..(n - 1) /\ r[k - 1] = q[k]
    BY <1>1 DEF Within
  <2> QED
    BY <2>1, <1>1 DEF Within
<1>4. Within(r, K) = {} => b = w
  <2> SUFFICES ASSUME Within(r, K) = {} PROVE b = w
    OBVIOUS
  <2>1. \A k \in Within(q, K) : k = 1
    BY <1>3
  <2>2. CASE Head(q) \in K
    <3>1. 1 \in Within(q, K)
      BY <2>2, <1>1 DEF Within
    <3>2. \A k \in Within(q, K) : k <= 1
      BY <2>1
    <3>3. V[q[1]] = w
      BY <3>1, <3>2 DEF Says
    <3> QED
      BY <3>3, <2>2, <1>1
  <2>3. CASE Head(q) \notin K
    <3>1. Within(q, K) = {}
      BY <2>1, <2>3, <1>1 DEF Within
    <3> QED
      BY <3>1, <2>3 DEF Says
  <2> QED
    BY <2>2, <2>3
<1>5. ASSUME NEW i \in Within(r, K), \A j \in Within(r, K) : j <= i
      PROVE  V[r[i]] = w
  <2>1. i \in 1..(n - 1) /\ i + 1 \in Within(q, K) /\ r[i] = q[i + 1]
    BY <1>2
  <2>2. \A k \in Within(q, K) : k <= i + 1
    <3> SUFFICES ASSUME NEW k \in Within(q, K), k # 1 PROVE k <= i + 1
      BY <2>1
    <3>1. k \in 1..n /\ k - 1 <= i
      BY <1>3, <1>5
    <3> QED
      BY <3>1, <2>1, <1>1
  <2> QED
    BY <2>1, <2>2 DEF Says
<1> QED
  BY <1>4, <1>5 DEF Says, r

\* The last flag in the queue q, or else the flag a the master holds, is w.
FlagPacket == {pkt \in Packet : pkt.type \in FlagType}
Asks == [pkt \in Packet |-> pkt.type = "attach"]

Agrees(q, a, w) == Says(q, FlagPacket, Asks, a, w)

FlagsIn(q) == {i \in DOMAIN q : q[i].type \in FlagType}

\* The same, said of the flags themselves.
LEMMA AgreesIs ==
  ASSUME NEW q \in Seq(Packet), NEW a, NEW w
  PROVE  Agrees(q, a, w) <=>
           /\ FlagsIn(q) = {} => a = w
           /\ \A i \in FlagsIn(q) :
                (\A j \in FlagsIn(q) : j <= i) => (q[i].type = "attach") = w
<1>1. \A i \in DOMAIN q : q[i] \in Packet
  OBVIOUS
<1>2. Within(q, FlagPacket) = FlagsIn(q)
  BY <1>1 DEF Within, FlagPacket, FlagsIn
<1>3. \A i \in FlagsIn(q) : Asks[q[i]] = (q[i].type = "attach")
  BY <1>1 DEF FlagsIn, Asks
<1> QED
  BY <1>2, <1>3, Zenon DEF Agrees, Says

\* AttachReplay in these terms.
LEMMA ReplayAgrees ==
  ASSUME WireTypeOK
  PROVE  AttachReplay <=>
           (listening => \A c \in Client \ hup : Agrees(c2s[c], attached[c], WantsOutput(c)))
<1>1. ASSUME NEW c \in Client
      PROVE  Agrees(c2s[c], attached[c], WantsOutput(c)) <=>
               /\ Flags(c) = {} => attached[c] = WantsOutput(c)
               /\ \A i \in Flags(c) :
                    (\A j \in Flags(c) : j <= i) =>
                      (c2s[c][i].type = "attach") = WantsOutput(c)
  <2>1. c2s[c] \in Seq(Packet)
    BY DEF WireTypeOK
  <2>2. Flags(c) = FlagsIn(c2s[c])
    BY DEF Flags, FlagsIn
  <2> QED
    BY <2>1, <2>2, AgreesIs
<1> QED
  BY <1>1, Zenon DEF AttachReplay

\* After a step.
LEMMA ReplayNext ==
  ASSUME WireTypeOK',
         listening' => \A c \in Client \ hup' : Agrees(c2s'[c], attached'[c], WantsOutput(c)')
  PROVE  AttachReplay'
<1>1. ASSUME NEW c \in Client
      PROVE  Agrees(c2s'[c], attached'[c], WantsOutput(c)') <=>
               /\ Flags(c)' = {} => attached'[c] = WantsOutput(c)'
               /\ \A i \in Flags(c)' :
                    (\A j \in Flags(c)' : j <= i) =>
                      (c2s'[c][i].type = "attach") = WantsOutput(c)'
  <2>1. c2s'[c] \in Seq(Packet)
    BY DEF WireTypeOK
  <2>2. Flags(c)' = FlagsIn(c2s'[c])
    BY DEF Flags, FlagsIn
  <2> QED
    BY <2>1, <2>2, AgreesIs
<1> QED
  BY <1>1, Zenon DEF AttachReplay

\* A flag at the end of the queue decides, and no other packet does.
LEMMA AgreesAppend ==
  ASSUME NEW q \in Seq(Packet), NEW pkt \in Packet, NEW a \in BOOLEAN,
         NEW w \in BOOLEAN, NEW v \in BOOLEAN, Agrees(q, a, w),
         IF pkt.type \in FlagType THEN v = (pkt.type = "attach") ELSE v = w
  PROVE  Agrees(Append(q, pkt), a, v)
<1>1. v = IF pkt \in FlagPacket THEN Asks[pkt] ELSE w
  BY DEF FlagPacket, Asks
<1> QED
  BY <1>1, SaysAppend DEF Agrees

\* A flag at the head of the queue is obeyed.
LEMMA AgreesTail ==
  ASSUME NEW q \in Seq(Packet), q # <<>>, NEW a \in BOOLEAN, NEW w \in BOOLEAN,
         Agrees(q, a, w), NEW b \in BOOLEAN,
         b = IF Head(q).type \in FlagType THEN Head(q).type = "attach" ELSE a
  PROVE  Agrees(Tail(q), b, w)
<1>1. Head(q) \in Packet
  OBVIOUS
<1>2. b = IF Head(q) \in FlagPacket THEN Asks[Head(q)] ELSE a
  BY <1>1 DEF FlagPacket, Asks
<1> QED
  BY <1>2, SaysTail DEF Agrees

\* A step of a client keeps flags and queues in agreement.
LEMMA ReplayClient ==
  ASSUME WireTypeOK, WireTypeOK', TtyTypeOK, MasterTypeOK, AttachReplay, NEW c \in Client,
         ClientEffect(c), UNCHANGED masterVars
  PROVE  AttachReplay'
<1> SUFFICES ASSUME listening, NEW d \in Client, d \notin hup'
             PROVE  Agrees(c2s'[d], attached'[d], WantsOutput(d)')
  BY ReplayNext DEF ClientEffect
<1> DEFINE q == c2s[d]
           a == attached[d]
           w == WantsOutput(d)
           v == WantsOutput(d)'
<1>1. /\ q \in Seq(Packet) /\ a \in BOOLEAN /\ w \in BOOLEAN /\ v \in BOOLEAN
      /\ attached' = attached
  BY DEF WireTypeOK, MasterTypeOK, WantsOutput, masterVars
<1>2. Agrees(q, a, w)
  BY ReplayAgrees DEF ClientEffect
<1>3. CASE d # c
  <2>1. v = w
    BY <1>3 DEF ClientEffect, WantsOutput
  <2>2. c2s'[d] = q
    BY <1>3 DEF ClientEffect, Sends, Written, WireTypeOK
  <2> QED
    BY <1>1, <1>2, <2>1, <2>2
<1>4. CASE d = c
  <2>1. CASE c2s' = c2s /\ WantsOutput(c)' = WantsOutput(c)
    BY <1>1, <1>2, <1>4, <2>1
  <2>2. CASE Sends(c)
    <3> PICK pkt \in Packet :
          /\ c2s' = Written(c, pkt)
          /\ IF pkt.type \in FlagType THEN WantsOutput(c)' = (pkt.type = "attach")
                                      ELSE WantsOutput(c)' = WantsOutput(c)
      BY <2>2 DEF Sends
    <3>1. c2s'[d] = Append(q, pkt)
      BY <1>4 DEF Written, WireTypeOK
    <3>2. Agrees(Append(q, pkt), a, v)
      <4> HIDE DEF q, a, w, v
      <4>1. IF pkt.type \in FlagType THEN v = (pkt.type = "attach") ELSE v = w
        BY <1>4 DEF v, w
      <4> QED
        BY <1>1, <1>2, <4>1, AgreesAppend
    <3> QED
      BY <1>1, <3>1, <3>2
  <2> QED
    BY <1>4, <2>1, <2>2 DEF ClientEffect
<1> QED
  BY <1>3, <1>4

\* So does a step of the master.
LEMMA ReplayMaster ==
  ASSUME WireTypeOK, WireTypeOK', TtyTypeOK, MasterTypeOK, FreshInv, AttachReplay, MasterEffect,
         UNCHANGED tpc
  PROVE  AttachReplay'
<1> SUFFICES ASSUME listening', NEW d \in Client, d \notin hup'
             PROVE  Agrees(c2s'[d], attached'[d], WantsOutput(d)')
  BY ReplayNext
<1> DEFINE q == c2s[d]
           a == attached[d]
           w == WantsOutput(d)
<1>1. /\ q \in Seq(Packet) /\ a \in BOOLEAN /\ w \in BOOLEAN /\ WantsOutput(d)' = w
  BY DEF WireTypeOK, MasterTypeOK, WantsOutput
<1>2. Agrees(q, a, w)
  BY ReplayAgrees DEF MasterEffect, Accepts, Frees, Receives, Ends
<1>3. CASE UNCHANGED <<listening, backlog, clients, attached, c2s>>
  BY <1>1, <1>2, <1>3
<1>4. CASE Accepts
  <2>1. attached'[d] = a
    <3>1. /\ backlog \in Seq(Client) /\ backlog # <<>>
          /\ attached' = [attached EXCEPT ![Head(backlog)] = FALSE]
      BY <1>4 DEF Accepts, WireTypeOK
    <3>2. Head(backlog) \in Elements(backlog)
      BY ONLY <3>1, TailFacts
    <3>3. ~attached[Head(backlog)]
      BY <3>2 DEF FreshInv
    <3> QED
      BY <3>1, <3>3 DEF MasterTypeOK
  <2> QED
    BY <1>1, <1>2, <1>4, <2>1 DEF Accepts
<1>5. ASSUME NEW p \in Client, Frees(p)
      PROVE  Agrees(c2s'[d], attached'[d], WantsOutput(d)')
  BY <1>1, <1>2, <1>5 DEF Frees
<1>6. ASSUME NEW p \in Client, Receives(p)
      PROVE  Agrees(c2s'[d], attached'[d], WantsOutput(d)')
  <2>1. CASE d # p
    <3>1. c2s'[d] = q /\ attached'[d] = a
      BY <1>6, <2>1 DEF Receives, WireTypeOK, MasterTypeOK
    <3> QED
      BY <1>1, <1>2, <3>1
  <2>2. CASE d = p
    <3> DEFINE b == attached'[d]
    <3>1. /\ q # <<>> /\ c2s'[d] = Tail(q)
          /\ b = IF Head(q).type \in FlagType THEN Head(q).type = "attach" ELSE a
      BY <1>6, <2>2 DEF Receives, WireTypeOK, MasterTypeOK
    <3>2. b \in BOOLEAN
      BY <1>1, <3>1
    <3>3. Agrees(Tail(q), b, w)
      <4> HIDE DEF q, a, w, b
      <4> QED
        BY <1>1, <1>2, <3>1, <3>2, AgreesTail
    <3> QED
      BY <1>1, <3>1, <3>3
  <2> QED
    BY <2>1, <2>2
<1>7. CASE Ends
  BY <1>7 DEF Ends
<1> QED
  BY <1>3, <1>4, <1>5, <1>6, <1>7 DEF MasterEffect

-----------------------------------------------------------------------------
(***************************************************************************)
(* The mode of the socket.                                                 *)
(***************************************************************************)

\* A step of a client leaves the mode of the path to the list.
LEMMA ModeClient ==
  ASSUME WireTypeOK, ModeInv, NEW c \in Client, ClientEffect(c), UNCHANGED masterVars
  PROVE  ModeInv'
  BY DEF ModeInv, ClientEffect, masterVars, loopVars, Attached

\* The master changes the mode with the list.
LEMMA ModeMaster ==
  ASSUME WireTypeOK, MasterTypeOK, ModeInv, MasterStep \/ Sigchld \/ MasterDie \/ ProgStep
  PROVE  ModeInv'
<1> USE DEF wireVars, loopVars, ModeInv
<1>1. CASE Top
  <2>1. /\ has_attached_client' = (Attached # {}) /\ Attached' = Attached
        /\ sockfile' = IF has_attached_client' # has_attached_client
                       THEN SocketMode(has_attached_client') ELSE sockfile
        /\ listening /\ has_attached_client' \in BOOLEAN
    BY <1>1 DEF Top, Attached
  <2>2. sockfile' # "absent" => (sockfile' = "exec") = has_attached_client'
    BY <2>1 DEF SocketMode, MasterTypeOK
  <2> QED
    BY <2>1, <2>2
<1>2. CASE UNCHANGED <<sockfile, has_attached_client>> /\ (listening' => listening)
           /\ pc' # "select"
  BY <1>2
<1>3. CASE UNCHANGED <<sockfile, listening, has_attached_client, pc, clients, attached>>
  BY <1>3 DEF Attached
<1>4. ASSUME Return PROVE ModeInv'
  BY <1>4, <1>2 DEF Return, Forget
<1>5. ASSUME Exit PROVE ModeInv'
  BY <1>5, <1>2 DEF Exit, MasterGone, Forget
<1>6. CASE ClientStep
  <2> SUFFICES ASSUME NEW p \in Client,
                      \/ ClientSkip(p) \/ ClientHangup(p)
                      \/ ClientPush(p) \/ ClientFlag(p) \/ ClientSize(p)
               PROVE  ModeInv'
    BY <1>6 DEF ClientStep
  <2>1. pc' = "client" /\ UNCHANGED <<sockfile, listening, has_attached_client>>
    BY DEF ClientSkip, ClientHangup, ClientPush, ClientFlag, ClientSize, Receive, Visit
  <2> QED
    BY <2>1, <1>2
<1>7. CASE WriteStep
  <2> SUFFICES ASSUME NEW p \in Client, Writing(p)
               PROVE  ModeInv'
    BY <1>7 DEF WriteStep, PtySkip, PtyWrite, PtyAgain, PtyError
  <2> QED
    BY <1>3 DEF Writing
<1>8. CASE Sigchld
  BY <1>8, <1>3, <1>4 DEF Sigchld
<1>9. CASE ProgStep
  BY <1>9, <1>3 DEF ProgStep, ProgStart, ProgOutput, ProgInput, ProgStop, ProgExit
<1> QED
  BY <1>1, <1>2, <1>4, <1>5, <1>6, <1>7, <1>8, <1>9
  DEF MasterStep, Select, Accept, ClientsDone, PtyRead, PtyEof, PtyNobody, PtySelect,
      PtyRetry, PtyDone, MasterDie

-----------------------------------------------------------------------------
(***************************************************************************)
(* The theorems.                                                           *)
(***************************************************************************)

\* In the beginning nobody is connected, and nothing has been read.
LEMMA InitIInv == Init => IInv
<1> SUFFICES ASSUME Init PROVE IInv
  OBVIOUS
<1> USE DEF Init, WireInit, TtyInit, MasterInit
<1>1. WireTypeOK
  BY EmptySeq DEF WireTypeOK
<1>2. TtyTypeOK
  BY DEF TtyTypeOK, TtyPc
<1>3. MasterTypeOK
  <2>1. /\ clients \in Seq(Client) /\ todo \in Seq(Client) /\ buf \in Seq(Nat)
        /\ ChunkInHand
    BY EmptySeq DEF ChunkInHand
  <2>2. /\ pc \in MasterPc /\ attached \in [Client -> BOOLEAN]
        /\ waitattach \in BOOLEAN /\ has_attached_client \in BOOLEAN
        /\ ws \in Size \cup {NoSize} /\ bychild \in BOOLEAN
    BY DEF MasterPc
  <2>3. readfds \in FdSet /\ writefds \subseteq Client
    BY DEF FdSet
  <2>4. prog \in BOOLEAN /\ starting \in BOOLEAN /\ chld \in BOOLEAN
    OBVIOUS
  <2>5. /\ written \in Nat /\ nclients \in Int /\ stops \in Nat
        /\ outn \in Nat /\ readn \in Nat /\ pin \in Nat
    <3>1. written = 0 /\ nclients = 0 /\ stops = 0 /\ outn = 0 /\ readn = 0 /\ pin = 0
      OBVIOUS
    <3> QED
      BY ONLY <3>1
  <2> QED
    BY ONLY <2>1, <2>2, <2>3, <2>4, <2>5, Zenon DEF MasterTypeOK
<1>4. seen \in [Client -> Nat]
  OBVIOUS
<1>5. Elements(<<>>) = {} /\ Distinct(<<>>)
  BY DEF Elements, Distinct
<1>6. ListInv
  BY <1>5 DEF ListInv, NoFreedClient
<1>7. FreshInv
  BY <1>5 DEF FreshInv
<1>8. AttachReplay
  <2> SUFFICES ASSUME NEW c \in Client
               PROVE  Flags(c) = {} /\ attached[c] = WantsOutput(c)
    BY DEF AttachReplay
  <2>1. Flags(c) = {}
    BY DEF Flags
  <2>2. attached[c] = FALSE /\ tpc[c] = "start"
    OBVIOUS
  <2>3. WantsOutput(c) = FALSE
    BY <2>2 DEF WantsOutput
  <2> QED
    BY <2>1, <2>2, <2>3
<1>9. ModeInv
  BY DEF ModeInv
<1> QED
  BY <1>1, <1>2, <1>3, <1>4, <1>6, <1>7, <1>8, <1>9 DEF IInv, TypeOK

\* No step of any process breaks the invariant.
LEMMA StepIInv == IInv /\ [Next]_vars => IInv'
<1> SUFFICES ASSUME IInv, [Next]_vars PROVE IInv'
  OBVIOUS
<1> USE DEF IInv, TypeOK
<1>1. CASE MasterProcess
  <2>1. WireTypeOK' /\ MasterTypeOK'
    BY <1>1, MasterType DEF MasterProcess
  <2>2. TtyTypeOK' /\ tpc' = tpc
    BY <1>1 DEF MasterProcess, ttyVars, TtyTypeOK
  <2>3. seen' \in [Client -> Nat]
    <3>1. \A c \in Client : Grew(c) => s2c'[c][Len(s2c'[c])] \in Nat
      <4> SUFFICES ASSUME NEW c \in Client, Grew(c)
                   PROVE  s2c'[c][Len(s2c'[c])] \in Nat
        OBVIOUS
      <4>1. s2c[c] \in Seq(Nat) /\ s2c'[c] \in Seq(Nat)
        BY <2>1 DEF WireTypeOK
      <4> QED
        BY <4>1 DEF Grew
    <3> QED
      BY <1>1, <3>1 DEF MasterProcess, Remember
  <2>4. MasterEffect
    BY <1>1, MasterStepEffect DEF MasterProcess
  <2>5. ListInv'
    BY <1>1, ListMaster DEF MasterProcess
  <2>6. FreshInv'
    BY <2>2, <2>4, FreshMaster
  <2>7. AttachReplay'
    BY <2>1, <2>2, <2>4, ReplayMaster
  <2>8. ModeInv'
    BY <1>1, ModeMaster DEF MasterProcess
  <2> QED
    BY <2>1, <2>2, <2>3, <2>5, <2>6, <2>7, <2>8
<1>2. ASSUME NEW c \in Client, ClientProcess(c) PROVE IInv'
  <2>1. WireTypeOK' /\ TtyTypeOK'
    BY <1>2, ClientType DEF ClientProcess
  <2>2. ClientEffect(c) /\ UNCHANGED masterVars /\ UNCHANGED seen
    BY <1>2, ClientStepEffect DEF ClientProcess
  <2>3. MasterTypeOK'
    BY <2>2 DEF masterVars, loopVars, ioVars, progVars, MasterTypeOK, ChunkInHand
  <2>4. ListInv'
    BY <2>2, ListClient
  <2>5. FreshInv'
    BY <2>2, FreshClient
  <2>6. AttachReplay'
    BY <2>1, <2>2, ReplayClient
  <2>7. ModeInv'
    BY <2>2, ModeClient
  <2> QED
    BY <2>1, <2>2, <2>3, <2>4, <2>5, <2>6, <2>7
<1>3. CASE UNCHANGED vars
  <2> USE <1>3 DEF vars, wireVars, ttyVars, masterVars, loopVars, ioVars, progVars
  <2>1. WireTypeOK' /\ TtyTypeOK' /\ seen' \in [Client -> Nat]
    BY DEF WireTypeOK, TtyTypeOK
  <2>2. MasterTypeOK'
    BY DEF MasterTypeOK, ChunkInHand
  <2>3. ListInv' /\ FreshInv'
    BY DEF ListInv, NoFreedClient, FreshInv
  <2>4. AttachReplay' /\ ModeInv'
    BY DEF AttachReplay, Flags, WantsOutput, ModeInv, Attached
  <2> QED
    BY <2>1, <2>2, <2>3, <2>4
<1> QED
  BY <1>1, <1>2, <1>3 DEF Next

\* IInv is an invariant for every set of clients, every capacity of the
\* sockets and the pty, and however often users act.
THEOREM InductiveInvariant == Spec => []IInv
  BY InitIInv, StepIInv, PTL DEF Spec

\* Type correctness: the chunk, the descriptor sets and the queues stay what
\* pty_process and pty_activity declare them to be.
THEOREM TypeCorrect == Spec => []TypeOK
<1>1. IInv => TypeOK
  BY DEF IInv
<1> QED
  BY <1>1, InductiveInvariant, PTL

\* No loop of the master over its clients touches one that has been freed.
THEOREM ListSafe == Spec => []NoFreedClient
<1>1. IInv => NoFreedClient
  BY DEF IInv, ListInv
<1> QED
  BY <1>1, InductiveInvariant, PTL

\* The attached flag the master holds of a client, together with the packets
\* on their way to it, always says what the client counts on.
THEOREM AttachedUpToDate == Spec => []AttachReplay
<1>1. IInv => AttachReplay
  BY DEF IInv
<1> QED
  BY <1>1, InductiveInvariant, PTL

\* The S_IXUSR bit that other invocations read from the path is right
\* whenever the master sleeps in its select.
THEOREM ModeShown == Spec => []SocketModeAgrees
<1>1. IInv => SocketModeAgrees
  BY DEF IInv, ModeInv, SocketModeAgrees
<1> QED
  BY <1>1, InductiveInvariant, PTL

-----------------------------------------------------------------------------
(***************************************************************************)
(* The output.                                                             *)
(***************************************************************************)

\* The chunk in hand is the last that was read.
Chunked ==
  pc \in {"ptop", "pwrite"} =>
    Len(buf) <= readn /\ \A i \in 1..Len(buf) : buf[i] = readn - Len(buf) + i

\* What the write loop has done so far: the client it is at has been sent the
\* first units of the chunk, and nclients counts clients that have it all.
HandedOut ==
  pc = "pwrite" =>
    /\ writefds \subseteq Attached
    /\ written > 0 => todo # <<>> /\ seen[Head(todo)] = buf[written]
    /\ nclients >= -1
    /\ nclients > 0 => \E c \in Attached \ Elements(todo) : seen[c] = readn

OutInv == Chunked /\ HandedOut

\* A client that is sent nothing remembers what it was sent last.
LEMMA SeenKept ==
  ASSUME WireTypeOK, seen \in [Client -> Nat], Remember, NEW c \in Client, s2c'[c] = s2c[c]
  PROVE  seen'[c] = seen[c]
<1>1. Len(s2c[c]) \in Nat
  BY DEF WireTypeOK
<1>2. ~ Grew(c)
  BY <1>1 DEF Grew
<1> QED
  BY <1>2 DEF Remember

\* When nothing is sent at all, nobody's memory changes.
LEMMA AllSeenKept ==
  ASSUME WireTypeOK, seen \in [Client -> Nat], Remember, s2c' = s2c
  PROVE  seen' = seen
<1>1. \A c \in Client : seen'[c] = seen[c]
  BY SeenKept
<1>2. seen' = [c \in Client |-> seen'[c]]
  BY DEF Remember
<1> QED
  BY <1>1, <1>2

\* A write to p: the units of the chunk from the first unwritten one on, of which
\* the last one is the last that p was sent.
Writes(p, n) ==
  /\ n \in 1..(Len(buf) - written)
  /\ s2c'[p] = s2c[p] \o SubSeq(buf, written + 1, written + n)
  /\ Len(s2c'[p]) = Len(s2c[p]) + n
  /\ s2c'[p][Len(s2c[p]) + 1] = buf[written + 1]
  /\ seen'[p] = buf[written + n]
  /\ \A d \in Client \ {p} : s2c'[d] = s2c[d] /\ seen'[d] = seen[d]
  /\ \/ /\ written + n # Len(buf)
        /\ todo' = todo /\ written' = written + n /\ nclients' = nclients
     \/ /\ written + n = Len(buf)
        /\ todo' = Tail(todo) /\ written' = 0
        /\ nclients' = (IF nclients # -1 THEN nclients + 1 ELSE nclients)

\* A part of a sequence at the end of another one.
LEMMA PartAppended ==
  ASSUME NEW S, NEW q \in Seq(S), NEW b \in Seq(S), NEW w \in Nat, NEW n \in 1..(Len(b) - w)
  PROVE  /\ Len(q \o SubSeq(b, w + 1, w + n)) = Len(q) + n
         /\ (q \o SubSeq(b, w + 1, w + n))[Len(q) + 1] = b[w + 1]
         /\ (q \o SubSeq(b, w + 1, w + n))[Len(q) + n] = b[w + n]
<1> DEFINE r == SubSeq(b, w + 1, w + n)
<1>1. n \in Nat /\ n > 0 /\ w + n <= Len(b) /\ Len(b) \in Nat /\ Len(q) \in Nat
  OBVIOUS
<1>2. r \in Seq(S) /\ Len(r) = n /\ r[1] = b[w + 1] /\ r[n] = b[w + n]
  <2>1. /\ \A i \in (w + 1)..(w + n) : b[i] \in S
        /\ (w + n) - (w + 1) + 1 = n /\ w + 1 <= (w + n) + 1
    BY <1>1
  <2>2. r = [i \in 1..n |-> b[w + i]]
    BY <1>1
  <2>3. \A i \in 1..n : b[w + i] \in S
    BY <1>1
  <2> HIDE DEF r
  <2> QED
    BY ONLY <1>1, <2>2, <2>3
<1> HIDE DEF r
<1>3. /\ Len(q \o r) = Len(q) + Len(r)
      /\ \A i \in 1..(Len(q) + Len(r)) :
           (q \o r)[i] = IF i <= Len(q) THEN q[i] ELSE r[i - Len(q)]
  BY <1>2, ConcatProperties
<1>4. /\ Len(q) + 1 \in 1..(Len(q) + Len(r)) /\ ~ (Len(q) + 1 <= Len(q))
      /\ Len(q) + n \in 1..(Len(q) + Len(r)) /\ ~ (Len(q) + n <= Len(q))
      /\ (Len(q) + 1) - Len(q) = 1 /\ (Len(q) + n) - Len(q) = n
  BY <1>1, <1>2
<1> QED
  BY <1>2, <1>3, <1>4 DEF r

\* What PtyWrite does, in the terms of the account.
LEMMA WriteIs ==
  ASSUME WireTypeOK, MasterTypeOK, seen \in [Client -> Nat], Remember,
         NEW p \in Client, PtyWrite(p)
  PROVE  \E n \in Nat : Writes(p, n)
<1> DEFINE room == SMax - Len(s2c[p])
           rest == Len(buf) - written
           n == IF room < rest THEN room ELSE rest
<1>1. /\ Len(s2c[p]) \in Nat /\ Len(buf) \in Nat /\ written \in Nat /\ SMax \in Nat
      /\ written <= Len(buf) /\ nclients \in Int /\ s2c[p] \in Seq(Nat) /\ buf \in Seq(Nat)
      /\ todo \in Seq(Client) /\ todo # <<>>
  BY WireAssumption DEF WireTypeOK, MasterTypeOK, ChunkInHand, PtyWrite, Writing
<1>2. /\ n > 0 /\ s2c' = [s2c EXCEPT ![p] = @ \o SubSeq(buf, written + 1, written + n)]
      /\ IF n < rest THEN written' = written + n /\ todo' = todo
                     ELSE todo' = Tail(todo) /\ written' = 0
      /\ nclients' = Count(written + n)
  BY DEF PtyWrite, NextClient
<1>3. room \in Int /\ rest \in Int /\ n \in 1..rest /\ n \in Nat
  <2>1. room \in Int /\ rest \in Int
    BY <1>1
  <2> QED
    BY <1>2, <2>1
<1>4. /\ s2c'[p] = s2c[p] \o SubSeq(buf, written + 1, written + n)
      /\ \A d \in Client \ {p} : s2c'[d] = s2c[d]
  BY <1>2 DEF WireTypeOK
<1> HIDE DEF n, room
<1>5. n < rest <=> written + n # Len(buf)
  <2>1. \A l, w, k \in Nat : k \in 1..(l - w) => (k < l - w <=> w + k # l)
    OBVIOUS
  <2> QED
    BY ONLY <1>1, <1>3, <2>1
<1>a. Len(s2c[p]) + n > Len(s2c[p]) /\ n \in 1..(Len(buf) - written)
  BY ONLY <1>1, <1>3
<1>6. /\ Len(s2c'[p]) = Len(s2c[p]) + n
      /\ s2c'[p][Len(s2c[p]) + 1] = buf[written + 1]
      /\ s2c'[p][Len(s2c[p]) + n] = buf[written + n]
  BY ONLY <1>1, <1>4, <1>a, PartAppended
<1>7. Grew(p)
  BY ONLY <1>6, <1>a DEF Grew
<1>8. seen'[p] = buf[written + n]
  BY <1>6, <1>7 DEF Remember
<1>9. \A d \in Client \ {p} : seen'[d] = seen[d]
  BY <1>4, SeenKept
<1>10. \/ /\ written + n # Len(buf) /\ todo' = todo /\ written' = written + n
          /\ nclients' = nclients
       \/ /\ written + n = Len(buf) /\ todo' = Tail(todo) /\ written' = 0
          /\ nclients' = (IF nclients # -1 THEN nclients + 1 ELSE nclients)
  BY <1>2, <1>5 DEF Count
<1>11. Writes(p, n)
  BY <1>3, <1>4, <1>6, <1>8, <1>9, <1>10 DEF Writes
<1> QED
  BY <1>3, <1>11

\* At first there is no chunk in hand.
LEMMA OutInit == Init => OutInv
  BY DEF Init, MasterInit, OutInv, Chunked, HandedOut

\* A client's step leaves the master with what it has.
LEMMA OutClient ==
  ASSUME OutInv, UNCHANGED <<masterVars, seen>>
  PROVE  OutInv'
  BY DEF OutInv, Chunked, HandedOut, masterVars, ioVars, progVars, Attached

\* What a client at the head of todo leaves behind when the loop goes on.
LEMMA NextIs ==
  ASSUME MasterTypeOK, ListInv, todo # <<>>
  PROVE  /\ Head(todo) \in Client /\ Head(todo) \in Elements(todo)
         /\ Elements(Tail(todo)) \subseteq Elements(todo) \ {Head(todo)}
  BY TailFacts DEF MasterTypeOK, ListInv

\* A write keeps the account of what was handed out.
LEMMA HandedOutWrite ==
  ASSUME TypeOK, ListInv, OutInv, Remember, NEW p \in Client, PtyWrite(p)
  PROVE  OutInv'
<1>1. /\ pc = "pwrite" /\ pc' = "pwrite" /\ todo # <<>> /\ p = Head(todo)
      /\ p \in writefds
      /\ UNCHANGED <<clients, attached, readn, buf, writefds>>
  BY DEF PtyWrite, Writing, progVars
<1> PICK n \in Nat : Writes(p, n)
  BY WriteIs DEF TypeOK
<1>2. Chunked'
  BY <1>1 DEF OutInv, Chunked
<1>3. Attached' = Attached /\ writefds' \subseteq Attached' /\ p \in Attached
  BY <1>1 DEF OutInv, HandedOut, Attached
<1>4. /\ p \in Elements(todo) /\ Elements(Tail(todo)) \subseteq Elements(todo) \ {p}
  BY <1>1, NextIs DEF TypeOK
<1>5. nclients >= -1 /\ nclients \in Int
  BY <1>1 DEF OutInv, HandedOut, TypeOK, MasterTypeOK
<1>6. \A c \in Attached \ Elements(todo) : seen'[c] = seen[c] /\ c # p
  <2>1. Attached \subseteq Client
    BY DEF Attached, Elements, TypeOK, MasterTypeOK
  <2> QED
    BY <2>1, <1>4 DEF Writes
<1>7. CASE todo' = todo /\ written' = written + n /\ nclients' = nclients
  <2>1. seen'[Head(todo')] = buf'[written']
    BY <1>1, <1>7 DEF Writes
  <2>2. nclients' > 0 => \E c \in Attached' \ Elements(todo') : seen'[c] = readn'
    BY <1>1, <1>3, <1>6, <1>7 DEF OutInv, HandedOut
  <2> QED
    BY <1>1, <1>2, <1>3, <1>5, <1>7, <2>1, <2>2 DEF OutInv, HandedOut
<1>8. CASE /\ written + n = Len(buf) /\ todo' = Tail(todo) /\ written' = 0
           /\ nclients' = (IF nclients # -1 THEN nclients + 1 ELSE nclients)
  <2>2. seen'[p] = readn
    <3>1. Len(buf) \in 1..Len(buf) /\ Len(buf) \in Nat /\ readn \in Nat /\ Len(buf) <= readn
      BY <1>1 DEF TypeOK, MasterTypeOK, ChunkInHand, OutInv, Chunked
    <3>2. buf[Len(buf)] = readn - Len(buf) + Len(buf)
      BY <1>1, <3>1 DEF OutInv, Chunked
    <3> QED
      BY <1>8, <3>1, <3>2 DEF Writes
  <2>3. p \in Attached' \ Elements(todo')
    BY <1>3, <1>4, <1>8
  <2>4. nclients' >= -1
    BY ONLY <1>5, <1>8
  <2> QED
    BY <1>1, <1>2, <1>3, <1>8, <2>2, <2>3, <2>4 DEF OutInv, HandedOut
<1> QED
  BY <1>7, <1>8 DEF Writes

\* So do the other steps of the master.
LEMMA OutMaster ==
  ASSUME TypeOK, ListInv, OutInv, Remember,
         MasterStep \/ Sigchld \/ MasterDie \/ ProgStep
  PROVE  OutInv'
<1> USE DEF OutInv, TypeOK
<1>1. CASE pc' \notin {"ptop", "pwrite"}
  BY <1>1 DEF Chunked, HandedOut
<1>s. s2c' = s2c => seen' = seen
  BY AllSeenKept
<1>2. CASE UNCHANGED <<wireVars, pc, clients, attached, ioVars, readn>>
  BY <1>2, <1>s DEF Chunked, HandedOut, wireVars, ioVars, Attached
<1>3. CASE PtyRead
  <2> DEFINE n == IF outn - readn < Chunk THEN outn - readn ELSE Chunk
  <2>1. /\ pc' = "ptop" /\ buf' = [i \in 1..n |-> readn + i] /\ readn' = readn + n
        /\ outn > readn
    BY <1>3 DEF PtyRead
  <2>2. n \in Nat /\ readn \in Nat
    BY <2>1, MasterAssumption DEF MasterTypeOK
  <2> HIDE DEF n
  <2>3. Len(buf') = n /\ DOMAIN buf' = 1..n
    BY <2>1, <2>2
  <2>4. \A i \in 1..n : buf'[i] = readn' - n + i
    BY <2>1, <2>2
  <2> QED
    BY <2>1, <2>2, <2>3, <2>4 DEF Chunked, HandedOut
<1>4. CASE PtySelect
  BY <1>4 DEF PtySelect, Chunked, HandedOut, progVars, Attached
<1>5. CASE PtyRetry
  BY <1>5 DEF PtyRetry, Chunked, HandedOut, ioVars, progVars
<1>6. CASE WriteStep
  <2> SUFFICES ASSUME NEW p \in Client,
                      PtySkip(p) \/ PtyWrite(p) \/ PtyAgain(p) \/ PtyError(p)
               PROVE  OutInv'
    BY <1>6 DEF WriteStep
  <2>1. CASE PtyWrite(p)
    BY <2>1, HandedOutWrite
  <2>2. CASE PtySkip(p) \/ PtyAgain(p) \/ PtyError(p)
    <3>1. /\ pc = "pwrite" /\ pc' = "pwrite" /\ todo # <<>>
          /\ UNCHANGED <<clients, attached, readn, buf, writefds, s2c>>
          /\ todo' = Tail(todo) /\ written' = 0
          /\ nclients' = nclients \/ nclients' = -1
      BY <2>2 DEF PtySkip, PtyAgain, PtyError, Writing, NextClient, progVars
    <3>2. Elements(todo') \subseteq Elements(todo)
      BY <3>1, NextIs
    <3> QED
      BY <3>1, <3>2, <1>s DEF Chunked, HandedOut, Attached
  <2> QED
    BY <2>1, <2>2
<1>7. CASE Sigchld
  <2>1. CASE UNCHANGED <<wireVars, pc, clients, attached, loopVars, ioVars>>
    BY <2>1, <1>2, <1>7 DEF Sigchld
  <2>2. CASE Return
    BY <2>2, <1>1 DEF Return, Forget
  <2> QED
    BY <1>7, <2>1, <2>2 DEF Sigchld
<1>8. CASE ProgStep
  <2>1. UNCHANGED <<wireVars, pc, clients, attached, ioVars, readn>>
    BY <1>8 DEF ProgStep, ProgStart, ProgOutput, ProgInput, ProgStop, ProgExit
  <2> QED
    BY <1>2, <2>1
<1>9. CASE ClientStep
  <2>1. pc' = "client"
    BY <1>9 DEF ClientStep, ClientSkip, ClientHangup, ClientPush, ClientFlag,
                ClientSize, Receive, Visit
  <2> QED
    BY <1>1, <2>1
<1>10. CASE Top \/ Select \/ Accept \/ ClientsDone
  BY <1>1, <1>10 DEF Top, Select, Accept, ClientsDone
<1>11. CASE PtyEof \/ PtyNobody \/ PtyDone \/ MasterDie
  BY <1>1, <1>11 DEF PtyEof, PtyNobody, PtyDone, MasterDie, Return, Exit, Forget
<1> QED
  BY <1>3, <1>4, <1>5, <1>6, <1>7, <1>8, <1>9, <1>10, <1>11 DEF MasterStep

\* A client takes from its own stream and puts nothing into any.
LEMMA ClientReads ==
  ASSUME WireTypeOK, NEW c \in Client, TtyStep(c) \/ UserStep(c), NEW d \in Client
  PROVE  ~ Grew(d)
<1>1. s2c[c] \in Seq(Nat) /\ Len(s2c[d]) \in Nat
  BY DEF WireTypeOK
<1>2. CASE s2c' = s2c
  BY <1>1, <1>2 DEF Grew
<1>3. CASE s2c' = [s2c EXCEPT ![c] = <<>>]
  BY <1>1, <1>3 DEF Grew, WireTypeOK
<1>4. CASE TtyRead(c)
  <2> PICK n \in 1..Len(s2c[c]) :
        s2c' = [s2c EXCEPT ![c] = SubSeq(@, n + 1, Len(@))]
    BY <1>4 DEF TtyRead
  <2>1. CASE d # c
    BY <1>1, <2>1 DEF Grew, WireTypeOK
  <2>2. CASE d = c
    <3>1. s2c'[c] = SubSeq(s2c[c], n + 1, Len(s2c[c]))
      BY DEF WireTypeOK
    <3>2. Len(s2c'[c]) <= Len(s2c[c])
      BY <1>1, <3>1
    <3> QED
      BY <1>1, <2>2, <3>2 DEF Grew
  <2> QED
    BY <2>1, <2>2
<1> USE <1>2, <1>3, <1>4 DEF wireVars
<1>5. \A u \in BOOLEAN : Leave(c, u) => ~ Grew(d)
  BY DEF Leave, Hangup
<1>6. \A pkt, l : Send(c, pkt, l) => s2c' = s2c
  BY DEF Send
<1>7. \A l : Types(c, l) => s2c' = s2c
  BY DEF Types
<1>8. CASE TtyStep(c)
  BY <1>5, <1>6, <1>8 DEF TtyStep, Connect, TtyAttach, TtyIoctl, TtyRedraw, SendSize,
     TtyEof, TtyPush, TtyStop, TtyCheck, TtyWinch
<1>9. CASE UserStep(c)
  BY <1>5, <1>6, <1>7, <1>9 DEF UserStep, TtyKey, TtyFormFeed, TtyModeKey, TtyDetach,
     TtyPrefixed, TtySuspend, TtyContinue, TtyStdinEof, Die, Resize, SenderPush, SenderClose
<1> QED
  BY <1>8, <1>9

\* The master puts something into a stream only by a write.
LEMMA MasterWrites ==
  ASSUME MasterStep \/ Sigchld \/ MasterDie \/ ProgStep
  PROVE  s2c' = s2c \/ \E p \in Client : PtyWrite(p)
<1> USE DEF wireVars
<1>1. CASE WriteStep
  BY <1>1 DEF WriteStep, PtySkip, PtyAgain, PtyError
<1>2. CASE ClientStep
  BY <1>2 DEF ClientStep, ClientSkip, ClientHangup, ClientPush, ClientFlag, ClientSize,
     Receive
<1>3. CASE Sigchld \/ MasterDie \/ ProgStep
  BY <1>3 DEF Sigchld, MasterDie, Exit, Return, ProgStep, ProgStart, ProgOutput, ProgInput, ProgStop, ProgExit
<1> QED
  BY <1>1, <1>2, <1>3 DEF MasterStep, Top, Select, Accept, ClientsDone, PtyRead, PtyEof,
     PtyNobody, PtySelect, PtyRetry, PtyDone, Return, Exit

\* The first unit of a write follows what its client was sent last, or begins
\* the chunk.
LEMMA OrderStep ==
  ASSUME IInv, OutInv, [Next]_vars, NEW c \in Client, Grew(c)
  PROVE  s2c'[c][Len(s2c[c]) + 1] \in {seen[c] + 1, Head(buf)}
<1>t. Len(s2c[c]) \in Nat
  BY DEF IInv, TypeOK, WireTypeOK
<1>1. s2c' # s2c
  BY <1>t DEF Grew
<1>2. \A d \in Client : ~ ClientProcess(d)
  BY ClientReads DEF ClientProcess, IInv, TypeOK
<1>3. MasterProcess
  BY <1>1, <1>2 DEF Next, vars, wireVars
<1> PICK p \in Client : PtyWrite(p)
  BY <1>1, <1>3, MasterWrites DEF MasterProcess
<1> PICK n \in Nat : Writes(p, n)
  BY <1>3, WriteIs DEF MasterProcess, IInv, TypeOK
<1>4. c = p
  BY <1>t DEF Writes, Grew
<1>5. s2c'[c][Len(s2c[c]) + 1] = buf[written + 1]
  BY <1>4 DEF Writes
<1>6. pc = "pwrite" /\ p = Head(todo) /\ n \in 1..(Len(buf) - written)
  BY DEF PtyWrite, Writing, Writes
<1>7. /\ buf \in Seq(Nat) /\ written \in Nat /\ readn \in Nat /\ Len(buf) \in Nat
      /\ n \in Nat
  BY DEF IInv, TypeOK, MasterTypeOK
<1>8. CASE written = 0
  BY <1>5, <1>6, <1>7, <1>8
<1>9. CASE written > 0
  <2>1. seen[c] = buf[written]
    BY <1>4, <1>6, <1>9 DEF OutInv, HandedOut
  <2>2. written \in 1..Len(buf) /\ written + 1 \in 1..Len(buf)
    BY ONLY <1>6, <1>7, <1>9
  <2>3. /\ buf[written] = readn - Len(buf) + written
        /\ buf[written + 1] = readn - Len(buf) + (written + 1)
    BY <1>6, <2>2 DEF OutInv, Chunked
  <2>4. buf[written + 1] = buf[written] + 1
    BY ONLY <1>7, <2>3
  <2> QED
    BY <1>5, <2>1, <2>4
<1> QED
  BY <1>7, <1>8, <1>9

\* When the write loop ends without the error that hides the count, a client
\* has been sent the chunk.
LEMMA ReachStep ==
  ASSUME IInv, OutInv, [Next]_vars,
         listening', pc = "pwrite", pc' = "top", ~readfds.listen, nclients # -1
  PROVE  \E c \in Attached : seen[c] = buf[Len(buf)]
<1>1. PtyDone
  <2>1. ~ UNCHANGED masterVars
    BY DEF masterVars
  <2>2. MasterProcess
    BY <2>1 DEF Next, ClientProcess, vars
  <2>3. ~ ClientStep /\ ~ WriteStep
    BY DEF ClientStep, ClientSkip, ClientHangup, ClientPush, ClientFlag, ClientSize,
       Receive, Visit, WriteStep, PtySkip, PtyWrite, PtyAgain, PtyError, Writing
  <2>4. ~ Sigchld /\ ~ MasterDie /\ ~ ProgStep
    BY DEF Sigchld, MasterDie, Exit, MasterGone, ProgStep, ProgStart, ProgOutput, ProgInput, ProgStop, ProgExit
  <2> QED
    BY <2>2, <2>3, <2>4 DEF MasterProcess, MasterStep, Top, Select, Accept, ClientsDone,
       PtyRead, PtyEof, PtyNobody, PtySelect, PtyRetry
<1>2. nclients # 0 /\ nclients \in Int /\ nclients >= -1
  BY <1>1 DEF PtyDone, IInv, TypeOK, MasterTypeOK, OutInv, HandedOut
<1>3. nclients > 0
  BY ONLY <1>2, nclients # -1
<1> PICK c \in Attached : seen[c] = readn
  BY <1>3 DEF OutInv, HandedOut
<1>4. /\ buf # <<>> /\ buf \in Seq(Nat) /\ readn \in Nat
  BY DEF IInv, TypeOK, MasterTypeOK, ChunkInHand
<1>5. Len(buf) \in 1..Len(buf)
  BY ONLY <1>4
<1>6. buf[Len(buf)] = readn - Len(buf) + Len(buf)
  BY <1>5 DEF OutInv, Chunked
<1>7. buf[Len(buf)] = readn
  BY ONLY <1>4, <1>5, <1>6
<1> QED
  BY <1>7

\* The account of the output is kept by every step.
LEMMA StepOutInv == IInv /\ OutInv /\ [Next]_vars => OutInv'
<1> SUFFICES ASSUME IInv, OutInv, [Next]_vars PROVE OutInv'
  OBVIOUS
<1>1. CASE MasterProcess
  BY <1>1, OutMaster DEF MasterProcess, IInv
<1>2. ASSUME NEW c \in Client, ClientProcess(c) PROVE OutInv'
  BY <1>2, OutClient DEF ClientProcess
<1>3. CASE UNCHANGED vars
  BY <1>3, OutClient DEF vars
<1> QED
  BY <1>1, <1>2, <1>3 DEF Next

\* The chunk, what each client has of it and the count agree in every state.
THEOREM OutputAccount == Spec => []OutInv
  BY OutInit, StepOutInv, InductiveInvariant, PTL DEF Spec

\* What a client is sent continues what it was sent, or starts with the
\* beginning of a chunk: the loop over written loses and repeats nothing.
THEOREM InOrder == Spec => OutputInOrder
<1>1. IInv /\ OutInv /\ [Next]_vars =>
        [\A c \in Client : Grew(c) =>
           LET u == s2c'[c][Len(s2c[c]) + 1] IN u \in {seen[c] + 1, Head(buf)}]_vars
  BY OrderStep
<1> QED
  BY <1>1, InductiveInvariant, OutputAccount, PTL DEF Spec, OutputInOrder

\* pty_activity does not give a chunk up before somebody has all of it, unless
\* a connection waits or a write has failed.
THEOREM ReachesSomebody == Spec => ChunkReachesSomebody
<1>1. IInv /\ OutInv /\ [Next]_vars =>
        [listening' /\ pc = "pwrite" /\ pc' = "top" /\ ~readfds.listen /\ nclients # -1 =>
           \E c \in Attached : seen[c] = buf[Len(buf)]]_vars
  BY ReachStep
<1> QED
  BY <1>1, InductiveInvariant, OutputAccount, PTL DEF Spec, ChunkReachesSomebody

-----------------------------------------------------------------------------
(***************************************************************************)
(* One user alone.                                                         *)
(***************************************************************************)

\* Nobody else has started.
NoOther(c) == \A d \in Client \ {c} : tpc[d] = "start"

\* The session is c's, and its user has not acted.
Alone(c) == listening /\ prog /\ stops = 0 /\ input[c] = 0 /\ NoOther(c)

\* Such a client does nothing but attach and read, once it has begun.
Quiet(c) ==
  /\ sockfile # "absent" /\ c \notin hup
  /\ tpc[c] \in {"start", "attach", "redraw", "loop", "check"} /\ ~win_changed[c]
  /\ \A pkt \in Elements(c2s[c]) : pkt.type # "detach"

\* The master reads no output before c is attached, and hands all it reads to c.
Served(c) ==
  /\ ~chld
  /\ waitattach \/ (attached[c] /\ c \in Elements(clients))
  /\ pc \in {"read", "ptop", "pwrite"} \/ (pc # "top" /\ readfds.pty) => ~waitattach
  /\ pc = "pwrite" => ~readfds.listen /\ nclients # -1
  /\ pc \notin {"ptop", "pwrite"} => seen[c] = readn

LoneInv == \A c \in Tty : Alone(c) => Quiet(c) /\ Served(c)

\* With nobody else there is nobody else in the queue or in the list.
LEMMA OnlyOne ==
  ASSUME IInv, NEW c \in Client, NoOther(c)
  PROVE  /\ Elements(clients) \subseteq {c} /\ Elements(backlog) \subseteq {c}
         /\ c \in Elements(clients) => backlog = <<>>
<1>1. Elements(clients) \subseteq Client /\ Elements(backlog) \subseteq Client
  BY DEF IInv, TypeOK, WireTypeOK, MasterTypeOK, Elements
<1>2. Elements(clients) \subseteq {c} /\ Elements(backlog) \subseteq {c}
  BY <1>1 DEF IInv, FreshInv, NoOther
<1>3. backlog # <<>> => Head(backlog) \in Elements(backlog)
  BY TailFacts DEF IInv, TypeOK, WireTypeOK
<1>4. Elements(backlog) \cap Elements(clients) = {}
  BY DEF IInv, ListInv, NoFreedClient
<1> QED
  BY <1>2, <1>3, <1>4

\* What a process keeps in its own memory no other process changes.
LEMMA OwnState ==
  ASSUME TtyTypeOK, NEW d \in Client, TtyStep(d) \/ UserStep(d), NEW c \in Client \ {d}
  PROVE  /\ size'[c] = size[c] /\ win_changed'[c] = win_changed[c]
         /\ pkt_ws'[c] = pkt_ws[c] /\ input'[c] = input[c]
<1> USE DEF TtyTypeOK
<1>1. Acts(d) => input'[c] = input[c]
  BY DEF Acts
<1>2. StdinReady(d) => input'[c] = input[c]
  BY <1>1 DEF StdinReady
<1>3. \A u \in BOOLEAN : Leave(d, u) => UNCHANGED <<size, win_changed, pkt_ws>>
  BY DEF Leave
<1>4. \A type, l : SendSize(d, type, l) => UNCHANGED <<size, input>> /\ pkt_ws'[c] = pkt_ws[c]
  BY DEF SendSize
<1>5. \A l : Types(d, l) => UNCHANGED <<size, pkt_ws>> /\ input'[c] = input[c]
  BY <1>2 DEF Types
<1>6. CASE TtyStep(d)
  BY <1>1, <1>3, <1>4, <1>6 DEF TtyStep, Connect, TtyAttach, TtyIoctl, TtyRedraw,
     TtyRead, TtyEof, TtyPush, TtyStop, TtyCheck, TtyWinch
<1>7. CASE UserStep(d)
  BY <1>1, <1>2, <1>3, <1>5, <1>7 DEF UserStep, TtyKey, TtyFormFeed, TtyModeKey,
     TtyDetach, TtyPrefixed, TtySuspend, TtyContinue, TtyStdinEof, Die, Resize,
     SenderPush, SenderClose
<1> QED
  BY <1>6, <1>7

\* A step of one that has not started and still has not: c notices nothing.
LEMMA OtherClient ==
  ASSUME IInv, NEW d \in Client, ClientProcess(d), NEW c \in Client \ {d}, NoOther(c)'
  PROVE  /\ UNCHANGED wireVars /\ NoOther(c) /\ tpc'[c] = tpc[c]
         /\ size'[c] = size[c] /\ win_changed'[c] = win_changed[c]
         /\ pkt_ws'[c] = pkt_ws[c] /\ input'[c] = input[c]
<1>1. ClientEffect(d)
  BY ClientStepEffect DEF ClientProcess, IInv, TypeOK
<1>2. tpc'[d] = "start"
  BY DEF NoOther
<1>3. UNCHANGED wireVars /\ NoOther(c) /\ tpc'[c] = tpc[c]
  BY <1>1, <1>2 DEF ClientEffect, NoOther
<1>4. /\ size'[c] = size[c] /\ win_changed'[c] = win_changed[c]
      /\ pkt_ws'[c] = pkt_ws[c] /\ input'[c] = input[c]
  BY OwnState DEF ClientProcess, IInv, TypeOK
<1> QED
  BY <1>3, <1>4

\* A client whose user does not act stays quiet.
LEMMA QuietClient ==
  ASSUME WireTypeOK, TtyTypeOK, NEW c \in Tty, listening, Quiet(c),
         input[c] = 0, input'[c] = 0, TtyStep(c) \/ UserStep(c)
  PROVE  Quiet(c)'
<1>c. c \in Client /\ c2s[c] \in Seq(Packet) /\ tpc \in [Client -> TtyPc]
  BY DEF Client, WireTypeOK, TtyTypeOK
<1>a. ~ Acts(c)
  BY <1>c DEF Acts, TtyTypeOK
<1>g. \A l : Goto(c, l) => tpc'[c] = l
  BY <1>c DEF Goto
<1>p. \A pkt \in Packet : Elements(Append(c2s[c], pkt)) = Elements(c2s[c]) \cup {pkt}
  BY <1>c, AppendFacts
<1>s. \A pkt \in Packet : \A l :
        Send(c, pkt, l) => /\ sockfile' = sockfile /\ hup' = hup /\ tpc'[c] = l
                           /\ Elements(c2s'[c]) = Elements(c2s[c]) \cup {pkt}
  BY <1>c, <1>g, <1>p DEF Send, Written, WireTypeOK
<1>1. CASE Connect(c)
  BY <1>1, <1>c, <1>g DEF Connect, Quiet
<1>2. CASE TtyAttach(c)
  <2>1. /\ Send(c, Plain("attach"), "redraw") /\ win_changed' = win_changed
        /\ Plain("attach") \in Packet /\ Plain("attach").type = "attach"
    BY <1>2, PlainType DEF TtyAttach, Quiet, PacketType, Plain
  <2> QED
    BY <2>1, <1>s DEF Quiet
<1>3. CASE TtyIoctl(c)
  BY <1>3 DEF TtyIoctl, Quiet, wireVars
<1>4. CASE TtyRedraw(c)
  <2> DEFINE pkt == [type |-> "redraw", ws |-> pkt_ws[c]]
  <2>1. Send(c, pkt, "loop") /\ win_changed' = win_changed
    BY <1>4 DEF TtyRedraw, SendSize, Quiet
  <2>2. pkt \in Packet /\ pkt.type = "redraw"
    BY <1>c DEF Packet, PacketType, TtyTypeOK
  <2> QED
    BY <2>1, <2>2, <1>s DEF Quiet
<1>5. CASE TtyRead(c)
  <2>1. Goto(c, "check") /\ UNCHANGED <<sockfile, hup, c2s, win_changed>>
    BY <1>5, <1>a DEF TtyRead
  <2> QED
    BY <2>1, <1>g DEF Quiet
<1>6. CASE TtyCheck(c)
  <2>1. /\ Goto(c, "loop") /\ UNCHANGED wireVars
        /\ win_changed' = [win_changed EXCEPT ![c] = FALSE]
    BY <1>6 DEF TtyCheck, Quiet
  <2>2. ~ win_changed'[c]
    BY <2>1, <1>c DEF TtyTypeOK
  <2> QED
    BY <2>1, <2>2, <1>g DEF Quiet, wireVars
<1>7. ~ TtyEof(c) /\ ~ TtyPush(c) /\ ~ TtyStop(c) /\ ~ TtyWinch(c)
  BY DEF TtyEof, TtyPush, TtyStop, TtyWinch, Quiet
<1>8. ~ UserStep(c)
  BY <1>a DEF UserStep, TtyKey, TtyFormFeed, TtyModeKey, TtyDetach, TtyPrefixed,
     TtySuspend, TtyContinue, TtyStdinEof, Die, Resize, SenderPush, SenderClose,
     Types, StdinReady, Quiet
<1> QED
  BY <1>1, <1>2, <1>3, <1>4, <1>5, <1>6, <1>7, <1>8 DEF TtyStep

\* The master keeps the path, and takes packets from the queue only.
LEMMA QuietMaster ==
  ASSUME IInv, NEW c \in Tty, Quiet(c), UNCHANGED ttyVars,
         MasterStep \/ Sigchld \/ MasterDie \/ ProgStep
  PROVE  Quiet(c)'
<1>1. tpc' = tpc /\ win_changed' = win_changed
  BY DEF ttyVars
<1>2. MasterEffect
  BY MasterStepEffect DEF IInv, TypeOK
<1>3. Elements(c2s'[c]) \subseteq Elements(c2s[c])
  <2>1. c2s[c] \in Seq(Packet)
    BY DEF IInv, TypeOK, WireTypeOK, Client
  <2>2. c2s[c] # <<>> => Elements(Tail(c2s[c])) \subseteq Elements(c2s[c])
    BY <2>1, TailFacts
  <2>3. c2s'[c] = c2s[c] \/ (c2s[c] # <<>> /\ c2s'[c] = Tail(c2s[c]))
    BY <1>2 DEF MasterEffect, Accepts, Frees, Receives, Ends, IInv, TypeOK, WireTypeOK, Client
  <2> QED
    BY <2>2, <2>3
<1>4. sockfile' = sockfile \/ sockfile' \in {SocketMode(TRUE), SocketMode(FALSE)}
  <2>1. CASE Top
    BY <2>1 DEF Top
  <2>2. CASE ClientStep
    BY <2>2 DEF ClientStep, ClientSkip, ClientHangup, ClientPush, ClientFlag, ClientSize,
       Receive, wireVars
  <2>3. CASE WriteStep
    BY <2>3 DEF WriteStep, PtySkip, PtyWrite, PtyAgain, PtyError, Writing
  <2>4. CASE Sigchld \/ MasterDie \/ ProgStep
    BY <2>4 DEF Sigchld, MasterDie, Exit, Return, ProgStep, ProgStart, ProgOutput,
       ProgInput, ProgStop, ProgExit, wireVars
  <2> QED
    BY <2>1, <2>2, <2>3, <2>4 DEF MasterStep, Select, Accept, ClientsDone, PtyRead, PtyEof,
       PtyNobody, PtySelect, PtyRetry, PtyDone, Return, Exit, wireVars
<1>5. sockfile' # "absent"
  BY <1>4 DEF SocketMode, Quiet
<1> QED
  BY <1>1, <1>2, <1>3, <1>5 DEF Quiet, MasterEffect

\* The loop over the clients meets c only, and does not lose it.
LEMMA ServedClientStep ==
  ASSUME IInv, NEW c \in Tty, Alone(c), Quiet(c), Served(c), Remember, ClientStep
  PROVE  Served(c)'
<1>c. c \in Client
  BY DEF Client
<1> PICK p \in Client : \/ ClientSkip(p) \/ ClientHangup(p)
                        \/ ClientPush(p) \/ ClientFlag(p) \/ ClientSize(p)
  BY DEF ClientStep
<1>1. Visit(p)
  BY DEF ClientSkip, ClientHangup, ClientPush, ClientFlag, ClientSize, Receive
<1>2. pc = "client" /\ p \in Elements(todo)
  BY <1>1, NextIs DEF Visit, IInv, TypeOK
<1>3. p = c
  BY <1>c, <1>2, OnlyOne DEF Alone, IInv, ListInv, NoFreedClient
<1>4. ~ ClientHangup(p)
  BY <1>3 DEF ClientHangup, Quiet
<1>5. /\ pc' = pc /\ s2c' = s2c
      /\ UNCHANGED <<chld, waitattach, clients, readfds, readn>>
  BY <1>4 DEF ClientSkip, ClientPush, ClientFlag, ClientSize, Receive, loopVars, progVars,
     wireVars
<1>6. seen' = seen
  BY <1>5, AllSeenKept DEF IInv, TypeOK
<1>7. attached[c] => attached'[c]
  <2>1. CASE attached' = attached
    BY <2>1
  <2>2. CASE ClientFlag(p)
    <3>1. /\ c2s[c] \in Seq(Packet) /\ c2s[c] # <<>> /\ Head(c2s[c]).type \in FlagType
          /\ attached' = [attached EXCEPT ![c] = Head(c2s[c]).type = "attach"]
      BY <1>3, <1>c, <2>2 DEF ClientFlag, Receive, IInv, TypeOK, WireTypeOK
    <3>2. Head(c2s[c]) \in Elements(c2s[c])
      BY <3>1, TailFacts
    <3>3. Head(c2s[c]).type = "attach"
      BY <3>1, <3>2 DEF Quiet, FlagType
    <3> QED
      BY <1>c, <3>1, <3>3 DEF IInv, TypeOK, MasterTypeOK
  <2> QED
    BY <1>4, <2>1, <2>2 DEF ClientSkip, ClientPush, ClientSize
<1> QED
  BY <1>2, <1>5, <1>6, <1>7 DEF Served

\* The write loop writes to c only, and no write fails.
LEMMA ServedWriteStep ==
  ASSUME IInv, OutInv, NEW c \in Tty, Alone(c), Quiet(c), Served(c), WriteStep
  PROVE  Served(c)'
<1>c. c \in Client
  BY DEF Client
<1> PICK p \in Client : PtySkip(p) \/ PtyWrite(p) \/ PtyAgain(p) \/ PtyError(p)
  BY DEF WriteStep
<1>1. /\ pc = "pwrite" /\ pc' = "pwrite"
      /\ UNCHANGED <<chld, waitattach, attached, clients, readfds>>
  BY DEF PtySkip, PtyWrite, PtyAgain, PtyError, Writing, loopVars, progVars
<1>2. ~ PtyError(p)
  <2> SUFFICES ASSUME PtyError(p) PROVE FALSE
    OBVIOUS
  <2>1. p \in Elements(clients)
    BY <1>1 DEF PtyError, OutInv, HandedOut, Attached
  <2>2. p = c
    BY <1>c, <2>1, OnlyOne DEF Alone
  <2> QED
    BY <2>2 DEF PtyError, Quiet
<1>3. nclients # -1 /\ nclients \in Int /\ nclients >= -1
  BY <1>1 DEF Served, OutInv, HandedOut, IInv, TypeOK, MasterTypeOK
<1>4. nclients' = nclients \/ nclients' = nclients + 1
  BY <1>2 DEF PtySkip, PtyWrite, PtyAgain, Count
<1>5. nclients' # -1
  BY ONLY <1>3, <1>4
<1> QED
  BY <1>1, <1>5 DEF Served

\* What is read while c is alone is handed to c.
LEMMA ServedMaster ==
  ASSUME IInv, OutInv, NEW c \in Tty, Alone(c), Quiet(c), Served(c), Remember,
         MasterStep \/ Sigchld \/ MasterDie \/ ProgStep, listening', prog',
         stops' = 0
  PROVE  Served(c)'
<1> USE DEF Served
<1>c. c \in Client
  BY DEF Client
<1>o. /\ Elements(clients) \subseteq {c} /\ Elements(backlog) \subseteq {c}
      /\ c \in Elements(clients) => backlog = <<>>
  BY <1>c, OnlyOne DEF Alone
<1>s. s2c' = s2c => seen' = seen
  BY AllSeenKept DEF IInv, TypeOK
<1>1. CASE Top
  <2>1. /\ waitattach' = (waitattach /\ ~EndWait) /\ readfds'.pty = ~waitattach
        /\ pc' = "select" /\ pc = "top"
        /\ UNCHANGED <<s2c, chld, clients, attached, readn>>
    BY <1>1 DEF Top, progVars
  <2>2. EndWait => attached[c] /\ c \in Elements(clients)
    <3> SUFFICES ASSUME EndWait PROVE attached[c] /\ c \in Elements(clients)
      OBVIOUS
    <3>1. clients # <<>> /\ clients \in Seq(Client) /\ attached[Head(clients)]
      BY DEF EndWait, IInv, TypeOK, MasterTypeOK
    <3>2. Head(clients) \in Elements(clients)
      BY <3>1, TailFacts
    <3> QED
      BY <1>o, <3>1, <3>2
  <2>3. waitattach' \/ (attached'[c] /\ c \in Elements(clients'))
    BY <2>1, <2>2
  <2> QED
    BY <1>s, <2>1, <2>3
<1>2. CASE Select
  BY <1>2, <1>s DEF Select, Ready, wireVars, loopVars, progVars
<1>3. CASE Accept
  <2>1. /\ UNCHANGED <<s2c, chld, waitattach, readfds, readn>>
        /\ pc = "accept" /\ pc' = "client"
    BY <1>3 DEF Accept, loopVars, progVars
  <2>2. CASE readfds.listen
    <3>1. backlog # <<>> /\ ~ (c \in Elements(clients))
      BY <1>3, <1>o, <2>2 DEF Accept, IInv, ListInv
    <3> QED
      BY <1>s, <2>1, <3>1
  <2>3. CASE ~readfds.listen
    BY <1>3, <1>s, <2>1, <2>3 DEF Accept
  <2> QED
    BY <2>2, <2>3
<1>4. CASE ClientStep
  BY <1>4, ServedClientStep
<1>5. CASE ClientsDone
  BY <1>5, <1>s DEF ClientsDone, wireVars, loopVars, ioVars, progVars
<1>6. CASE PtyRead
  BY <1>6 DEF PtyRead, loopVars
<1>7. CASE PtyNobody
  <2>1. c \in Attached
    BY <1>7 DEF PtyNobody, Attached
  <2> QED
    BY <1>7, <2>1 DEF PtyNobody
<1>8. CASE PtySelect
  <2>1. c \in Elements(clients)
    BY <1>8 DEF PtySelect
  <2>2. backlog = <<>>
    BY <1>o, <2>1
  <2>3. readfds \in FdSet
    BY DEF IInv, TypeOK, MasterTypeOK
  <2>4. ~readfds'.listen /\ readfds'.pty = readfds.pty /\ nclients' = 0
    BY <1>8, <2>2, <2>3 DEF PtySelect, FdSet
  <2> QED
    BY <1>8, <2>4 DEF PtySelect, loopVars, progVars
<1>9. CASE WriteStep
  BY <1>9, ServedWriteStep
<1>10. CASE PtyRetry
  BY <1>10 DEF PtyRetry, loopVars, ioVars, progVars
<1>11. CASE PtyDone
  <2>1. /\ pc = "pwrite" /\ nclients # 0 /\ nclients # -1
        /\ nclients >= -1 /\ nclients \in Int
    BY <1>11 DEF PtyDone, OutInv, HandedOut, IInv, TypeOK, MasterTypeOK
  <2>2. nclients > 0
    BY ONLY <2>1
  <2>3. seen[c] = readn
    BY <2>1, <2>2, <1>o DEF OutInv, HandedOut, Attached
  <2>4. UNCHANGED <<s2c, chld, waitattach, attached, clients, readn>> /\ pc' = "top"
    BY <1>11 DEF PtyDone, Return, Forget, wireVars, loopVars, progVars
  <2> QED
    BY <1>s, <2>1, <2>3, <2>4
<1>12. ~ PtyEof /\ ~ Sigchld /\ ~ MasterDie
  BY DEF PtyEof, Exit, MasterDie, MasterGone, Sigchld
<1>13. CASE ProgStep
  <2>1. ~ ProgExit
    BY DEF ProgExit
  <2>2. ~ ProgStop
    <3>1. stops \in Nat
      BY DEF IInv, TypeOK, MasterTypeOK
    <3>2. stops + 1 # 0
      BY ONLY <3>1
    <3> QED
      BY <3>2 DEF ProgStop
  <2>3. /\ UNCHANGED <<wireVars, pc, clients, attached, waitattach>>
        /\ UNCHANGED <<ioVars, chld, readn>>
    BY <1>13, <2>1, <2>2 DEF ProgStep, ProgStart, ProgOutput, ProgInput, loopVars
  <2> QED
    BY <1>s, <2>3 DEF wireVars, loopVars, ioVars
<1> QED
  BY <1>1, <1>2, <1>3, <1>4, <1>5, <1>6, <1>7, <1>8, <1>9, <1>10, <1>11, <1>12, <1>13
  DEF MasterStep

\* In the beginning there is nothing to miss.
LEMMA LoneInit == Init => LoneInv
  BY DEF Init, WireInit, TtyInit, MasterInit, LoneInv, Quiet, Served, Elements, Client

\* No step of anybody makes a user who is alone miss anything.
LEMMA StepLoneInv == IInv /\ OutInv /\ LoneInv /\ [Next]_vars => LoneInv'
<1> SUFFICES ASSUME IInv, OutInv, LoneInv, [Next]_vars, NEW c \in Tty, Alone(c)'
             PROVE  Quiet(c)' /\ Served(c)'
  BY DEF LoneInv
<1>c. c \in Client
  BY DEF Client
<1>1. CASE MasterProcess
  <2>1. /\ listening /\ listening' /\ prog /\ prog'
        /\ stops = 0 /\ stops' = 0
    <3>1. listening /\ listening' /\ prog'
      BY <1>1 DEF Alone, MasterProcess, MasterStep, Top, Select, Accept, ClientStep,
         ClientSkip, ClientHangup, ClientPush, ClientFlag, ClientSize, Receive, Visit,
         ClientsDone, PtyRead, PtyEof, PtyNobody, PtySelect, WriteStep, PtySkip, PtyWrite,
         PtyAgain, PtyError, Writing, PtyRetry, PtyDone, Sigchld, MasterDie, ProgStep,
         ProgStart, ProgOutput, ProgInput, ProgStop, ProgExit
    <3>2. prog' => prog
      BY <1>1 DEF MasterProcess, MasterStep, Top, Select, Accept, ClientStep,
         ClientSkip, ClientHangup, ClientPush, ClientFlag, ClientSize, Receive, Visit,
         ClientsDone, PtyRead, PtyEof, PtyNobody, PtySelect, WriteStep, PtySkip, PtyWrite,
         PtyAgain, PtyError, Writing, PtyRetry, PtyDone, Sigchld, MasterDie, ProgStep,
         ProgStart, ProgOutput, ProgInput, ProgStop, ProgExit, Exit, progVars
    <3>3. stops' = stops \/ stops' = stops + 1
      BY <1>1 DEF MasterProcess, MasterStep, Top, Select, Accept, ClientStep,
         ClientSkip, ClientHangup, ClientPush, ClientFlag, ClientSize, Receive, Visit,
         ClientsDone, PtyRead, PtyEof, PtyNobody, PtySelect, WriteStep, PtySkip, PtyWrite,
         PtyAgain, PtyError, Writing, PtyRetry, PtyDone, Sigchld, MasterDie, ProgStep,
         ProgStart, ProgOutput, ProgInput, ProgStop, ProgExit, Exit, progVars
    <3>4. stops \in Nat /\ stops' = 0
      BY DEF Alone, IInv, TypeOK, MasterTypeOK
    <3>5. stops = 0
      BY ONLY <3>3, <3>4
    <3> QED
      BY <3>1, <3>2, <3>4, <3>5
  <2>2. Alone(c)
    BY <1>1, <2>1 DEF Alone, NoOther, MasterProcess, ttyVars
  <2> QED
    BY <1>1, <2>1, <2>2, QuietMaster, ServedMaster DEF MasterProcess, LoneInv
<1>2. ASSUME NEW d \in Client, ClientProcess(d), d # c
      PROVE  Quiet(c)' /\ Served(c)'
  <2>1. /\ UNCHANGED wireVars /\ NoOther(c) /\ tpc'[c] = tpc[c]
        /\ win_changed'[c] = win_changed[c] /\ input'[c] = input[c]
    BY <1>2, <1>c, OtherClient DEF Alone
  <2>2. UNCHANGED <<masterVars, seen>>
    BY <1>2 DEF ClientProcess
  <2>3. Alone(c)
    BY <2>1, <2>2 DEF Alone, wireVars, masterVars, progVars
  <2> QED
    BY <2>1, <2>2, <2>3
    DEF LoneInv, Quiet, Served, wireVars, masterVars, loopVars, ioVars, progVars
<1>3. CASE ClientProcess(c)
  <2>1. UNCHANGED <<masterVars, seen>> /\ (TtyStep(c) \/ UserStep(c))
    BY <1>3 DEF ClientProcess
  <2>2. ClientEffect(c)
    BY <2>1, <1>c, ClientStepEffect DEF IInv, TypeOK
  <2>3. NoOther(c) /\ listening
    BY <2>2 DEF Alone, NoOther, ClientEffect
  <2>4. input[c] = 0
    <3>1. input'[c] = input[c] \/ input'[c] = input[c] + 1
      BY <2>1, <1>c DEF TtyStep, UserStep, Connect, TtyAttach, TtyIoctl, TtyRedraw, TtyRead,
         TtyEof, TtyPush, TtyStop, TtyCheck, TtyWinch, SendSize, TtyKey, TtyFormFeed,
         TtyModeKey, TtyDetach, TtyPrefixed, TtySuspend, TtyContinue, TtyStdinEof, Die,
         Resize, SenderPush, SenderClose, Types, StdinReady, Acts, IInv, TypeOK, TtyTypeOK
    <3>2. input[c] \in Nat /\ input'[c] = 0
      BY <1>c DEF IInv, TypeOK, TtyTypeOK, Alone
    <3> QED
      BY ONLY <3>1, <3>2
  <2>5. Alone(c)
    BY <2>1, <2>3, <2>4 DEF Alone, masterVars, progVars
  <2>6. Quiet(c)'
    BY <2>1, <2>3, <2>4, <2>5, QuietClient DEF LoneInv, Alone, IInv, TypeOK
  <2>7. Served(c)'
    BY <2>1, <2>5 DEF LoneInv, Served, masterVars, loopVars, ioVars, progVars
  <2> QED
    BY <2>6, <2>7
<1>4. CASE UNCHANGED vars
  BY <1>4 DEF LoneInv, Alone, NoOther, Quiet, Served, vars, wireVars, ttyVars, masterVars,
     loopVars, ioVars, progVars
<1> QED
  BY <1>1, <1>2, <1>3, <1>4 DEF Next

\* A user who is alone and has not acted has been handed all that was read,
\* whatever the capacities of the pty and of the socket.
THEOREM NothingMissed == Spec => []LoneClientMissesNothing
<1>1. LoneInv => LoneClientMissesNothing
  BY DEF LoneInv, LoneClientMissesNothing, Alone, NoOther, Served
<1>2. Spec => []LoneInv
  BY LoneInit, StepLoneInv, InductiveInvariant, OutputAccount, PTL DEF Spec
<1> QED
  BY <1>1, <1>2, PTL

-----------------------------------------------------------------------------
(***************************************************************************)
(* The size of the pty.                                                    *)
(***************************************************************************)

\* The packets that carry a size, and the size they carry.
SizePacket == {pkt \in Packet : pkt.type \in {"winch", "redraw"}}
SizeOf == [pkt \in Packet |-> pkt.ws]

\* The pty has the size z, or will when the queue has been read.
Settled(q, w, z) == Says(q, SizePacket, SizeOf, w, z)

\* The size of the pty as far as its clients gave it: where the child was the
\* last to set it, it may be any.
PtySize(c) == IF bychild THEN size[c] ELSE ws

\* What c's size means to the pty, from the ioctl to the end of c's queue: a
\* size that has been read and not sent is the current one, or the flag of the
\* next SIGWINCH is up; otherwise the last size that was sent is.
Sized(c) ==
  /\ pkt_ws[c] # NoSize => tpc[c] \in {"redraw", "reredraw", "winch", "gone"}
  /\ tpc[c] \in {"redraw", "reredraw", "winch"} =>
       win_changed[c] \/ pkt_ws[c] \in {NoSize, size[c]}
  /\ tpc[c] \in {"loop", "input", "push", "getkey", "prefix", "check"} =>
       win_changed[c] \/ Settled(c2s[c], PtySize(c), size[c])

SizeInv == \A c \in Tty : listening /\ NoOther(c) => Sized(c)

\* A packet with no size at the end of the queue, or one with a size.
LEMMA SettledAppend ==
  ASSUME NEW q \in Seq(Packet), NEW pkt \in Packet, NEW w, NEW z,
         IF pkt.type \in {"winch", "redraw"} THEN pkt.ws = z ELSE Settled(q, w, z)
  PROVE  Settled(Append(q, pkt), w, z)
<1>1. pkt \notin SizePacket => Says(q, SizePacket, SizeOf, w, z)
  BY DEF Settled, SizePacket
<1>2. z = IF pkt \in SizePacket THEN SizeOf[pkt] ELSE z
  BY DEF SizePacket, SizeOf
<1> QED
  BY <1>1, <1>2, SaysAppend DEF Settled

\* The packet at its head is read.
LEMMA SettledTail ==
  ASSUME NEW q \in Seq(Packet), q # <<>>, NEW w, NEW z, Settled(q, w, z), NEW v,
         v = IF Head(q).type \in {"winch", "redraw"} THEN Head(q).ws ELSE w
  PROVE  Settled(Tail(q), v, z)
<1>1. Head(q) \in Packet
  OBVIOUS
<1>2. v = IF Head(q) \in SizePacket THEN SizeOf[Head(q)] ELSE w
  BY <1>1 DEF SizePacket, SizeOf
<1> QED
  BY <1>2, SaysTail DEF Settled

\* A client's own steps keep its size on its way to the pty.
LEMMA SizedClient ==
  ASSUME WireTypeOK, TtyTypeOK, MasterTypeOK, NEW c \in Tty, listening, Sized(c),
         TtyStep(c) \/ UserStep(c), UNCHANGED <<ws, bychild>>
  PROVE  Sized(c)'
<1> USE DEF Sized, PtySize
<1>c. /\ c \in Client /\ c2s[c] \in Seq(Packet) /\ tpc \in [Client -> TtyPc]
      /\ pkt_ws \in [Client -> Size \cup {NoSize}] /\ size \in [Client -> Size]
      /\ win_changed \in [Client -> BOOLEAN]
  BY DEF Client, WireTypeOK, TtyTypeOK
<1>g. \A l : Goto(c, l) => tpc'[c] = l
  BY <1>c DEF Goto
<1>s. \A pkt, l : Send(c, pkt, l) => c2s'[c] = Append(c2s[c], pkt) /\ tpc'[c] = l
  BY <1>c, <1>g DEF Send, Written, WireTypeOK
<1>p. \A l, w, z : Send(c, Plain("push"), l) /\ Settled(c2s[c], w, z) =>
                 Settled(c2s'[c], w, z)
  <2>1. Plain("push") \in Packet /\ Plain("push").type \notin {"winch", "redraw"}
    BY PlainType DEF Plain, PacketType
  <2>2. \A w, z : Settled(c2s[c], w, z) => Settled(Append(c2s[c], Plain("push")), w, z)
    BY <1>c, <2>1, SettledAppend
  <2> QED
    BY <1>s, <2>2
<1>z. ASSUME NEW type \in {"winch", "redraw"}, NEW l, SendSize(c, type, l),
             win_changed' = win_changed, tpc[c] \in {"redraw", "reredraw", "winch"}
      PROVE  /\ tpc'[c] = l /\ pkt_ws'[c] = NoSize
             /\ win_changed'[c] \/ Settled(c2s'[c], PtySize(c)', size'[c])
  <2> DEFINE pkt == [type |-> type, ws |-> pkt_ws[c]]
  <2>1. pkt \in Packet /\ pkt.type = type /\ pkt.ws = pkt_ws[c]
    BY <1>c, <1>z DEF Packet, PacketType
  <2>2. Send(c, pkt, l) /\ pkt_ws'[c] = NoSize /\ size' = size /\ pkt_ws[c] # NoSize
    BY <1>c, <1>z DEF SendSize
  <2>3. win_changed[c] \/ pkt_ws[c] = size[c]
    BY <1>z, <2>2
  <2>4. pkt_ws[c] = size[c] => Settled(Append(c2s[c], pkt), PtySize(c), size[c])
    <3> HIDE DEF pkt
    <3> QED
      BY <1>c, <1>z, <2>1, SettledAppend
  <2>5. c2s'[c] = Append(c2s[c], pkt) /\ tpc'[c] = l
    BY <1>s, <2>2
  <2> QED
    BY <1>z, <2>2, <2>3, <2>4, <2>5
<1>l. \A u \in BOOLEAN : Leave(c, u) => Sized(c)'
  BY <1>c, <1>g DEF Leave
<1>t. \A l \in {"push", "getkey", "suspend"} :
        Types(c, l) => /\ tpc'[c] = l /\ tpc[c] \in {"loop", "input"}
                       /\ UNCHANGED <<c2s, size, pkt_ws>>
  BY <1>g DEF Types, StdinReady, wireVars
<1>1. CASE Connect(c)
  BY <1>1, <1>g DEF Connect
<1>2. CASE TtyAttach(c)
  BY <1>2, <1>g DEF TtyAttach, Send
<1>3. CASE TtyIoctl(c)
  <2>1. pkt_ws'[c] = size[c]
    BY <1>3, <1>c DEF TtyIoctl
  <2> QED
    BY <1>3, <2>1 DEF TtyIoctl, wireVars
<1>4. CASE TtyRedraw(c)
  BY <1>4, <1>z DEF TtyRedraw
<1>5. CASE TtyRead(c)
  BY <1>5, <1>g DEF TtyRead
<1>6. ~ TtyEof(c)
  BY DEF TtyEof
<1>7. CASE TtyPush(c)
  BY <1>7, <1>p, <1>s DEF TtyPush
<1>8. CASE TtyStop(c)
  BY <1>8, <1>s DEF TtyStop
<1>9. CASE TtyCheck(c)
  BY <1>9, <1>g, <1>c DEF TtyCheck, wireVars
<1>10. CASE TtyWinch(c)
  BY <1>10, <1>z DEF TtyWinch
<1>11. CASE TtyFormFeed(c)
  BY <1>11, <1>t, <1>c DEF TtyFormFeed
<1>12. CASE TtyKey(c) \/ TtyModeKey(c) \/ TtySuspend(c)
  BY <1>12, <1>t DEF TtyKey, TtyModeKey, TtySuspend
<1>13. CASE TtyDetach(c) \/ TtyStdinEof(c) \/ Die(c) \/ SenderClose(c)
  BY <1>13, <1>l DEF TtyDetach, TtyStdinEof, Die, SenderClose
<1>14. CASE TtyPrefixed(c)
  BY <1>14, <1>g DEF TtyPrefixed, wireVars
<1>15. CASE TtyContinue(c)
  BY <1>15, <1>g DEF TtyContinue, wireVars
<1>16. CASE Resize(c)
  <2>1. tpc[c] # "start" => win_changed'[c]
    BY <1>16, <1>c DEF Resize
  <2>2. tpc'[c] = tpc[c] \/ (tpc[c] = "loop" /\ tpc'[c] = "check")
    BY <1>16, <1>g DEF Resize
  <2> QED
    BY <1>16, <2>1, <2>2 DEF Resize
<1>17. CASE SenderPush(c)
  BY <1>17, <1>s DEF SenderPush
<1> QED
  BY <1>1, <1>2, <1>3, <1>4, <1>5, <1>6, <1>7, <1>8, <1>9, <1>10, <1>11, <1>12, <1>13,
     <1>14, <1>15, <1>16, <1>17 DEF TtyStep, UserStep

\* The master gives the pty the size of each packet it reads, in order.
LEMMA SizedMaster ==
  ASSUME IInv, NEW c \in Tty, NoOther(c), Sized(c), UNCHANGED ttyVars,
         MasterStep \/ Sigchld \/ MasterDie \/ ProgStep
  PROVE  Sized(c)'
<1>1. UNCHANGED <<tpc, size, win_changed, pkt_ws>>
  BY DEF ttyVars
<1>2. CASE c2s' = c2s /\ UNCHANGED <<ws, bychild>>
  BY <1>1, <1>2 DEF Sized, PtySize
<1>3. CASE ClientStep
  <2> PICK p \in Client : \/ ClientSkip(p) \/ ClientHangup(p)
                          \/ ClientPush(p) \/ ClientFlag(p) \/ ClientSize(p)
    BY <1>3 DEF ClientStep
  <2>1. CASE ClientSkip(p) \/ ClientHangup(p)
    BY <1>2, <2>1 DEF ClientSkip, ClientHangup, wireVars, loopVars
  <2>2. CASE ClientPush(p) \/ ClientFlag(p) \/ ClientSize(p)
    <3>1. c \in Client /\ c2s[c] \in Seq(Packet)
      BY DEF Client, IInv, TypeOK, WireTypeOK
    <3>2. Visit(p) /\ p \in Elements(todo)
      BY <2>2, NextIs DEF ClientPush, ClientFlag, ClientSize, Receive, Visit, IInv, TypeOK
    <3>3. p = c
      BY <3>1, <3>2, OnlyOne DEF Visit, IInv, ListInv, NoFreedClient
    <3>4. /\ c2s[c] # <<>> /\ c2s'[c] = Tail(c2s[c])
          /\ PtySize(c)' = IF Head(c2s[c]).type \in {"winch", "redraw"}
                       THEN Head(c2s[c]).ws ELSE PtySize(c)
      <4> DEFINE d == Head(c2s[c])
      <4>1. c2s[c] # <<>> /\ c2s' = [c2s EXCEPT ![c] = Tail(@)]
        BY <2>2, <3>3 DEF ClientPush, ClientFlag, ClientSize, Receive
      <4>2. c2s \in [Client -> Seq(Packet)]
        BY DEF IInv, TypeOK, WireTypeOK
      <4>3. c2s'[c] = Tail(c2s[c])
        BY <3>1, <4>1, <4>2
      <4>4. CASE d.type \in {"winch", "redraw"}
        <5>1. ClientSize(c)
          BY <2>2, <3>3, <4>4 DEF ClientPush, ClientFlag, Receive, FlagType
        <5>2. ws' = d.ws /\ bychild' = FALSE
          BY <5>1 DEF ClientSize
        <5> QED
          BY <4>1, <4>3, <4>4, <5>2 DEF PtySize
      <4>5. CASE d.type \notin {"winch", "redraw"}
        <5>1. UNCHANGED <<ws, bychild>>
          BY <2>2, <3>3, <4>5 DEF ClientPush, ClientFlag, ClientSize, Receive
        <5> QED
          BY <1>1, <4>1, <4>3, <4>5, <5>1 DEF PtySize
      <4> QED
        BY <4>4, <4>5
    <3>5. Settled(c2s[c], PtySize(c), size[c]) =>
            Settled(c2s'[c], PtySize(c)', size[c])
      BY <3>1, <3>4, SettledTail
    <3> QED
      BY <1>1, <3>5 DEF Sized
  <2> QED
    BY <2>1, <2>2
<1>4. CASE WriteStep
  BY <1>2, <1>4 DEF WriteStep, PtySkip, PtyWrite, PtyAgain, PtyError, Writing, loopVars
<1>5. CASE Sigchld \/ MasterDie \/ (ProgStep /\ ~ProgStart)
  BY <1>2, <1>5 DEF Sigchld, MasterDie, Exit, Return, ProgStep, ProgOutput,
     ProgInput, ProgStop, ProgExit, wireVars, loopVars
<1>6. CASE ProgStart
  <2>1. PtySize(c)' = size[c] /\ c2s' = c2s
    BY <1>1, <1>6 DEF ProgStart, PtySize, wireVars
  <2>2. Settled(c2s[c], PtySize(c), size[c]) => Settled(c2s[c], size[c], size[c])
    BY DEF Settled, Says
  <2> QED
    BY <1>1, <2>1, <2>2 DEF Sized
<1> QED
  BY <1>2, <1>3, <1>4, <1>5, <1>6 DEF MasterStep, Top, Select, Accept, ClientsDone, PtyRead,
     PtyEof, PtyNobody, PtySelect, PtyRetry, PtyDone, Return, Exit, wireVars, loopVars

\* Before the client connects nothing is known of its size.
LEMMA SizeInit == Init => SizeInv
  BY DEF Init, TtyInit, SizeInv, Sized, Client

\* No step loses a resize.
LEMMA StepSizeInv == IInv /\ SizeInv /\ [Next]_vars => SizeInv'
<1> SUFFICES ASSUME IInv, SizeInv, [Next]_vars, NEW c \in Tty, listening', NoOther(c)'
             PROVE  Sized(c)'
  BY DEF SizeInv
<1>c. c \in Client
  BY DEF Client
<1>1. CASE MasterProcess
  <2>1. listening
    <3>1. MasterEffect
      BY <1>1, MasterStepEffect DEF MasterProcess, IInv, TypeOK
    <3> QED
      BY <3>1 DEF MasterEffect, Accepts, Frees, Receives, Ends
  <2>2. NoOther(c)
    BY <1>1 DEF MasterProcess, ttyVars, NoOther
  <2> QED
    BY <1>1, <2>1, <2>2, SizedMaster DEF MasterProcess, SizeInv
<1>2. ASSUME NEW d \in Client, ClientProcess(d), d # c
      PROVE  Sized(c)'
  <2>1. /\ UNCHANGED wireVars /\ NoOther(c) /\ tpc'[c] = tpc[c]
        /\ size'[c] = size[c] /\ win_changed'[c] = win_changed[c] /\ pkt_ws'[c] = pkt_ws[c]
    BY <1>2, <1>c, OtherClient
  <2>2. UNCHANGED <<ws, bychild>>
    BY <1>2 DEF ClientProcess, masterVars, loopVars
  <2> QED
    BY <2>1, <2>2 DEF SizeInv, Sized, PtySize, wireVars
<1>3. CASE ClientProcess(c)
  <2>1. (TtyStep(c) \/ UserStep(c)) /\ UNCHANGED <<ws, bychild>>
    BY <1>3 DEF ClientProcess, masterVars, loopVars
  <2>2. ClientEffect(c)
    BY <2>1, <1>c, ClientStepEffect DEF IInv, TypeOK
  <2>3. NoOther(c) /\ listening
    BY <2>2 DEF NoOther, ClientEffect
  <2> QED
    BY <2>1, <2>3, SizedClient DEF SizeInv, IInv, TypeOK
<1>4. CASE UNCHANGED vars
  BY <1>4 DEF SizeInv, NoOther, Sized, PtySize, vars, wireVars, ttyVars, masterVars, loopVars
<1> QED
  BY <1>1, <1>2, <1>3, <1>4 DEF Next

\* No resize is lost between the test of win_changed and the size that is
\* sent: when a lone client sleeps and its queue is empty the sizes agree,
\* unless the child of pty_child has set its own after the client's.
THEOREM SizesAgree == Spec => []SizeSettles
<1>1. SizeInv => SizeSettles
  <2> SUFFICES ASSUME SizeInv, NEW c \in Tty, listening, tpc[c] = "loop",
                      c2s[c] = <<>>, ~win_changed[c],
                      \A d \in Client \ {c} : tpc[d] = "start"
               PROVE  ws = size[c] \/ bychild
    BY DEF SizeSettles
  <2>1. Settled(<<>>, PtySize(c), size[c])
    BY DEF SizeInv, NoOther, Sized
  <2>2. Within(<<>>, SizePacket) = {}
    BY DEF Within
  <2> QED
    BY <2>1, <2>2 DEF Settled, Says, PtySize
<1>2. Spec => []SizeInv
  BY SizeInit, StepSizeInv, InductiveInvariant, PTL DEF Spec
<1> QED
  BY <1>1, <1>2, PTL

-----------------------------------------------------------------------------
(***************************************************************************)
(* The output as Broadcast promises it.                                    *)
(***************************************************************************)

\* The session's state as Broadcast sees it, for the proofs below.
Given == readn - Len(buf)

Called == chld \/ (pc = "pwrite" /\ (readfds.listen \/ nclients = -1))

View == <<listening, outn, readn, Given, Attached, s2c, seen, Called>>

\* At first nothing is produced, nobody is attached and nothing calls.
LEMMA BroadcastInit == Init => Promised!Init
<1> SUFFICES ASSUME Init PROVE Promised!Init
  OBVIOUS
<1> USE DEF Init, WireInit, MasterInit
<1>1. Attached = {}
  BY DEF Attached, Elements
<1>2. readn - Len(buf) = 0
  <2>1. readn = 0 /\ Len(buf) = 0
    OBVIOUS
  <2> QED
    BY ONLY <2>1
<1>3. ~ Called
  BY ONLY ~ chld, pc = "top" DEF Called
<1> QED
  BY <1>1, <1>2, <1>3 DEF Promised!Init, Called

\* A step that does nothing but call, or stop calling, or not even that.
LEMMA CallStep ==
  ASSUME listening, listening', UNCHANGED <<outn, readn, buf, s2c, seen, Attached>>
  PROVE  Promised!Next
<1>1. Promised!Call
  BY DEF Promised!Call
<1> QED
  BY <1>1 DEF Promised!Next

\* No chunk is in hand but in the loops of pty_activity, and none is empty.
LEMMA InHand ==
  ASSUME IInv, OutInv
  PROVE  /\ readn \in Nat /\ outn \in Nat /\ Len(buf) \in Nat /\ written \in Nat
         /\ nclients \in Int
         /\ pc \notin {"ptop", "pwrite"} => Given = readn /\ buf = <<>>
         /\ pc \in {"ptop", "pwrite"} => Given # readn
<1>1. /\ readn \in Nat /\ outn \in Nat /\ buf \in Seq(Nat) /\ written \in Nat
      /\ nclients \in Int /\ ChunkInHand
  BY DEF IInv, TypeOK, MasterTypeOK
<1>2. buf # <<>> => Len(buf) > 0
  BY <1>1
<1>3. pc \notin {"ptop", "pwrite"} => buf = <<>>
  BY <1>1 DEF ChunkInHand
<1>4. Len(<<>>) = 0
  OBVIOUS
<1>5. pc \notin {"ptop", "pwrite"} => Given = readn
  BY <1>1, <1>3, <1>4 DEF Given
<1>6. pc \in {"ptop", "pwrite"} => Given # readn
  <2>1. pc \in {"ptop", "pwrite"} => Len(buf) > 0
    BY <1>1, <1>2 DEF ChunkInHand
  <2>2. \A m, l \in Nat : l > 0 => m - l # m
    OBVIOUS
  <2> QED
    BY <1>1, <2>1, <2>2 DEF Given
<1> QED
  BY <1>1, <1>3, <1>5, <1>6

\* A step that loses the chunk in hand, as pty_activity may.
LEMMA GiveUpStep ==
  ASSUME IInv, OutInv, listening, pc \in {"ptop", "pwrite"}, Return,
         UNCHANGED <<outn, readn, seen>>,
         Attached = {} \/ Called \/ \E c \in Attached : seen[c] = readn
  PROVE  Promised!Next
<1>1. /\ UNCHANGED <<listening, clients, attached, s2c>> /\ buf' = <<>>
  BY DEF Return, Forget, wireVars
<1>2. Attached' = Attached
  BY <1>1 DEF Attached
<1>3. readn - Len(buf) # readn
  BY InHand DEF Given
<1>4. readn' - Len(buf') = readn
  BY <1>1, InHand
<1>5. Promised!GiveUp
  BY <1>1, <1>2, <1>3, <1>4 DEF Promised!GiveUp, Called
<1> QED
  BY <1>5 DEF Promised!Next

\* When the master ends, nobody is attached any more.
LEMMA CloseStep ==
  ASSUME IInv, OutInv, listening, Exit, seen' = seen
  PROVE  Promised!Next
<1>1. /\ ~ listening' /\ clients' = <<>> /\ buf' = <<>> /\ UNCHANGED <<outn, readn, s2c>>
      /\ listening' = FALSE
  BY DEF Exit, Forget, MasterGone
<1>2. Attached' = {}
  BY <1>1 DEF Attached, Elements
<1>3. readn' - Len(buf') = readn
  BY <1>1, InHand
<1>4. listening = TRUE
  BY DEF IInv, TypeOK, WireTypeOK
<1>5. Promised!Close
  BY <1>1, <1>2, <1>3, <1>4 DEF Promised!Close
<1> QED
  BY <1>5 DEF Promised!Next

\* A write hands some of the chunk to a client, from its beginning when the loop
\* has just come to that client, or else from where that client is.
LEMMA HandStep ==
  ASSUME IInv, OutInv, Remember, NEW p \in Client, PtyWrite(p)
  PROVE  Promised!Next
<1>1. /\ listening /\ pc = "pwrite" /\ pc' = "pwrite" /\ p = Head(todo) /\ p \in writefds
      /\ UNCHANGED <<listening, clients, attached, readfds, buf, chld, outn, readn>>
  BY DEF PtyWrite, Writing, progVars
<1>2. p \in Attached /\ Attached' = Attached
  BY <1>1 DEF OutInv, HandedOut, Attached
<1> PICK n \in Nat : Writes(p, n)
  BY WriteIs DEF IInv, TypeOK
<1> DEFINE from == Given + written
<1>3. /\ n \in 1..(Len(buf) - written) /\ n \in Nat /\ written + n \in 1..Len(buf)
      /\ Given \in Int /\ from \in Int
      /\ from \in Given..readn /\ n \in 1..(readn - from)
  <2>1. n \in 1..(Len(buf) - written) /\ n \in Nat
    BY DEF Writes
  <2>2. readn \in Nat /\ Len(buf) \in Nat /\ written \in Nat
    BY InHand
  <2> QED
    BY ONLY <2>1, <2>2 DEF Given
<1>4. \A i \in 1..Len(buf) : buf[i] = Given + i
  BY <1>1 DEF OutInv, Chunked, Given
<1>5. from \in {Given, seen[p]}
  <2>1. written \in Nat
    BY InHand
  <2>2. CASE written = 0
    BY <2>2, <1>3
  <2>3. CASE written > 0
    <3>1. seen[p] = buf[written]
      BY <2>3, <1>1 DEF OutInv, HandedOut
    <3>2. written \in 1..Len(buf)
      BY ONLY <2>1, <2>3, <1>3, InHand, IInv, OutInv
    <3> QED
      BY <3>1, <3>2, <1>4
  <2> QED
    BY <2>1, <2>2, <2>3
<1>6. SubSeq(buf, written + 1, written + n) = [i \in 1..n |-> from + i]
  <2>1. buf \in Seq(Nat) /\ written \in Nat /\ Len(buf) \in Nat
    BY InHand DEF IInv, TypeOK, MasterTypeOK
  <2>2. SubSeq(buf, written + 1, written + n) = [i \in 1..n |-> buf[written + i]]
    BY ONLY <2>1, <1>3
  <2>3. ASSUME NEW i \in 1..n PROVE buf[written + i] = from + i
    <3>1. written + i \in 1..Len(buf) /\ Given + (written + i) = Given + written + i
      BY ONLY <2>1, <1>3, i \in 1..n
    <3> QED
      BY <3>1, <1>4
  <2> QED
    BY <2>2, <2>3
<1>7. seen'[p] = from + n
  <2>1. seen'[p] = buf[written + n] /\ written \in Nat
    BY InHand DEF Writes
  <2>2. Given + (written + n) = Given + written + n
    BY ONLY <1>3, <2>1
  <2> QED
    BY <1>3, <1>4, <2>1, <2>2
<1>8. s2c' = [s2c EXCEPT ![p] = @ \o [i \in 1..n |-> from + i]]
  <2>1. s2c' = [s2c EXCEPT ![p] = s2c'[p]]
    BY DEF PtyWrite, IInv, TypeOK, WireTypeOK
  <2>2. s2c'[p] = s2c[p] \o [i \in 1..n |-> from + i]
    BY <1>6 DEF Writes
  <2> QED
    BY <2>1, <2>2
<1>9. seen' = [seen EXCEPT ![p] = from + n]
  <2>1. seen \in [Client -> Nat] /\ seen' = [c \in Client |-> seen'[c]]
    BY DEF IInv, TypeOK, Remember
  <2>2. \A d \in Client \ {p} : seen'[d] = seen[d]
    BY DEF Writes
  <2> HIDE DEF from
  <2> QED
    BY ONLY <2>1, <2>2, <1>7, p \in Client
<1>10. Called' = Called
  <2>1. nclients \in Int /\ nclients >= -1
    BY <1>1, InHand DEF OutInv, HandedOut
  <2>2. nclients' = nclients \/ (nclients # -1 /\ nclients' = nclients + 1)
    BY DEF Writes
  <2>3. nclients' = -1 <=> nclients = -1
    BY ONLY <2>1, <2>2
  <2> QED
    BY <1>1, <2>3 DEF Called
<1>11. Promised!Hand(p)
  <2>1. Given' = Given /\ UNCHANGED <<listening, outn, readn>>
    BY <1>1 DEF Given
  <2> HIDE DEF from
  <2>2. /\ from \in {Given, seen[p]} \cap Given..readn
        /\ \E k \in 1..(readn - from) :
             /\ s2c' = [s2c EXCEPT ![p] = @ \o [i \in 1..k |-> from + i]]
             /\ seen' = [seen EXCEPT ![p] = from + k]
    BY <1>3, <1>5, <1>8, <1>9
  <2>3. \E f \in {Given, seen[p]} \cap Given..readn : \E k \in 1..(readn - f) :
             /\ s2c' = [s2c EXCEPT ![p] = @ \o [i \in 1..k |-> f + i]]
             /\ seen' = [seen EXCEPT ![p] = f + k]
    BY <2>2
  <2> QED
    BY <1>1, <1>2, <1>10, <2>1, <2>3 DEF Promised!Hand, Given, Called
<1> QED
  BY <1>11 DEF Promised!Next

\* What a step of the master does is what Broadcast allows.
LEMMA BroadcastMaster ==
  ASSUME IInv, OutInv, listening, Remember, MasterStep \/ Sigchld \/ MasterDie \/ ProgStep
  PROVE  Promised!Next
<1> USE DEF wireVars, ioVars, progVars
<1>t. WireTypeOK /\ MasterTypeOK /\ ListInv /\ seen \in [Client -> Nat]
  BY DEF IInv, TypeOK
<1>s. s2c' = s2c => seen' = seen
  BY <1>t, AllSeenKept
<1>a. UNCHANGED <<clients, attached>> => Attached' = Attached
  BY DEF Attached
<1>c. UNCHANGED <<listening, outn, readn, buf, s2c, clients, attached>> => Promised!Next
  BY <1>s, <1>a, CallStep
<1>1. CASE Top \/ Select \/ ClientsDone \/ PtySelect \/ PtyRetry
  BY <1>c, <1>1 DEF Top, Select, ClientsDone, PtySelect, PtyRetry
<1>2. CASE Accept
  <2>1. UNCHANGED <<listening, outn, readn, buf, s2c>>
    BY <1>2 DEF Accept
  <2>2. Attached' = Attached
    <3>1. CASE ~ readfds.listen
      BY <1>2, <1>a, <3>1 DEF Accept
    <3>2. CASE readfds.listen
      <4> DEFINE c == Head(backlog)
      <4>1. backlog # <<>> /\ clients' = <<c>> \o clients /\ pc = "accept"
            /\ attached' = [attached EXCEPT ![c] = FALSE]
        BY <1>2, <1>t, <3>2 DEF Accept, ListInv
      <4>2. c \in Client /\ c \in Elements(backlog)
        BY <1>t, <4>1, TailFacts DEF WireTypeOK
      <4>3. c \notin Elements(clients)
        BY <1>t, <4>2 DEF ListInv, NoFreedClient
      <4>4. clients \in Seq(Client) /\ attached \in [Client -> BOOLEAN]
        BY <1>t DEF MasterTypeOK
      <4> HIDE DEF c
      <4>5. Elements(clients') = Elements(clients) \cup {c}
        BY ONLY <4>1, <4>2, <4>4, ConsFacts
      <4>6. Elements(clients) \subseteq Client
        BY <4>4 DEF Elements
      <4>7. /\ ~ attached'[c]
            /\ \A d \in Elements(clients) : attached'[d] = attached[d]
        BY <4>1, <4>2, <4>3, <4>4, <4>6
      <4> QED
        BY <4>5, <4>7 DEF Attached
    <3> QED
      BY <3>1, <3>2
  <2> QED
    BY <1>s, <2>1, <2>2, CallStep
<1>3. CASE ClientStep
  <2> SUFFICES ASSUME NEW p \in Client,
                      \/ ClientSkip(p) \/ ClientHangup(p)
                      \/ ClientPush(p) \/ ClientFlag(p) \/ ClientSize(p)
               PROVE  Promised!Next
    BY <1>3 DEF ClientStep
  <2>1. Visit(p) /\ pc = "client" /\ pc' = "client"
    BY DEF ClientSkip, ClientHangup, ClientPush, ClientFlag, ClientSize, Receive, Visit
  <2>2. p \in Elements(clients)
    BY <1>t, <2>1, NextIs DEF Visit, ListInv, NoFreedClient
  <2>3. CASE ClientSkip(p) \/ ClientPush(p) \/ ClientSize(p)
    BY <1>c, <2>3 DEF ClientSkip, ClientPush, ClientSize, Receive
  <2>4. CASE ClientHangup(p) \/ ClientFlag(p)
    <3>1. UNCHANGED <<listening, outn, readn, buf, s2c, chld>>
      BY <2>4 DEF ClientHangup, ClientFlag, Receive
    <3>2. Given = readn /\ UNCHANGED <<Given, Called, seen>>
      BY <1>s, <2>1, <3>1, InHand DEF Given, Called
    <3>3. Attached' \in {Attached \cup {p}, Attached \ {p}}
      <4>1. CASE ClientHangup(p)
        <5>1. attached' = attached /\ clients' = Unlinked(p)
          BY <4>1 DEF ClientHangup
        <5>2. clients \in Seq(Client) /\ Distinct(clients)
          BY <1>t DEF MasterTypeOK, ListInv, NoFreedClient
        <5>3. Elements(clients') = Elements(clients) \ {p}
          BY ONLY <2>2, <5>1, <5>2, UnlinkFacts
        <5> QED
          BY <5>1, <5>3 DEF Attached
      <4>2. CASE ClientFlag(p)
        <5>1. /\ clients' = clients
              /\ attached' = [attached EXCEPT ![p] = Head(c2s[p]).type = "attach"]
          BY <4>2 DEF ClientFlag, Receive
        <5>2. Elements(clients) \subseteq Client /\ attached \in [Client -> BOOLEAN]
          BY <1>t DEF MasterTypeOK, Elements
        <5>3. \A d \in Elements(clients) \ {p} : attached'[d] = attached[d]
          BY <5>1, <5>2
        <5>4. Elements(clients') = Elements(clients)
          BY <5>1
        <5> QED
          BY <2>2, <5>3, <5>4 DEF Attached
      <4> QED
        BY <2>4, <4>1, <4>2
    <3>4. Promised!Attach(p) \/ Promised!Detach(p)
      BY <3>1, <3>2, <3>3 DEF Promised!Attach, Promised!Detach, Given, Called
    <3> QED
      BY <3>4 DEF Promised!Next
  <2> QED
    BY <2>3, <2>4
<1>4. CASE PtyRead
  <2> DEFINE n == IF outn - readn < Chunk THEN outn - readn ELSE Chunk
  <2>1. /\ pc = "read" /\ pc' = "ptop" /\ buf' = [i \in 1..n |-> readn + i]
        /\ readn' = readn + n /\ outn > readn
        /\ UNCHANGED <<listening, clients, attached, s2c, outn, chld>>
    BY <1>4 DEF PtyRead
  <2>2. n \in Nat /\ n > 0 /\ n <= outn - readn /\ readn \in Nat /\ outn \in Nat
    BY <1>t, <2>1, MasterAssumption DEF MasterTypeOK
  <2> HIDE DEF n
  <2>3. Len(buf') = n
    BY <2>1, <2>2
  <2>4. readn' - Len(buf') = readn /\ readn' > readn /\ readn' <= outn
    BY ONLY <2>1, <2>2, <2>3
  <2>5. readn - Len(buf) = readn
    BY <2>1, InHand DEF Given
  <2>6. Promised!Take
    BY <1>a, <1>s, <2>1, <2>4, <2>5 DEF Promised!Take
  <2> QED
    BY <2>6 DEF Promised!Next
<1>5. CASE PtyEof \/ MasterDie
  <2>1. Exit /\ s2c' = s2c
    BY <1>5 DEF PtyEof, MasterDie, Exit
  <2> QED
    BY <1>s, <2>1, CloseStep
<1>6. CASE PtyNobody
  BY <1>6, <1>s, GiveUpStep DEF PtyNobody, Return
<1>7. CASE PtyDone
  <2>1. Called \/ nclients > 0
    <3>1. nclients \in Int /\ nclients >= -1
      BY <1>7, InHand DEF PtyDone, OutInv, HandedOut
    <3>2. nclients = -1 \/ nclients = 0 \/ nclients > 0
      BY ONLY <3>1
    <3> QED
      BY <1>7, <3>2 DEF PtyDone, Called
  <2>2. Called \/ \E c \in Attached : seen[c] = readn
    BY <1>7, <2>1 DEF PtyDone, OutInv, HandedOut
  <2> QED
    BY <1>7, <1>s, <2>2, GiveUpStep DEF PtyDone, Return
<1>8. CASE WriteStep
  <2> SUFFICES ASSUME NEW p \in Client,
                      PtySkip(p) \/ PtyWrite(p) \/ PtyAgain(p) \/ PtyError(p)
               PROVE  Promised!Next
    BY <1>8 DEF WriteStep
  <2>1. CASE PtyWrite(p)
    BY <2>1, HandStep
  <2>2. CASE PtySkip(p) \/ PtyAgain(p) \/ PtyError(p)
    BY <1>c, <2>2 DEF PtySkip, PtyAgain, PtyError, Writing
  <2> QED
    BY <2>1, <2>2
<1>9. CASE Sigchld
  <2>1. CASE UNCHANGED <<wireVars, pc, clients, attached, loopVars, ioVars>>
    BY <1>c, <1>9, <2>1 DEF Sigchld
  <2>2. CASE pc = "ptop" /\ Return
    <3>1. Called
      BY <1>9 DEF Sigchld, Called
    <3> QED
      BY <1>9, <1>s, <2>2, <3>1, GiveUpStep DEF Sigchld, Return
  <2>3. CASE pc = "select" /\ Return
    <3>1. buf' = buf
      BY <2>3, InHand DEF Return, Forget
    <3> QED
      BY <1>c, <1>9, <2>3, <3>1 DEF Sigchld, Return
  <2> QED
    BY <1>9, <2>1, <2>2, <2>3 DEF Sigchld
<1>10. CASE ProgOutput
  <2>1. Promised!Make
    BY <1>10, <1>a, <1>s DEF ProgOutput, Promised!Make
  <2> QED
    BY <2>1 DEF Promised!Next
<1>11. CASE ProgStart \/ ProgInput \/ ProgStop \/ ProgExit
  BY <1>c, <1>11 DEF ProgStart, ProgInput, ProgStop, ProgExit
<1> QED
  BY <1>1, <1>2, <1>3, <1>4, <1>5, <1>6, <1>7, <1>8, <1>9, <1>10, <1>11
     DEF MasterStep, ProgStep

\* The master does nothing once it has ended.
LEMMA MasterLives ==
  ASSUME MasterStep \/ Sigchld \/ MasterDie \/ ProgStep
  PROVE  listening
<1>1. CASE ClientStep
  BY <1>1 DEF ClientStep, ClientSkip, ClientHangup, ClientPush, ClientFlag, ClientSize,
     Receive, Visit
<1>2. CASE WriteStep
  BY <1>2 DEF WriteStep, PtySkip, PtyWrite, PtyAgain, PtyError, Writing
<1>3. CASE Sigchld \/ MasterDie \/ ProgStep
  BY <1>3 DEF Sigchld, MasterDie, ProgStep, ProgStart, ProgOutput, ProgInput, ProgStop, ProgExit
<1> QED
  BY <1>1, <1>2, <1>3 DEF MasterStep, Top, Select, Accept, ClientsDone, PtyRead, PtyEof,
     PtyNobody, PtySelect, PtyRetry, PtyDone

\* c reads some of what it was sent.
Takes(c) ==
  \E n \in 1..Len(s2c[c]) : s2c' = [s2c EXCEPT ![c] = SubSeq(@, n + 1, Len(@))]

\* A client reads, drops all it has not read when it ends, or leaves the streams alone.
LEMMA ClientTakes ==
  ASSUME WireTypeOK, NEW c \in Client, TtyStep(c) \/ UserStep(c)
  PROVE  s2c' = s2c \/ Takes(c)
<1>1. Hangup(c) => s2c' = s2c \/ Takes(c)
  <2> SUFFICES ASSUME Hangup(c), s2c' # s2c PROVE Takes(c)
    OBVIOUS
  <2>1. s2c' = [s2c EXCEPT ![c] = <<>>] /\ s2c \in [Client -> Seq(Nat)]
    BY DEF Hangup, WireTypeOK
  <2>2. s2c[c] # <<>>
    BY <2>1
  <2>3. Len(s2c[c]) \in 1..Len(s2c[c])
    BY <2>1, <2>2
  <2>4. SubSeq(s2c[c], Len(s2c[c]) + 1, Len(s2c[c])) = <<>>
    BY <2>1
  <2> QED
    BY <2>1, <2>3, <2>4 DEF Takes
<1>2. CASE TtyRead(c)
  BY <1>2 DEF TtyRead, Takes
<1> USE <1>1, <1>2 DEF wireVars
<1>3. \A u \in BOOLEAN : Leave(c, u) => s2c' = s2c \/ Takes(c)
  BY DEF Leave
<1>4. \A pkt, l : Send(c, pkt, l) => s2c' = s2c
  BY DEF Send
<1>5. \A l : Types(c, l) => s2c' = s2c
  BY DEF Types
<1>6. CASE TtyStep(c)
  BY <1>3, <1>4, <1>6 DEF TtyStep, Connect, TtyAttach, TtyIoctl, TtyRedraw, SendSize,
     TtyEof, TtyPush, TtyStop, TtyCheck, TtyWinch
<1>7. CASE UserStep(c)
  BY <1>3, <1>4, <1>5, <1>7 DEF UserStep, TtyKey, TtyFormFeed, TtyModeKey, TtyDetach,
     TtyPrefixed, TtySuspend, TtyContinue, TtyStdinEof, Die, Resize, SenderPush, SenderClose
<1> QED
  BY <1>6, <1>7

\* All that Broadcast sees of a step of a client is what the client reads.
LEMMA BroadcastClient ==
  ASSUME IInv, NEW c \in Client, ClientProcess(c)
  PROVE  [Promised!Next]_View
<1>t. WireTypeOK /\ TtyTypeOK
  BY DEF IInv, TypeOK
<1>1. TtyStep(c) \/ UserStep(c)
  BY DEF ClientProcess
<1>2. listening' = listening
  BY <1>1, <1>t, ClientStepEffect DEF ClientEffect
<1>3. UNCHANGED <<pc, clients, attached, readfds, buf, nclients, chld, outn, readn, seen>>
  BY DEF ClientProcess, masterVars, ioVars, progVars
<1>4. Attached' = Attached
  BY <1>3 DEF Attached
<1>5. CASE s2c' = s2c
  BY <1>2, <1>3, <1>4, <1>5 DEF View, Given, Called
<1>6. CASE Takes(c)
  <2>1. Promised!Read(c)
    BY <1>2, <1>3, <1>4, <1>6 DEF Promised!Read, Takes
  <2> QED
    BY <2>1 DEF Promised!Next
<1> QED
  BY <1>t, <1>1, <1>5, <1>6, ClientTakes

\* The master, its clients and its program together keep what Broadcast promises:
\* every step of the loops is a step of Broadcast or none of its business.
THEOREM Refinement == Spec => OutputBroadcast
<1>1. IInv /\ OutInv /\ [Next]_vars => [Promised!Next]_View
  <2> SUFFICES ASSUME IInv, OutInv, [Next]_vars PROVE [Promised!Next]_View
    OBVIOUS
  <2>1. CASE MasterProcess
    BY <2>1, MasterLives, BroadcastMaster DEF MasterProcess
  <2>2. ASSUME NEW c \in Client, ClientProcess(c) PROVE [Promised!Next]_View
    BY <2>2, BroadcastClient
  <2>3. CASE UNCHANGED vars
    BY <2>3 DEF vars, wireVars, masterVars, ioVars, progVars, Attached, View, Given, Called
  <2> QED
    BY <2>1, <2>2, <2>3 DEF Next
<1> QED
  BY <1>1, BroadcastInit, InductiveInvariant, OutputAccount, PTL
     DEF Spec, OutputBroadcast, Promised!Spec, Promised!vars, View, Given, Called
=============================================================================
