------------------------- MODULE VSocketFileProofs -------------------------
(***************************************************************************)
(* Proofs about VSocketFile, for every set of invocations.                 *)
(***************************************************************************)
EXTENDS VSocketFile, TLAPS

\* No system call leaves the values that the places and the path may have.
LEMMA StepType == TypeOK /\ [Next]_vars => TypeOK'
<1> SUFFICES ASSUME TypeOK, [Next]_vars PROVE TypeOK'
  OBVIOUS
<1> USE SocketFileAssumption DEF TypeOK, Goto
<1>1. ASSUME NEW i \in Inv, Exists(i) PROVE TypeOK'
  BY <1>1 DEF Exists
<1>2. ASSUME NEW i \in Inv, Probe(i) PROVE TypeOK'
  <2>1. \A b \in BOOLEAN : AfterProbe(i, b) \in {"bind", "remove", "connect", "gone"}
    BY DEF AfterProbe
  <2>2. Connectable \in BOOLEAN
    BY DEF Connectable
  <2>3. PICK l \in {"bind", "remove", "connect", "gone"} : Goto(i, l)
    BY <1>2, <2>1, <2>2 DEF Probe
  <2> QED
    BY <1>2, <2>2, <2>3 DEF Probe
<1>3. ASSUME NEW i \in Inv, Remove(i) PROVE TypeOK'
  BY <1>3 DEF Remove
<1>4. ASSUME NEW i \in Inv, Bind(i) PROVE TypeOK'
  BY <1>4 DEF Bind, AfterPty
<1>5. ASSUME NEW i \in Inv, Listen(i) PROVE TypeOK'
  BY <1>5 DEF Listen
<1>6. ASSUME NEW i \in Inv, Fork(i) PROVE TypeOK'
  BY <1>6 DEF Fork, AfterPty
<1>7. ASSUME NEW i \in Inv, ForkFails(i) \/ Chmod(i) PROVE TypeOK'
  BY <1>7 DEF ForkFails, Chmod, AfterPty
<1>8. ASSUME NEW i \in Inv, Connect(i) PROVE TypeOK'
  BY <1>8 DEF Connect, Connectable
<1>9. ASSUME NEW i \in Inv, Detach(i) \/ Eof(i) \/ StdinEof(i) PROVE TypeOK'
  BY <1>9 DEF Detach, Eof, StdinEof, TtyEnd
<1>10. ASSUME NEW i \in Inv, Unlink(i) PROVE TypeOK'
  BY <1>10 DEF Unlink
<1>11. ASSUME NEW i \in Inv, Die(i) PROVE TypeOK'
  BY <1>11 DEF Die
<1>12. ASSUME NEW i \in Inv, MasterEnds(i) \/ MasterFails(i) PROVE TypeOK'
  BY <1>12 DEF MasterEnds, MasterFails
<1>13. CASE UNCHANGED vars
  BY <1>13 DEF vars
<1> QED
  BY <1>1, <1>2, <1>3, <1>4, <1>5, <1>6, <1>7, <1>8, <1>9, <1>10, <1>11, <1>12, <1>13
  DEF Next

\* The path always leads to a socket somebody made, or nowhere, and a
\* terminal is attached to a session only after its connect went through.
THEOREM PathTyped == Spec => []TypeOK
<1>1. Init => TypeOK
  BY DEF Init, TypeOK
<1> QED
  BY <1>1, StepType, PTL DEF Spec

-----------------------------------------------------------------------------
(***************************************************************************)
(* The path and what was known of it.                                      *)
(***************************************************************************)

\* LookInv with the types.
IInv == TypeOK /\ LookInv

\* What a step may do to the sockets and to the path: a socket that was made
\* stays made, and the path leads on to where it led, nowhere, or to a new one.
LEMMA StepSockets ==
  ASSUME IInv, [Next]_vars
  PROVE  /\ \A m \in Inv : sock[m] # "none" => sock'[m] # "none"
         /\ path' \in {path, None} \/ (path' \in Inv /\ sock[path'] = "none")
<1> USE DEF IInv, TypeOK, Goto
<1>1. ASSUME NEW j \in Inv, Bind(j)
      PROVE  /\ \A m \in Inv : sock[m] # "none" => sock'[m] # "none"
             /\ path' = path \/ (path' = j /\ sock[j] = "none")
  BY <1>1 DEF Bind, LookInv
<1>2. ASSUME NEW j \in Inv, ~Bind(j),
             \/ Exists(j) \/ Probe(j) \/ Remove(j) \/ Listen(j) \/ Chmod(j)
             \/ Fork(j) \/ ForkFails(j) \/ Connect(j) \/ Detach(j) \/ Eof(j)
             \/ StdinEof(j) \/ Unlink(j) \/ Die(j) \/ MasterEnds(j) \/ MasterFails(j)
      PROVE  /\ \A m \in Inv : sock[m] # "none" => sock'[m] # "none"
             /\ path' \in {path, None}
  BY <1>2 DEF Exists, Probe, Remove, Listen, Chmod, Fork, ForkFails, Connect, Detach,
     Eof, StdinEof, TtyEnd, Unlink, Die, MasterEnds, MasterFails
<1>3. CASE UNCHANGED vars
  BY <1>3 DEF vars
<1> QED
  BY <1>1, <1>2, <1>3 DEF Next

\* What LookInv says of one invocation.
LookOf(i) ==
  /\ ipc[i] \in {"exists", "probe", "remove", "bind"} => sock[i] = "none"
  /\ \A m \in known[i] : sock[m] # "none"
  /\ path \in known[i] =>
       \/ ipc[i] = "remove" /\ mode[i] = "remove"
       \/ ipc[i] \in {"tty", "unlink"} /\ path = conn[i]
       \/ ipc[i] \in {"bind", "connect"}

\* What others do never brings back a path that i knew.
LEMMA LookOther ==
  ASSUME IInv, [Next]_vars, NEW i \in Inv, known'[i] = known[i], ipc'[i] = ipc[i],
         mode'[i] = mode[i], conn'[i] = conn[i],
         sock'[i] = sock[i] \/ sock[i] # "none"
  PROVE  LookOf(i)'
<1>1. LookOf(i) /\ known[i] \subseteq Inv
  BY DEF IInv, LookInv, LookOf, TypeOK
<1>2. path' \in known[i] => path' = path
  BY <1>1, StepSockets, SocketFileAssumption DEF LookOf
<1> QED
  BY <1>1, <1>2, StepSockets DEF LookOf

\* i's own steps: each look notes who lives.
LEMMA LookOwn ==
  ASSUME IInv, NEW i \in Inv,
         \/ Exists(i) \/ Probe(i) \/ Remove(i) \/ Bind(i) \/ Listen(i) \/ Chmod(i)
         \/ Fork(i) \/ ForkFails(i) \/ Connect(i) \/ Detach(i) \/ Eof(i)
         \/ StdinEof(i) \/ Unlink(i) \/ Die(i)
  PROVE  LookOf(i)'
<1> USE SocketFileAssumption DEF IInv, TypeOK, Goto, LookOf
<1>i. LookOf(i)
  BY DEF LookInv
<1>1. CASE Exists(i)
  BY <1>1, <1>i DEF Exists
<1>2. CASE Probe(i)
  <2>1. CASE Goto(i, "gone")
    BY <1>2, <2>1 DEF Probe
  <2>2. CASE Goto(i, AfterProbe(i, Connectable))
    <3>1. Connectable => AfterProbe(i, Connectable) \in {"bind", "connect", "gone"}
                           \/ (AfterProbe(i, Connectable) = "remove" /\ mode[i] = "remove")
      BY DEF AfterProbe
    <3>2. AfterProbe(i, Connectable) \in {"bind", "connect", "gone", "remove"}
      BY DEF AfterProbe
    <3>3. path \in known'[i] => Connectable
      BY <1>2, <2>2 DEF Probe, Connectable
    <3>4. \A m \in known'[i] : Live(m)
      BY <1>2, <2>2 DEF Probe
    <3>5. ipc'[i] = AfterProbe(i, Connectable)
      BY <2>2
    <3>6. ipc[i] = "probe" /\ UNCHANGED <<mode, path, sock, conn>>
      BY <1>2 DEF Probe
    <3>7. sock'[i] = "none"
      BY <1>i, <3>6
    <3>8. \A m \in known'[i] : sock'[m] # "none"
      BY <3>4, <3>6 DEF Live
    <3>9. path' \in known'[i] => ipc'[i] \in {"bind", "connect"} \/
                                 (ipc'[i] = "remove" /\ mode'[i] = "remove") \/ ipc'[i] = "gone"
      BY <3>1, <3>3, <3>5, <3>6
    <3>10. ipc'[i] = "gone" => known'[i] = {}
      BY <2>2, <3>5
    <3> QED
      BY <3>7, <3>8, <3>9, <3>10
  <2> QED
    BY <1>2, <2>1, <2>2 DEF Probe
<1>3. CASE Remove(i)
  BY <1>3, <1>i DEF Remove
<1>4. CASE Bind(i)
  BY <1>4, <1>i DEF Bind, AfterPty, Live
<1>5. CASE Listen(i)
  BY <1>5, <1>i DEF Listen
<1>6. CASE Chmod(i)
  BY <1>6, <1>i DEF Chmod, AfterPty
<1>7. CASE Fork(i)
  BY <1>7, <1>i DEF Fork, AfterPty
<1>8. CASE ForkFails(i)
  BY <1>8, <1>i DEF ForkFails, AfterPty
<1>9. CASE Connect(i)
  BY <1>9, <1>i DEF Connect, Live
<1>10. CASE Detach(i) \/ Eof(i) \/ StdinEof(i)
  BY <1>10, <1>i DEF Detach, Eof, StdinEof, TtyEnd
<1>11. CASE Unlink(i)
  BY <1>11, <1>i DEF Unlink
<1>12. CASE Die(i)
  BY <1>12, <1>i DEF Die
<1> QED
  BY <1>1, <1>2, <1>3, <1>4, <1>5, <1>6, <1>7, <1>8, <1>9, <1>10, <1>11, <1>12

\* LookInv is inductive.
LEMMA StepLook == IInv /\ [Next]_vars => LookInv'
<1> SUFFICES ASSUME IInv, [Next]_vars, NEW i \in Inv PROVE LookOf(i)'
  BY DEF LookInv, LookOf
<1> USE DEF Goto
<1>1. CASE \/ Exists(i) \/ Probe(i) \/ Remove(i) \/ Bind(i) \/ Listen(i) \/ Chmod(i)
           \/ Fork(i) \/ ForkFails(i) \/ Connect(i) \/ Detach(i) \/ Eof(i)
           \/ StdinEof(i) \/ Unlink(i) \/ Die(i)
  BY <1>1, LookOwn
<1>2. ASSUME NEW j \in Inv, j # i,
             \/ Exists(j) \/ Probe(j) \/ Remove(j) \/ Bind(j) \/ Listen(j) \/ Chmod(j)
             \/ Fork(j) \/ ForkFails(j) \/ Connect(j) \/ Detach(j) \/ Eof(j)
             \/ StdinEof(j) \/ Unlink(j) \/ Die(j)
      PROVE  LookOf(i)'
  <2>1. /\ known'[i] = known[i] /\ ipc'[i] = ipc[i] /\ mode'[i] = mode[i]
        /\ conn'[i] = conn[i] /\ sock'[i] = sock[i]
    BY <1>2 DEF IInv, TypeOK, Exists, Probe, Remove, Bind, Listen, Chmod, Fork, ForkFails,
       Connect, Detach, Eof, StdinEof, TtyEnd, Unlink, Die
  <2> QED
    BY <2>1, LookOther
<1>3. ASSUME NEW j \in Inv, MasterEnds(j) \/ MasterFails(j)
      PROVE  LookOf(i)'
  <2>1. /\ known' = known /\ ipc' = ipc /\ mode' = mode /\ conn' = conn
        /\ sock'[i] = sock[i] \/ sock[i] # "none"
    BY <1>3 DEF IInv, TypeOK, MasterEnds, MasterFails, Forked, Live
  <2> QED
    BY <2>1, LookOther
<1>4. CASE UNCHANGED vars
  BY <1>4, LookOther DEF vars
<1> QED
  BY <1>1, <1>2, <1>3, <1>4 DEF Next

\* However many invocations look at the path and remove it later by name, with
\* whatever options: a live session they knew of does not lose its path to them,
\* but for one's own and for --remove-socket without -a.
THEOREM KnownSessionsKept == Spec => OnlyNewcomersCutOff
<1>1. Init => IInv
  BY DEF Init, IInv, TypeOK, LookInv
<1>2. IInv /\ [Next]_vars => IInv'
  BY StepType, StepLook DEF IInv
<1>3. IInv /\ [Next]_vars =>
        [\A i, m \in Inv : ipc'[i] # ipc[i] /\ path = m /\ Live(m) /\ path' # m =>
           \/ m = i
           \/ ipc[i] = "unlink" /\ conn[i] = m
           \/ m \notin known[i]
           \/ ipc[i] = "remove" /\ mode[i] = "remove"]_vars
  <2> SUFFICES ASSUME IInv, Next, NEW i \in Inv, ipc'[i] # ipc[i], path \in Inv,
                      Live(path), path' # path, path \in known[i]
               PROVE  \/ ipc[i] = "unlink" /\ conn[i] = path
                      \/ ipc[i] = "remove" /\ mode[i] = "remove"
    OBVIOUS
  <2>1. ipc[i] \in {"remove", "unlink", "fork"}
    <3> PICK j \in Inv : Remove(j) \/ Unlink(j) \/ ForkFails(j) \/ MasterFails(j)
      BY SocketFileAssumption DEF Next, Exists, Probe, Bind, Listen, Chmod, Fork, Connect,
         Detach, Eof, StdinEof, TtyEnd, Die, MasterEnds
    <3>1. i = j
      BY DEF Remove, Unlink, ForkFails, MasterFails, Goto, IInv, TypeOK
    <3> QED
      BY <3>1 DEF Remove, Unlink, ForkFails, MasterFails
  <2> QED
    BY <2>1 DEF IInv, LookInv
<1> QED
  BY <1>1, <1>2, <1>3, PTL DEF Spec, OnlyNewcomersCutOff
=============================================================================
