---------------------------- MODULE ShExecProofs ----------------------------
(***************************************************************************)
(* The conditional operators of sh_exec, and its wait for the members of a *)
(* pipeline, for lines of any length.                                      *)
(***************************************************************************)
EXTENDS ShExec, FiniteSetTheorems, TLAPS

-----------------------------------------------------------------------------
\* A command, and the programs that sh_exec may meet.
Cmd == [op : Ops, kind : Kinds, written : Ops]
Prog == [st : {"none", "running", "zombie"}, code : -1 .. 1, wants : 0 .. MaxWrite,
         reads : BOOLEAN, inp : {Terminal} \cup Index]

\* The last command has no operator, so that no index runs past it; who has a
\* pid is in front of the place that the shell has come to.
Placed ==
  /\ cmds \in Seq(Cmd)
  /\ pc \in {"interpret", "wait"} => p <= Len(cmds)
  /\ pc \in {"interpret", "wait", "drain"} => Len(cmds) > 0 /\ cmds[Len(cmds)].op = "COMMAND"
  /\ pc = "prompt" => stdin = Terminal /\ pid = {} /\ \A i \in Index : prog[i].st = "none"
  /\ pc = "wait" => cmds[p].op # "PIPE"
  /\ \A i \in Index : prog[i].reads => prog[i].inp \in Index
  /\ pc = "interpret" => \A i \in pid : i < p
  /\ pc = "wait" => \A i \in pid : i <= p
  /\ pc = "drain" => \A i \in pid : i < p /\ i < Len(cmds)

\* The children of the shell, and the members that are still to be waited for.
Children == {i \in Index : prog[i].st # "none"}
Owed ==
  CASE pc \in {"interpret", "wait"} -> pid
    [] pc = "drain" -> {i \in pid : i >= it}
    [] OTHER -> {}

\* Whoever is reaped in the place of whom: no more are there than there were and
\* than will be waited for.
AllOwed ==
  piped /\ ~broken =>
    Cardinality(Children) + left.running + left.zombie <= before + Cardinality(Owed)

WaitInv == TypeOK /\ Placed /\ AllOwed

\* Finite sets of commands, and the set of children when one member changes.
LEMMA Members ==
  /\ IsFiniteSet(Index)
  /\ \A S \in SUBSET Index : IsFiniteSet(S) /\ Cardinality(S) \in Nat
<1> USE ShAssumption DEF Index
<1>1. IsFiniteSet(Index)
  BY FS_Interval
<1>2. ASSUME NEW S \in SUBSET Index PROVE IsFiniteSet(S) /\ Cardinality(S) \in Nat
  BY <1>1, FS_Subset, FS_CardinalityType
<1> QED
  BY <1>1, <1>2

\* A larger set has no fewer members.
LEMMA NoFewer ==
  ASSUME NEW S \in SUBSET Index, NEW T \in SUBSET S
  PROVE  Cardinality(T) <= Cardinality(S)
BY Members, FS_Subset

\* A set has at most one member more when one joins it.
LEMMA OneMore ==
  ASSUME NEW S \in SUBSET Index, NEW x \in Index
  PROVE  /\ Cardinality(S \cup {x}) <= Cardinality(S) + 1
         /\ x \notin S => Cardinality(S \cup {x}) = Cardinality(S) + 1
         /\ x \in S => Cardinality(S \ {x}) = Cardinality(S) - 1
         /\ Cardinality(S \ {x}) <= Cardinality(S)
BY Members, FS_AddElement, FS_RemoveElement

\* Before the first line nothing is running.
LEMMA InitWait == Init => WaitInv
<1> SUFFICES ASSUME Init PROVE WaitInv
  OBVIOUS
<1> USE ShAssumption DEF Init, Index, NOTOK, Terminal, None
<1>1. TypeOK
  <2>1. None \in Prog /\ cmds = <<>> /\ Len(cmds) = 0
    BY DEF Prog
  <2>2. prog \in [Index -> Prog] /\ pipe \in [Index -> 0 .. Capacity]
    BY <2>1
  <2>3. DOMAIN cmds = {}
    BY <2>1
  <2>4. prog \in [Index -> [st : {"none", "running", "zombie"}, code : -1 .. 1,
                         wants : 0 .. MaxWrite, reads : BOOLEAN, inp : {Terminal} \cup Index]]
    BY <2>2 DEF Prog
  <2>5. left \in [running : Nat, zombie : Nat]
    OBVIOUS
  <2>6. /\ line \in 0 .. MaxLines /\ Len(cmds) <= MaxCmds
        /\ p \in 1 .. Len(cmds) + 1 /\ last \in 0 .. Len(cmds) /\ it \in 1 .. MaxCmds
        /\ ret \in -1 .. 1 /\ turns \in 0 .. MaxTurns /\ before \in Nat
    BY <2>1
  <2>7. piped \in BOOLEAN /\ broken \in BOOLEAN
    OBVIOUS
  <2> QED
    BY <2>2, <2>3, <2>4, <2>5, <2>6, <2>7 DEF TypeOK
<1>2. Placed
  BY DEF Placed
<1>3. AllOwed
  BY DEF AllOwed
<1> QED
  BY <1>1, <1>2, <1>3 DEF WaitInv

\* What a fork leaves: a program at p, with a pid.
LEMMA Forks ==
  ASSUME TypeOK, Placed, p \in Index, Fork
  PROVE  /\ prog' \in [Index -> Prog]
         /\ \A i \in Index : prog'[i].reads => prog'[i].inp \in Index
         /\ pid' = pid \cup {p} /\ pid' \subseteq Index
         /\ {i \in Index : prog'[i].st # "none"} = Children \cup {p}
<1> USE ShAssumption DEF Index, Prog, Terminal
<1>1. PICK w \in 0 .. MaxWrite, r \in BOOLEAN :
        /\ stdin = Terminal => ~r
        /\ prog' = [prog EXCEPT ![p] = [st |-> "running", code |-> 0, wants |-> w,
                                        reads |-> r, inp |-> stdin]]
        /\ pid' = pid \cup {p}
  BY DEF Fork
<1>2. prog \in [Index -> Prog] /\ pid \subseteq Index /\ stdin \in {Terminal} \cup Index
  <2>1. prog \in [Index -> Prog] /\ pid \subseteq Index
    BY DEF TypeOK
  <2>2. cmds \in Seq(Cmd) /\ Len(cmds) \in Nat /\ Len(cmds) <= MaxCmds
    BY DEF TypeOK, Placed
  <2>3. DOMAIN cmds \subseteq Index
    BY <2>2
  <2>4. stdin \in {Terminal} \cup DOMAIN cmds
    BY DEF TypeOK
  <2> QED
    BY <2>1, <2>3, <2>4
<1>3. [st |-> "running", code |-> 0, wants |-> w, reads |-> r, inp |-> stdin] \in Prog
  BY <1>2
<1>4. prog' \in [Index -> Prog]
  BY <1>1, <1>2, <1>3
<1>5. \A i \in Index : prog'[i].reads => prog'[i].inp \in Index
  BY <1>1, <1>2 DEF Placed
<1>6. {i \in Index : prog'[i].st # "none"} = Children \cup {p}
  BY <1>1, <1>2 DEF Children
<1> QED
  BY <1>1, <1>2, <1>4, <1>5, <1>6

\* TypeOK with the sequence and the programs as sets of functions, after a step.
LEMMA TypeIs ==
  ASSUME cmds' \in Seq(Cmd), prog' \in [Index -> Prog], pipe' \in [Index -> 0 .. Capacity],
         line' \in 0 .. MaxLines, Len(cmds') <= MaxCmds,
         p' \in 1 .. Len(cmds') + 1, last' \in 0 .. Len(cmds'), it' \in 1 .. MaxCmds,
         ret' \in -1 .. 1, turns' \in 0 .. MaxTurns,
         pc' \in {"prompt", "interpret", "wait", "drain", "return"},
         piped' \in BOOLEAN, broken' \in BOOLEAN,
         stdin' \in {Terminal} \cup DOMAIN cmds', pid' \subseteq Index,
         left' \in [running : Nat, zombie : Nat], before' \in Nat
  PROVE  TypeOK'
<1>1. \A i \in DOMAIN cmds' : cmds'[i] \in [op : Ops, kind : Kinds, written : Ops]
  <2>1. DOMAIN cmds' = 1 .. Len(cmds')
    OBVIOUS
  <2>2. \A i \in 1 .. Len(cmds') : cmds'[i] \in Cmd
    OBVIOUS
  <2> QED
    BY <2>1, <2>2 DEF Cmd
<1>2. prog' \in [Index -> [st : {"none", "running", "zombie"}, code : -1 .. 1,
                         wants : 0 .. MaxWrite, reads : BOOLEAN, inp : {Terminal} \cup Index]]
  BY DEF Prog
<1>3. {piped', broken'} \subseteq BOOLEAN
  OBVIOUS
<1> QED
  BY <1>1, <1>2, <1>3 DEF TypeOK

\* The parts of WaitInv that the loop of sh_exec changes when a command has returned r.
LEMMA Interprets ==
  ASSUME TypeOK, Placed, pc \in {"interpret", "wait"}, cmds[p].op # "PIPE",
         NEW r \in -1 .. 1, Interpreted(r), cmds' = cmds
  PROVE  /\ p' \in 1 .. Len(cmds) + 1 /\ last' \in 0 .. Len(cmds) /\ it' \in 1 .. MaxCmds
         /\ ret' \in -1 .. 1 /\ broken' \in BOOLEAN
         /\ pc' \in {"interpret", "drain", "return"}
         /\ pc' = "interpret" => p' <= Len(cmds) /\ p' > p /\ ~piped
         /\ pc' = "drain" => it' = 1 /\ p' > p
         /\ pc' = "return" => ~piped \/ broken'
         /\ ~broken' => ~broken
<1> USE ShAssumption DEF Index
<1>1. /\ p \in 1 .. Len(cmds) + 1 /\ last \in 0 .. Len(cmds) /\ it \in 1 .. MaxCmds
      /\ Len(cmds) \in Nat /\ broken \in BOOLEAN /\ piped \in BOOLEAN /\ p <= Len(cmds)
      /\ MaxCmds \in Nat \ {0}
  BY DEF TypeOK, Placed
<1>2. cmds[Len(cmds)].op = "COMMAND"
  BY DEF Placed
<1>3. NextAfter(r) \in 1 .. Len(cmds) + 1 /\ NextAfter(r) > p
  <2>1. CASE Skips(cmds[p].op, r)
    <3>1. p # Len(cmds)
      BY <1>2, <2>1 DEF Skips
    <3> QED
      BY <1>1, <3>1, <2>1 DEF NextAfter
  <2>2. CASE ~Skips(cmds[p].op, r)
    BY <1>1, <2>2 DEF NextAfter
  <2> QED
    BY <2>1, <2>2
<1>4. last' = p /\ ret' = r
  BY DEF Interpreted
<1>5. CASE r = NOTOK
  BY <1>1, <1>4, <1>5 DEF Interpreted, NOTOK
<1>6. CASE r # NOTOK /\ piped
  BY <1>1, <1>3, <1>4, <1>6 DEF Interpreted
<1>7. CASE r # NOTOK /\ ~piped
  BY <1>1, <1>3, <1>4, <1>7 DEF Interpreted, Continue
<1> QED
  BY <1>5, <1>6, <1>7

\* A program that goes on or ends stays a child, and a step of one changes
\* nothing else of the invariant.
LEMMA ProgramWait ==
  ASSUME WaitInv, UNCHANGED <<line, shell, stdin, pid, left, before>>,
         prog' \in [Index -> Prog], pipe' \in [Index -> 0 .. Capacity],
         \A i \in Index : /\ (prog'[i].st # "none") = (prog[i].st # "none")
                          /\ prog'[i].reads => prog'[i].inp \in Index
  PROVE  WaitInv'
<1> USE DEF shell, WaitInv
<1>1. TypeOK'
  <2>1. TypeOK /\ cmds \in Seq(Cmd)
    BY DEF Placed
  <2> QED
    BY <2>1, TypeIs DEF TypeOK
<1>2. Placed'
  BY DEF Placed
<1>3. AllOwed'
  <2>1. Children' = Children /\ Owed' = Owed
    BY DEF Children, Owed
  <2> QED
    BY <2>1 DEF AllOwed
<1> QED
  BY <1>1, <1>2, <1>3

\* The bounds are numbers.
LEMMA Bounds ==
  /\ MaxCmds \in Nat \ {0} /\ MaxLines \in Nat \ {0} /\ MaxTurns \in Nat \ {0}
  /\ Capacity \in Nat \ {0} /\ MaxWrite \in Nat \ {0}
BY ShAssumption

\* What the steps below need to know of a state.
LEMMA Known ==
  ASSUME WaitInv
  PROVE  /\ TypeOK /\ Placed /\ AllOwed
         /\ cmds \in Seq(Cmd) /\ Len(cmds) \in Nat /\ DOMAIN cmds = 1 .. Len(cmds)
         /\ Len(cmds) <= MaxCmds /\ MaxCmds \in Nat
         /\ prog \in [Index -> Prog] /\ pipe \in [Index -> 0 .. Capacity]
         /\ Children \subseteq Index /\ pid \subseteq Index
         /\ left \in [running : Nat, zombie : Nat] /\ before \in Nat
         /\ left.running \in Nat /\ left.zombie \in Nat
         /\ p \in 1 .. Len(cmds) + 1 /\ it \in 1 .. MaxCmds /\ turns \in 0 .. MaxTurns
         /\ 0 \notin Index
         /\ line \in 0 .. MaxLines /\ last \in 0 .. Len(cmds) /\ ret \in -1 .. 1
         /\ piped \in BOOLEAN /\ broken \in BOOLEAN /\ stdin \in {Terminal} \cup DOMAIN cmds
         /\ pc \in {"prompt", "interpret", "wait", "drain", "return"}
<1>1. TypeOK /\ Placed /\ AllOwed
  BY DEF WaitInv
<1>2. cmds \in Seq(Cmd) /\ Len(cmds) \in Nat /\ DOMAIN cmds = 1 .. Len(cmds)
  BY <1>1 DEF Placed
<1>3. prog \in [Index -> Prog] /\ pipe \in [Index -> 0 .. Capacity]
  BY <1>1 DEF TypeOK, Prog
<1>4. Children \subseteq Index
  BY DEF Children
<1>5. 0 \notin Index /\ MaxCmds \in Nat
  BY ShAssumption DEF Index
<1>6. /\ Len(cmds) <= MaxCmds /\ pid \subseteq Index
      /\ left \in [running : Nat, zombie : Nat] /\ before \in Nat
      /\ p \in 1 .. Len(cmds) + 1 /\ it \in 1 .. MaxCmds /\ turns \in 0 .. MaxTurns
  BY <1>1 DEF TypeOK
<1>7. /\ line \in 0 .. MaxLines /\ last \in 0 .. Len(cmds) /\ ret \in -1 .. 1
      /\ piped \in BOOLEAN /\ broken \in BOOLEAN /\ stdin \in {Terminal} \cup DOMAIN cmds
      /\ pc \in {"prompt", "interpret", "wait", "drain", "return"}
  BY <1>1 DEF TypeOK
<1>8. left.running \in Nat /\ left.zombie \in Nat
  BY <1>6
<1> QED
  BY <1>1, <1>2, <1>3, <1>4, <1>5, <1>6, <1>7, <1>8

\* A pipeline of which nobody is left.
LEMMA Nobody == Cardinality({}) = 0
BY FS_EmptySet

\* A new line finds no child of the one before it but those that are left.
LEMMA EnterLineWait == ASSUME WaitInv, EnterLine PROVE WaitInv'
<1>0. /\ line < MaxLines /\ pc = "prompt" /\ line' = line + 1 /\ pc' = "interpret"
      /\ p' = 1 /\ last' = 0 /\ ret' = 0 /\ broken' = FALSE /\ it' = 1
      /\ before' = left.running + left.zombie /\ turns' = turns /\ stdin' = stdin
      /\ pid' = pid /\ prog' = prog /\ pipe' = pipe /\ left' = left
  BY DEF EnterLine, world
<1>1. line' \in 0 .. MaxLines /\ it' \in 1 .. MaxCmds
  <2>1. line \in 0 .. MaxLines /\ line < MaxLines
    BY <1>0, Known
  <2> QED
    BY <1>0, <2>1, Bounds
<1>2. left' \in [running : Nat, zombie : Nat] /\ before' \in Nat
  <2>1. left.running \in Nat /\ left.zombie \in Nat /\ left \in [running : Nat, zombie : Nat]
    BY Known
  <2> QED
    BY <1>0, <2>1
<1>3. /\ ret' \in -1 .. 1 /\ turns' \in 0 .. MaxTurns
      /\ prog' \in [Index -> Prog] /\ pipe' \in [Index -> 0 .. Capacity]
  <2>1. /\ turns \in 0 .. MaxTurns
        /\ prog \in [Index -> Prog] /\ pipe \in [Index -> 0 .. Capacity]
    BY Known
  <2> QED
    BY <1>0, <2>1
<1>4. PICK n \in Index, op \in [Index -> Ops \ {"COMMAND"}], kind \in [Index -> Kinds] :
        /\ cmds' = [i \in 1 .. n |-> [op |-> IF i = n THEN "COMMAND" ELSE op[i],
                                      kind |-> kind[i],
                                      written |-> IF i = n THEN "COMMAND" ELSE op[i]]]
        /\ piped' = (n > 1 /\ op[1] = "PIPE")
  BY DEF EnterLine
<1>5. n \in 1 .. MaxCmds
  BY DEF Index
<1>6. ASSUME NEW i \in 1 .. n
      PROVE  [op |-> IF i = n THEN "COMMAND" ELSE op[i], kind |-> kind[i],
              written |-> IF i = n THEN "COMMAND" ELSE op[i]] \in Cmd
  <2>1. i \in Index
    BY <1>5, Bounds DEF Index
  <2>2. (IF i = n THEN "COMMAND" ELSE op[i]) \in Ops /\ kind[i] \in Kinds
    BY <2>1 DEF Ops
  <2> QED
    BY <2>2 DEF Cmd
<1>7. cmds' \in Seq(Cmd) /\ Len(cmds') = n /\ cmds'[n].op = "COMMAND"
  <2> DEFINE new == [i \in 1 .. n |-> [op |-> IF i = n THEN "COMMAND" ELSE op[i],
                                       kind |-> kind[i],
                                       written |-> IF i = n THEN "COMMAND" ELSE op[i]]]
  <2>1. new \in [1 .. n -> Cmd] /\ n \in Nat /\ n \in 1 .. n
    BY <1>5, <1>6, Bounds
  <2>2. new \in Seq(Cmd) /\ Len(new) = n
    BY <2>1
  <2>3. new[n].op = "COMMAND"
    BY <2>1
  <2> QED
    BY <1>4, <2>2, <2>3
<1>8. Len(cmds') <= MaxCmds /\ p' \in 1 .. Len(cmds') + 1 /\ last' \in 0 .. Len(cmds')
  BY <1>0, <1>5, <1>7, Bounds
<1>9. stdin' = Terminal /\ pid' = {} /\ \A i \in Index : prog'[i].st = "none"
  BY <1>0, Known DEF Placed
<1>10. piped' \in BOOLEAN
  BY <1>4
<1>11. TypeOK'
  <2>1. pc' \in {"prompt", "interpret", "wait", "drain", "return"} /\ broken' \in BOOLEAN
    BY <1>0
  <2>2. stdin' \in {Terminal} \cup DOMAIN cmds' /\ pid' \subseteq Index
    BY <1>9
  <2> QED
    BY <1>1, <1>2, <1>3, <1>7, <1>8, <1>10, <2>1, <2>2, TypeIs
<1>12. Placed'
  <2>1. \A i \in Index : prog'[i].reads => prog'[i].inp \in Index
    BY <1>0, Known DEF Placed
  <2> QED
    BY <1>0, <1>5, <1>7, <1>8, <1>9, <2>1, Bounds DEF Placed
<1>13. AllOwed'
  <2>1. Children' = {} /\ Owed' = {}
    BY <1>0, <1>9 DEF Children, Owed
  <2> QED
    BY <1>0, <1>2, <2>1, Nobody DEF AllOwed
<1> QED
  BY <1>11, <1>12, <1>13 DEF WaitInv

\* Where the loop goes after a command that nobody waits for.
LEMMA BuiltinWait == ASSUME WaitInv, Builtin \/ Exit \/ ForkFails PROVE WaitInv'
<1> USE Known, Bounds
<1>1. /\ UNCHANGED <<line, cmds, piped, turns, stdin, pid, world, before>>
      /\ pc = "interpret" /\ p <= Len(cmds)
  BY DEF Builtin, Exit, ForkFails, AtCommand, Placed
<1>2. /\ p' \in 1 .. Len(cmds) + 1 /\ last' \in 0 .. Len(cmds) /\ it' \in 1 .. MaxCmds
      /\ ret' \in -1 .. 1 /\ broken' \in BOOLEAN
      /\ pc' \in {"interpret", "drain", "return"}
      /\ pc' = "interpret" => p' <= Len(cmds) /\ p' > p /\ ~piped
      /\ pc' = "drain" => it' = 1 /\ p' > p
      /\ pc' = "return" => ~piped \/ broken'
      /\ ~broken' => ~broken
  <2>1. CASE Builtin
    <3>1. PICK r \in {0, 1, NOTOK} : Interpreted(r)
      BY <2>1 DEF Builtin
    <3>2. r \in -1 .. 1 /\ cmds' = cmds /\ cmds[p].op # "PIPE"
      BY <1>1, <2>1 DEF NOTOK, Builtin, AtCommand
    <3> QED
      BY <1>1, <3>1, <3>2, Interprets
  <2>2. CASE Exit \/ ForkFails
    <3>1. /\ broken' = TRUE /\ pc' = "return" /\ ret' \in {0, -1} /\ last' = p
          /\ p' = p /\ it' = it
      BY <2>2 DEF Exit, ForkFails, NOTOK
    <3> QED
      BY <1>1, <3>1
  <2> QED
    BY <2>1, <2>2
<1>3. TypeOK'
  BY <1>1, <1>2, TypeIs DEF world
<1>4. Placed'
  <2>1. \A i \in pid' : i \in Nat /\ i < p
    <3>1. pid' = pid /\ pc = "interpret" /\ Placed /\ pid \subseteq Index
      BY <1>1
    <3>2. \A i \in pid : i < p
      BY ONLY <3>1 DEF Placed
    <3>3. \A i \in Index : i \in Nat
      BY ONLY DEF Index
    <3> QED
      BY ONLY <3>1, <3>2, <3>3
  <2>2. /\ cmds' = cmds /\ pid' = pid /\ prog' = prog /\ p \in Nat /\ p' \in Nat
        /\ Len(cmds) \in Nat /\ p <= Len(cmds)
    BY <1>1, <1>2 DEF world
  <2>3. /\ cmds \in Seq(Cmd) /\ Len(cmds) > 0 /\ cmds[Len(cmds)].op = "COMMAND"
        /\ \A i \in Index : prog[i].reads => prog[i].inp \in Index
    BY <1>1 DEF Placed
  <2>4. pc' = "interpret" => p' <= Len(cmds) /\ \A i \in pid : i < p'
    BY ONLY <1>2, <2>1, <2>2
  <2>5. pc' = "drain" => \A i \in pid : i < p' /\ i < Len(cmds)
    BY ONLY <1>2, <2>1, <2>2
  <2> QED
    BY <1>2, <2>2, <2>3, <2>4, <2>5 DEF Placed
<1>5. AllOwed'
  <2> SUFFICES ASSUME piped', ~broken' PROVE AllOwed'
    BY DEF AllOwed
  <2>1. pc' = "drain" /\ it' = 1 /\ pid' = pid /\ Children' = Children
    BY <1>1, <1>2 DEF Children, world
  <2>2. \A i \in pid : i >= 1
    BY Known DEF Index
  <2>3. Owed' = pid /\ Owed = pid
    BY <1>1, <2>1, <2>2 DEF Owed
  <2> QED
    BY <1>1, <1>2, <2>1, <2>3 DEF AllOwed, world
<1> QED
  BY <1>3, <1>4, <1>5 DEF WaitInv

\* A fork adds one child, and what is owed for it.
LEMMA ForkOwed ==
  ASSUME WaitInv, p \in Index, Fork, left' = left, before' = before, piped' = piped,
         broken' = broken, Owed' = Owed \cup {p}, p \notin Owed, Owed \subseteq Index
  PROVE  AllOwed'
<1>1. Children \subseteq Index /\ TypeOK /\ Placed /\ AllOwed /\ before \in Nat
      /\ left.running \in Nat /\ left.zombie \in Nat
  BY Known
<1>2. Children' = Children \cup {p}
  BY <1>1, Forks DEF Children
<1>3. Cardinality(Children') <= Cardinality(Children) + 1
  BY <1>1, <1>2, OneMore
<1>4. Cardinality(Owed') = Cardinality(Owed) + 1
  BY OneMore
<1>5. Cardinality(Children) \in Nat /\ Cardinality(Owed) \in Nat /\ Cardinality(Children') \in Nat
  BY <1>1, <1>2, Members
<1> QED
  BY <1>1, <1>3, <1>4, <1>5 DEF AllOwed

\* A program is forked and waited for, or forked as a member of a pipeline.
LEMMA ForkWait == ASSUME WaitInv, Exec \/ OpenPipe PROVE WaitInv'
<1>1. /\ pc = "interpret" /\ Fork /\ UNCHANGED <<line, piped, broken, it, pipe, left, before>>
      /\ pc' \in {"wait", "interpret", "return"}
  BY DEF Exec, OpenPipe, AtCommand, Continue
<1>2. TypeOK /\ Placed /\ AllOwed
  BY Known
<1>3. p \in 1 .. Len(cmds) /\ p \in Index /\ Len(cmds) \in Nat /\ Len(cmds) <= MaxCmds
  BY <1>1, <1>2, Known, Bounds DEF Placed, Index
<1>4. /\ prog' \in [Index -> Prog]
      /\ \A i \in Index : prog'[i].reads => prog'[i].inp \in Index
      /\ pid' = pid \cup {p} /\ pid' \subseteq Index
  BY <1>1, <1>2, <1>3, Forks
<1>5. \A i \in pid : i \in Nat /\ i < p
  BY <1>1, Known DEF Placed, Index
<1>6. /\ cmds' \in Seq(Cmd) /\ Len(cmds') = Len(cmds) /\ cmds'[Len(cmds)].op = "COMMAND"
      /\ turns' \in 0 .. MaxTurns
      /\ pc' = "wait" => cmds'[p].op # "PIPE"
  <2>1. cmds \in Seq(Cmd) /\ cmds[Len(cmds)].op = "COMMAND" /\ turns \in 0 .. MaxTurns
    BY <1>1, Known DEF Placed
  <2>2. CASE UNCHANGED <<cmds, turns>>
    BY <1>1, <2>1, <2>2 DEF Exec, OpenPipe, AtCommand, Continue
  <2>3. CASE cmds' = [cmds EXCEPT ![p].op = "COMMAND"] /\ turns' \in 0 .. MaxTurns
    <3>1. [cmds[p] EXCEPT !.op = "COMMAND"] \in Cmd
      <4>1. cmds[p] \in Cmd
        BY <2>1, <1>3
      <4> QED
        BY <4>1 DEF Cmd, Ops
    <3>2. cmds' = [cmds EXCEPT ![p] = [cmds[p] EXCEPT !.op = "COMMAND"]]
      BY <2>3
    <3>3. cmds' \in Seq(Cmd) /\ Len(cmds') = Len(cmds)
      BY <2>1, <3>1, <3>2, <1>3
    <3>4. \A i \in 1 .. Len(cmds) : cmds'[i].op = IF i = p THEN "COMMAND" ELSE cmds[i].op
      BY <2>1, <2>3, <1>3
    <3>5. Len(cmds) \in 1 .. Len(cmds)
      BY <1>3
    <3> QED
      BY <2>1, <2>3, <3>3, <3>4, <3>5, <1>3
  <2> QED
    BY <2>2, <2>3 DEF Exec, OpenPipe
<1>7. /\ p' \in 1 .. Len(cmds) + 1 /\ last' \in 0 .. Len(cmds) /\ ret' \in -1 .. 1
      /\ stdin' \in {Terminal} \cup DOMAIN cmds'
      /\ pc' # "return" /\ p' <= Len(cmds) /\ (pc' = "interpret" => p' > p) /\ (pc' = "wait" => p' = p)
  <2>1. /\ last \in 0 .. Len(cmds) /\ ret \in -1 .. 1 /\ stdin \in {Terminal} \cup DOMAIN cmds
        /\ DOMAIN cmds = 1 .. Len(cmds) /\ DOMAIN cmds' = 1 .. Len(cmds)
    BY <1>6, Known
  <2>2. CASE Exec
    BY <1>3, <2>1, <2>2 DEF Exec
  <2>3. CASE OpenPipe
    <3>1. p # Len(cmds)
      BY <1>1, <1>2, <2>3 DEF OpenPipe, Placed
    <3>2. /\ p' = p + 1 /\ last' = p /\ ret' = 0 /\ stdin' = p
          /\ pc' = IF p + 1 > Len(cmds) THEN "return" ELSE "interpret"
      BY <2>3 DEF OpenPipe, Continue
    <3>3. p + 1 <= Len(cmds)
      BY <1>3, <3>1
    <3> QED
      BY <1>3, <2>1, <3>2, <3>3
  <2> QED
    BY <2>2, <2>3
<1>8. TypeOK'
  <2>1. /\ line' \in 0 .. MaxLines /\ it' \in 1 .. MaxCmds
        /\ left' \in [running : Nat, zombie : Nat] /\ before' \in Nat
        /\ pipe' \in [Index -> 0 .. Capacity] /\ piped' \in BOOLEAN /\ broken' \in BOOLEAN
    BY <1>1, Known
  <2>2. pc' \in {"prompt", "interpret", "wait", "drain", "return"}
    BY <1>1
  <2> QED
    BY <1>3, <1>4, <1>6, <1>7, <2>1, <2>2, TypeIs
<1>9. Placed'
  <2>1. pc' = "interpret" => \A i \in pid' : i < p'
    BY <1>3, <1>4, <1>5, <1>7
  <2>2. pc' = "wait" => \A i \in pid' : i <= p'
    BY <1>3, <1>4, <1>5, <1>7
  <2> QED
    BY <1>1, <1>3, <1>4, <1>6, <1>7, <2>1, <2>2 DEF Placed
<1>10. AllOwed'
  <2>1. Owed = pid /\ Owed' = pid \cup {p} /\ p \notin pid /\ pid \subseteq Index
    BY <1>1, <1>3, <1>4, <1>5, <1>7, Known DEF Owed
  <2> QED
    BY <1>1, <1>3, <2>1, ForkOwed
<1> QED
  BY <1>8, <1>9, <1>10 DEF WaitInv

\* A member whose pipe cannot be used stays behind, and the line is over.
LEMMA PipeFailsWait == ASSUME WaitInv, PipeFails PROVE WaitInv'
<1>1. /\ pc = "interpret" /\ Fork /\ pc' = "return" /\ broken' = TRUE /\ ret' = NOTOK
      /\ last' = p /\ UNCHANGED <<line, cmds, p, piped, turns, it, stdin, pipe, left, before>>
  BY DEF PipeFails
<1>2. TypeOK /\ Placed
  BY Known
<1>3. p \in 1 .. Len(cmds) /\ p \in Index /\ Len(cmds) \in Nat /\ Len(cmds) <= MaxCmds
  BY <1>1, <1>2, Known, Bounds DEF Placed, Index
<1>4. /\ prog' \in [Index -> Prog]
      /\ \A i \in Index : prog'[i].reads => prog'[i].inp \in Index
      /\ pid' \subseteq Index
  BY <1>1, <1>2, <1>3, Forks
<1>5. TypeOK'
  <2>1. /\ line' \in 0 .. MaxLines /\ it' \in 1 .. MaxCmds /\ turns' \in 0 .. MaxTurns
        /\ left' \in [running : Nat, zombie : Nat] /\ before' \in Nat
        /\ pipe' \in [Index -> 0 .. Capacity] /\ piped' \in BOOLEAN /\ broken' \in BOOLEAN
        /\ p' \in 1 .. Len(cmds') + 1 /\ stdin' \in {Terminal} \cup DOMAIN cmds'
        /\ cmds' \in Seq(Cmd) /\ Len(cmds') <= MaxCmds
    BY <1>1, <1>3, Known DEF Placed
  <2>2. last' \in 0 .. Len(cmds') /\ ret' \in -1 .. 1
    BY <1>1, <1>3 DEF NOTOK
  <2>3. pc' \in {"prompt", "interpret", "wait", "drain", "return"}
    BY <1>1
  <2> QED
    BY <1>4, <2>1, <2>2, <2>3, TypeIs
<1>6. Placed'
  BY <1>1, <1>2, <1>4 DEF Placed
<1>7. AllOwed'
  BY <1>1 DEF AllOwed
<1> QED
  BY <1>5, <1>6, <1>7 DEF WaitInv

\* The wait for one program: it is reaped itself, or another turn is forked.
LEMMA WaitedWait == ASSUME WaitInv, Waited PROVE WaitInv'
<1>1. /\ pc = "wait" /\ Zombie(p) /\ UNCHANGED <<line, cmds, piped, stdin, pipe, left, before>>
  BY DEF Waited
<1>2. /\ TypeOK /\ Placed /\ AllOwed /\ pid \subseteq Index /\ turns \in 0 .. MaxTurns
      /\ prog \in [Index -> Prog] /\ cmds \in Seq(Cmd)
      /\ \A i \in Index : prog[i].reads => prog[i].inp \in Index
  BY Known DEF Placed
<1>3. /\ p \in 1 .. Len(cmds) /\ p \in Index /\ Len(cmds) \in Nat /\ Len(cmds) <= MaxCmds
      /\ cmds[Len(cmds)].op = "COMMAND" /\ cmds[p].op # "PIPE"
  BY <1>1, <1>2, Known, Bounds DEF Placed, Index
<1>4. \A i \in pid : i \in Nat /\ i <= p
  BY <1>1, Known DEF Placed, Index
<1>5. /\ line' \in 0 .. MaxLines /\ left' \in [running : Nat, zombie : Nat] /\ before' \in Nat
      /\ pipe' \in [Index -> 0 .. Capacity] /\ piped' \in BOOLEAN
      /\ stdin' \in {Terminal} \cup DOMAIN cmds'
  BY <1>1, Known
<1>6. CASE /\ prog[p].code = 0 /\ turns > 1
           /\ Fork /\ turns' = turns - 1 /\ UNCHANGED <<p, last, ret, pc, broken, it>>
  <2>1. Fork /\ turns' = turns - 1 /\ UNCHANGED <<p, last, ret, pc, broken, it>>
    BY <1>6
  <2>2. /\ prog' \in [Index -> Prog]
        /\ \A i \in Index : prog'[i].reads => prog'[i].inp \in Index
        /\ pid' = pid \cup {p} /\ pid' \subseteq Index
        /\ Children' = Children \cup {p}
    BY <2>1, <1>2, <1>3, Forks DEF Children
  <2>3. TypeOK'
    <3>1. /\ p' \in 1 .. Len(cmds) + 1 /\ last' \in 0 .. Len(cmds) /\ it' \in 1 .. MaxCmds
          /\ ret' \in -1 .. 1 /\ broken' \in BOOLEAN
          /\ pc' \in {"prompt", "interpret", "wait", "drain", "return"}
      BY <2>1, Known
    <3>2. turns' \in 0 .. MaxTurns
      BY <2>1, <1>2, <1>6, Bounds
    <3> QED
      BY <1>1, <1>2, <1>3, <1>5, <2>2, <3>1, <3>2, TypeIs
  <2>4. Placed'
    BY <1>1, <1>2, <1>3, <1>4, <2>1, <2>2 DEF Placed
  <2>5. AllOwed'
    <3>1. p \in Children
      BY <1>1, <1>3 DEF Children, Zombie
    <3>2. Children' = Children
      BY <2>2, <3>1
    <3>3. Owed = pid /\ Owed' = pid \cup {p}
      BY <1>1, <2>1, <2>2 DEF Owed
    <3>4. /\ Cardinality(pid) \in Nat /\ Cardinality(pid \cup {p}) \in Nat
          /\ Cardinality(pid) <= Cardinality(pid \cup {p})
          /\ Cardinality(Children) \in Nat
      <4>1. pid \in SUBSET Index /\ pid \cup {p} \in SUBSET Index /\ Children \in SUBSET Index
        BY <1>2, <1>3 DEF Children
      <4> QED
        BY <4>1, Members, NoFewer
    <3>5. left.running \in Nat /\ left.zombie \in Nat /\ before \in Nat
      BY Known
    <3> QED
      BY <1>1, <1>2, <2>1, <3>2, <3>3, <3>4, <3>5 DEF AllOwed
  <2> QED
    BY <2>3, <2>4, <2>5 DEF WaitInv
<1>7. ASSUME NEW r \in -1 .. 1, Interpreted(r), turns' = 0,
             prog' = [prog EXCEPT ![p] = None], pid' = pid \ {p}
      PROVE  WaitInv'
  <2>1. /\ Interpreted(r) /\ turns' = 0
        /\ prog' = [prog EXCEPT ![p] = None] /\ pid' = pid \ {p}
    BY <1>7
  <2>2. r \in -1 .. 1
    OBVIOUS
  <2>3. /\ p' \in 1 .. Len(cmds) + 1 /\ last' \in 0 .. Len(cmds) /\ it' \in 1 .. MaxCmds
        /\ ret' \in -1 .. 1 /\ broken' \in BOOLEAN
        /\ pc' \in {"interpret", "drain", "return"}
        /\ pc' = "interpret" => p' <= Len(cmds) /\ p' > p /\ ~piped
        /\ pc' = "drain" => it' = 1 /\ p' > p
        /\ pc' = "return" => ~piped \/ broken'
        /\ ~broken' => ~broken
    BY <1>1, <1>2, <1>3, <2>1, <2>2, Interprets
  <2>4. /\ prog' \in [Index -> Prog]
        /\ \A i \in Index : prog'[i].reads => prog'[i].inp \in Index
        /\ Children' = Children \ {p} /\ p \in Children
    <3>1. None \in Prog /\ None.reads = FALSE /\ None.st = "none"
      BY Bounds DEF None, Prog, Terminal
    <3> QED
      BY <1>1, <1>2, <1>3, <2>1, <3>1 DEF Children, Zombie
  <2>5. pid' \subseteq Index /\ \A i \in pid' : i \in Nat /\ i < p
    BY <1>2, <1>3, <1>4, <2>1
  <2>6. TypeOK'
    <3>1. turns' \in 0 .. MaxTurns /\ pc' \in {"prompt", "interpret", "wait", "drain", "return"}
      BY <2>1, <2>3, Bounds
    <3> QED
      BY <1>1, <1>2, <1>3, <1>5, <2>3, <2>4, <2>5, <3>1, TypeIs
  <2>7. Placed'
    BY <1>1, <1>2, <1>3, <2>3, <2>4, <2>5 DEF Placed
  <2>8. AllOwed'
    <3> SUFFICES ASSUME piped', ~broken' PROVE AllOwed'
      BY DEF AllOwed
    <3>1. pc' = "drain" /\ it' = 1
      BY <1>1, <2>3
    <3>2. Owed = pid /\ Owed' = pid'
      BY <1>1, <2>5, <3>1, <1>2 DEF Owed, Index
    <3>3. /\ Cardinality(Children') = Cardinality(Children) - 1
          /\ Cardinality(pid') >= Cardinality(pid) - 1
          /\ Cardinality(pid) \in Nat /\ Cardinality(pid') \in Nat
          /\ Cardinality(Children) \in Nat
      <4>1. pid \in SUBSET Index /\ pid' \in SUBSET Index /\ Children \in SUBSET Index
        BY <1>2, <2>5 DEF Children
      <4>2. Cardinality(Children') = Cardinality(Children) - 1
        BY <1>3, <2>4, <4>1, OneMore
      <4>3. /\ Cardinality(pid) \in Nat /\ Cardinality(pid') \in Nat
            /\ Cardinality(Children) \in Nat
        BY <4>1, Members
      <4>4. Cardinality(pid') = Cardinality(pid) - 1 \/ pid' = pid
        BY <1>3, <2>1, <4>1, OneMore
      <4> QED
        BY <4>2, <4>3, <4>4
    <3>4. left.running \in Nat /\ left.zombie \in Nat /\ before \in Nat
      BY Known
    <3> QED
      <4>1. Cardinality(Children) + left.running + left.zombie <= before + Cardinality(pid)
        BY <1>1, <1>2, <2>3, <3>2 DEF AllOwed
      <4>2. Cardinality(Children') + left.running + left.zombie <= before + Cardinality(pid')
        BY <3>3, <3>4, <4>1
      <4> QED
        BY <1>1, <3>2, <4>2 DEF AllOwed
  <2> QED
    BY <2>6, <2>7, <2>8 DEF WaitInv
<1>8. prog[p].code \in -1 .. 1 /\ NOTOK \in -1 .. 1
  BY <1>2, <1>3 DEF Prog, NOTOK
<1> QED
  BY <1>6, <1>7, <1>8 DEF Waited

\* One turn of the wait for the members: somebody is reaped for each of them,
\* unless nobody is left.
LEMMA DrainWait == ASSUME WaitInv, Drain PROVE WaitInv'
<1>1. /\ pc = "drain" /\ UNCHANGED <<line, cmds, last, ret, piped, broken, turns, stdin, pid, before>>
  BY DEF Drain
<1>2. /\ TypeOK /\ Placed /\ AllOwed /\ pid \subseteq Index
      /\ prog \in [Index -> Prog] /\ cmds \in Seq(Cmd)
      /\ Children \in SUBSET Index
      /\ \A i \in Index : prog[i].reads => prog[i].inp \in Index
  BY Known DEF Placed
<1>3. /\ Len(cmds) \in Nat /\ Len(cmds) <= MaxCmds /\ cmds[Len(cmds)].op = "COMMAND"
      /\ p \in 1 .. Len(cmds) + 1 /\ it \in 1 .. MaxCmds /\ Len(cmds) > 0
  BY <1>1, Known DEF Placed
<1>4. \A i \in pid : i \in Nat /\ i < Len(cmds)
  BY <1>1, Known DEF Placed, Index
<1>5. left.running \in Nat /\ left.zombie \in Nat /\ before \in Nat
  BY Known
<1>6. /\ line' \in 0 .. MaxLines /\ last' \in 0 .. Len(cmds) /\ ret' \in -1 .. 1
      /\ turns' \in 0 .. MaxTurns /\ piped' \in BOOLEAN /\ broken' \in BOOLEAN
      /\ stdin' \in {Terminal} \cup DOMAIN cmds' /\ before' \in Nat
      /\ pid' \subseteq Index
  BY <1>1, Known
<1> DEFINE Rest(i) == {j \in pid : j >= i}
<1>7. Owed = Rest(it) /\ \A i : Rest(i) \in SUBSET Index /\ Cardinality(Rest(i)) \in Nat
  BY <1>1, <1>2, Members DEF Owed
<1> HIDE DEF Rest
<1>8. Cardinality(Children) \in Nat
  BY <1>2, Members
<1>9. CASE AllWaited /\ Continue(p) /\ UNCHANGED <<it, world>>
  <2>1. /\ p' = p /\ it' = it /\ prog' = prog /\ pipe' = pipe /\ left' = left
        /\ pc' = IF p > Len(cmds) THEN "return" ELSE "interpret"
        /\ it >= Len(cmds)
    BY <1>9 DEF AllWaited, Continue, world
  <2>2. TypeOK'
    <3>1. /\ pipe' \in [Index -> 0 .. Capacity] /\ left' \in [running : Nat, zombie : Nat]
          /\ pc' \in {"prompt", "interpret", "wait", "drain", "return"}
      BY <2>1, Known
    <3> QED
      BY <1>1, <1>2, <1>3, <1>6, <2>1, <3>1, TypeIs
  <2>3. Placed'
    <3>1. \A i \in pid : i < p
      BY <1>1, Known DEF Placed
    <3> QED
      BY <1>1, <1>2, <1>3, <2>1, <3>1 DEF Placed
  <2>4. AllOwed'
    <3>1. Rest(it) = {}
      BY <1>3, <1>4, <2>1 DEF Rest
    <3>2. Owed = {} /\ Children' = Children
      BY <1>7, <2>1, <3>1 DEF Children
    <3>3. Cardinality(Owed') \in Nat
      <4>1. Owed' \in SUBSET Index
        BY <1>1, <1>2, <2>1 DEF Owed
      <4> QED
        BY <4>1, Members
    <3> QED
      BY <1>1, <1>2, <1>5, <1>8, <2>1, <3>2, <3>3, Nobody DEF AllOwed
  <2> QED
    BY <2>2, <2>3, <2>4 DEF WaitInv
<1>10. CASE ~AllWaited
  <2>1. /\ it < Len(cmds) /\ it' = it + 1 /\ p' = p /\ pc' = pc
    BY <1>3, <1>10 DEF AllWaited, NextMember, Drain
  <2>2. /\ Owed' = Rest(it + 1)
        /\ Rest(it + 1) = Rest(it) \ {it}
        /\ it \in pid => it \in Rest(it)
        /\ it \notin pid => Rest(it + 1) = Rest(it)
    BY <1>1, <1>3, <1>4, <2>1 DEF Owed, Rest
  <2>3. /\ Cardinality(Owed') \in Nat /\ Cardinality(Owed) \in Nat
        /\ it \in pid => Cardinality(Owed') = Cardinality(Owed) - 1
        /\ it \notin pid => Owed' = Owed
    <3>1. it \in pid => it \in Index
      BY <1>2
    <3> QED
      BY <1>7, <2>2, <3>1, OneMore
  <2>4. /\ prog' \in [Index -> Prog] /\ pipe' \in [Index -> 0 .. Capacity]
        /\ left' \in [running : Nat, zombie : Nat]
        /\ left'.running \in Nat /\ left'.zombie \in Nat
        /\ \A i \in Index : prog'[i].reads => prog'[i].inp \in Index
        /\ Children' \in SUBSET Index
        /\ \/ it \notin pid /\ Children' = Children /\ left' = left
           \/ /\ it \in pid
              /\ Cardinality(Children') + left'.running + left'.zombie
                   = Cardinality(Children) + left.running + left.zombie - 1
           \/ /\ Children' = {} /\ left'.running = 0 /\ left'.zombie = 0
    <3>1. pipe \in [Index -> 0 .. Capacity] /\ left \in [running : Nat, zombie : Nat]
      BY Known
    <3>2. CASE it \notin pid /\ UNCHANGED world
      BY <3>1, <3>2, <1>2, <1>5 DEF world, Children
    <3>3. ASSUME it \in pid, NEW i \in Unreaped("zombie"),
                 prog' = [prog EXCEPT ![i] = None], UNCHANGED <<pipe, left>>
          PROVE  <2>4
      <4>1. i \in Index /\ i \in Children
        BY <3>3 DEF Unreaped, Children
      <4>2. None \in Prog /\ None.reads = FALSE /\ None.st = "none"
        BY Bounds DEF None, Prog, Terminal
      <4>3. /\ prog' \in [Index -> Prog]
            /\ \A j \in Index : prog'[j].reads => prog'[j].inp \in Index
        BY <1>2, <3>3, <4>1, <4>2
      <4>4. Children' = Children \ {i}
        BY <1>2, <3>3, <4>1, <4>2 DEF Children
      <4>5. Cardinality(Children') = Cardinality(Children) - 1
        BY <1>2, <4>1, <4>4, OneMore
      <4> QED
        <5>1. Children' \in SUBSET Index /\ left' = left /\ pipe' = pipe
          BY <1>2, <3>3, <4>4
        <5>2. Cardinality(Children') + left'.running + left'.zombie
                = Cardinality(Children) + left.running + left.zombie - 1
          BY <1>5, <1>8, <4>5, <5>1
        <5> QED
          BY <1>5, <3>1, <3>3, <4>3, <5>1, <5>2
    <3>4. CASE /\ it \in pid /\ left.zombie > 0 /\ left' = [left EXCEPT !.zombie = @ - 1]
               /\ UNCHANGED <<prog, pipe>>
      <4>1. /\ left' \in [running : Nat, zombie : Nat]
            /\ left'.running = left.running /\ left'.zombie = left.zombie - 1
        BY <1>5, <3>1, <3>4
      <4>2. Children' = Children
        BY <3>4 DEF Children
      <4> QED
        BY <1>2, <1>5, <1>8, <3>1, <3>4, <4>1, <4>2
    <3>5. CASE /\ \A i \in Index : prog[i].st = "none"
               /\ left = [running |-> 0, zombie |-> 0] /\ UNCHANGED world
      BY <1>2, <1>5, <3>1, <3>5 DEF world, Children
    <3> QED
      BY <1>10, <3>2, <3>3, <3>4, <3>5 DEF Drain
  <2>5. TypeOK'
    <3>1. it' \in 1 .. MaxCmds /\ pc' \in {"prompt", "interpret", "wait", "drain", "return"}
      BY <1>1, <1>3, <2>1, Bounds
    <3> QED
      BY <1>1, <1>2, <1>3, <1>6, <2>1, <2>4, <3>1, TypeIs
  <2>6. Placed'
    BY <1>1, <1>2, <1>3, <1>4, <2>1, <2>4 DEF Placed
  <2>7. AllOwed'
    <3>1. Cardinality(Children') \in Nat
      BY <2>4, Members
    <3>2. left'.running \in Nat /\ left'.zombie \in Nat
      BY <2>4
    <3>3. \/ Children' = {} /\ left'.running = 0 /\ left'.zombie = 0
          \/ Children' = Children /\ left' = left /\ Owed' = Owed
          \/ /\ Cardinality(Children') + left'.running + left'.zombie
                  = Cardinality(Children) + left.running + left.zombie - 1
             /\ Cardinality(Owed') = Cardinality(Owed) - 1
      BY <2>3, <2>4
    <3>4. piped' = piped /\ broken' = broken /\ before' = before
      BY <1>1
    <3> SUFFICES ASSUME piped', ~broken' PROVE AllOwed'
      BY DEF AllOwed
    <3>5. Cardinality(Children) + left.running + left.zombie <= before + Cardinality(Owed)
      BY <1>2, <3>4 DEF AllOwed
    <3>6. Cardinality(Children') + left'.running + left'.zombie <= before + Cardinality(Owed')
      <4>1. CASE Children' = {} /\ left'.running = 0 /\ left'.zombie = 0
        BY <1>5, <2>3, <4>1, Nobody
      <4>2. CASE Children' = Children /\ left' = left /\ Owed' = Owed
        BY <3>5, <4>2
      <4>3. CASE /\ Cardinality(Children') + left'.running + left'.zombie
                      = Cardinality(Children) + left.running + left.zombie - 1
                 /\ Cardinality(Owed') = Cardinality(Owed) - 1
        BY <1>5, <1>8, <2>3, <3>1, <3>2, <3>5, <4>3
      <4> QED
        BY <3>3, <4>1, <4>2, <4>3
    <3> QED
      BY <3>4, <3>6 DEF AllOwed
  <2> QED
    BY <2>5, <2>6, <2>7 DEF WaitInv
<1> QED
  BY <1>9, <1>10 DEF Drain

\* Children that are not waited for are no longer those of a line, but of the shell.
LEMMA ReturnWait == ASSUME WaitInv, Return PROVE WaitInv'
<1>1. /\ pc = "return" /\ pc' = "prompt" /\ cmds' = <<>> /\ p' = 1 /\ last' = 0 /\ ret' = 0
      /\ it' = 1 /\ turns' = 0 /\ stdin' = Terminal /\ pid' = {}
      /\ left' = [running |-> left.running + Cardinality(Unreaped("running")),
                  zombie |-> left.zombie + Cardinality(Unreaped("zombie"))]
      /\ prog' = [i \in Index |-> None] /\ pipe' = [i \in Index |-> 0]
      /\ UNCHANGED <<line, piped, broken, before>>
  BY DEF Return
<1>2. /\ AllOwed /\ left.running \in Nat /\ left.zombie \in Nat /\ before \in Nat
      /\ prog \in [Index -> Prog] /\ line \in 0 .. MaxLines
      /\ piped \in BOOLEAN /\ broken \in BOOLEAN
  BY Known
<1>3. /\ Unreaped("running") \in SUBSET Index /\ Unreaped("zombie") \in SUBSET Index
      /\ Unreaped("running") \cup Unreaped("zombie") = Children
      /\ Unreaped("running") \cap Unreaped("zombie") = {}
  BY <1>2 DEF Unreaped, Children, Prog
<1>4. /\ Cardinality(Unreaped("running")) \in Nat /\ Cardinality(Unreaped("zombie")) \in Nat
      /\ Cardinality(Children)
           = Cardinality(Unreaped("running")) + Cardinality(Unreaped("zombie"))
  BY <1>3, Members, FS_Union, Nobody
<1>5. left' \in [running : Nat, zombie : Nat]
  BY <1>1, <1>2, <1>4
<1>6. None \in Prog /\ None.reads = FALSE /\ None.st = "none"
  BY Bounds DEF None, Prog, Terminal
<1>7. TypeOK'
  <2>1. cmds' \in Seq(Cmd) /\ Len(cmds') = 0
    BY <1>1
  <2>2. /\ p' \in 1 .. Len(cmds') + 1 /\ last' \in 0 .. Len(cmds') /\ Len(cmds') <= MaxCmds
        /\ it' \in 1 .. MaxCmds /\ ret' \in -1 .. 1 /\ turns' \in 0 .. MaxTurns
    BY <1>1, <2>1, Bounds
  <2>3. prog' \in [Index -> Prog] /\ pipe' \in [Index -> 0 .. Capacity]
    BY <1>1, <1>6, Bounds
  <2>4. /\ line' \in 0 .. MaxLines /\ piped' \in BOOLEAN /\ broken' \in BOOLEAN /\ before' \in Nat
        /\ stdin' \in {Terminal} \cup DOMAIN cmds' /\ pid' \subseteq Index
        /\ pc' \in {"prompt", "interpret", "wait", "drain", "return"}
    BY <1>1, <1>2
  <2> QED
    BY <1>5, <2>1, <2>2, <2>3, <2>4, TypeIs
<1>8. Placed'
  BY <1>1, <1>6 DEF Placed
<1>9. AllOwed'
  <2>1. Children' = {} /\ Owed = {} /\ Owed' = {}
    BY <1>1, <1>6 DEF Children, Owed
  <2>2. left'.running + left'.zombie = Cardinality(Children) + left.running + left.zombie
        /\ left'.running \in Nat /\ left'.zombie \in Nat
    <3>1. /\ left'.running = left.running + Cardinality(Unreaped("running"))
          /\ left'.zombie = left.zombie + Cardinality(Unreaped("zombie"))
      BY <1>1
    <3> QED
      BY <1>2, <1>4, <3>1
  <2> QED
    BY <1>1, <1>2, <1>4, <2>1, <2>2, Nobody DEF AllOwed
<1> QED
  BY <1>7, <1>8, <1>9 DEF WaitInv

\* A child that nobody waits for becomes a zombie.
LEMMA LeftWait == ASSUME WaitInv, LeftEnds PROVE WaitInv'
<1>1. /\ left' = [running |-> left.running - 1, zombie |-> left.zombie + 1] /\ left.running > 0
      /\ UNCHANGED <<line, shell, stdin, pid, prog, pipe, before>>
  BY DEF LeftEnds
<1>2. /\ TypeOK /\ Placed /\ AllOwed /\ left.running \in Nat /\ left.zombie \in Nat /\ before \in Nat
      /\ cmds \in Seq(Cmd)
  BY Known
<1>3. /\ left' \in [running : Nat, zombie : Nat]
      /\ left'.running + left'.zombie = left.running + left.zombie
      /\ left'.running \in Nat /\ left'.zombie \in Nat
  <2> DEFINE x == left.running
             y == left.zombie
  <2>1. x \in Nat /\ y \in Nat /\ x > 0 /\ left' = [running |-> x - 1, zombie |-> y + 1]
    BY <1>1, <1>2
  <2> HIDE DEF x, y
  <2>2. x - 1 \in Nat /\ y + 1 \in Nat /\ (x - 1) + (y + 1) = x + y
    BY <2>1
  <2>3. left'.running = x - 1 /\ left'.zombie = y + 1
    BY <2>1
  <2>4. left' \in [running : Nat, zombie : Nat]
    BY <2>1, <2>2
  <2> QED
    BY <2>2, <2>3, <2>4 DEF x, y
<1>4. TypeOK'
  <2>1. /\ prog' \in [Index -> Prog] /\ pipe' \in [Index -> 0 .. Capacity]
    BY <1>1, Known
  <2> QED
    BY <1>1, <1>2, <1>3, <2>1, Known, TypeIs DEF shell
<1>5. Placed'
  <2>1. UNCHANGED <<cmds, pc, p, stdin, pid, prog>>
    BY <1>1 DEF shell
  <2> QED
    BY <1>2, <2>1 DEF Placed
<1>6. AllOwed'
  <2>1. Children' = Children /\ Owed' = Owed
    BY <1>1 DEF Children, Owed, shell
  <2>2. Cardinality(Children) \in Nat /\ Cardinality(Owed) \in Nat
    <3>1. Children \in SUBSET Index /\ Owed \in SUBSET Index
      BY Known DEF Owed
    <3> QED
      BY <3>1, Members
  <2> QED
    <3> SUFFICES ASSUME piped', ~broken' PROVE AllOwed'
      BY DEF AllOwed
    <3>1. Cardinality(Children) + left.running + left.zombie <= before + Cardinality(Owed)
      BY <1>1, <1>2 DEF AllOwed, shell
    <3>2. Cardinality(Children) + left'.running + left'.zombie
            = Cardinality(Children) + left.running + left.zombie
      <4> DEFINE x == Cardinality(Children)
      <4>1. x \in Nat
        BY <2>2
      <4> HIDE DEF x
      <4>2. x + left'.running + left'.zombie = x + left.running + left.zombie
        BY <1>2, <1>3, <4>1
      <4> QED
        BY <4>2 DEF x
    <3>3. Cardinality(Children) + left'.running + left'.zombie <= before + Cardinality(Owed)
      BY <3>1, <3>2
    <3> QED
      BY <1>1, <2>1, <3>3 DEF AllOwed
<1> QED
  BY <1>4, <1>5, <1>6 DEF WaitInv

\* A step of a program, or its end.
LEMMA ProgramsWait ==
  ASSUME WaitInv, NEW i \in Index, Program(i) \/ Kill(i)
  PROVE  WaitInv'
<1>1. /\ prog \in [Index -> Prog] /\ pipe \in [Index -> 0 .. Capacity] /\ 0 \notin Index
      /\ \A j \in Index : prog[j].reads => prog[j].inp \in Index
  BY Known DEF Placed
<1>2. UNCHANGED <<line, shell, stdin, pid, left, before>> /\ Running(i)
  BY DEF Program, Kill, Write, Read, Finish, BrokenPipe, Killed
<1>3. ASSUME NEW code \in -1 .. 1, End(i, code)
      PROVE  /\ prog' \in [Index -> Prog]
             /\ \A j \in Index : /\ (prog'[j].st # "none") = (prog[j].st # "none")
                                 /\ prog'[j].reads => prog'[j].inp \in Index
  <2> DEFINE ended == [None EXCEPT !.st = "zombie", !.code = code]
  <2>1. ended \in Prog /\ ended.reads = FALSE /\ ended.st = "zombie"
    <3>1. None \in Prog /\ None.reads = FALSE
      BY Bounds DEF None, Prog, Terminal
    <3>2. ended \in Prog /\ ended.reads = None.reads /\ ended.st = "zombie"
      BY <3>1 DEF Prog
    <3> QED
      BY <3>1, <3>2
  <2>2. prog' = [prog EXCEPT ![i] = ended]
    BY <1>3 DEF End
  <2> HIDE DEF ended
  <2> QED
    BY <1>1, <1>2, <2>1, <2>2 DEF Running
<1>4. CASE Write(i)
  <2>1. prog[i] \in Prog /\ prog[i].wants \in 0 .. MaxWrite /\ prog[i].wants > 0
    BY <1>1, <1>4 DEF Write, Prog
  <2> DEFINE wrote == [prog[i] EXCEPT !.wants = prog[i].wants - 1]
  <2>2. wrote \in Prog /\ wrote.st = prog[i].st /\ wrote.reads = prog[i].reads
        /\ wrote.inp = prog[i].inp
    BY <2>1, Bounds DEF Prog
  <2>3. prog' = [prog EXCEPT ![i] = wrote]
    BY <1>4 DEF Write
  <2>4. pipe' \in [Index -> 0 .. Capacity]
    BY <1>1, <1>4, Bounds DEF Write
  <2> HIDE DEF wrote
  <2>5. /\ prog' \in [Index -> Prog]
        /\ \A j \in Index : /\ (prog'[j].st # "none") = (prog[j].st # "none")
                            /\ prog'[j].reads => prog'[j].inp \in Index
    BY <1>1, <2>2, <2>3
  <2> QED
    BY <1>2, <2>4, <2>5, ProgramWait
<1>5. CASE Read(i)
  <2>1. prog[i].inp \in Index /\ pipe[prog[i].inp] > 0
    BY <1>1, <1>5 DEF Read
  <2>2. pipe' \in [Index -> 0 .. Capacity] /\ prog' = prog
    BY <1>1, <1>5, <2>1, Bounds DEF Read
  <2> QED
    BY <1>1, <1>2, <2>2, ProgramWait
<1>6. CASE Finish(i) \/ BrokenPipe(i) \/ Killed(i)
  <2>1. pipe' = pipe /\ \E code \in -1 .. 1 : End(i, code)
    BY <1>6 DEF Finish, BrokenPipe, Killed, NOTOK
  <2> QED
    BY <1>1, <1>2, <1>3, <2>1, ProgramWait
<1> QED
  BY <1>4, <1>5, <1>6 DEF Program, Kill

\* Every step keeps the invariant, one case for each kind of step.
LEMMA NextWait == WaitInv /\ [Next]_vars => WaitInv'
<1> SUFFICES ASSUME WaitInv, [Next]_vars PROVE WaitInv'
  OBVIOUS
<1>1. CASE UNCHANGED vars
  <2>1. /\ prog' = prog /\ pipe' = pipe
        /\ UNCHANGED <<line, shell, stdin, pid, left, before>>
    BY <1>1 DEF vars, world
  <2>2. /\ prog' \in [Index -> Prog] /\ pipe' \in [Index -> 0 .. Capacity]
        /\ \A i \in Index : prog[i].reads => prog[i].inp \in Index
    BY <2>1, Known DEF Placed
  <2> QED
    BY <2>1, <2>2, ProgramWait
<1> QED
  BY <1>1, EnterLineWait, BuiltinWait, ForkWait, PipeFailsWait, WaitedWait, DrainWait, ReturnWait, LeftWait,
     ProgramsWait DEF Next, Shell

\* The indices of the shell stay in its line, and the children of a program are
\* counted once, for lines, pipes and programs of any size (libsh.c:930-985).
THEOREM WaitInvariant == Spec => []WaitInv
BY InitWait, NextWait, PTL DEF Spec

\* The types that the runs check (libsh.c:906-985).
THEOREM TypeCorrect == Spec => []TypeOK
<1>1. WaitInv => TypeOK
  BY DEF WaitInv
<1> QED
  BY <1>1, WaitInvariant, PTL

\* A line that begins with a pipeline leaves no more children behind than it has
\* found, whoever waitpid (-1) has reaped (libsh.c:967-975).
THEOREM NoneMoreLeft == Spec => []NoChildLeftBehind
<1>1. WaitInv => NoChildLeftBehind
  <2> SUFFICES ASSUME WaitInv, pc = "prompt", piped, ~broken
               PROVE  left.running + left.zombie <= before
    BY DEF NoChildLeftBehind
  <2>1. Owed = {} /\ Children = {}
    BY Known DEF Owed, Placed, Children
  <2> QED
    BY <2>1, Known, Nobody DEF AllOwed
<1> QED
  BY <1>1, WaitInvariant, PTL

-----------------------------------------------------------------------------
(***************************************************************************)
(* The conditional operators: where the loop goes, by what was written.    *)
(***************************************************************************)
\* Only `repeat' has its operator overwritten, and only a program has a pipe.
Written(c) ==
  /\ c.op \in {c.written, "COMMAND"}
  /\ c.kind # "repeat" => c.op = c.written
  /\ c.written = "PIPE" => c.kind = "program"

AsWritten ==
  /\ \A i \in 1 .. Len(cmds) : Written(cmds[i])
  /\ Len(cmds) > 0 => cmds[Len(cmds)].written = "COMMAND"

\* StatusDecides, also while the pipeline in front of the command is waited for.
AsAsked ==
  pc \in {"interpret", "drain", "return"} /\ ~broken /\ p > 1 =>
    /\ last = p - 1 \/ (last = p - 2 /\ ~Asks(cmds[last].written, ret))
    /\ \/ Asks(cmds[p - 1].written, ret) /\ (cmds[p - 1].written = "PIPE" => last = p - 1)
       \/ Unasked

\* The operators of a line that was just entered are the ones that were written.
LEMMA EnterWritten == ASSUME EnterLine PROVE AsWritten' /\ p' = 1
<1>1. PICK n \in Index, op \in [Index -> Ops \ {"COMMAND"}], kind \in [Index -> Kinds] :
        /\ \A i \in Index : op[i] = "PIPE" => kind[i] = "program"
        /\ cmds' = [i \in 1 .. n |-> [op |-> IF i = n THEN "COMMAND" ELSE op[i],
                                      kind |-> kind[i],
                                      written |-> IF i = n THEN "COMMAND" ELSE op[i]]]
  BY DEF EnterLine
<1>2. n \in Nat \ {0} /\ n <= MaxCmds
  BY <1>1, Bounds DEF Index
<1>3. Len(cmds') = n
  BY <1>1, <1>2
<1>4. ASSUME NEW i \in 1 .. n PROVE Written(cmds'[i])
  <2>1. i \in Index
    BY <1>2, Bounds DEF Index
  <2>2. CASE i = n
    <3>1. cmds'[i] = [op |-> "COMMAND", kind |-> kind[i], written |-> "COMMAND"]
      BY <1>1, <2>2
    <3> QED
      BY <3>1 DEF Written
  <2>3. CASE i # n
    <3>1. cmds'[i] = [op |-> op[i], kind |-> kind[i], written |-> op[i]]
      BY <1>1, <2>3
    <3> QED
      BY <1>1, <2>1, <3>1 DEF Written
  <2> QED
    BY <2>2, <2>3
<1>5. n \in 1 .. n /\ cmds'[n].written = "COMMAND"
  BY <1>1, <1>2
<1>6. p' = 1
  BY DEF EnterLine
<1> QED
  BY <1>3, <1>4, <1>5, <1>6 DEF AsWritten

\* `repeat' overwrites the operator of its own command alone.
LEMMA ExecWritten == ASSUME WaitInv, AsWritten, Exec PROVE AsWritten'
<1>1. cmds \in Seq(Cmd) /\ Len(cmds) \in Nat /\ p \in 1 .. Len(cmds)
  BY Known DEF Exec, AtCommand, Placed
<1>2. CASE cmds' = cmds
  BY <1>2 DEF AsWritten
<1>3. CASE cmds[p].kind = "repeat" /\ cmds' = [cmds EXCEPT ![p].op = "COMMAND"]
  <2>1. Len(cmds') = Len(cmds)
    BY <1>1, <1>3
  <2>2. ASSUME NEW i \in 1 .. Len(cmds)
        PROVE  Written(cmds'[i]) /\ cmds'[i].written = cmds[i].written
    <3>1. CASE i = p
      <4> DEFINE c == cmds[p]
                 d == [c EXCEPT !.op = "COMMAND"]
      <4>1. c \in Cmd /\ Written(c) /\ c.kind = "repeat"
        BY <1>1, <1>3 DEF AsWritten
      <4>2. cmds'[i] = d
        BY <1>1, <1>3, <3>1
      <4>3. d.op = "COMMAND" /\ d.kind = "repeat" /\ d.written = c.written
        BY <4>1 DEF Cmd
      <4> HIDE DEF c, d
      <4>4. Written(d)
        BY <4>1, <4>3 DEF Written
      <4> QED
        BY <3>1, <4>2, <4>3, <4>4 DEF c
    <3>2. CASE i # p
      BY <1>1, <1>3, <3>2 DEF AsWritten
    <3> QED
      BY <3>1, <3>2
  <2>3. Len(cmds) > 0 => Len(cmds) \in 1 .. Len(cmds)
    BY <1>1
  <2> QED
    BY <2>1, <2>2, <2>3 DEF AsWritten
<1> QED
  BY <1>2, <1>3 DEF Exec

\* After a command that returned r the loop comes to the one that r asks for; the
\* one that it passes over is followed by another operator, or else by one of those
\* that Unasked names.
LEMMA AskedNext ==
  ASSUME WaitInv, AsWritten, pc \in {"interpret", "wait"},
         cmds[p].op # "PIPE", NEW r \in -1 .. 1, last' = p, ret' = r, p' = NextAfter(r),
         cmds' = cmds
  PROVE  AsAsked'
<1>1. Len(cmds) \in Nat /\ cmds \in Seq(Cmd) /\ p \in 1 .. Len(cmds) /\ p \in Nat
  BY Known DEF Placed
<1>2. Written(cmds[p])
  BY <1>1 DEF AsWritten
<1>3. CASE ~Skips(cmds[p].op, r)
  <2>1. p' - 1 = p
    BY <1>1, <1>3 DEF NextAfter
  <2>2. cmds[p].kind = "repeat" => Unasked'
    BY <2>1 DEF Unasked
  <2>3. cmds[p].kind # "repeat" => Asks(cmds[p].written, r)
    BY <1>2, <1>3 DEF Written, Skips, Asks
  <2> QED
    BY <2>1, <2>2, <2>3 DEF AsAsked, Asks
<1>4. CASE Skips(cmds[p].op, r)
  <2>1. p # Len(cmds)
    BY <1>4 DEF Skips, Placed, WaitInv
  <2>2. p + 1 \in 1 .. Len(cmds)
    BY <1>1, <2>1
  <2>3. cmds[p + 1].written \in Ops
    <3>1. cmds[p + 1] \in Cmd
      BY <1>1, <2>2
    <3> QED
      BY <3>1 DEF Cmd
  <2>4. cmds[p].op = cmds[p].written
    BY <1>2, <1>4 DEF Written, Skips
  <2>5. p' - 1 = p + 1 /\ p' - 2 = p
    BY <1>1, <1>4 DEF NextAfter
  <2>6. ~Asks(cmds[p].written, r)
    BY <1>4, <2>4 DEF Skips, Asks
  <2>7. CASE cmds[p + 1].written \in {cmds[p].written, "PIPE"}
    <3>1. Unasked'
      BY <2>5, <2>7 DEF Unasked
    <3> QED
      BY <2>5, <2>6, <3>1 DEF AsAsked, Asks
  <2>8. CASE cmds[p + 1].written \notin {cmds[p].written, "PIPE"}
    <3>1. Asks(cmds[p + 1].written, r) /\ cmds[p + 1].written # "PIPE"
      BY <1>4, <2>3, <2>4, <2>8 DEF Skips, Asks, Ops
    <3> QED
      BY <2>5, <2>6, <3>1 DEF AsAsked, Asks
  <2> QED
    BY <2>7, <2>8
<1> QED
  BY <1>3, <1>4

\* The same of a command that sh_interpret has returned r for.
LEMMA AskedInterpreted ==
  ASSUME WaitInv, AsWritten, pc \in {"interpret", "wait"}, cmds[p].op # "PIPE",
         NEW r \in -1 .. 1, Interpreted(r), cmds' = cmds
  PROVE  AsAsked'
<1>1. last' = p /\ ret' = r
  BY DEF Interpreted
<1>2. CASE r = NOTOK
  BY <1>2 DEF Interpreted, AsAsked
<1>3. CASE r # NOTOK
  <2>1. p' = NextAfter(r)
    BY <1>3 DEF Interpreted, Continue
  <2> QED
    BY <1>1, <2>1, AskedNext
<1> QED
  BY <1>2, <1>3

\* A member of a pipeline is followed by the next one.
LEMMA AskedPiped == ASSUME WaitInv, AsWritten, OpenPipe PROVE AsAsked'
<1>1. /\ pc = "interpret" /\ cmds[p].op = "PIPE" /\ p' = p + 1 /\ last' = p /\ cmds' = cmds
  BY DEF OpenPipe, Continue
<1>2. Len(cmds) \in Nat /\ p \in 1 .. Len(cmds) /\ p \in Nat
  BY <1>1, Known DEF Placed
<1>3. cmds[p].written = "PIPE"
  BY <1>1, <1>2 DEF AsWritten, Written
<1>4. p' - 1 = p
  BY <1>1, <1>2
<1> QED
  BY <1>1, <1>3, <1>4 DEF AsAsked, Asks

\* One case for each step of the shell; a program changes nothing of this.
LEMMA NextAsked ==
  ASSUME WaitInv, AsWritten, AsAsked, [Next]_vars PROVE AsWritten' /\ AsAsked'
<1>1. CASE EnterLine
  BY <1>1, EnterWritten DEF AsAsked
<1>2. CASE Builtin
  <2>1. /\ pc = "interpret" /\ cmds[p].op # "PIPE" /\ cmds' = cmds
        /\ \E r \in {0, 1, NOTOK} : Interpreted(r)
    BY <1>2 DEF Builtin, AtCommand
  <2>2. PICK r \in {0, 1, NOTOK} : Interpreted(r)
    BY <2>1
  <2>3. r \in -1 .. 1
    BY DEF NOTOK
  <2>4. AsAsked'
    BY <2>1, <2>2, <2>3, AskedInterpreted
  <2> QED
    BY <2>1, <2>4 DEF AsWritten
<1>3. CASE Exit \/ ForkFails \/ PipeFails
  <2>1. broken' = TRUE /\ cmds' = cmds
    BY <1>3 DEF Exit, ForkFails, PipeFails
  <2> QED
    BY <2>1 DEF AsWritten, AsAsked
<1>4. CASE Exec
  <2>1. pc' = "wait"
    BY <1>4 DEF Exec
  <2> QED
    BY <1>4, <2>1, ExecWritten DEF AsAsked
<1>5. CASE Waited
  <2>1. pc = "wait" /\ cmds[p].op # "PIPE" /\ cmds' = cmds /\ p \in Index
    <3>1. pc = "wait" /\ cmds' = cmds
      BY <1>5 DEF Waited
    <3>2. p \in 1 .. Len(cmds) /\ Len(cmds) <= MaxCmds /\ Len(cmds) \in Nat /\ MaxCmds \in Nat
      BY <3>1, Known DEF Placed
    <3>3. cmds[p].op # "PIPE"
      BY <3>1, Known DEF Placed
    <3> QED
      BY <3>1, <3>2, <3>3 DEF Index
  <2>2. CASE pc' = pc
    BY <2>1, <2>2 DEF AsWritten, AsAsked
  <2>3. CASE pc' # pc
    <3>1. prog[p].code \in -1 .. 1 /\ NOTOK \in -1 .. 1
      BY <2>1, Known DEF Prog, NOTOK
    <3> DEFINE r == IF prog[p].code = 0 /\ turns > 1 THEN NOTOK ELSE prog[p].code
    <3>2. r \in -1 .. 1 /\ Interpreted(r)
      BY <1>5, <2>3, <3>1 DEF Waited
    <3> HIDE DEF r
    <3>3. AsAsked'
      BY <2>1, <3>2, AskedInterpreted
    <3> QED
      BY <2>1, <3>3 DEF AsWritten
  <2> QED
    BY <2>2, <2>3
<1>6. CASE OpenPipe
  <2>1. cmds' = cmds
    BY <1>6 DEF OpenPipe
  <2> QED
    BY <1>6, <2>1, AskedPiped DEF AsWritten
<1>7. CASE Drain
  <2>1. UNCHANGED <<cmds, last, ret, broken>> /\ p' = p /\ pc = "drain"
    BY <1>7 DEF Drain, NextMember, Continue
  <2> QED
    BY <2>1 DEF AsWritten, AsAsked, Asks, Unasked
<1>8. CASE Return
  <2>1. cmds' = <<>> /\ pc' = "prompt"
    BY <1>8 DEF Return
  <2> QED
    BY <2>1 DEF AsWritten, AsAsked
<1>9. CASE LeftEnds \/ (\E i \in Index : Program(i) \/ Kill(i)) \/ UNCHANGED vars
  <2>1. UNCHANGED <<cmds, p, last, ret, pc, broken>>
    BY <1>9 DEF LeftEnds, Program, Kill, shell, vars
  <2> QED
    BY <2>1 DEF AsWritten, AsAsked, Asks, Unasked
<1> QED
  BY <1>1, <1>2, <1>3, <1>4, <1>5, <1>6, <1>7, <1>8, <1>9 DEF Next, Shell

\* In a line of any length no command is passed over that the status of the list in
\* front of it asks for, and none runs that it does not ask for but those behind a
\* `repeat' or behind one that was passed over by the same operator
\* (libsh.c:525-569, 930-965).
THEOREM StatusRight == Spec => []StatusDecides
<1>1. Init => AsWritten /\ AsAsked
  BY DEF Init, AsWritten, AsAsked
<1>2. WaitInv /\ AsWritten /\ AsAsked /\ [Next]_vars => AsWritten' /\ AsAsked'
  BY NextAsked
<1>3. AsAsked => StatusDecides
  BY DEF AsAsked, StatusDecides
<1> QED
  BY <1>1, <1>2, <1>3, WaitInvariant, PTL DEF Spec

=============================================================================
