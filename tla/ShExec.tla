------------------------------- MODULE ShExec -------------------------------
(***************************************************************************)
(* sh_exec (src/z/lib/Sh/src/libsh.c): one line of commands joined by |,   *)
(* && and ||, run one after the other by sh_interpret, with the processes  *)
(* that Proc (src/z/lib/Proc/src/libproc.c) forks for them, the pipes      *)
(* between them, and the wait for the members of a pipeline.  zs calls it  *)
(* once for every line that the user enters.                               *)
(*                                                                         *)
(* A step is what the shell does between two calls that may block, or one  *)
(* read, write or exit of a program.  The programs are external: each may  *)
(* write to its pipe, read its own to the end or not at all, and end with  *)
(* 0, 1 or a signal.                                                       *)
(***************************************************************************)
EXTENDS Integers, Sequences, FiniteSets

CONSTANTS MaxCmds,    \* commands of a line
          MaxLines,   \* lines entered
          MaxTurns,   \* the number given to `repeat'
          Capacity,   \* writes that a pipe holds
          MaxWrite    \* writes of a program

ASSUME ShAssumption ==
  {MaxCmds, MaxLines, MaxTurns, Capacity, MaxWrite} \subseteq Nat \ {0}

NOTOK == -1
Terminal == 0

\* The operator that follows a command, and what the command is: a program, a
\* builtin that runs inside of the shell, `exit', or `repeat' of a program.
Ops == {"PIPE", "CONJ", "DISJ", "COMMAND"}
Kinds == {"program", "builtin", "exit", "repeat"}

Index == 1 .. MaxCmds

VARIABLES
  line,      \* lines entered so far
  cmds,      \* the list of the shell: of each command [op, kind], and the
             \* operator that was written, as `repeat' overwrites op
  p,         \* the command that is next
  last,      \* the command that was interpreted last, 0 for none
  ret,       \* retval of it
  pc,        \* "prompt", "interpret", "wait", "drain", "return"
  piped,     \* is_pipeline
  broken,    \* the loop has been left by its break
  turns,     \* repeat_command
  it,        \* the member that the wait for the pipeline has come to
  stdin,     \* descriptor 0 of the shell: Terminal, or the pipe of a command
  pid,       \* the commands whose pid is not -1
  prog,      \* the program of a command: [st, code, wants, reads, inp]
  pipe,      \* writes that the pipe of a command holds
  left,      \* children of earlier lines that nobody has waited for
  before     \* their number when the line was entered

shell == <<cmds, p, last, ret, pc, piped, broken, turns, it>>
world == <<prog, pipe, left>>
vars == <<line, shell, stdin, pid, world, before>>

None == [st |-> "none", code |-> 0, wants |-> 0, reads |-> FALSE, inp |-> Terminal]

TypeOK ==
  /\ line \in 0 .. MaxLines /\ Len(cmds) <= MaxCmds
  /\ \A i \in DOMAIN cmds : cmds[i] \in [op : Ops, kind : Kinds, written : Ops]
  /\ p \in 1 .. Len(cmds) + 1 /\ last \in 0 .. Len(cmds) /\ it \in 1 .. MaxCmds
  /\ ret \in -1 .. 1 /\ turns \in 0 .. MaxTurns
  /\ pc \in {"prompt", "interpret", "wait", "drain", "return"}
  /\ {piped, broken} \subseteq BOOLEAN
  /\ stdin \in {Terminal} \cup DOMAIN cmds /\ pid \subseteq Index
  /\ prog \in [Index -> [st : {"none", "running", "zombie"}, code : -1 .. 1,
                         wants : 0 .. MaxWrite, reads : BOOLEAN, inp : {Terminal} \cup Index]]
  /\ pipe \in [Index -> 0 .. Capacity]
  /\ left \in [running : Nat, zombie : Nat] /\ before \in Nat

Init ==
  /\ line = 0 /\ cmds = <<>> /\ p = 1 /\ last = 0 /\ ret = 0 /\ pc = "prompt"
  /\ piped = FALSE /\ broken = FALSE /\ turns = 0 /\ it = 1 /\ stdin = Terminal
  /\ pid = {} /\ prog = [i \in Index |-> None] /\ pipe = [i \in Index |-> 0]
  /\ left = [running |-> 0, zombie |-> 0] /\ before = 0

Running(i) == prog[i].st = "running"
Zombie(i) == prog[i].st = "zombie"
Unreaped(st) == {i \in Index : prog[i].st = st}
-----------------------------------------------------------------------------
\* sh_parse, and sh_exec as far as its loop.  A list ends with a command that
\* no operator follows; a member of a pipeline is never a builtin.
EnterLine ==
  /\ pc = "prompt" /\ line < MaxLines
  /\ \E n \in Index, op \in [Index -> Ops \ {"COMMAND"}], kind \in [Index -> Kinds] :
       /\ \A i \in Index : op[i] = "PIPE" => kind[i] = "program"
       /\ LET o(i) == IF i = n THEN "COMMAND" ELSE op[i]
          IN  cmds' = [i \in 1 .. n |-> [op |-> o(i), kind |-> kind[i], written |-> o(i)]]
       /\ piped' = (n > 1 /\ op[1] = "PIPE")
  /\ line' = line + 1 /\ pc' = "interpret"
  /\ p' = 1 /\ last' = 0 /\ ret' = 0 /\ broken' = FALSE /\ it' = 1
  /\ before' = left.running + left.zombie
  /\ UNCHANGED <<turns, stdin, pid, world>>

\* The loop of sh_exec goes on with command q, or ends.
Continue(q) == p' = q /\ pc' = IF q > Len(cmds) THEN "return" ELSE "interpret"

\* Mutated: a command that succeeded has the one after && passed over.
SkipsOnSuccess(op, r) == op \in {"CONJ", "DISJ"} /\ r = 0

\* The one command that a failed && or a successful || passes over.
Skips(op, r) == (op = "CONJ" /\ r # 0) \/ (op = "DISJ" /\ r = 0)

\* Mutated: a command is passed over, and its successor with it.
NextAfterTwo(r) == IF Skips(cmds[p].op, r) THEN p + 3 ELSE p + 1

\* The command to go on with after command p has returned r; no operator
\* follows the last one.
NextAfter(r) == IF Skips(cmds[p].op, r) THEN p + 2 ELSE p + 1

\* The loop after a command that sh_interpret returned r for and that is not a
\* member of a pipeline: the next command, after the wait for the pipeline.
Interpreted(r) ==
  /\ ret' = r /\ last' = p
  /\ IF r = NOTOK
     THEN broken' = TRUE /\ pc' = "return" /\ UNCHANGED <<p, it>>
     ELSE /\ broken' = broken
          /\ IF piped THEN pc' = "drain" /\ p' = NextAfter(r) /\ it' = 1
                      ELSE Continue(NextAfter(r)) /\ it' = it

\* Proc.open: the program of command p, with what it will do; only a member of
\* a pipeline writes to a pipe, and only who has one for its input reads.
Fork ==
  \E w \in 0 .. MaxWrite, r \in BOOLEAN :
    /\ cmds[p].op # "PIPE" => w = 0
    /\ stdin = Terminal => ~r
    /\ prog' = [prog EXCEPT ![p] = [st |-> "running", code |-> 0, wants |-> w,
                                    reads |-> r, inp |-> stdin]]
    /\ pid' = pid \cup {p}

AtCommand == pc = "interpret" /\ cmds[p].op # "PIPE"

\* pwd, cd, unsetenv, and a `repeat' with wrong arguments, which returns -1.
Builtin ==
  /\ AtCommand /\ cmds[p].kind = "builtin"
  /\ \E r \in {0, 1, NOTOK} : Interpreted(r)
  /\ UNCHANGED <<line, cmds, piped, turns, stdin, pid, world, before>>

Exit ==
  /\ AtCommand /\ cmds[p].kind = "exit"
  /\ broken' = TRUE /\ pc' = "return" /\ ret' = 0 /\ last' = p
  /\ UNCHANGED <<line, cmds, p, piped, turns, it, stdin, pid, world, before>>

\* Proc.exec of a program; `repeat' makes the command the last of its list.
Exec ==
  /\ AtCommand /\ cmds[p].kind \in {"program", "repeat"}
  /\ Fork /\ pc' = "wait"
  /\ IF cmds[p].kind = "repeat"
     THEN turns' \in 0 .. MaxTurns /\ cmds' = [cmds EXCEPT ![p].op = "COMMAND"]
     ELSE UNCHANGED <<turns, cmds>>
  /\ UNCHANGED <<line, p, last, ret, piped, broken, it, stdin, pipe, left, before>>

\* No descriptor for the pipe, or no process: the line is over.
ForkFails ==
  /\ pc = "interpret" /\ cmds[p].kind \in {"program", "repeat"}
  /\ broken' = TRUE /\ pc' = "return" /\ ret' = NOTOK /\ last' = p
  /\ UNCHANGED <<line, cmds, p, piped, turns, it, stdin, pid, world, before>>

\* Proc.wait, for the pid of the command itself; the loop of `repeat' is over
\* with the first program that fails, or that cannot be forked.
Waited ==
  /\ pc = "wait" /\ Zombie(p)
  /\ LET again == prog[p].code = 0 /\ turns > 1 IN
     \/ again /\ Fork /\ turns' = turns - 1 /\ UNCHANGED <<p, last, ret, pc, broken, it>>
     \/ /\ Interpreted(IF again THEN NOTOK ELSE prog[p].code) /\ turns' = 0
        /\ prog' = [prog EXCEPT ![p] = None] /\ pid' = pid \ {p}
  /\ UNCHANGED <<line, cmds, piped, stdin, pipe, left, before>>

\* A member of a pipeline: it is not waited for, and its pipe takes the place
\* of the shell's own standard input.
OpenPipe ==
  /\ pc = "interpret" /\ cmds[p].op = "PIPE"
  /\ Fork
  /\ stdin' = p /\ Continue(p + 1) /\ last' = p /\ ret' = 0
  /\ UNCHANGED <<line, cmds, piped, broken, turns, it, pipe, left, before>>

\* The descriptors of the pipe cannot be moved once the member is forked: the line
\* is over, and nobody waits for the member.
PipeFails ==
  /\ pc = "interpret" /\ cmds[p].op = "PIPE"
  /\ Fork
  /\ broken' = TRUE /\ pc' = "return" /\ ret' = NOTOK /\ last' = p
  /\ UNCHANGED <<line, cmds, p, piped, turns, it, stdin, pipe, left, before>>

\* Mutated: the loop stops one member early.
AllWaitedEarly == it >= Len(cmds) - 1

\* The loop is at the tail, for which sh_interpret has waited.
AllWaited == it >= Len(cmds)

\* waitpid (-1) for every member before the tail that has a pid, whoever it is
\* that has ended; without children it returns at once.
NextMember == it' = it + 1 /\ UNCHANGED <<p, pc>>
Drain ==
  /\ pc = "drain"
  /\ \/ AllWaited /\ Continue(p) /\ UNCHANGED <<it, world>>
     \/ ~AllWaited /\ it \notin pid /\ NextMember /\ UNCHANGED world
     \/ /\ ~AllWaited /\ it \in pid /\ NextMember
        /\ \/ \E i \in Unreaped("zombie") :
                prog' = [prog EXCEPT ![i] = None] /\ UNCHANGED <<pipe, left>>
           \/ /\ left.zombie > 0 /\ left' = [left EXCEPT !.zombie = @ - 1]
              /\ UNCHANGED <<prog, pipe>>
           \/ /\ \A i \in Index : prog[i].st = "none"
              /\ left = [running |-> 0, zombie |-> 0]
              /\ UNCHANGED world
  /\ UNCHANGED <<line, cmds, last, ret, piped, broken, turns, stdin, pid, before>>

\* The end of sh_exec, and sh_release_list: standard input is the terminal
\* again, and the shell forgets the children that it has not waited for.
Return ==
  /\ pc = "return"
  /\ pc' = "prompt" /\ cmds' = <<>> /\ p' = 1 /\ last' = 0 /\ ret' = 0 /\ it' = 1
  /\ turns' = 0 /\ stdin' = Terminal /\ pid' = {}
  /\ left' = [running |-> left.running + Cardinality(Unreaped("running")),
              zombie |-> left.zombie + Cardinality(Unreaped("zombie"))]
  /\ prog' = [i \in Index |-> None] /\ pipe' = [i \in Index |-> 0]
  /\ UNCHANGED <<line, piped, broken, before>>
-----------------------------------------------------------------------------
\* The programs.
End(i, code) ==
  prog' = [prog EXCEPT ![i] = [None EXCEPT !.st = "zombie", !.code = code]]

\* Who has the read end of the pipe of i: its readers, and the shell itself.
Readers(i) == {j \in Index : Running(j) /\ prog[j].inp = i}
ReadEndOpen(i) == stdin = i \/ Readers(i) # {}

\* Mutated: the shell keeps the write end of the pipe it reads from.
AtEndOfShell(i) == pipe[i] = 0 /\ ~Running(i) /\ stdin # i

\* The shell has closed its write end: the pipe ends with the program of i.
AtEnd(i) == pipe[i] = 0 /\ ~Running(i)

Write(i) ==
  /\ Running(i) /\ prog[i].wants > 0 /\ ReadEndOpen(i) /\ pipe[i] < Capacity
  /\ prog' = [prog EXCEPT ![i].wants = @ - 1]
  /\ pipe' = [pipe EXCEPT ![i] = @ + 1]

Read(i) ==
  /\ Running(i) /\ prog[i].reads /\ pipe[prog[i].inp] > 0
  /\ pipe' = [pipe EXCEPT ![prog[i].inp] = @ - 1]
  /\ prog' = prog

Finish(i) ==
  /\ Running(i) /\ prog[i].wants = 0
  /\ prog[i].reads => AtEnd(prog[i].inp)
  /\ \E code \in {0, 1} : End(i, code)
  /\ pipe' = pipe

BrokenPipe(i) ==
  /\ Running(i) /\ prog[i].wants > 0 /\ ~ReadEndOpen(i)
  /\ End(i, NOTOK) /\ pipe' = pipe

\* A signal from outside, like the one of ^C.
Killed(i) == Running(i) /\ End(i, NOTOK) /\ pipe' = pipe

Program(i) == (Write(i) \/ Read(i) \/ Finish(i) \/ BrokenPipe(i))
              /\ UNCHANGED <<line, shell, stdin, pid, left, before>>

Kill(i) == Killed(i) /\ UNCHANGED <<line, shell, stdin, pid, left, before>>

\* The pipes of a line go with it: its programs write and wait no longer.
LeftEnds ==
  /\ left.running > 0
  /\ left' = [running |-> left.running - 1, zombie |-> left.zombie + 1]
  /\ UNCHANGED <<line, shell, stdin, pid, prog, pipe, before>>

Shell == Builtin \/ Exit \/ Exec \/ ForkFails \/ Waited \/ OpenPipe \/ PipeFails \/ Drain \/ Return

Next ==
  \/ EnterLine \/ Shell \/ LeftEnds
  \/ \E i \in Index : Program(i) \/ Kill(i)

\* The shell and the programs are processes that the system schedules; nobody
\* has to enter a line, and nobody has to send a signal.
Spec ==
  /\ Init /\ [][Next]_vars
  /\ WF_vars(Shell) /\ WF_vars(LeftEnds)
  /\ \A i \in Index : WF_vars(Program(i))
-----------------------------------------------------------------------------
\* Does the operator op, as it was written, ask for its second command when r is
\* the status of what ran before?
Asks(op, r) == (op = "CONJ" => r = 0) /\ (op = "DISJ" => r # 0)

\* The commands that run without being asked for: the one behind a `repeat', and
\* the one behind a command that was passed over, when the operator between them
\* is the same again, or a pipe.
Unasked ==
  \/ last = p - 1 /\ cmds[last].kind = "repeat"
  \/ last = p - 2 /\ cmds[p - 1].written \in {cmds[last].written, "PIPE"}

\* A command that is passed over was not asked for, and one that runs was, by the
\* status of all that stands in front of it, also in a || b && c, although the
\* shell passes over one command at a time and then judges the next by a status
\* that is not of its predecessor (libsh.c:525-569, 961).  The exceptions are
\* those of Unasked, in which the documentation (zs.md:9-16) says otherwise.
StatusDecides ==
  pc \in {"interpret", "return"} /\ ~broken /\ p > 1 =>
    /\ last = p - 1 \/ (last = p - 2 /\ ~Asks(cmds[last].written, ret))
    /\ \/ Asks(cmds[p - 1].written, ret) /\ (cmds[p - 1].written = "PIPE" => last = p - 1)
       \/ Unasked

\* A line that begins with a pipeline and runs to its end leaves no more
\* children behind than there were, although waitpid (-1) may reap others in
\* the place of its own, and the members have different ends (libsh.c:967-975).
NoChildLeftBehind ==
  pc = "prompt" /\ piped /\ ~broken => left.running + left.zombie <= before

\* The shell holds the read end of a full pipe that nobody else reads.
HoldsFullPipe ==
  \E i \in Index : /\ Running(i) /\ prog[i].wants > 0 /\ pipe[i] = Capacity
                   /\ stdin = i /\ Readers(i) = {}

\* sh_exec comes back to its caller, whatever the order in which the programs
\* of a line write, read and end, or else the shell itself is what keeps the
\* last program from ending: its own standard input is still the pipe.
Returns == []<>(pc = "prompt") \/ <>[]HoldsFullPipe
=============================================================================
