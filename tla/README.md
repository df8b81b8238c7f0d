# A verification of system-zero

system-zero is a personal computing environment written in C: some fifty libraries, an
editor, an interpreter, a shell, a terminal multiplexer and the tools around them. This
directory holds TLA+ modules that model the parts of it in which something concurrent, or
something long, can go wrong, configurations that check them with TLC, and proofs for TLAPS.
The parts are:

* **V** (`src/z/lib/V/src/libv.c`), sessions that a terminal can attach to and leave;
* **Vwm** (`src/z/lib/Vwm/src/libvwm.c`), windows and frames on one terminal;
* **Sh** with **Proc** (`libsh.c`, `libproc.c`), which run a line of commands;
* the undo and redo of **E**, the editor (`src/z/lib/E/src/libe.c`);
* **`list.h`**, the doubly linked lists under Vwm, Sh, E and La;
* **talloc** (`src/y/pkg/libc/libc/mem/talloc.c`), the default allocator of y's libc.

Section 5 says what is left out, section 6 what could come next.

## 1. The system and its parts

| Part | State | Operations | What makes it correct |
|---|---|---|---|
| **V** sessions (`lib/V`) | the list of clients with their attached flags, waitattach, the pty, the socket path and its mode; in each client its terminal's size and win_changed | accept, MSG_PUSH, ATTACH, DETACH, WINCH and REDRAW, the pty's output, signals, the start-up of an invocation | clients get the output in order, flags and sizes are not stale, nobody touches a freed client, a live session can be reached, ends are noticed |
| **Vwm** windows and frames (`lib/Vwm`) | windows, frames with rows and visibility, current and last frame, child pids and ptys | split, delete, resize, change, the select loop | rows are shared out exactly, no division by zero, no deleted frame is used, children are reaped |
| `list.h` | head, tail, current, cur_idx, num_items | append, push, insert, pops, set current | the pointers are those of the list they stand for |
| **Sh**, **Proc** (`lib/Sh`, `lib/Proc`) | a list of processes with their pipes, skip and exit flags | pipelines, `&&`, `\|\|`, waiting | the right commands run, every child is waited for once, nobody waits for ever |
| **E** editor (`lib/E`) | buffers, rows, undo and redo stacks, registers | edits, undo, redo, save | undo is the inverse of the edit, nothing is lost on save |
| **La**, **I** interpreters | scopes, values with reference counts | parse, evaluate, call | values live as long as they are reachable |
| **Rline**, **Readline** | the line, history, completion | edit, complete, recall | history is kept in order |
| **Contain** | namespaces, mounts, the container's root | create, enter, clean up | what was mounted is unmounted |
| **File**, **Dir**, **Path**, **IO** | the file system | copy, rename, remove, walk | a failed copy leaves no half a file in place of the old one |
| **String** and kin, **Vmap** and kin, **Video**, **Term**, **Vui** | a buffer or a table each | pure operations | as their names say |
| **Net**, **Url**, **Json**, **Auth**, **Sys**, **OS**, ciphers, **Spell** ... | none of their own | calls | as their names say |
| `z/app`, `z/la-modules`, `z/la-lib` | none of their own | argument handling and bindings | |
| **talloc** (in `y/pkg/libc`) | chunks between two breaks, FirstFreeChunk | alloc, release, realloc, mark unused | blocks are disjoint and have their room, unused chunks are found again |
| the rest of `y` (a libc, syncdir, find, make, pager, par, archive ...) | directory trees | | trees agree after a sync |
| `x`, `l`, `j`, `d` | X selections, the newer La, small tools, tests | | |

V uses Vwm twice: the terminal client takes the key after the mode key from `Vwm.getkey`,
and the program a master runs is mostly a Vwm of its own. Vwm, E and Sh start programs with
Proc and their own fork. All of them share String, `list.h`, Term and IO by plain calls.
Only processes run concurrently; there are no threads.

### V, in more detail

`v -s path cmd` looks at the path, binds a socket to it, forks a **master** and then becomes
a **terminal client** of it. The master runs `cmd` on a pty and loops over one select:
accept a connection, read one packet of each readable client, pass the pty's output on to
the attached clients. That last part, `pty_activity`, has a select of its own in which the
master serves nobody else. A terminal client copies keys into packets and output to its
terminal, and has blocking writes. `v --send` connects, pushes data and leaves; `v_main`
itself connects once just to see whether it can. What is hard:

* two kinds of process that wait for each other through bounded queues;
* packets that are under way while the client suspends, resumes or dies;
* a list that is walked while its elements are freed;
* output that is written partially, retried, or dropped;
* flags a signal handler sets between a test and a select;
* a path in the file system that outlives, or loses, the session it names.

### Vwm, in more detail

One process owns a list of windows, each with a list of frames and a program on a pty per
frame. Its loop deletes the frames whose programs have ended, sleeps in select, handles a
key, and reads the ptys. What is hard: programs end, and SIGWINCH arrives, at any of these
places; a deletion moves the current node of a list while a loop walks it, and `last_frame`
and `last_win` point to nodes of their own; forks fail and leave frames without a program; a
window that was not visited yet has its programs forked, or resized, later than its frames;
rows are shared out with remainders.

### Sh and Proc, in more detail

`sh_exec` runs the commands of a line one after the other. A member of a pipeline is forked
and left running, with its pipe as the new standard input of the shell itself; when the last
one has ended, `waitpid (-1)` is called once per member. What is hard: who is reaped, when
the pipes lose their last reader or writer, and which status decides about the command after
`&&` or `||`.

### The undo of E, in more detail

A command records an entry of actions, each with the index of its line at that time. Undo
pops and reverts the actions one by one and stacks the opposite ones for redo. What is hard:
an index is used when other commands have come and gone; insert mode keeps an entry under
construction for as long as it lasts, and the joins that it makes push and pop entries of
their own; both histories drop their oldest entry.

### `list.h`, in more detail

Macros keep `head`, `tail`, `current`, `cur_idx` and `num_items` next to `next` and `prev`,
each macro by its own assignments. `DListInsertAt` and `DListPopAt` move the current node
away and back. `DListPush` and `DListPopTail` do not look whether the current node is the
head or the tail: that is left to whoever uses them.

### talloc, in more detail

Chunks lie side by side, each with a header that holds its own size and that of the chunk
before it, and an end chunk closes them. An allocation searches from `FirstFreeChunk` for
the first unused chunk that is large enough, splits it if the rest is worth it, or moves the
break. A release merges the chunk with its unused neighbours, `mem_mark_unused` leaves it
alone, and a realloc may shrink a block, let it grow over the next chunk, or move it. What
is hard: each size is kept twice and the search begins at a pointer that is kept beside the
chunks, so that every split and every merge has up to four places to bring into line, some
of them in the caller.

`PROJECT.json` lists the hazards of all of these with their lines.

## 2. The modules

| Module | Models |
|---|---|
| `VWire` | what the processes of a session share: the path, the listening socket, and per connection the queue of packets and the stream of output, both bounded (kernel behaviour, external) |
| `VTty` | `v_tty_main`, `tty_process_kbd`, the handlers `tty_die` and `tty_sigwinch_handler`, and `v_send` |
| `VMaster` | `pty_process`, `pty_activity`, `pty_socket_activity`, `pty_client_activity`, `update_socket_modes`, `pty_die`, and the program on the pty |
| `Broadcast` | abstract: what a session promises to the terminals attached to it about the output |
| `VSession` | their composition, the properties, the inductive invariant and the fairness; implements `Broadcast` |
| `VSocketFile` | `v_main`, `la_v_main`, `v_pty_main` and `v_sock_create` as sequences of system calls on one path, several invocations at a time |
| `Vwm` | `vwm_main`, `vwm_process_input`, windows, frames, their programs and rows |
| `ShExec` | `sh_exec`, `sh_interpret`, `proc_open`, `proc_exec`, `proc_wait`, and the programs of a line |
| `Timeline` | abstract: the texts that undo and redo promise |
| `EUndo` | the lines of a buffer, the commands that change them, insert mode, undo and redo; implements `Timeline` |
| `DListSpec` | abstract: a sequence with a cursor |
| `DList` | the macros of `list.h` on pointers; implements `DListSpec` |
| `Heap` | abstract: what the user of an allocator is promised |
| `TAlloc` | the functions of `talloc.c` on the headers of the chunks; implements `Heap` |
| `VSessionProofs`, `VSocketFileProofs`, `DListProofs`, `TAllocProofs`, `ShExecProofs`, `VwmProofs`, `EUndoProofs` | proofs about the modules they are named after |
| `Foundations` | for the proofs: induction over the naturals, that a function defined by recursion on them exists, and sequences |
| `MCVSession`, `MCVSocketFile`, `MCDList` | values of constants for TLC |

### V

`tpc[c]` and `pc` say where a process is; the head of `VTty` and of `VMaster` explain their
values. An action stands for the code from one point where the process may block, or be
seen, to the next. In the master that is: the top of the loop (`Top`, lines 742-773), the
return of select (`Select`), the accept, each client of the loop, the read of the pty, the
inner select, each `write` of the write loop, and the decision about a retry. In a client
each `write` of a packet is an action, and so is the `ioctl` before it, since the terminal
may be resized in between. A client whose write has to wait for room stays at the place
before it, and does nothing else; `input` is the place between the two halves of a turn of
its loop, when select has found the socket and stdin readable together. `todo` is the part
of the list a loop has still to visit; `readfds` is the set the code passes to select, and
after `Select` what select found.

Data is abstracted as far as no property needs it. A packet is its type and, for MSG_WINCH
and MSG_REDRAW, its window size. The redraw method is REDRAW_WINCH, the only one
`v_init_pty` sets, and the SIGWINCH it sends to the program is left out. Output is a
sequence of numbered units; a stream holds `SMax` units and is reported writable with
`LowWater` units free, which is how select and a partial write of the kernel differ. Whether
`read` on a client's socket returns 0 or an error after the master's end is one action,
`TtyEof`, as both lead to the same exit. `seen` in `VSession` is a history variable: the
last unit put into each stream.

A SIGCHLD may be that of the program's end or of its being stopped or continued
(`ProgStop`): `pty_die` handles both. `ProgStart` is what the child of `pty_child` does
between the fork and the program: it sets the size of the pty to the one its copy of Vwm
has, any size here, as that may be as old as the fork of the master, and no process waits
for it. `bychild` remembers that the size on the pty is that one.

`Broadcast` knows no loops, packets or calls: output is taken in chunks, and a chunk is
handed out to those who are attached, nobody coming or going meanwhile, until it is given
up. For that there must be a reason: nobody is attached, somebody has it all, or something
else calls. `Promised` in `VSession`
is the mapping. What `pty_activity` lets call is a signal, a connection that waits, and a
write that has failed; after a retry the chunk may be handed out from its beginning again,
which is why `Hand` may start there.

`VSocketFile` separates each call on the path (`File.exists`, connect, unlink, bind, listen,
chmod, fork, connect). Its sessions are just `listening` or `closed`. A call between bind
and listen is where `connect` is refused although a master is about to exist; the chmod goes
by name and fails when the path has been removed since. `known` is a history variable: the
sessions that lived when an invocation last looked at the path, which are those that it has
no reason to cut off.

### Vwm

`pc` is the place in the loop of `vwm_main` and `it` the frame that the loop is at. A list
is a sequence and a node its position; a pointer to a freed node is `FREED`. A frame holds
its rows, the state of its program (`none` when the fork failed, `starting` between the fork
and the child's ioctl, `running`, `held` when it has ended but another process still has its
terminal open, `zombie` when nobody has) and the rows that the program's terminal has.
`waitpid` gets a program that has ended, held or not; select and read see the end of its
terminal only when nobody holds it. A command is the key after the mode key, and one step,
except that a kill waits for its program (`reap`), as `waitpid` in `frame_kill_proc` blocks,
for good if the program does not end. `need_resize` and the set of ready descriptors are not
kept: SIGWINCH may have come at any time before the test of `need_resize`, and any program
may have closed its terminal before select, so the actions that look at them may go either
way. All frames are visible. The arithmetic of `+`, `-` and `=` is that of the code, with
C's division. Any height is possible, and low ones leave frames with one row, none, or fewer
than none. The process does not survive some of these: `+` divides by zero in a window of 4
rows per frame less 1 (`KeyDivides`), no memory can be had for fewer than no rows
(`AllocFails`), and the output of a program in a frame without rows is stored beyond its
memory (`ReadBeyond`: noticed or not).

### Sh and Proc

A step of the shell is the code between two calls that may block; one of a program is a
read, a write or its end. A program is what it will do: how often it writes, whether it
reads its standard input to the end, and its status. `stdin` is descriptor 0 of the shell
itself, `pid` the set of commands whose `pid` field is set, `left` counts children that
earlier lines have forgotten. `written` is the operator of a command as it was entered,
while `op` is what the code looks at: `repeat` overwrites it. A fork may fail, also in the
loop of `repeat` (`ForkFails`, `Waited`), and the descriptors of a pipe may, once its writer
has been forked (`PipeFails`). The kernel's rules for pipes are external: a write to a full
pipe blocks, one without a reader kills, a read ends when there is no writer.

### E

A buffer is the sequence of its lines, a line a value or `EMPTY`: what a command makes of
the text of a line is any line. A command of normal mode is one step; what it records is
computed from the buffer as the code does, in the order of the code. The change, or the
delete, of a block is given the lines that are long enough to be in it. Insert mode lasts
from `InsertMode` or `NewLine` to `Escape`; its arrow and page keys lead to any line. The
constant `Edges` names five situations in which the code records something else than it did;
a run without them checks everything else, and `join` has one of them.

### `list.h`

A macro is one step, except the loop of `DListSetCurrent`, which follows one pointer per
step, so that the two macros that use it show their intermediate states. `Owners` is a set
of sets of macros: of the lists in the libraries some are only appended to, inserted into
and popped from at their end (La's list values), some have a cursor (lines, windows,
frames), and some are histories, with the newest entry at the head. `DListAssumption` says
what all of them keep to: a list with `DListPush` or `DListPopTail` never has its current
node moved by `DListSetCurrent` or `DListAppendCurrent`. Nodes are zeroed by `Alloc` and are
popped before they are freed. `Abstract` in `DList` is the mapping to `DListSpec`.

### talloc

A function of the code is an operator of the same idea that maps a heap to a heap (`Split`,
`Absorb`, `Merge`, `Alloc`, `Free`), and a call of the user is an action that composes them
in the order of the code; `mem_realloc` is the three actions `Shrink`, `Grow` and
`MoveBlock`, one for each way it can go. Sizes and addresses count units of 8 bytes, to
which the code rounds all of them up, and which is the size of a header. `heap.headers` is
the set of addresses at which a header lies: `size` and `prev` are what it says, and are 0
where there is none, as nothing may read there. `Min (Fitting)` stands for the walk of
`mem_find_unused_chunk`, which meets the chunks in the order of their addresses; that it can
walk from `FirstFreeChunk` at all is `Tiled` and `NoneMissed`. `asked` is what the user
remembers of each block. A block may grow over the chunk that `FirstFreeChunk` points to,
and then the pointer is inside of the block (`Stale`). Shrinking, growing and releasing go
on as before: they read other headers. A release may bring the pointer back in front of its
chunk. But a search that begins inside of a block takes what the user has written there for
a header: `SearchInside` sets `lost`, and the model says nothing of what follows. `Heap` has
the same two flags, so that the refinement says what leads there: a resize in place that
makes room, and nothing else.

## 3. The runs

| Run | Instance | Shows |
|---|---|---|
| `session` | a terminal client and a sender that act once each (leave, suspend, type, die; push), two units of output, queues of two packets, streams of one unit, chunks of two | `TypeOK`, `NoFreedClient`, `AttachReplay`, `SocketModeAgrees`, `IInv`, `ChunkReachesSomebody`, `OutputBroadcast` |
| `output` | two terminal clients whose users do nothing, three units of output, streams of one unit, chunks of two | `LoneClientMissesNothing`, `OutputInOrder` |
| `live` | one terminal client with two user actions, two sizes, one unit of everything, fair | `SizeSettles`, `AttachServed`, `ExitEndsMaster`, `MasterEndEndsClients` |
| `path` | three invocations, six of the eight sets of options, symmetric | `TypeOK`, `OnlyNewcomersCutOff` |
| `list` | four nodes, the three kinds of owners | `TypeOK`, `Linked`, `LookupsAgree`, `ListRefined` |
| `sh` | two lines of up to three commands with any operators, `repeat` up to twice, pipes of one write, programs of up to two | `TypeOK`, `StatusDecides`, `NoChildLeftBehind`, `Returns` |
| `undo` | up to three lines, of a text or empty; two actions that can be undone, three with those of insert mode; two entries kept | `TypeOK`, `EveryIndexMet`, `HistoryRefined` |
| `vwm` | up to two windows, two frames in all, heights 4 and 7, counts 2 and 3, fair | `TypeOK`, `NothingFreed`, `RowsFilled`, `NoneLeftBehind`, `SizeTold`, `DeadFramesGo`, `KeysHeard` |
| `alloc` | 16 units of memory, requests of 1 and 4, rests of 2 split off | `TypeOK`, `Tiled`, `NoneMissed`, `Room`, `HeapRefined` |
| `retry` | one client, a chunk of two units and room for one | `RetryOnlyIfNothingHappened` fails |
| `join` | as `undo`, with the join of the last two lines | `HistoryRefined` fails |
| `grow` | as `alloc` | `MergesKeepFirst` fails |

**Bounds.** *V.* Users act `MaxInput[c]` times and the program writes `MaxOut` units; the
program is stopped or continued `MaxStops` times, once in `output`; what else is bounded is
so in the kernel. Two connections are needed for the order of the list to matter (head or
not, freed while another is still to visit), for a slow client next to a quick one, and for
a connection that arrives while another is attached; the master tests clients one by one,
and the head. To what the master does a sender is a connection that is never attached:
`session` has one next to a client with a busy user, and `output` two clients that are
attached both. Queues of two packets make writes block in the middle of a sequence, streams
of one unit make it write every chunk of two in part, and three units of output make two
chunks. In `live` a size that waits in the queue, or in the client that waits for room
there, can be old when it is read. Three invocations are needed on the path: a session, a
newer one that replaced it, and a client that saw the end of the first. The options left out
there add no step: `-a` does what `-a --remove-socket` does without the removal, and the
v_main of a loaded file what it does with `force`, without the removal; the proof is about
all eight.

*`list.h`.* A node is first, last, next to the current one, or none of these; with four
nodes there is one of each kind on either side, and a walk of more than one pointer.

*Sh.* Three commands are the shortest line in which one is passed over and another follows,
in which a pipeline has a member that is neither first nor last, and in which `&&` follows a
pipeline. The second line meets the children the first one left.

*talloc.* 16 units hold up to six blocks of the smaller size, or two of the larger with
something between them: enough for an unused chunk on either side of a block, for a search
that passes over a chunk that is too small, and for each outcome of a realloc, with a rest
to split off and without.

*E.* Two actions are two commands, or one of two lines with an undo in between: what undo
needs of another command is that it came before or after. Three actions allow an insert mode
that changes, breaks or joins a line and one command before it. Two entries are kept, so
that the oldest is dropped.

*Vwm.* `MaxFrames` counts all frames: a window has two, or two windows have one each, and a
deletion, a split, a move of a pointer or a change of sizes has one frame to spare and one
to get wrong. Of the heights 4 leaves two rows to the first of two frames and one to the
second, 7 is one at which `+` divides by zero, and a program may be starting while the
terminal goes from one to the other. The counts 2 and 3 reach beyond the frames and rows
there are. A window of three frames, in which a frame stands between two others, and a
remainder of more than one row are in the proofs only, which are for every number of frames
and every height.

Deadlock is checked in `list`, `undo` and `join`, where a next operation is always possible.
Nothing is said of talloc after a search inside of a block (`lost`). A session is over when
its master and clients are, a shell when no line is entered, a Vwm when its last window is
closed or the user has left: the other runs do not check it. What must not stop is stated by
liveness properties.

**Fairness.** *V* (`VSession!Fairness`): the steps of the master and of the terminal clients
are weakly fair, as the kernel schedules runnable processes and wakes those whose select or
write can go on. The child of the pty becomes the program, and the program reads its input,
eventually. What was typed when select returned is read (`input`), and a user types the
second key of a mode key sequence and continues a suspended client, eventually. No other
user action is fair, nor is the end of the program, output, a signal, or the end of a `v
--send`, which reads its standard input for as long as it likes. *Sh*: the shell, and each
program, are processes the kernel schedules; a program that has written what it wants and
read to the end of its input ends. Neither a new line nor a signal is fair. *Vwm*: the loop
is fair where it has something to do, so not in select unless a terminal of the window is at
its end (`Gone`); select has no timeout, and nothing handles SIGCHLD, so a dead program
whose terminal another process holds does not count. No program has to end, also none that
was sent SIGHUP, and no key has to be typed.

**What fails, and what it means.** Each violation run shows a place where a comment or a
document says otherwise than the code does; `PROJECT.json` quotes them.

* `retry`: the test "nothing happened" counts clients that took all of the chunk, so a chunk
  that every client took a part of is sent again from its beginning.
* `join`: undoing the join of the last two lines brings the second one back before the
  first.
* `grow`: a block that grows in place over `FirstFreeChunk` leaves the pointer inside of
  itself; the next allocation reads what the user has written there as headers.

**What liveness properties except.** `Clogged` and `HoldsFullPipe` name the one way in which
a master, or a shell, can sleep for ever. A master waits in `pty_activity` for room in the
stream of a client that is blocked writing a packet to it; a shell is the only one that
could read the pipe a program writes to. `Unkilled` is the wait of a Vwm for a program that
does not die of SIGHUP (libvwm.c:2622-2625), `NoProgram` a window without any program, where
the loop goes round without select. The properties show that there is no other way.

**Seen while modelling.** These are in the code and in the modules; no document says
otherwise, or it does so loosely, or a property names them as what it excepts:

* V: waitattach ends by a look at the newest connection only, so a sender that stays in
  front of an attached client keeps the pty unread (libv.c:752); the turn that clears it
  sleeps without the pty (754); SIGCHLD makes `pty_activity` drop the chunk in hand (589),
  also when the program was only stopped, as `SA_NOCLDSTOP` is not set; the child of the pty
  may set the size after a client has sent its own (520), and then the pty keeps the old one
  until the terminal is resized again or the client redraws: `SizeSettles` excepts this
  write; a client that has seen the end of its session removes a path that a newer session
  may have by then (480).
* V, the path, where the usage text says otherwise: "--remove-socket remove socket if exists
  and can not be connected" (161), and the code removes the path of a session that its own
  probe has just connected to (1911-1914), which `OnlyNewcomersCutOff` names as the
  exception; "-f, --force connect to socket, even when socket exists" (157), and an
  invocation without it that loses the race for the bind goes on to connect, to the session
  of the winner, as the result of `pty.main` is ignored (1960).
* Sh, where `zs.md:9-12` says that the second command of `&&` executes "if and only if the
  exit status of the first command is zero", and of `||` if it is nonzero, and `zs.md:16`
  that "possible exist combinations that might violate those semantics": in `a && b && c` a
  failure of `a` runs `c`, as one command is passed over and no second operator is looked at
  (libsh.c:961); `repeat n a && b` runs `b` whatever `a` returns, as `repeat` overwrites the
  operator of its command (407). `Unasked` in `ShExec` is these two, and `StatusDecides`
  shows that there are no others.
* Sh: in `a | b` the shell keeps the pipe as its own standard input while it waits for `a`;
  if `b` ends early `a` blocks on the full pipe, and neither the next command nor the prompt
  comes (libsh.c:978), which is `HoldsFullPipe`; a line that does not begin with a pipeline,
  like `a && b | c`, does not wait for its members (967); the duplicate of the standard
  input is not always closed.
* E: deleting all lines leaves an empty one that undo keeps (libe.c:6538); DELETE at the end
  of a line pops an action of the insert mode instead of the join's (10649); changing a
  block over an empty line pops an entry of an earlier command (7919); a file of empty lines
  only is read without an entry (8389). With `Edges` these can be examined like the join.
* Vwm: `+` divides by zero in a window of 4 rows per frame less 1 (libvwm.c:3134); without
  any program on a window the loop does not sleep and reads no key (3923); a dead program
  whose terminal another process holds keeps its frame until a key is typed (3927); a
  program that ignores SIGHUP keeps the whole Vwm waiting (2625); frames on a low terminal
  get no rows (2838); the pty of a frame is never closed (2601); SIGWINCH that arrives
  between the handling and the reset of its flag is lost (3802); the child may set its
  terminal to a size that is old (3678).
* `list.h`: `DListGetIdx` of a node that is not in the list is the index of the tail (199).
* talloc: the system call brk returns the old break when it fails, so that the test for -1
  never sees it (talloc.c:95); a first size that is refused leaves `BegBreakPoint` set, and
  the next allocation searches from NULL (465); `mem_deinit` passes the negative size of the
  arena to brk, which the kernel ignores, so that the memory stays (499).

## 4. What is proved

`VSessionProofs` proves for every number of clients, every capacity and every bound on users
and program (assumptions: `WireAssumption`, `TtyAssumption`, `MasterAssumption`, which only
say that capacities are positive and that a process is a terminal client or a sender):

* `InductiveInvariant`: `Spec => []IInv`;
* `TypeCorrect`, `ListSafe`, `AttachedUpToDate`, `ModeShown`: the invariants `TypeOK`,
  `NoFreedClient`, `AttachReplay` and `SocketModeAgrees` of the run `session`;
* `InOrder`, `ReachesSomebody`: the action properties `OutputInOrder` and
  `ChunkReachesSomebody` of the runs `output` and `session`, with their invariant,
  `OutputAccount` (`Spec => []OutInv`);
* `Refinement` (`Spec => OutputBroadcast`): a session implements `Broadcast`;
* `NothingMissed`, `SizesAgree`: the invariants `LoneClientMissesNothing` (up to the first
  SIGCHLD) and `SizeSettles` (but for the size set by the child of the pty) of the runs
  `output` and `live`.

The argument. `NoFreedClient` alone is not inductive: a loop may meet a client twice if
`todo` holds it twice, hence `Distinct(todo)`; a client may be in the backlog and in the
list at once if it can connect twice, hence `FreshInv`, which says that who has not
connected is nowhere; an accept needs a connection to take, hence the last conjunct of
`ListInv`. `AttachReplay` says of each client that the last flag in its queue, or else the
flag the master holds, is what the client counts on. It is inductive with `FreshInv`, since
an accepted connection starts with the flag cleared. Every step of a client is first reduced
to its effect on the queue and the flag (`ClientEffect`, `MasterEffect`); the heart is then
two lemmas about a queue, `AgreesAppend` and `AgreesTail`. `SocketModeAgrees` follows from
`ModeInv`: the path's mode is that of has_attached_client all the time, which is that of the
list in select. The client's removal of the path is the case in which the master's chmod
does nothing.

The output needs more. `OutInv` relates what is in hand to what each client has: the chunk
is the last that was read, the client that the write loop is at has its first `written`
units, and `nclients` counts clients that have it all. `NoFreedClient` and `Distinct(todo)`
are used here too: a client that is visited twice would be sent the chunk twice. The
refinement has one lemma per kind of step. `HandStep`: a write starts where the client is if
`written` is not 0, else with the chunk, which is what the two choices of `Hand` are.
`GiveUpStep`: when the write loop is over and no write has failed, a positive `nclients` has
its witness in `OutInv`. A client that is accepted joins nobody, as its flag is cleared; a
client joins or leaves `Attached` by its packets or its end, which the main loop handles
while no chunk is in hand. The read of a chunk, its end without anybody, the end of the
master and the program's output map to `Take`, `GiveUp`, `Close` and `Make`; whatever else
the master does, to `Call`. What is promised to a user who is alone is not inductive, as it
says nothing of the times when the client has not attached yet, or the master has not
noticed that it has; `LoneInv` says for these that the client will do nothing but attach
(`Quiet`), and that the master reads no output before it is attached and gives no chunk up
afterwards (`Served`). `SizeInv` follows a size from the ioctl to the end of the client's
queue: a size that has been read and not sent is the present one or the flag of SIGWINCH is
up, and after that the last size in the queue is, which is the same statement about a queue
as that of the attached flag (`Says`). The write of the pty's child comes at any time: it
disturbs none of the sizes on their way, and sets `bychild`, which the next size that is
handled clears.

`VSocketFileProofs` proves `PathTyped` and `KnownSessionsKept` (`Spec =>
OnlyNewcomersCutOff`), the two properties of the run `path`, for every set of invocations
and options. The second rests on `LookInv`: a socket is bound once, when its invocation has
none, so that the path never comes back to a session that lived when somebody found it to
lead elsewhere. Hence what is removed long after a look is a newcomer, the own session, or
the one the terminal was attached to; only `--remove-socket` without `-a` removes what it
has just found.

`DListProofs` proves `TypeCorrect`, `StaysLinked` (`Spec => []Linked`), `LookupsRight`
(`Spec => []LookupsAgree`) and `Refinement` (`Spec => ListRefined`) for every set of nodes
and every kind of owner that keeps to `DListAssumption`. `Linked` says that some sequence of
distinct nodes has exactly the pointers, ends, number and current node of the list. The
inductive invariant is `IInv`. `Pending` is needed because the second half of
`DListInsertAt` and `DListPopAt` runs on what the first half has left: the node must still
be outside of the list, the index to return to inside of it. `HeadCurrent` is needed for
`DListPush`, which sets `prev` of the current node for that of the head: with an owner that
pushes, the current node is the head between macros. Each macro has a lemma that names the
sequence it leads to and shows that the pointers represent it; that an owner's discipline
cannot be dropped is seen in the same place. A walk along pointers that lead from each node
of a sequence to the next one passes the nodes of that sequence, in order: `WalkedIs`, by
induction over the steps of the walk. Hence both look-ups, and hence `Chain`, the sequence
that the mapping to `DListSpec` names, is the one that the lemma of the macro named. The
refinement is then a comparison of sequences, `Ins` with `InsertAt` and `Del` with
`RemoveAt`, and of two cursors: the first half of `DListInsertAt` and `DListPopAt` maps to
no step, the second half to the whole.

`TAllocProofs` proves `TypeCorrect`, `AlwaysTiled`, `NeverMissed`, `AlwaysRoom` and
`Refinement` (`Spec => HeapRefined`) for every size of arena, every bound on memory and
every set of requests that keep to `TAllocAssumption`. Each function has a lemma that says
which chunks and sizes it leaves as they were (`Wf`, `Same`, `Alike`); `BeforeIs` shows that
`prev_chunk_size` leads back to the chunk before. A call then touches only its own blocks
(`Touches`), from which both the invariant and the refinement follow: what the abstract heap
promises about the other blocks is what the merges must not disturb. The invariant does not
say that `FirstFreeChunk` is a chunk, which `grow` refutes, but that it is in front of every
unused one and of the end chunk (`Finds`): that is kept by a block that grows over it, since
what the block has swallowed was the first unused chunk. From it follows that a search that
begins at a chunk passes over none (`LeadsOn`), and that only a resize in place, which makes
room, can leave the pointer inside of a block.

`ShExecProofs` proves `TypeCorrect`, `StatusRight` (`Spec => []StatusDecides`) and
`NoneMoreLeft` (`Spec => []NoChildLeftBehind`) for lines of any length and for pipes and
programs of any size. `StatusDecides` is about the operators as they were written, and about
every command of every line. What is passed over was not asked for; what runs was, also
behind a command that was passed over: there the status is that of the command before it,
and must be right for the next operator all the same, which is so when that is the other
one. When it is the same again, or a pipe, and behind a `repeat`, a command may run that was
not asked for (`Unasked`). `AsAsked` strengthens it: the status must fit already while the
pipeline is waited for, before the next command is looked at. `NoneMoreLeft` compares two
numbers, the children that are there when a line is done and the members of its pipelines
that nobody has waited for. `WaitInvariant` is the invariant behind it (`WaitInv`, which TLC
has checked on the run `sh` first): `Placed` says which commands of the line can have a
child at the place where the shell is, and `AllOwed` counts, at that place, how many
children there may be beyond the waits still to come. Both have to be said of every place,
since `waitpid (-1)` reaps whoever ends first: a child of an earlier line may be taken for a
member of this one, which leaves the number right and the names wrong.

`VwmProofs` proves `TypeCorrect`, `PointersGood` (`Spec => []NothingFreed`), `WindowsFilled`
(`Spec => []RowsFilled`), `ProgramsReaped` (`Spec => NoneLeftBehind`), `ProgramsTold` (`Spec
=> SizeTold`) and the invariant they follow from, `WindowsProper` (`Spec => []WinInv`), for
every number of windows and frames, every height of the terminal, those included at which
the Vwm ends, and every set of counts. `WinInv` has two halves. `WellFormed` says that every
window is `Proper`: it has no more frames than it may have, its current and last frame are
positions of its list, and its frames fill its rows, with at least 2 rows each where there
is room for 2; and that the list of windows is `Linked`: the current window is in it, and
`last_win` is too unless there is no other window. `Located` relates `pc` and `it` to the
list that the loop is in, since a loop goes on behind a frame that has gone. The argument
then has three parts. `Share` adds up: the rows of a division with a remainder given to the
first are the rows that were divided. `Current`, `Shifted` and `LastOf`, which move the
pointers when an element goes, stay in range. The loops of `+` and `-` take from, or give
to, one frame after the other: `Taking` keeps the sum of what the frames have and what is
still to take, and takes no row from a frame that has 2 or less; `Giving` goes over every
other frame at most once. Nothing is assumed of the heights: where `+` would divide by zero
it has no other step than `KeyDivides`, and the sum is kept also by frames of fewer than no
rows. The sum in `RowsFilled` and the set `Visited` are defined by recursion; they are
unfolded with the theorems of `Foundations`.

`NoneLeftBehind` and `SizeTold` compare numbers of programs before and after a step. A frame
is found by its place, the number of its window and its own number in there, and a step
moves frames from place to place: `Traced` names the place that each frame was at, and the
places whose frames have gone. A step is `Orderly` if at most frames go that have no
program, or one that has ended, if each other frame `Evolves` into the one that comes from
its place, and if a new frame has no program or one that is starting. `FrameGone` and
`WindowGone` are the two cases in which frames change their places. `OrderlyCounts` then
compares the numbers by injections between places, in either direction: from the frames that
know too little now to those that did before, and from those that had a program to those
that have one. The steps of the programs themselves (`ProgramSteps`) change one frame in its
place.

`EUndoProofs` proves `TypeCorrect`, `IndicesMet` (`Spec => []EveryIndexMet`), `Refinement`
(`Spec => HistoryRefined`) and the invariant they follow from, `EntriesLead` (`Spec =>
[]UndoInv`), for every set of lines, every size of the buffer and every number of entries
that are kept (`EUndoAssumption`). Each of the four has the hypothesis `Edges = {}`: it is
about every behaviour in which none of the five situations occurs that section 3 lists for
E, and in each of which undo does bring back another text; the run `undo` checks the same
instance. What an entry says is `Leads (e, x, y)`: there are texts from `x` to `y` such that
each action finds its line in one of them and makes the next one of it. `UndoInv` says that
there is a history `h` of `Timeline` of which the state is the `Story`: the entries of
`undo` lead from `h.text` through the texts of `h.past`, those of `redo` through the texts
of `h.future`, and the entry of an insert mode leads back to `h.text` whatever is typed into
the current line (`Free`), since the line changes without being recorded again. Three lemmas
are the heart. `MirrorTakes`: what undoing one action stacks for redo leads back, for each
of the three types, hence `ReachedLeads` for whole entries. `ReversalIs` and `PassedIs`: the
loop of `buf_undo_exec`, and undoing one entry after the other, go through the texts that
are told of, wherever the cursor is; both are recursions and rest on `Guided` of
`Foundations`. And one lemma for each command that the entry it records leads back
(`DeletionsLead`, `PutAfterLeads`, `JoinLeads`, `BrokenTakes` ...), for any number of lines.
Each action then `Continues` the story, and `Moves` is the step of `Timeline` that it maps
to, or none.

`Foundations` states induction without an operator as a parameter: `Induction` is about a
set of naturals, and `Recursion` says that for each `a` and each function `F` of steps there
is an `f` with `Goes (f, S, a, n, F)`, that is `f[0] = a` and `f[i + 1] = F[i, f[i]]`.
`Guided` is the same for steps that are good only from the place that the recursion has
reached. What is to be shown by induction is given as a set of the numbers it holds for.
Both rest on `WellFoundedInduction` of the library.

Only model-checked: in E the situations of `Edges`; and all liveness properties
(`AttachServed`, `ExitEndsMaster`, `MasterEndEndsClients`, `DeadFramesGo`, `KeysHeard` and
`Returns` of Sh), which are out of the prover's reach, as is ENABLED.

## 5. What is not modelled

In V: getters and setters, the inner Vwm's commands, saving of images, the exec of the
program and its environment, the status pipe, failures of `malloc`, `socket` and `fcntl`. A
packet is read whole, as the kernel delivers what one write put there unless the queue ran
full in the middle of it. Descriptor numbers are not modelled, so neither is their reuse.

In Vwm: the terminal emulation and its screen contents, logs, the editor and shell started
from inside, `atexit` and `at_frame` callbacks of scripts, hidden frames; what the memory of
a frame holds, so that what a frame without rows writes over is known only as far as it may
end the process; and a terminal that takes no output, so that the loop blocks in a write.

In talloc: a brk that fails, sizes that are refused, a release of NULL, what blocks contain,
and the listing for debugging. What a search makes of the bytes of a block is not known
(`lost`); the header of a chunk that has become a part of another is zeroed, as nothing
reads it but such a search. The next arena after `mem_deinit` begins at address 0 of a new
heap.

In Sh and Proc: words and redirections, background commands, scripts read from files,
reading a child's output into a string. In E: the text of a line, columns, registers, marks,
search, the command line, several windows, writing files. In `list.h`: the singly linked
macros, and nodes that move from one list to another.

The other parts, and why:

* **La, I, Rline, Re, Json** and kin: sequential processing of text over one state. A model
  that says something about them would be the language's semantics, statement by statement.
* **String** and kin, hash tables, digests, **Spell**, **Sudoku**: pure functions over
  bytes, without a state that a sequence of calls could bring into disorder.
* **File**, **Dir**, **Path**, **Net**, **Auth**, **Contain**, **OS**: calls of the system,
  one after the other, that keep nothing to recover from.
* `z/app`, `z/la-modules`: arguments and bindings around a library each.
* the rest of `y`, and `x`, `l`, `j`, `d`: other allocators and wrappers of system calls,
  third-party or vendored programs, a rewrite in progress, and tools that run once.

The map in `PROJECT.json` names the lines each definition stands for. They are a small share
of the repository, as most of it is text processing of the kinds above.

## 6. The plan

Done: V, its refinement and the proofs of its safety properties; `list.h`, its refinement
and their proofs; Sh with Proc, and the proofs of its conditionals and its children; Vwm,
and the proofs of its pointers, rows and programs; the undo of E, its refinement and proofs;
talloc, its refinement and proofs. Every invariant and action property that a passing run
checks is a theorem.

What is left:

* Hidden frames in Vwm, by which `win_frame_rows` divides.
