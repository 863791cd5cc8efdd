# A verification of the systems-programming course code

This directory models the programs of the course repository in TLA+, checks
the models with TLC on small instances and proves the central facts with TLAPS.
`PROJECT.json` lists the components, the runs, what each definition stands for
(`map`), the hazards and the theorems. Paths below are relative to `src/`.

`rsh_server.c` as committed lacks a closing brace in `rsh_built_in_cmd()`
(706-715), a function nobody calls, and does not compile; the models read it as closed there.

## 1. The system

| part | sources | state it keeps | operations | hard because |
|---|---|---|---|---|
| remote shell, server | `assignments/6-RShell/starter/rsh_server.c` | listening socket, one accepted socket per session, the program counter of each session, children and their status | boot, accept (one at a time, or one thread each with `-x`), receive a line, run it, send the answer, close | threads, processes and sockets; answers written by three kinds of process; failing calls; SIGPIPE |
| remote shell, client | `rsh_cli.c` | socket, prompt or waiting | connect, send a line, receive until EOF character, leave | answers have no length: the end is a byte |
| pipelines of the server | `rsh_execute_pipeline()` | pipes, children, open descriptors | pipe, fork, dup2, close, exec, waitpid | descriptors are inherited by every child forked meanwhile |
| local shell | `5-ShellP3/submission/dshlib.c`, the same in `6-RShell/starter/dshlib.c` | a command buffer used for every line, redirections, children | parse, built-ins, redirections, pipelines | state left over from an earlier line; a parser that works in place; early returns |
| earlier shells | `3-ShellP1/submission`, `4-ShellP2/submission` | a parsed line, a command buffer, the last status | parse, fork/exec/wait | boundaries of the parser and of `argv` |
| student database | `assignments/2-StudentDB/submission/sdbsc.c` | a sparse file of 64-byte slots, a temporary file | add, delete, find, count, print, compress, zero | one command per process: several processes on one file; file offsets; crash between calls; rename under a reader |
| socket demos | `demos/sockets` | descriptors, one variable shared with threads | accept, receive, send, close | a race on that variable; `exit()` in a thread |
| thread demos | `demos/process-thread/4-posix-threads` | a counter, a stack of registers, a mutex, a semaphore | create, join, lock, count | interleavings, some on purpose; threads that were not created |
| process demos | `2-fork-exec`, `3-posix-spawn`, `5-pipe-handling` (in `demos/process-thread`), `demos/signals`, `assignments/10-Isolation` | parent, child, wait status, signal mask, id maps | fork, exec, wait, signals | either process may be first; signals at any moment |
| file demos | `demos/file-stream`, `demos/process-thread/6-AsyncIO` | a buffer, files, a FIFO | copy, read asynchronously, send messages | last blocks; a library thread; messages cut or dropped |

The client talks to the server over TCP only. Inside the server the accept
loop hands a socket to `exec_client_requests()`, directly or in a thread; that
function calls the parser of `dshlib.c` and `rsh_execute_pipeline()`, whose
children write to the client's socket themselves. The database, the local shells
and the demos are separate programs.

What makes each part correct:

* **session**: an answer belongs to the line that was asked; nobody waits for
  ever; a session ends when its client is gone; the server stops when, and only
  when, it is told to or a call of the accept loop fails.
* **pipeline**: the EOF character follows the complete output; every pipe end
  is closed by everybody who does not use it; the pipeline ends.
* **database**: student x is in slot x; commands act at one instant on a set of
  students; a compression keeps the records; a reader reports what was true.
* **local shells**: the arguments arrive as they were written; no state of one
  line reaches the next; `>>` takes nothing from a file and no command
  overwrites its input.
* **demos**: no update is lost under a mutex; a register has one user; an answer
  goes to who asked; the status shown is the child's; Ctrl-C comes neither too
  early nor never; a copy is a copy.

## 2. Modules

| module | models |
|---|---|
| `RshSession` | client, accept loops, request loop and children, with the TCP connection between them |
| `RemoteShell` | what a user of the remote shell is promised: each line is followed by its own answer or by the end of the session |
| `MCRshSession` | how lines may be cut, for TLC |
| `Pipeline` | `rsh_execute_pipeline()`, `exec_pipeline()` and the two pipe demos, descriptor by descriptor |
| `MCPipeline` | the pipelines TLC runs |
| `DshParse` | the parsers of the three local shells, as operators on a line |
| `DshShell` | the command loops of the three local shells |
| `MCDshShell` | the lines TLC types |
| `StudentDB` | processes of `sdbsc`, one system call per step |
| `StudentTable` | the set of students that the database stands for |
| `ThreadDemos` | the five thread demos |
| `ProtoServer` | the socket demos |
| `ProcessDemos` | fork, exec, spawn, isolation and signal demos |
| `FileDemos`, `MCFileDemos` | copies, the asynchronous read and the FIFO; the lines typed at the FIFO's writers |
| `RshSession_proofs`, `StudentDB_proofs`, `ThreadDemos_proofs`, `ProtoServer_proofs`, `Pipeline_proofs`, `DshShell_proofs`, `ProcessDemos_proofs`, `FileDemos_proofs` | the theorems |

`RshSession` takes a pipeline in one step and `DshShell` takes it together with
its children; `Pipeline` opens that step. `DshShell` takes its commands from
`DshParse`. `RemoteShell` and `StudentTable` are the abstract specifications.

### RshSession

`main` is the accept loop, `spc[c]` the place of the session of client `c` in
`exec_client_requests()`, `cpc[c]` the place of the client in
`exec_remote_cmd_loop()`. The children of a pipeline are counted by what they
do next (`prog`, `kmsg`, `keof`). A program ends, reads the socket (`cat`) or runs for ever
(`sleep`), and a pipeline's commands may be found or not (`nosuchls` is `nosuch | ls`). Every `send()` is a step of its own, because
other processes send to the same socket; so is every `recv()`. What follows a
`recv()` up to the next `send()` or `fork()` touches no shared state and is one
step, `RecvLine`.

The connection is a pair of byte streams (`inq`, `outq`) and a state per end.
A `send()` to an end whose peer has closed first seems to succeed, the next one
raises SIGPIPE (`BrokenPipe`); closing with unread bytes resets the peer. A
socket closes when its last holder does: children inherit the sockets of *all*
sessions (`held`) and the listening socket (`Listening`). When the server ends
while children run, clients still connect; they are reset when the last child
ends (`HangUp`).

A line is kept as the thing the server does with it (`KnownLines`); the number
of a line, carried by the bytes that answer it, is a history variable. A stream
may deliver a line in two pieces (`Splits`) or several lines in one.

Left out: the text of messages; output that contains byte 4; the limit of 20
waiting connections; failing `malloc()`. `perror()` goes to the same place as
the message that follows it and is merged with it. A connection closes at both
ends in one step.

### Pipeline

One call of the function after another, or at the same time (`mode = "rsh_x"`):
`MakePipe`, `Fork`, `Close`, `Wait` are the loops of the caller, one system call
per step; `Exec` is the child up to `execvp()`; `Write`, `Read`, `Quits` are what
programs do. `server` is the set of pipe ends the calling process has open,
which all its threads share and every `fork()` copies. A child's calls before
`execvp()` change only its own descriptors, one direction only, so they are one
step. The four functions differ in how they give up: the server leaves its
pipes open (`ForkFailsOpen`), the local shell closes them (`GivesUp`), also when
it meets a built-in (`MeetsBuiltIn`), the demos end. `mode` never changes.

### DshParse and DshShell

A line is a sequence of symbols: blanks, quotes, marks and words. The two later
parsers work in place, so an argument is kept as a position in the buffer
(`argv`) beside the positions that were overwritten (`nul`), and is read when
the parser is done: that is how a name cut by a later NUL, an empty argument or
an argument behind the end of the line (`Junk`) come out. `StepP2` and `StepP3`
are one round of the scanning loops; `Redirect` moves `start` on and leaves
`token` behind, as the code does. `ScanUpTo` is the scan as a function of the
number of symbols read, `Tokens` gives the pieces of `strtok_r()` by the places
where they start.

`DshShell` takes one line per step with the process it starts, which the shell
waits for. `cmd` is the one command buffer of the loop: its redirections stay
(`ParseP3` gives them to the parser). `buffer` says whether 4-ShellP2 still has
its buffer: the NULL behind `CMD_ARGV_MAX` arguments is written over the pointer
(`Survives`), and the next command is copied to nowhere (`CrashP2`). `files`
holds what the redirections do, `zombies` the children a failing pipeline leaves.
A file is found by its place and a redirection is checked by its name, so `f` and `./f` are
two names of one file (`Bare`); a directory can be opened for reading (`IsDir`).

Left out: links and longer paths, a file named `./`; programs other than `echo` and `cat`; tabs; lines longer than the
buffer; `perror()`; `errno` values other than 126/127 of a failing `execvp()`.

### StudentDB

A process is its program counter, its descriptors with their offsets and the
record it last read. Names map to inodes (`db`, `tmp`), so that `rename()` and
`O_TRUNC` act as the kernel's do. `AddRead` moves the offset exactly when there
was something to read, and `AddWrite` writes where the offset is, as
`add_student()` does. `-p` reads the file as `-c` does and is not modelled
apart. `seen` is a history variable: the right answers while a command looked.

Left out: names and GPA (a record is its id), negative ids, short writes,
failing `lseek()`, and the difference between a process killed after its last
call and one that ends.

### The demos

`ThreadDemos`: a thread reads a shared variable in one step (`Load`) and writes
it in a later one, as the unoptimised build does; `main()` creates and joins
thread by thread. The supermarket goes on when a thread could not be created
(`JoinNobody` then waits for a handle nobody has set, which may end the program).

`ProtoServer`: descriptors are numbers, the lowest free one is given out;
`data_socket` is the accept loop's variable, which a thread of the threaded
server reads when it comes to run (`ReadSocket`). A thread in `recv()` keeps the
connection whatever the number means meanwhile. `raced` is a history variable.
Of a message only whose request it is or answers is kept.

`ProcessDemos`: parent and child of one program at a time, in any order; `raw`
is the kernel's wait status, `result` the variable it is stored in. The signal
programs have no child; a pending signal is delivered before `main()` goes on.
Sleeping is a delay of any length.

`FileDemos`: byte i of the input is the number i. `WriteSc` writes the whole
buffer whatever `read()` returned, `ReadLibc` asks for one item of the buffer's
size. `Transfer` is the library's thread. A FIFO is a sequence of bytes in which
0 ends a message. Writers and the reader start and end at any moment; what is in the FIFO
goes with its last open end, and `lost` remembers what went before there was a reader.
`CopyWindow` counts what is left in an int of `IntMax`, and runs beyond the maps with a
negative window. A transfer may fail.

## 3. Runs

| run | instance | result |
|---|---|---|
| `session_threaded` | 2 clients, `-x`, lines found, failing, blank, too long and `exit`; 2 lines each, one fault, clients killed | requests and answers in step; the server ends only by a failing call or an answer to a killed client; `RemoteShell` is implemented with its liveness |
| `session_single` | 2 clients, one at a time; `cat` on the socket, `sleep`, commands not found alone and in pipelines, cut lines, `stop-server`, clients killed | no wait without a way out, sessions end unless their program never does, the server stops |
| `pipeline` | the server with and without `-x`, the local shell, two demos; one pipeline of 2 or 3 commands and one command, in turn and at once; pipes of one piece; one fault | nothing of the output is lost, pipelines in turn end, also those a call gave up, only another session's child keeps a reader waiting |
| `pipeline_threaded` | two `ls \| cat` at once | **violated**: both can hang for ever |
| `sdb_append` | a writer and a reader, ids 1..3, 4 commands, one fault or kill | slots are right; `StudentTable` is implemented |
| `sdb_compress` | with `-x` and refilled slots, ids 1..2, 5 commands, three inodes | a compression keeps the records it has read; no student is further than one slot from its own; readers report the truth |
| `shell` | three shells; every line of up to 3 symbols, lines of up to 4 arguments, redirections and pipelines, then a second line; failing `fork()` | arguments arrive, also beside a redirection typed without blanks; the crash only where stated; `>>` keeps files |
| `shell_redirect` | 5-ShellP3, two lines | **violated**: `cat f` after `echo d > f` writes `f` |
| `threads` | 3 threads, 2 registers, 2 rounds, one fault | mutex and semaphore protect; all programs end |
| `proto` | 2 clients, three servers, one fault | each its own answer but for the race; only a failing `pthread_create()` leaves its client waiting |
| `processes` | eleven programs, 2 rounds of work, 5 times Ctrl-C, one fault | statuses, orphans, ids, signals |
| `files` | sizes 0, 1, 3, 4, 9 against arguments -4..3 with ints of 3; FIFO of 5 bytes, 4 lines; one fault | copies right up to the last block, or up to the largest int; buffer kept; messages whole unless cut by `read()` |

Bounds. Two clients are needed for what one session does to another
(descriptors, the accept loop, the end of the server); a third adds another of
the same. Two lines are needed for an old answer to meet a new line, and to
arrive in one `recv()`. One fault is enough because each leads to a return with
nothing retried. In the pipeline a pipe of one piece and an output of two make
writers block; three commands have a middle one with two pipes. Five commands
reach add, add, interrupted `-x`, delete, `-x`. The second inode is the
temporary file, the third the one a reader still holds. `CMD_MAX` is 2 and
`CMD_ARGV_MAX` 3 in the shells: lines with more commands and more words are among
those typed, and three symbols reach every pair of marks with something between.
Two rounds of three threads let an update of the first round overwrite several of
the second. Two clients of a server are one accepted while the thread of the
other has not read its descriptor; the numbers they get are reused. Signals need
five Ctrl-C: `signal-logic` takes four. Buffers smaller than, equal to and larger
than the file, dividing it and not, are among the sizes.

Some properties carry conditions, because without them the code does not have
them; what happens then is a behaviour of the same models.

| property | condition | without it |
|---|---|---|
| `InStep`, `ImplementsService` | `Paired`: every command is found, no line is cut | a command that is not found is answered by two EOFs (the child's, `rsh_server.c:570`, and the parent's), and the client stays one answer behind; a line cut in two is answered twice (`6-RShell/readme.md:39` promises a null byte that `rsh_cli.c:122` does not send) |
| `ServerStaysUp` | no answer was sent to a client killed while it waited (`SigPipe`); in `session_threaded` and in its theorem also `Paired` | SIGPIPE ends the server with all its sessions (`rsh_server.c:398`); one answer behind, a client that just leaves is enough |
| `StopStops` | without `-x` | `stop-server` ends its own session only: nobody reads the thread's return code (`rsh_server.c:28`) |
| `WaitIsAnswered`, `SessionEnds` | but for a program that never ends | the handler waits for it with no timeout (`rsh_server.c:583`) |
| `EndsAlone` | sessions that do not overlap | run `pipeline_threaded` |
| `InPlace`, `ImplementsTable` | `AppendMode`: no compression, no student added into an empty slot | the `read()` before it has moved the offset: the student goes one slot on (`sdbsc.c:146`), over the next one; `NearPlace` says that this is the worst |
| `CompressKeeps` | of the slots read | a failed `read()` is taken for the end of the file (`sdbsc.c:447`): what follows is lost |
| `RedirectedArrive` | no blank and no quote before the redirection, none behind it | the scan goes on over the file name (`dshlib.c:115-130`): an empty argument, or the name as an argument. `echo "hello, class" > out.txt` of the readme (line 101) writes blanks and `out.txt` behind the text |
| `OwnAnswer`, `OneHandlerEach`, `StaysUp` of the socket demos | threads that read `data_socket` in time | two threads serve and close one connection (`server-proto-thread.c:113`); the answer goes astray, or the server ends |
| `Answered` | its `pthread_create()` did not fail | its client waits for ever: the error is a positive number, the test is for negative ones |
| `NoneOutlives`, `IdentityShown` | the child was not too late, or too early | it stays; it sees the overflow ids |
| `CopiesRight`, mapped | made at once, or a size that is an int | from 2 GiB on the windows copy nothing or a part and leave zeros, and "Done" is printed with the full size (`file-cp-memmap.c:96`, 116) |
| `MessagesKept` | no `read()` has cut a message | a reader that has fallen behind shows one message as two |

Beside these the models show, as behaviours no property forbids:

* the code of a pipeline is the error code if any of its commands failed, and 0 for one
  that a signal ended, where the comment (`rsh_server.c:515-519`) promises the last
  command's exit code (`Wait` of `Pipeline`);
* 3-ShellP1 reports a line of blanks as one command, and shows the blanks behind
  `EXE_MAX` as arguments; `cd` in a pipeline of 5-ShellP3 is carried out before
  the pipeline is refused; `exit` returns `OK_EXIT`, where the readme's examples
  say "cmd loop returned 0";
* input and output of a command are compared by name (`dshlib.c:187`), so `cat<f` with
  `>./f` empties the file it is about to read;
* after `-x` a student that `-f` finds is not found by `-d`, or `-d` deletes the student
  who was moved into its slot (`sdbsc.c:180`);
* `ps-zombie` and `fork-exec-pc` print a status nobody has waited for;
  `userns_child` cannot write `gid_map` unless root runs it and leaves its child
  behind; `pipe-writer` says a message was buffered that was dropped; what a writer sent
  goes with the last writer if no reader has come; `file-cp-sc` writes a last block longer
  than the file, `file-cp-libc` drops it; an `aio_read()` that fails ends the wait as well.

Fairness. The models assume weak fairness of each client, session, child, thread
and process: the kernel runs whichever can go on. A program a user starts ends, reads the socket or, like
`sleep`, has no such fairness: it may run for ever. Nothing is assumed of users (they need not type, connect or
leave) and no call has to fail. Liveness that rests on a user leaving is stated
as such: `SessionEnds` starts from a client that has gone.

Deadlock is not checked: every one of these systems may rest, at a prompt, in
`accept()`, at its end, or after the bounded number of commands. What must not rest is
stated as an invariant (`WaitIsAnswered`) or as liveness.

## 4. Proofs

All theorems hold for every value of the constants that satisfies the named
assumptions of the modules. Where a theorem has a further hypothesis, it is one
of the conditions the runs have too: `Paired` (every command is found, no line is
cut), `~Threaded` (the server without `-x`), `AppendMode` (no compression, no refilled slot, one modifying terminal)
and `OneWriter` (one modifying terminal, everything else as it comes).

**Induction over data.** What a recursive function computes is shown without an
induction principle, by looking at the least number for which it would be false
(`LeastNumber`, from the well-foundedness of `<` on `Nat`). In the same way is
shown that the function a recursive definition speaks of exists (`ScanDefined`,
`FlattenDefined`, `EchoedDefined`, `RecordsDefined`), without which nothing follows from the definition.

### Remote shell

* `RshSession_proofs!Typing`: `Spec => []TypeOK`; one step per action.
* `StepInvariant`, `ResponsesInStep`: with `Paired`, `Spec => []StepInv` and
  `Spec => []InStep`. `InStep` is not inductive: it says nothing of where the
  handler is. `StepInv` adds that a client at the prompt has a handler at rest
  and an empty connection, that one that waits has either its line under way or
  its handler at work on that very line, and that an EOF is sent only by a
  handler whose children are done, and is last. `QueueInv` says that a connection
  waits once and unserved.
* `ServiceImplemented`: with `Paired`, every step maps to a step of
  `RemoteShell` or to none (`Spec => Service!Spec`). `StepInv` gives that the EOF
  a client receives has the number it sent last.
* `SingleInvariant`, `SingleWaits`, `StopIsObeyed`: with `~Threaded`, whatever
  the lines, the splits, the faults and the kills, `Spec => []SingleInv`,
  `[]WaitIsAnswered` and `[]StopStops`. `SingleInv` says that only the session the
  accept loop is in is active (`OneSession`), hence that the children of a session
  hold its own socket only, and that a client that waits has its line unread, an EOF
  on its way or its handler at work (`Awaited`). `OneSession` also
  says that the code `OK_EXIT`, once got, stays until the accept loop has obeyed it.
* `StaysUp`: with `Paired`, in both modes and with clients killed at any moment,
  `Spec => ServerStaysUp`. `UpInv` says that a handler sends to a client that waits or
  was killed while it did, and that a client that left at its prompt has left nothing
  unread (`Served`): no `send()` to a living client meets a closed end.
* `Pipeline_proofs!Typing`: `TypeOK`; `StrangersOnly`: `Spec => []OnlyStrangersBlock`.
  The invariant `Tidy` says that the caller has none of a call's pipe ends left once
  it waits, and that a child at its program holds of its own call's ends its
  standard input and output. Who else holds an end then belongs to another call.
* `NothingLeaks`, `OutputComplete`: `Spec => []AllShown`. The invariant `Whole`
  says of each call where its caller and children are (`Placed`, `Forked`), that a
  `cat` ends after its writer and with an empty pipe (`Drained`), and that there are
  counts of what each command has written such that what was written and not read is
  in the pipe between two commands or in the hand of the second (`Carried`). The counts are
  existentially quantified: no variable keeps them. For a reader to be there as long as its
  writer may write, `Forked` says that a child before `execvp()` holds every end of its call.

### Local shells

* `DshShell_proofs!Typing`: `Spec => []TypeOK` for every line, which is mostly about the parsers.
  A step of a scan finds one argument at most (`StepP2Grows`, `StepP3Grows`) and the
  loop stops at the limit (`ScanBounded`), so a command has at most `CMD_ARGV_MAX`
  arguments, one less in 5-ShellP3. A list has at most `CMD_MAX` commands because the
  segments that are not blank are counted in order (`InOrderIs`, `ListP3Fits`).
* `CrashNeedsFullLine`: `Spec => []CrashAfterFullLine`. `BufferInv` says that a
  lost buffer comes with a line that has quotes or `CMD_ARGV_MAX` words. It rests on
  `PlainWords`: in a line without quotes the arguments of 4-ShellP2's parser start at
  different words of the line (`PlainScan`), so there are not more of them than words.
* `ArgumentsOfP1`, `ArgumentsOfP2`, `ArgumentsOfP3`, `ArgumentsGiven`:
  `Spec => []ArgumentsArrive`. The first three are about the parsers alone and hold for
  arguments of any length over any alphabet without quotes and marks (`Clean`), not only
  for those of the run. `WrittenIs` and `LaidOut` say where `Written()` puts every
  argument (`Layout`, `Spells`). The scans of 4-ShellP2 and 5-ShellP3 are followed
  together, as they differ on such a line only in `start` between arguments (`Rest`):
  a symbol (`PlaceStep`), a word or a quoted text (`WordScanned`, `QuoteScanned`),
  an argument and the blank behind it (`ArgumentScanned`, `GapScanned`), a line
  (`LineScanned`), each time with the positions found and the bytes overwritten. As no
  byte is overwritten inside an argument, its text ends where it was written to
  end (`TextIs`). In 3-ShellP1 the pieces of `strtok_r()` start at the words
  (`WordsStart`). `ParsedInv` adds that the list is what the parser made of the last line.
* `FilesKept`: `Spec => AppendKeeps`, for every line. `KeepInv` says that while all marks
  typed are double the command buffer has no output file without `append` (`Kept`), and
  that files and arguments stay sequences (`Listed`). `Marked` follows the scan of
  5-ShellP3: before a mark with another behind it no byte has been overwritten, so the
  first mark of a `>>` sees the second, and the second, met as a redirection of its own,
  finds `append` set. Each command of a pipeline gets such a line (`SegmentAppends`).

### Student database

* `StudentDB_proofs!Typing`: `TypeOK`, including that every process has the
  descriptors its next step needs (`Equipped`).
* `NeverFar`: `Spec => []NearPlace`, with no condition: any number of terminals that modify
  the file at once, any ids, holes, compressions, kills and failing calls. The invariant
  `NearInv` says where the offset of a process about to write is (`Offsets`), of the
  temporary file too.
* `ScanInvariant`, `AnswersTrue`: with `OneWriter`, `Spec => []ScanInv` and
  `[]Truthful`, with compressions, `O_TRUNC`, renames under a reader and kills.
  `ScanInv` relates what a scan has counted or looked at to the part of its file
  behind the offset and to all answers that were right meanwhile (`Kept`), and says
  that only one process is at the files and where it will write (`Working`, `Low`).
* `TableImplemented`: with `AppendMode` (one modifying terminal, no student added into an empty
  slot, which is where the code leaves its table), the processes implement `StudentTable`,
  step by step (the safety part of `ImplementsTable`). `TableInv` says that what a
  process saw in its slot is still so when it writes.
* `CopyInvariant`, `RecordsKept`: with `OneWriter`, `Spec => CompressKeeps`. The
  temporary file holds the records among the slots read (`Copied`), a recursive
  function of the file.

### Demos

* `ThreadDemos_proofs!Typing`: `TypeOK` for any number of threads, registers and
  rounds; `NoLostUpdate`: `Spec => []NothingLost`. `NothingLost` is inductive with
  `TypeOK`: only the holder of the mutex is between lock and unlock, so nobody
  writes what it has read before it has written itself.
* `RegistersNeverLost`: `Spec => []EveryRegisterOnce`. The invariant `Supermarket`
  says that stack places and customers share the registers (`Apart`), that the
  semaphore counts the customers in line and the stack pointer those with a register
  (`Counted`), and where a customer must have one (`ByStep`). The counts show that a
  customer never pops an empty stack: it would be one more in line than the
  semaphore lets in.
* `CountsRight`: `Spec => []FinalCount`. `CountInv` compares the counter with the
  set of rounds done: equal under the mutex; without it at most as many, and at
  least 1 once a thread has written, 2 at the end (`Raced`).
* `ProtoServer_proofs!AnswersOwn`, `OneHandlerAlways`, `OnlyRaceEndsServer`:
  `Spec => []OwnAnswer`, `[]OneHandlerEach` and `[]StaysUp`. The invariant `Owned`
  says, of every state before a thread has missed its socket, that handlers at
  work have open numbers of their own (`OwnNumbers`), that open numbers stand for
  different accepted connections (`OwnConnections`), and that what a handler has
  received is its connection's and nothing was sent there yet (`OwnMessages`). From it
  follow that `recv()` never meets a closed number and that no second answer is
  sent, which would raise SIGPIPE.
* `ProcessDemos_proofs!StatusPrinted`, `ParentsFollowed`, `RootSeen`,
  `WorkUndisturbed`: the four invariants of `ProcessDemos`. `ProcessInv` places
  parent and child of each program (`Placed`), keeps the status from the child's
  end to `printf()` (`StatusKept`), says what a child that is armed or has looked
  knows of its parent (`Followed`, `Mapped`), and what a signal finds (`SetUpRight`).
* `FileDemos_proofs!CopyInvariant`, `CopiesAgree`, `BufferKept`: `[]CopiesRight` and
  `[]BufferStays` for any file size, argument and int, with calls and transfers that fail; one part of `CopyInv` per program says
  what has been written and which bytes of the buffer are the file's.
* `FifoInvariant`, `MessagesWhole`: `Spec => []MessagesKept`, with writers and the reader that
  start and end at any moment. Until a read cuts a message, the messages sent are those lost
  before the reader came, those shown and then the strings in the FIFO, which ends with a
  NUL (`FifoInv`). It needs that the strings of two such pieces of the
  FIFO are those of the one and then of the other (`EchoedConcat`).

**Only model-checked.** Liveness, with its fairness, and ENABLED are out of the prover's
reach: `ImplementsService` and `ImplementsTable` beyond their safety,
`SessionEnds`, `EndsAlone`, `OrphansEnd`, `ProgramEnds`, `Answered`. Of the invariants
and action properties `RedirectedArrive` is only checked, and `InPlace` is
only the step to `TableImplemented`; the others are theorems. `WaitIsAnswered` and `StopStops` are stated of the server without `-x`: with it `stop-server` does not
stop the server, and a child forked by one session keeps the connection of another.

## 5. Plan

1. Done: `RshSession` with `RemoteShell`, `StudentDB` with `StudentTable`,
   `Pipeline`, the local shells, the demos; the theorems of section 4.
2. A third client in `ProtoServer`, and what two modifying terminals of `StudentDB` may
   still expect of a compression.

## 6. Not modelled

The starter skeletons (to be written by students), the string exercises and the
programs that print what they have read once (one pass, no state to keep), the
layout of `protocol.c`'s messages, option parsing in `dsh_cli.c`, the unfinished
`file-cp-async.c`, `rsh_built_in_cmd()` (never called), and failing allocations.
Of two processes that modify the database at once only `NearPlace` is stated: the program
makes no promise about them.
