------------------------------ MODULE Pipeline ------------------------------
(***************************************************************************)
(* A pipeline of programs at the level of descriptors: the pipes a call    *)
(* makes, the children it forks and what those inherit.  Four functions    *)
(* of the repository are the same but for how they give up, which "mode"   *)
(* tells apart:                                                            *)
(*   "rsh_x", "rsh"  rsh_execute_pipeline() of 6-RShell's rsh_server.c, in *)
(*                   a server started with -x or without                   *)
(*   "dsh"           exec_pipeline() of 5-ShellP3's (and 6-RShell's)       *)
(*                   dshlib.c, called line after line by the local shell   *)
(*   "fork_pipe", "fork_pipeline"  the demos' programs of these names: the *)
(*                   calls are runs of the program, whose supervisor       *)
(*                   process is the caller                                 *)
(* RshSession and DshShell take the functions for one step.                *)
(*                                                                         *)
(* A pipe end is <<s, j, "r">> or <<s, j, "w">>: pipes[j] of the call s.   *)
(* It is open as long as some process holds it.  The programs:             *)
(*   "ls"     writes Output pieces and ends with status 0                  *)
(*   "cat"    copies its input to its output until end of file             *)
(*   "head"   copies one piece and ends                                    *)
(*   "false"  ends with a status other than 0, as a child does whose       *)
(*            execvp() failed                                              *)
(* "cd" and "exit" are the local shell's built-ins.  The first command of  *)
(* a pipeline reads the socket or the terminal; here it never does.        *)
(***************************************************************************)
EXTENDS Naturals, Sequences, FiniteSets

CONSTANTS
  Calls,      \* the calls of the function, each once
  CmdMax,     \* CMD_MAX, the most commands build_cmd_list() accepts
  Pipelines,  \* Pipelines[s]: the command lists call s may be given
  Modes,      \* the callers: see above
  Output,     \* the pieces "ls" writes
  Cap,        \* the pieces a pipe holds before write() blocks
  MaxFaults   \* bound: pipe() and fork() calls that fail

Programs == {"ls", "cat", "head", "false"}
BuiltIns == {"cd", "exit"}

ASSUME CallsAssumption == IsFiniteSet(Calls)
ASSUME PipelinesAssumption ==
  \A s \in Calls :
    /\ Pipelines[s] \subseteq Seq(Programs \cup BuiltIns)
    /\ \A l \in Pipelines[s] : l # <<>> /\ Len(l) <= CmdMax /\ l[1] \notin {"cat", "head"}
Demos == {"fork_pipe", "fork_pipeline"}
ASSUME ModesAssumption == Modes \subseteq {"rsh_x", "rsh", "dsh"} \cup Demos
ASSUME SizeAssumption == CmdMax \in Nat /\ Output \in Nat /\ Cap \in Nat \ {0} /\ MaxFaults \in Nat

VARIABLES
  mode,      \* who calls; stays as it is
  clist,     \* clist[s]: the commands of call s
  hpc,       \* hpc[s]: "idle", "pipe", "fork", "close", "wait" or "done"
  n,         \* n[s]: how often the current loop of s has gone round
  rc,        \* rc[s]: what the call returned
  server,    \* the pipe ends open in the calling process
  kid,       \* kid[s][i]: the process of command i
  pipe,      \* pipe[s][j]: the pieces in pipe j
  shown,     \* shown[s]: the pieces written to the socket or the terminal
  faults     \* failed calls so far

vars == <<mode, clist, hpc, n, rc, server, kid, pipe, shown, faults>>

Slots == 1..CmdMax
Num(s) == Len(clist[s])
Ends == Calls \X Slots \X {"r", "w"}

(* A process: not forked, before execvp(), running, ended.  todo counts the pieces *)
(* it has still to write, bad says it ended with a status other than 0.            *)
Kid == [st : {"none", "born", "runs", "ended"}, ends : SUBSET Ends, todo : Nat, bad : BOOLEAN]
NoKid == [st |-> "none", ends |-> {}, todo |-> 0, bad |-> FALSE]

threaded == mode = "rsh_x"
Held(e) == e \in server \/ \E s \in Calls, i \in Slots : e \in kid[s][i].ends
(* What command i of call s has as standard input and output, socket and terminal apart. *)
Std(s, i) == (IF i > 1 THEN {<<s, i - 1, "r">>} ELSE {})
             \cup (IF i < Num(s) THEN {<<s, i, "w">>} ELSE {})

KidGoes(s, i, k) == kid' = [kid EXCEPT ![s][i] = k]
Ended(k, b) == [k EXCEPT !.st = "ended", !.ends = {}, !.bad = b]

-----------------------------------------------------------------------------
(***************************************************************************)
(* The caller.                                                             *)
(***************************************************************************)
Moves(s, pc, k) == hpc' = [hpc EXCEPT ![s] = pc] /\ n' = [n EXCEPT ![s] = k]
Fault == faults < MaxFaults /\ faults' = faults + 1
Own(s) == {e \in server : e[1] = s}
Returns(s, code) == Moves(s, "done", 0) /\ rc' = [rc EXCEPT ![s] = code]

(* Only the server started with -x calls the function while another call runs.      *)
(* The server and the demos look for no built-ins.                                  *)
Call(s) ==
  /\ hpc[s] = "idle"
  /\ ~threaded => \A t \in Calls : hpc[t] \in {"idle", "done"}
  /\ \E l \in {p \in Pipelines[s] : mode = "dsh" \/ \A i \in DOMAIN p : p[i] \in Programs} :
       clist' = [clist EXCEPT ![s] = l]
  /\ Moves(s, "pipe", 0)
  /\ UNCHANGED <<mode, rc, server, kid, pipe, shown, faults>>

MakePipe(s) ==
  /\ hpc[s] = "pipe"
  /\ \/ /\ n[s] < Num(s) - 1
        /\ server' = server \cup {<<s, n[s] + 1, "r">>, <<s, n[s] + 1, "w">>}
        /\ Moves(s, "pipe", n[s] + 1)
     \/ /\ n[s] = Num(s) - 1
        /\ Moves(s, "fork", 0)
        /\ UNCHANGED server
  /\ UNCHANGED <<mode, clist, rc, kid, pipe, shown, faults>>

(* pipe() fails: the pipes made so far stay open, unless the process ends (a demo). *)
PipeFails(s) ==
  /\ hpc[s] = "pipe" /\ n[s] < Num(s) - 1 /\ Fault
  /\ Returns(s, "ERR_EXEC_CMD")
  /\ server' = IF mode \in Demos THEN server \ Own(s) ELSE server
  /\ UNCHANGED <<mode, clist, kid, pipe, shown>>

(* Mutant: the caller closes its end for writing as soon as the writer is forked. *)
ForkCloses(s) ==
  /\ hpc[s] = "fork"
  /\ n[s] < Num(s) /\ clist[s][n[s] + 1] \in Programs
  /\ KidGoes(s, n[s] + 1, [NoKid EXCEPT !.st = "born", !.ends = server])
  /\ server' = server \ {<<s, n[s] + 1, "r">>}
  /\ IF n[s] + 1 = Num(s) THEN Moves(s, "close", 0) ELSE Moves(s, "fork", n[s] + 1)
  /\ UNCHANGED <<mode, clist, rc, pipe, shown, faults>>

(* fork(): the child starts with every descriptor the server has open. *)
Fork(s) ==
  /\ hpc[s] = "fork"
  /\ n[s] < Num(s) /\ clist[s][n[s] + 1] \in Programs
  /\ KidGoes(s, n[s] + 1, [NoKid EXCEPT !.st = "born", !.ends = server])
  /\ IF n[s] + 1 = Num(s) THEN Moves(s, "close", 0) ELSE Moves(s, "fork", n[s] + 1)
  /\ UNCHANGED <<mode, clist, rc, server, pipe, shown, faults>>

(* Mutant: the local shell gives up as the server does, with its pipes open. *)
GivesUpOpen(s, code) ==
  /\ Returns(s, code)
  /\ UNCHANGED <<mode, clist, server, kid, pipe, shown>>

(* exec_pipeline() returns in the middle of its loop: it closes its pipes, and the *)
(* children already there are left alone.                                          *)
GivesUp(s, code) ==
  /\ Returns(s, code)
  /\ server' = server \ Own(s)
  /\ UNCHANGED <<mode, clist, kid, pipe, shown>>

(* Mutant: the result of exec_built_in_cmd() is returned. *)
MeetsBuiltInRaw(s) ==
  /\ mode = "dsh" /\ hpc[s] = "fork" /\ n[s] < Num(s)
  /\ clist[s][n[s] + 1] \in BuiltIns
  /\ GivesUp(s, IF clist[s][n[s] + 1] = "exit" THEN "BI_CMD_EXIT" ELSE "BI_EXECUTED")
  /\ UNCHANGED faults

(* A command of a pipeline is a built-in. *)
MeetsBuiltIn(s) ==
  /\ mode = "dsh" /\ hpc[s] = "fork" /\ n[s] < Num(s)
  /\ LET c == clist[s][n[s] + 1]
     IN /\ c \in BuiltIns
        /\ GivesUp(s, IF c = "exit" /\ n[s] = 0 THEN "OK_EXIT" ELSE "ERR_EXEC_CMD")
  /\ UNCHANGED faults

(* fork() fails in the local shell, or in a demo, which ends. *)
ForkFails(s) ==
  /\ mode \in {"dsh"} \cup Demos /\ hpc[s] = "fork" /\ Fault
  /\ GivesUp(s, "ERR_EXEC_CMD")

(* fork() fails in the server: the pipes stay open. *)
ForkFailsOpen(s) ==
  /\ mode \in {"rsh", "rsh_x"} /\ hpc[s] = "fork" /\ Fault
  /\ Returns(s, "ERR_EXEC_CMD")
  /\ UNCHANGED <<mode, clist, server, kid, pipe, shown>>

(* Mutant: the loop ends one pipe early. *)
CloseEndsEarly(s) ==
  /\ hpc[s] = "close"
  /\ LET open == {e \in server : e[1] = s /\ e[2] < Num(s) - 1}
     IN \/ /\ open # {}
           /\ \E e \in open :
                /\ \A f \in open : e[2] < f[2] \/ (e[2] = f[2] /\ (e[3] = "r" \/ e = f))
                /\ server' = server \ {e}
           /\ UNCHANGED <<hpc, n>>
        \/ /\ open = {}
           /\ Moves(s, "wait", 1)
           /\ UNCHANGED server
  /\ UNCHANGED <<mode, clist, rc, kid, pipe, shown, faults>>

(* One close() of the caller's loop: pipe by pipe, the end for reading first. *)
Close(s) ==
  /\ hpc[s] = "close"
  /\ LET open == Own(s)
     IN \/ /\ open # {}
           /\ \E e \in open :
                /\ \A f \in open : e[2] < f[2] \/ (e[2] = f[2] /\ (e[3] = "r" \/ e = f))
                /\ server' = server \ {e}
           /\ UNCHANGED <<hpc, n>>
        \/ /\ open = {}
           /\ Moves(s, "wait", 1)
           /\ UNCHANGED server
  /\ UNCHANGED <<mode, clist, rc, kid, pipe, shown, faults>>

(* waitpid() for child after child, then the exit codes, which only the server looks at: *)
(* one other than 0 is an error, whichever command has it (rsh_server.c:586-596), although *)
(* the function's comment promises "the exit code of the last command" (515-519).        *)
Wait(s) ==
  /\ hpc[s] = "wait" /\ kid[s][n[s]].st = "ended"
  /\ IF n[s] < Num(s)
     THEN Moves(s, "wait", n[s] + 1) /\ UNCHANGED rc
     ELSE Returns(s, IF mode \in {"rsh", "rsh_x"} /\ \E i \in 1..Num(s) : kid[s][i].bad THEN "ERR_EXEC_CMD" ELSE "OK")
  /\ UNCHANGED <<mode, clist, server, kid, pipe, shown, faults>>

-----------------------------------------------------------------------------
(***************************************************************************)
(* The children.  The calls before execvp() are one step: only when it     *)
(* gives up a pipe end is of any consequence to another process.           *)
(***************************************************************************)
(* Mutant: "Step 5" is missing, the child keeps both ends of every pipe. *)
ExecKeepsAll(s, i) ==
  LET k == kid[s][i] IN
  /\ k.st = "born"
  /\ KidGoes(s, i, [k EXCEPT !.st = "runs", !.todo = IF clist[s][i] = "ls" THEN Output ELSE 0])
  /\ UNCHANGED <<mode, clist, hpc, n, rc, server, pipe, shown, faults>>

(* dup2() and close(): of its own call's pipes the child keeps what it uses, of the *)
(* pipes of other calls it closes none.                                             *)
Exec(s, i) ==
  LET k == kid[s][i] IN
  /\ k.st = "born"
  /\ KidGoes(s, i, [k EXCEPT !.st = "runs", !.todo = IF clist[s][i] = "ls" THEN Output ELSE 0,
                             !.ends = {e \in @ : e[1] # s \/ e \in Std(s, i)}])
  /\ UNCHANGED <<mode, clist, hpc, n, rc, server, pipe, shown, faults>>

(* After a piece is written "head" has nothing left to do. *)
AfterWrite(s, i, k) ==
  IF clist[s][i] = "head" THEN Ended(k, FALSE) ELSE [k EXCEPT !.todo = @ - 1]

(* write() to the pipe or, by the last command, to the socket.  Nobody can read the *)
(* pipe any more: SIGPIPE, which leaves a wait status whose WEXITSTATUS is 0.       *)
Write(s, i) ==
  LET k == kid[s][i] IN
  /\ k.st = "runs" /\ k.todo > 0
  /\ \/ /\ i = Num(s)
        /\ shown' = [shown EXCEPT ![s] = @ + 1]
        /\ KidGoes(s, i, AfterWrite(s, i, k))
        /\ UNCHANGED pipe
     \/ /\ i < Num(s) /\ Held(<<s, i, "r">>) /\ pipe[s][i] < Cap
        /\ pipe' = [pipe EXCEPT ![s][i] = @ + 1]
        /\ KidGoes(s, i, AfterWrite(s, i, k))
        /\ UNCHANGED shown
     \/ /\ i < Num(s) /\ ~Held(<<s, i, "r">>)
        /\ KidGoes(s, i, Ended(k, FALSE))
        /\ UNCHANGED <<pipe, shown>>
  /\ UNCHANGED <<mode, clist, hpc, n, rc, server, faults>>

(* read() from the pipe: a piece, or the end of the file once nobody can write. *)
Read(s, i) ==
  LET k == kid[s][i] IN
  /\ k.st = "runs" /\ k.todo = 0 /\ clist[s][i] \in {"cat", "head"} /\ i > 1
  /\ \/ /\ pipe[s][i - 1] > 0
        /\ pipe' = [pipe EXCEPT ![s][i - 1] = @ - 1]
        /\ KidGoes(s, i, [k EXCEPT !.todo = 1])
     \/ /\ pipe[s][i - 1] = 0 /\ ~Held(<<s, i - 1, "w">>)
        /\ KidGoes(s, i, Ended(k, FALSE))
        /\ UNCHANGED pipe
  /\ UNCHANGED <<mode, clist, hpc, n, rc, server, shown, faults>>

(* A program that reads nothing ends when it has written all it had. *)
Quits(s, i) ==
  LET k == kid[s][i] IN
  /\ k.st = "runs" /\ k.todo = 0 /\ clist[s][i] \in {"ls", "false"}
  /\ KidGoes(s, i, Ended(k, clist[s][i] = "false"))
  /\ UNCHANGED <<mode, clist, hpc, n, rc, server, pipe, shown, faults>>

-----------------------------------------------------------------------------
Init ==
  /\ mode \in Modes
  /\ clist = [s \in Calls |-> <<>>]
  /\ hpc = [s \in Calls |-> "idle"] /\ n = [s \in Calls |-> 0]
  /\ rc = [s \in Calls |-> "none"]
  /\ server = {}
  /\ kid = [s \in Calls |-> [i \in Slots |-> NoKid]]
  /\ pipe = [s \in Calls |-> [j \in Slots |-> 0]]
  /\ shown = [s \in Calls |-> 0]
  /\ faults = 0

CallerStep(s) == MakePipe(s) \/ MeetsBuiltIn(s) \/ Fork(s) \/ Close(s) \/ Wait(s)
KidStep(s, i) == Exec(s, i) \/ Write(s, i) \/ Read(s, i) \/ Quits(s, i)

(* The four functions. *)
RshExecutePipeline(s) ==
  mode \in {"rsh_x", "rsh"} /\ (Call(s) \/ CallerStep(s) \/ PipeFails(s) \/ ForkFailsOpen(s))
ExecPipeline(s) == mode = "dsh" /\ (Call(s) \/ CallerStep(s) \/ PipeFails(s) \/ ForkFails(s))
ForkPipe(s) ==
  /\ mode = "fork_pipe"
  /\ (Call(s) /\ Num(s)' = 2) \/ CallerStep(s) \/ PipeFails(s) \/ ForkFails(s)
ForkPipeline(s) == mode = "fork_pipeline" /\ (Call(s) \/ CallerStep(s) \/ PipeFails(s) \/ ForkFails(s))

Next ==
  \E s \in Calls :
    \/ RshExecutePipeline(s) \/ ExecPipeline(s) \/ ForkPipe(s) \/ ForkPipeline(s)
    \/ \E i \in Slots : KidStep(s, i)

Spec == Init /\ [][Next]_vars

(* Threads and processes that can go on are scheduled; no session has to call. *)
FairSpec ==
  /\ Spec
  /\ \A s \in Calls : WF_vars(CallerStep(s)) /\ \A i \in Slots : WF_vars(KidStep(s, i))

-----------------------------------------------------------------------------
TypeOK ==
  /\ mode \in Modes
  /\ \A s \in Calls : clist[s] \in Pipelines[s] \cup {<<>>}
  /\ hpc \in [Calls -> {"idle", "pipe", "fork", "close", "wait", "done"}]
  /\ n \in [Calls -> Nat] /\ rc \in [Calls -> {"none", "OK", "OK_EXIT", "ERR_EXEC_CMD"}]
  /\ server \subseteq Ends
  /\ kid \in [Calls -> [Slots -> Kid]]
  /\ pipe \in [Calls -> [Slots -> 0..Cap]]
  /\ shown \in [Calls -> Nat] /\ faults \in Nat

(* When the call has succeeded, all that the first program wrote has reached the  *)
(* socket or the terminal: the EOF character the server sends next               *)
(* (rsh_server.c:404) follows the whole output.  In every mode, and whatever other *)
(* sessions do.                                                                    *)
AllShown ==
  \A s \in Calls :
    rc[s] = "OK" /\ clist[s][1] = "ls" /\ (\A i \in 2..Num(s) : clist[s][i] = "cat")
    => shown[s] = Output

(* The one reason why a program may never see the end of its input: its writer has *)
(* ended, all children of the call have reached their program, and yet the pipe is  *)
(* open for writing in a child of another call, forked while it was open in the     *)
(* server.                                                                          *)
OnlyStrangersBlock ==
  \A s \in Calls, i \in Slots :
    (/\ hpc[s] = "wait" /\ \A j \in Slots : kid[s][j].st # "born"
     /\ i > 1 /\ kid[s][i].st = "runs"
     /\ kid[s][i - 1].st = "ended" /\ Held(<<s, i - 1, "w">>))
    => \E t \in Calls \ {s}, j \in Slots : <<s, i - 1, "w">> \in kid[t][j].ends

(* One at a time, every pipeline comes to an end (rsh_server.c:581-584,            *)
(* 5-ShellP3 dshlib.c:327-330), whatever calls before it have left open.            *)
EndsAlone == \A s \in Calls : (~threaded /\ hpc[s] = "wait") ~> hpc[s] = "done"

(* A child the local shell or a demo has forked ends even when the call gives up   *)
(* half-way (dshlib.c:278-298): nobody keeps the pipe open that it reads or writes. *)
OrphansEnd ==
  \A s \in Calls, i \in Slots :
    (mode \in {"dsh"} \cup Demos /\ kid[s][i].st = "runs") ~> kid[s][i].st = "ended"

(* EndsAlone for sessions that run at the same time: "handle concurrent client    *)
(* connections" (6-RShell/readme.md:276).                                         *)
PipelineEnds == \A s \in Calls : hpc[s] = "wait" ~> hpc[s] = "done"
=============================================================================
