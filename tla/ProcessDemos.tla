---------------------------- MODULE ProcessDemos ----------------------------
(***************************************************************************)
(* The programs of the demos that consist of a process and its child, or   *)
(* of a process and its signals:                                           *)
(*   "fork_basic", "fork_exec", "fork_exec_pc"   2-fork-exec               *)
(*   "ps_basic", "ps_zombie"                     3-posix-spawn             *)
(*   "fake_root", "userns_child"                 10-Isolation              *)
(*   "ignore", "custom", "disturb", "logic"      signals                   *)
(* Sleeping only delays: the model lets either process go on first.        *)
(***************************************************************************)
EXTENDS Integers, FiniteSets

CONSTANTS
  Programs,    \* the programs that are run
  ChildPid,    \* the pid the child gets
  Garbage,     \* values a variable without one may have
  Rounds,      \* rounds of sleeper's loop, and of a loop that is not to be disturbed
  MaxInts,     \* bound: times that Ctrl-C is pressed
  MaxFaults    \* bound: calls that fail, children that are killed

Forking == {"fork_basic", "fork_exec", "fork_exec_pc"}
Spawning == {"ps_basic", "ps_zombie"}
Isolating == {"fake_root", "userns_child"}
Signalled == {"ignore", "custom", "disturb", "logic"}

ASSUME ProgramsAssumption == Programs \subseteq Forking \cup Spawning \cup Isolating \cup Signalled
ASSUME SizesAssumption ==
  {ChildPid, MaxInts, MaxFaults} \subseteq Nat /\ Garbage \subseteq Nat /\ Rounds \in Nat \ {0}

VARIABLES
  program,     \* the program, and whether root runs it, stay as they are
  privileged,
  parent,      \* where main() is, or how it ended: "exited", "failed", "killed"
  child,       \* "none", where it is, "zombie" or "reaped"
  code,        \* the child's exit code, -1 when a signal has killed it
  raw,         \* the status the kernel keeps of it
  result,      \* the parent's variable for it
  shown,       \* the exit status main() has printed, -1 for none
  late,        \* the child asked for a signal at its parent's end after that end
  maps,        \* what has been written of the child: "deny", "uid", "gid"
  seen,        \* the ids, of "uid" and "gid", that were root's when the child looked
  ahead,       \* it looked at one before main() had come to it
  disposition, \* of SIGINT: "default", "ignore", "handler"
  blocked, pending, handling,  \* of SIGINT: blocked, pending, its handler is running
  attempts,    \* attempt_counter
  handled,     \* how often the handler has run
  ints,        \* SIGINTs sent
  count,       \* rounds of the loop
  faults       \* failed calls so far

given == <<program, privileged>>
status == <<code, raw, result, shown>>
identity == <<maps, seen, ahead>>
signals == <<disposition, blocked, pending, handling, attempts, handled, ints>>
vars == <<given, parent, child, status, late, identity, signals, count, faults>>

Sigterm == 15
Ended == {"exited", "failed", "killed"}
Fault == faults < MaxFaults /\ faults' = faults + 1

(* Mutant: WEXITSTATUS() takes the first byte. *)
ExitStatusLow(n) == n % 256
(* WEXITSTATUS(), and (n >> 8) & 0xFF *)
ExitStatus(n) == (n \div 256) % 256

-----------------------------------------------------------------------------
(***************************************************************************)
(* The parents.                                                            *)
(***************************************************************************)
ParentGoes(from, to) ==
  parent = from /\ parent' = to /\ UNCHANGED given /\ UNCHANGED signals

(* fork(): the variable for the status has been set by fork-basic only. *)
Fork ==
  /\ program \in Forking
  /\ \/ /\ ParentGoes("fork", IF program = "fork_exec_pc" THEN "sleep" ELSE "wait")
        /\ child' = CASE program = "fork_basic" -> "run"
                      [] program = "fork_exec" -> "exec"
                      [] program = "fork_exec_pc" -> "prctl"
        /\ UNCHANGED faults
     \/ ParentGoes("fork", "failed") /\ Fault /\ UNCHANGED child
  /\ UNCHANGED <<status, late, identity, count>>

(* posix_spawn() puts the pid where the status will be, and fails when the program *)
(* cannot be executed.                                                               *)
Spawn ==
  /\ program \in Spawning
  /\ \/ /\ ParentGoes("fork", IF program = "ps_zombie" THEN "sleep" ELSE "wait")
        /\ child' = "run" /\ result' = ChildPid
        /\ UNCHANGED faults
     \/ ParentGoes("fork", "failed") /\ Fault /\ UNCHANGED <<child, result>>
  /\ UNCHANGED <<code, raw, shown, late, identity, count>>

(* clone() with a user namespace of its own *)
Clone ==
  /\ program \in Isolating
  /\ \/ /\ ParentGoes("fork", IF program = "fake_root" THEN "deny" ELSE "uid")
        /\ child' = "look" /\ UNCHANGED faults
     \/ ParentGoes("fork", "failed") /\ Fault /\ UNCHANGED child
  /\ UNCHANGED <<status, late, identity, count>>

(* A file of /proc is written.  gid_map needs root, or setgroups denied first. *)
UpdateMap(from, to, ifNot) ==
  /\ \/ /\ from = "gid" => privileged \/ "deny" \in maps
        /\ ParentGoes(from, to) /\ maps' = maps \cup {from} /\ UNCHANGED faults
     \/ from = "gid" /\ ~privileged /\ "deny" \notin maps /\ ParentGoes(from, ifNot) /\ UNCHANGED <<maps, faults>>
     \/ ParentGoes(from, ifNot) /\ Fault /\ UNCHANGED maps
  /\ UNCHANGED <<child, status, late, seen, ahead, count>>

(* Mutant: setgroups is left as it is. *)
SetupUserMappingAllowing ==
  /\ program = "fake_root"
  /\ \/ ParentGoes("deny", "uid") /\ UNCHANGED <<child, status, late, identity, count, faults>>
     \/ UpdateMap("uid", "gid", "wait") \/ UpdateMap("gid", "wait", "wait")

(* fake_root goes on when a file could not be written; that setgroups could not be *)
(* opened it does not even take for an error.                                       *)
SetupUserMapping ==
  /\ program = "fake_root"
  /\ \/ UpdateMap("deny", "uid", "wait")
     \/ ParentGoes("deny", "uid") /\ Fault /\ UNCHANGED <<child, status, late, identity, count>>
     \/ UpdateMap("uid", "gid", "wait") \/ UpdateMap("gid", "wait", "wait")

(* userns_child exits. *)
UpdateMaps ==
  program = "userns_child" /\ (UpdateMap("uid", "gid", "failed") \/ UpdateMap("gid", "wait", "failed"))

(* wait() or waitpid() *)
Wait ==
  /\ child = "zombie" /\ ParentGoes("wait", "print")
  /\ child' = "reaped" /\ result' = raw
  /\ UNCHANGED <<code, raw, shown, late, identity, count, faults>>

(* sleep(), after which the programs of these two go on without having waited *)
Sleep ==
  /\ ParentGoes("sleep", "print")
  /\ UNCHANGED <<child, status, late, identity, count, faults>>

(* The status is printed and main() ends: the kernel sends what the child has asked for. *)
Exit ==
  /\ ParentGoes("print", "exited")
  /\ shown' = IF program = "userns_child" \/ (program = "fake_root" /\ result < 256 /\ result > 0)
              THEN -1 ELSE ExitStatus(result)
  /\ IF child = "armed_exec" \/ child = "armed_run"
     THEN child' = "zombie" /\ code' = -1 /\ raw' = Sigterm
     ELSE UNCHANGED <<child, code, raw>>
  /\ UNCHANGED <<result, late, identity, count, faults>>

-----------------------------------------------------------------------------
(***************************************************************************)
(* The children.                                                           *)
(***************************************************************************)
ChildGoes(from, to) ==
  /\ child = from /\ child' = to
  /\ UNCHANGED <<parent, result, shown>> /\ UNCHANGED given /\ UNCHANGED signals

ChildEnds(from, n) ==
  /\ ChildGoes(from, "zombie") /\ code' = n /\ raw' = n * 256
  /\ UNCHANGED <<late, identity, count, faults>>

(* Mutant: the signal is not asked for. *)
PrctlForgotten ==
  /\ ChildGoes("prctl", "exec")
  /\ UNCHANGED <<code, raw, late, identity, count, faults>>

(* PR_SET_PDEATHSIG *)
Prctl ==
  /\ ChildGoes("prctl", IF parent \in Ended THEN "exec" ELSE "armed_exec")
  /\ late' = (parent \in Ended)
  /\ UNCHANGED <<code, raw, identity, count, faults>>

Exec(from, to) ==
  \/ ChildGoes(from, to) /\ UNCHANGED <<code, raw, late, identity, count, faults>>
  \/ /\ ChildGoes(from, "zombie") /\ Fault /\ UNCHANGED <<late, identity, count>>
     /\ code' = IF program = "fake_root" THEN 1 ELSE 42
     /\ raw' = code' * 256

(* Without CLONE_NEWUSER's maps the ids are nobody's; one is read after the other. *)
Look ==
  /\ program \in Isolating
  /\ \/ /\ ChildGoes("look", "look_on")
        /\ seen' = maps \cap {"uid"} /\ ahead' = (parent \in {"deny", "uid"})
     \/ /\ ChildGoes("look_on", IF program = "fake_root" THEN "exec" ELSE "run")
        /\ seen' = seen \cup (maps \cap {"gid"}) /\ ahead' = (ahead \/ parent \in {"deny", "uid", "gid"})
  /\ UNCHANGED <<code, raw, late, maps, count, faults>>

(* sleeper.c, for 20 seconds *)
Sleeper(at) ==
  /\ program \in {"fork_exec_pc", "ps_zombie"}
  /\ \/ /\ count < Rounds /\ count' = count + 1
        /\ ChildGoes(at, at) /\ UNCHANGED <<code, raw, late, identity, faults>>
     \/ count = Rounds /\ ChildEnds(at, 0)

ChildLogic == program = "fork_basic" /\ ChildEnds("run", 242)
OtherProgram == program \in {"fork_exec", "ps_basic"} \cup Isolating /\ ChildEnds("run", 0)

(* Somebody kills the child. *)
ChildKilled ==
  /\ child \notin {"none", "zombie", "reaped"} /\ Fault
  /\ child' = "zombie" /\ code' = -1 /\ raw' = Sigterm
  /\ UNCHANGED <<parent, result, shown, late, identity, count>> /\ UNCHANGED given /\ UNCHANGED signals

-----------------------------------------------------------------------------
(***************************************************************************)
(* The signals.  A signal that can be delivered is, before main() goes on. *)
(***************************************************************************)
Goes(from, to) ==
  /\ program \in Signalled /\ parent = from /\ parent' = to /\ ~handling /\ (pending => blocked)
  /\ UNCHANGED <<child, status, late, identity, pending, handling, attempts, handled, ints, faults>>
  /\ UNCHANGED given

(* signal() or sigprocmask() *)
SetUp ==
  /\ Goes("setup", IF program = "logic" THEN "free" ELSE "work")
  /\ disposition' = CASE program = "ignore" -> "ignore"
                      [] program \in {"custom", "logic"} -> "handler"
                      [] program = "disturb" -> "default"
  /\ blocked' = (program = "disturb")
  /\ UNCHANGED count

Work ==
  /\ count < Rounds /\ Goes("work", "work") /\ count' = count + 1
  /\ UNCHANGED <<disposition, blocked>>

Restore ==
  /\ count = Rounds /\ Goes("work", "free")
  /\ disposition' = "default" /\ blocked' = FALSE
  /\ UNCHANGED count

(* The endless loop; one round is told from none. *)
Loop ==
  /\ count <= Rounds /\ Goes("free", "free") /\ count' = Rounds + 1
  /\ UNCHANGED <<disposition, blocked>>

(* Ctrl-C; SIGINTs that are pending together are one. *)
Interrupt ==
  /\ program \in Signalled /\ parent \notin Ended /\ ints < MaxInts
  /\ ints' = ints + 1 /\ pending' = (pending \/ disposition # "ignore")
  /\ UNCHANGED <<parent, child, status, late, identity, disposition, blocked, handling, attempts, handled, count, faults>>
  /\ UNCHANGED given

Deliver ==
  /\ pending /\ ~blocked /\ ~handling /\ parent \notin Ended
  /\ pending' = FALSE
  /\ IF disposition = "handler" THEN handling' = TRUE /\ UNCHANGED parent
     ELSE parent' = "killed" /\ UNCHANGED handling
  /\ UNCHANGED <<child, status, late, identity, disposition, blocked, attempts, handled, ints, count, faults>>
  /\ UNCHANGED given

(* Mutant: a missing break. *)
HandlerFallsThrough ==
  /\ handling /\ handling' = FALSE /\ handled' = handled + 1
  /\ IF program = "logic" THEN attempts' = 0 /\ parent' = IF attempts \in {0, 1} THEN "exited" ELSE parent
     ELSE UNCHANGED <<attempts, parent>>
  /\ UNCHANGED <<child, status, late, identity, disposition, blocked, pending, ints, count, faults>>
  /\ UNCHANGED given

(* my_wise_guy_signal_handler(), with SIGINT blocked meanwhile *)
Handler ==
  /\ handling /\ handling' = FALSE /\ handled' = handled + 1
  /\ \/ program = "custom" /\ UNCHANGED <<attempts, parent>>
     \/ program = "logic" /\ attempts \in 1..3 /\ attempts' = attempts - 1 /\ UNCHANGED parent
     \/ program = "logic" /\ attempts \notin 1..3 /\ parent' = "exited" /\ UNCHANGED attempts
  /\ UNCHANGED <<child, status, late, identity, disposition, blocked, pending, ints, count, faults>>
  /\ UNCHANGED given

-----------------------------------------------------------------------------
Init ==
  /\ program \in Programs /\ privileged \in BOOLEAN /\ (program \notin Isolating => privileged)
  /\ parent = IF program \in Signalled THEN "setup" ELSE "fork"
  /\ child = "none" /\ code = 0 /\ raw = 0
  /\ result \in CASE program = "fork_basic" -> {-1}
                  [] program \in {"fork_exec", "fork_exec_pc"} -> Garbage
                  [] OTHER -> {0}
  /\ shown = -1 /\ late = FALSE
  /\ maps = {} /\ seen = {} /\ ahead = FALSE
  /\ disposition = "default" /\ blocked = FALSE /\ pending = FALSE /\ handling = FALSE
  /\ attempts = 3 /\ handled = 0 /\ ints = 0 /\ count = 0 /\ faults = 0

ForkExec == Fork \/ (program \in Forking /\ (Wait \/ Sleep \/ Exit))
PosixSpawn == Spawn \/ (program \in Spawning /\ (Wait \/ Sleep \/ Exit))
FakeRoot == program = "fake_root" /\ (Clone \/ SetupUserMapping \/ Wait \/ Exit)
UsernsChild == program = "userns_child" /\ (Clone \/ UpdateMaps \/ Wait \/ Exit)
Child ==
  \/ Prctl \/ Exec("exec", "run") \/ Exec("armed_exec", "armed_run")
  \/ Look \/ Sleeper("run") \/ Sleeper("armed_run") \/ ChildLogic \/ OtherProgram
SignalProgram == SetUp \/ Work \/ Restore \/ Loop \/ Handler

Next ==
  \/ ForkExec \/ PosixSpawn \/ FakeRoot \/ UsernsChild
  \/ Child \/ ChildKilled
  \/ SignalProgram \/ Interrupt \/ Deliver

Spec == Init /\ [][Next]_vars

-----------------------------------------------------------------------------
(* The programs that wait print the exit code of the child they have waited for, and *)
(* nothing of the pid or of what was in the variable before (fork-basic.c:45-57,      *)
(* fork-exec.c:38-42, ps-basic.c:26-34, fake_root.c:130-136).                          *)
StatusIsTheChilds ==
  shown # -1 /\ program \notin {"fork_exec_pc", "ps_zombie"} =>
    child = "reaped" /\ shown = IF code = -1 THEN 0 ELSE code

(* No child outlives its parent: the parents wait, or the child of fork-exec-pc has   *)
(* asked for a signal.  The exceptions are ps-zombie, which wants it so; a child that *)
(* is too late with its prctl() (fork-exec-pc.c:32); and userns_child when gid_map is *)
(* refused (userns_child.c:33-36), as it always is to a user that is not root.         *)
NoneOutlives ==
  parent \in {"exited", "failed"} /\ program # "ps_zombie" =>
    \/ child \in {"none", "zombie", "reaped"}
    \/ program = "fork_exec_pc" /\ (late \/ child = "prctl")
    \/ program = "userns_child" /\ (faults > 0 \/ ~privileged)

(* The child of fake_root sees root's ids, both, whoever runs it, unless its 100 ms    *)
(* were over before both maps were written (fake_root.c:71) or one could not be.        *)
IdentityShown ==
  program = "fake_root" /\ child \in {"exec", "run"} => seen = {"uid", "gid"} \/ ahead \/ faults > 0

(* Ctrl-C ends no program during the work it protects, and is not forgotten either    *)
(* when it was blocked; signal-logic takes four.  Only before the call that sets this  *)
(* up, Ctrl-C ends the program (signal-basic.c:11, signal-custom.c:21,                   *)
(* signal-do-not-disturb.c:21, signal-logic.c:50).                                       *)
Undisturbed ==
  /\ parent = "killed" =>
       \/ handled = 0 /\ count = 0 /\ disposition = "default"
       \/ program # "logic" /\ count >= Rounds /\ disposition = "default" /\ ~blocked
  /\ program = "logic" /\ parent = "exited" => handled = 4
  /\ program = "disturb" /\ parent = "free" /\ count > Rounds => ints = 0 \/ pending
=============================================================================
