------------------------- MODULE ProcessDemos_proofs -------------------------
(***************************************************************************)
(* Theorems about ProcessDemos, for every number of rounds, of signals and *)
(* of failing calls, every pid and every value an unset variable may have. *)
(***************************************************************************)
EXTENDS ProcessDemos, TLAPS

Unwaited == {"fork_exec_pc", "ps_zombie"}

(* Where main() and its child may be together. *)
Placed ==
  /\ program \in Programs /\ faults \in Nat
  /\ program \in Signalled => child = "none" /\ parent \in {"setup", "work", "free", "killed", "exited"}
  /\ program \notin Signalled =>
       /\ pending = FALSE /\ handling = FALSE
       /\ parent \in {"fork", "deny", "uid", "gid", "sleep", "wait", "print", "exited", "failed"}
       /\ parent = "fork" => child = "none"
       /\ parent = "failed" => child = "none" \/ program = "userns_child"
       /\ child = "none" => parent \in {"fork", "failed"}
  /\ program \in Unwaited => parent \in {"fork", "sleep", "print", "exited", "failed"}
  /\ parent = "sleep" => program \in Unwaited
  /\ program \notin Unwaited \cup Signalled /\ parent \in {"print", "exited"} => child = "reaped"

(* The kernel's status is the child's, main() has it once it has waited, and prints it. *)
StatusKept ==
  /\ code \in {-1, 0, 1, 42, 242} /\ raw = IF code = -1 THEN Sigterm ELSE code * 256
  /\ program \notin Unwaited =>
       /\ program \notin Signalled /\ parent \in {"print", "exited"} => result = raw
       /\ shown # -1 => program \notin Signalled /\ parent = "exited" /\ shown = ExitStatus(raw)

(* The child of fork-exec-pc is armed before it goes on, or was too late; the parent *)
(* of userns_child gives up only when a file could not be written.                    *)
Followed ==
  /\ child \in {"prctl", "armed_exec", "armed_run"} => program = "fork_exec_pc"
  /\ program = "fork_exec_pc" =>
       /\ child \in {"armed_exec", "armed_run"} => parent \notin Ended
       /\ child \in {"exec", "run"} => late
       /\ child \in {"none", "prctl", "armed_exec", "armed_run", "exec", "run", "zombie", "reaped"}
  /\ program = "userns_child" /\ parent = "failed" => faults > 0 \/ ~privileged

(* The maps main() has come past are written, and the child that looked after that *)
(* saw them.                                                                        *)
Mapped ==
  program = "fake_root" =>
    /\ maps \subseteq {"deny", "uid", "gid"}
    /\ faults = 0 =>
         /\ parent \notin {"fork", "deny", "failed"} => "deny" \in maps
         /\ parent \notin {"fork", "deny", "uid", "failed"} => "uid" \in maps
         /\ parent \notin {"fork", "deny", "uid", "gid", "failed"} => "gid" \in maps
         /\ child = "look_on" => seen = {"uid"} \/ ahead
         /\ child \in {"exec", "run"} => seen = {"uid", "gid"} \/ ahead
    /\ child \notin {"armed_exec", "armed_run", "prctl"}

(* What a signal finds at each place of main(). *)
SetUpRight ==
  /\ handled \in Nat /\ count \in Nat /\ ints \in Nat
  /\ parent = "setup" => disposition = "default" /\ ~blocked /\ ~handling /\ handled = 0 /\ count = 0 /\ attempts = 3
  /\ parent = "work" =>
       /\ program # "logic" /\ count <= Rounds
       /\ program = "ignore" => disposition = "ignore" /\ ~pending
       /\ program = "custom" => disposition = "handler"
       /\ program = "disturb" => blocked
  /\ parent = "free" =>
       IF program = "logic" THEN disposition = "handler" ELSE disposition = "default" /\ ~blocked /\ count >= Rounds
  /\ handling => program \in {"custom", "logic"} /\ parent \in {"work", "free"} /\ disposition = "handler"
  /\ program = "logic" /\ parent # "killed" => attempts \in 0..3 /\ (parent # "exited" => handled + attempts = 3)
  /\ program = "disturb" =>
       disposition = "default" /\ (parent # "killed" => ints = 0 \/ pending)

Signals == program \in Signalled => SetUpRight /\ Undisturbed
USE DEF Signalled, Forking, Spawning, Isolating, Unwaited, Ended

(***************************************************************************)
(* What the steps of each of the actors leave alone.                       *)
(***************************************************************************)
ParentStep ==
  \/ Fork \/ Spawn \/ Clone \/ SetupUserMapping \/ UpdateMaps
  \/ (program \notin Signalled /\ (Wait \/ Exit)) \/ (program \in Unwaited /\ Sleep)
ChildStep == Child \/ ChildKilled
SignalStep == SignalProgram \/ Interrupt \/ Deliver

LEMMA NextActors ==
  ASSUME Placed, [Next]_vars
  PROVE  ParentStep \/ ChildStep \/ SignalStep \/ UNCHANGED vars
  BY Zenon DEF Next, ParentStep, ChildStep, SignalStep, ForkExec, PosixSpawn, FakeRoot, UsernsChild, Sleep, ParentGoes, Placed

LEMMA ParentOnly ==
  ASSUME Placed, ParentStep
  PROVE  program \notin Signalled /\ UNCHANGED given /\ UNCHANGED signals /\ UNCHANGED <<count, seen, ahead, late>>
  BY ProgramsAssumption DEF ParentStep, Fork, Spawn, Clone, SetupUserMapping, UpdateMaps, UpdateMap, Wait, Sleep, Exit, ParentGoes, identity, Placed

LEMMA ChildOnly ==
  ASSUME Placed, ChildStep
  PROVE  /\ program \notin Signalled /\ UNCHANGED given /\ UNCHANGED signals
         /\ UNCHANGED <<parent, result, shown, maps>>
  BY ProgramsAssumption DEF ChildStep, Child, ChildKilled, Prctl, Exec, Look, Sleeper, ChildLogic, OtherProgram, ChildGoes, ChildEnds, identity, Placed

LEMMA SignalOnly ==
  ASSUME Placed, SignalStep
  PROVE  /\ program \in Signalled /\ UNCHANGED given
         /\ UNCHANGED <<child, status, late, identity, faults>>
  BY ProgramsAssumption DEF SignalStep, SignalProgram, SetUp, Work, Restore, Loop, Goes, Handler, Interrupt, Deliver, Placed

LEMMA PlacedStep == ASSUME Placed, [Next]_vars PROVE Placed'
<1>1. CASE ParentStep
  <2>1. /\ program' = program /\ program \notin Signalled
        /\ pending' = pending /\ handling' = handling
    BY <1>1, ParentOnly DEF given, signals
  <2>2. CASE Fork
    BY <2>1, <2>2 DEF Fork, ParentGoes, Fault, Placed
  <2>3. CASE Spawn
    BY <2>1, <2>3 DEF Spawn, ParentGoes, Fault, Placed
  <2>4. CASE Clone
    BY <2>1, <2>4 DEF Clone, ParentGoes, Fault, Placed
  <2>5. CASE SetupUserMapping
    BY <2>1, <2>5 DEF SetupUserMapping, UpdateMap, ParentGoes, Fault, Placed
  <2>6. CASE UpdateMaps
    BY <2>1, <2>6 DEF UpdateMaps, UpdateMap, ParentGoes, Fault, Placed
  <2>7. CASE Wait
    BY <2>1, <2>7 DEF Wait, ParentGoes, Placed
  <2>8. CASE Sleep
    BY <2>1, <2>8 DEF Sleep, ParentGoes, Placed
  <2>9. CASE Exit
    BY <2>1, <2>9 DEF Exit, ParentGoes, Placed
  <2> QED BY <1>1, <2>2, <2>3, <2>4, <2>5, <2>6, <2>7, <2>8, <2>9 DEF ParentStep
<1>2. CASE ChildStep
  <2>1. /\ UNCHANGED <<program, parent, pending, handling>> /\ program \notin Signalled
    BY <1>2, ChildOnly DEF given, signals
  <2>2. faults' \in Nat
    BY <1>2 DEF ChildStep, Child, ChildKilled, Prctl, Exec, Look, Sleeper, ChildLogic, OtherProgram, ChildEnds, Fault, Placed
  <2>3. child # "reaped" /\ child # "none" /\ child' # "none"
    BY <1>2 DEF ChildStep, Child, ChildKilled, Prctl, Exec, Look, Sleeper, ChildLogic, OtherProgram, ChildEnds, ChildGoes
  <2> QED BY <2>1, <2>2, <2>3 DEF Placed
<1>3. CASE SignalStep
  <2>1. UNCHANGED <<program, child, faults>> /\ program \in Signalled
    BY <1>3, SignalOnly DEF given
  <2>2. parent' \in {"setup", "work", "free", "killed", "exited"}
    BY <1>3, <2>1 DEF SignalStep, SignalProgram, SetUp, Work, Restore, Loop, Goes, Handler, Interrupt, Deliver, Placed
  <2> QED BY <2>1, <2>2 DEF Placed
<1>4. CASE UNCHANGED vars
  BY <1>4 DEF vars, given, signals, Placed
<1> QED BY <1>1, <1>2, <1>3, <1>4, NextActors

LEMMA FollowedStep == ASSUME Placed, Followed, [Next]_vars PROVE Followed'
<1>1. CASE ParentStep
  <2>1. /\ UNCHANGED <<program, privileged, late>> /\ program \notin Signalled
    BY <1>1, ParentOnly DEF given
  <2>2. CASE Fork
    BY <2>1, <2>2 DEF Fork, ParentGoes, Fault, Placed, Followed
  <2>3. CASE Spawn
    BY <2>1, <2>3 DEF Spawn, ParentGoes, Fault, Placed, Followed
  <2>4. CASE Clone
    BY <2>1, <2>4 DEF Clone, ParentGoes, Fault, Placed, Followed
  <2>5. CASE SetupUserMapping
    BY <2>1, <2>5 DEF SetupUserMapping, UpdateMap, ParentGoes, Fault, Placed, Followed
  <2>6. CASE UpdateMaps
    BY <2>1, <2>6 DEF UpdateMaps, UpdateMap, ParentGoes, Fault, Placed, Followed
  <2>7. CASE Wait
    BY <2>1, <2>7 DEF Wait, ParentGoes, Placed, Followed
  <2>8. CASE Sleep
    BY <2>1, <2>8 DEF Sleep, ParentGoes, Placed, Followed
  <2>9. CASE Exit
    BY <2>1, <2>9 DEF Exit, ParentGoes, Placed, Followed
  <2> QED BY <1>1, <2>2, <2>3, <2>4, <2>5, <2>6, <2>7, <2>8, <2>9 DEF ParentStep
<1>2. CASE ChildStep
  <2>1. /\ UNCHANGED <<program, privileged, parent>> /\ program \notin Signalled
    BY <1>2, ChildOnly DEF given
  <2>2. CASE Prctl
    BY <2>1, <2>2 DEF Prctl, ChildGoes, Followed
  <2>3. CASE Exec("exec", "run")
    BY <2>1, <2>3 DEF Exec, ChildGoes, Fault, Followed, Placed
  <2>4. CASE Exec("armed_exec", "armed_run")
    BY <2>1, <2>4 DEF Exec, ChildGoes, Fault, Followed, Placed
  <2>5. CASE Look
    BY <2>1, <2>5 DEF Look, ChildGoes, Followed
  <2>6. CASE Sleeper("run") \/ Sleeper("armed_run")
    BY <2>1, <2>6 DEF Sleeper, ChildGoes, ChildEnds, Followed
  <2>7. CASE ChildLogic \/ OtherProgram
    BY <2>1, <2>7 DEF ChildLogic, OtherProgram, ChildGoes, ChildEnds, Followed
  <2>8. CASE ChildKilled
    BY <2>1, <2>8 DEF ChildKilled, Fault, Followed, Placed
  <2> QED BY <1>2, <2>2, <2>3, <2>4, <2>5, <2>6, <2>7, <2>8 DEF ChildStep, Child
<1>3. CASE SignalStep
  BY <1>3, SignalOnly DEF given, Followed, Placed
<1>4. CASE UNCHANGED vars
  BY <1>4 DEF vars, given, Followed
<1> QED BY <1>1, <1>2, <1>3, <1>4, NextActors

(* The exit codes the children have, seen through the status. *)
LEMMA ExitStatusOf ==
  ASSUME NEW c \in {-1, 0, 1, 42, 242}
  PROVE  ExitStatus(IF c = -1 THEN Sigterm ELSE c * 256) = IF c = -1 THEN 0 ELSE c
  BY DEF ExitStatus, Sigterm

LEMMA StatusStep == ASSUME Placed, Followed, StatusKept, [Next]_vars PROVE StatusKept'
<1>1. CASE ParentStep
  <2>1. program' = program /\ program \notin Signalled
    BY <1>1, ParentOnly DEF given
  <2>2. CASE Fork
    BY <2>1, <2>2 DEF Fork, ParentGoes, status, Placed, StatusKept
  <2>3. CASE Spawn
    BY <2>1, <2>3 DEF Spawn, ParentGoes, Placed, StatusKept
  <2>4. CASE Clone
    BY <2>1, <2>4 DEF Clone, ParentGoes, status, Placed, StatusKept
  <2>5. CASE SetupUserMapping
    BY <2>1, <2>5 DEF SetupUserMapping, UpdateMap, ParentGoes, status, StatusKept
  <2>6. CASE UpdateMaps
    BY <2>1, <2>6 DEF UpdateMaps, UpdateMap, ParentGoes, status, StatusKept
  <2>7. CASE Wait
    BY <2>1, <2>7 DEF Wait, ParentGoes, StatusKept
  <2>8. CASE Sleep /\ program \in Unwaited
    BY <2>1, <2>8 DEF Sleep, ParentGoes, status, StatusKept
  <2>9. CASE Exit
    <3>1. CASE program \in Unwaited
      BY <2>1, <2>9, <3>1 DEF Exit, ParentGoes, StatusKept
    <3>2. CASE program \notin Unwaited
      <4>1. parent = "print" /\ parent' = "exited" /\ child = "reaped" /\ result = raw
        BY <2>1, <2>9, <3>2 DEF Exit, ParentGoes, Placed, StatusKept
      <4>2. UNCHANGED <<code, raw, result>> /\ shown' \in {-1, ExitStatus(raw)}
        BY <2>9, <4>1 DEF Exit
      <4> QED BY <2>1, <4>1, <4>2 DEF StatusKept
    <3> QED BY <3>1, <3>2
  <2> QED BY <1>1, <2>2, <2>3, <2>4, <2>5, <2>6, <2>7, <2>8, <2>9 DEF ParentStep
<1>2. CASE ChildStep
  <2>1. UNCHANGED <<program, parent, result, shown>> /\ program \notin Signalled
    BY <1>2, ChildOnly DEF given
  <2>2. child \notin {"none", "zombie", "reaped"} \/ UNCHANGED <<code, raw>>
    BY <1>2 DEF ChildStep, Child, ChildKilled, Prctl, Exec, Look, Sleeper, ChildLogic, OtherProgram, ChildEnds, ChildGoes
  <2>3. \/ UNCHANGED <<code, raw>>
        \/ code' \in {-1, 0, 1, 42, 242} /\ raw' = IF code' = -1 THEN Sigterm ELSE code' * 256
    BY <1>2 DEF ChildStep, Child, ChildKilled, Prctl, Exec, Look, Sleeper, ChildLogic, OtherProgram, ChildEnds, ChildGoes
  <2> QED BY <2>1, <2>2, <2>3 DEF Placed, StatusKept
<1>3. CASE SignalStep
  BY <1>3, SignalOnly DEF given, status, StatusKept
<1>4. CASE UNCHANGED vars
  BY <1>4 DEF vars, given, status, StatusKept
<1> QED BY <1>1, <1>2, <1>3, <1>4, NextActors

LEMMA MappedStep == ASSUME Placed, Mapped, [Next]_vars PROVE Mapped'
<1>1. CASE ParentStep
  <2>1. UNCHANGED <<program, seen, ahead>>
    BY <1>1, ParentOnly DEF given
  <2>2. CASE Fork \/ Spawn \/ UpdateMaps \/ program # "fake_root"
    BY <2>1, <2>2 DEF Fork, Spawn, UpdateMaps, Mapped
  <2>3. CASE Clone /\ program = "fake_root"
    BY <2>1, <2>3 DEF Clone, ParentGoes, identity, Fault, Mapped, Placed
  <2>4. CASE SetupUserMapping
    BY <2>1, <2>4 DEF SetupUserMapping, UpdateMap, ParentGoes, identity, Fault, Mapped, Placed
  <2>5. CASE Wait
    BY <2>1, <2>5 DEF Wait, ParentGoes, identity, Mapped, Placed
  <2>6. CASE Exit
    BY <2>1, <2>6 DEF Exit, ParentGoes, identity, Mapped, Placed
  <2> QED BY <1>1, <2>2, <2>3, <2>4, <2>5, <2>6 DEF ParentStep
<1>2. CASE ChildStep
  <2>1. UNCHANGED <<program, parent, maps>>
    BY <1>2, ChildOnly DEF given
  <2>2. CASE Look /\ program = "fake_root"
    BY <2>1, <2>2 DEF Look, ChildGoes, Mapped, Placed
  <2>3. CASE ~Look /\ program = "fake_root"
    <3>1. UNCHANGED <<seen, ahead>> /\ child' \in {"zombie", "run", child}
      BY <1>2, <2>3 DEF ChildStep, Child, ChildKilled, Prctl, Exec, Sleeper, ChildLogic, OtherProgram,
         ChildEnds, ChildGoes, identity, Mapped
    <3>2. faults' = faults \/ faults' = faults + 1
      BY <1>2, <2>3 DEF ChildStep, Child, ChildKilled, Prctl, Exec, Sleeper, ChildLogic, OtherProgram,
         ChildEnds, ChildGoes, Fault
    <3>3. child' = "run" => child \in {"exec", "run"}
      BY <1>2, <2>3 DEF ChildStep, Child, ChildKilled, Prctl, Exec, Sleeper, ChildLogic, OtherProgram,
         ChildEnds, ChildGoes, Mapped
    <3> QED BY <2>1, <2>3, <3>1, <3>2, <3>3 DEF Mapped, Placed
  <2> QED BY <2>1, <2>2, <2>3 DEF Mapped
<1>3. CASE SignalStep
  BY <1>3, SignalOnly DEF given, Mapped
<1>4. CASE UNCHANGED vars
  BY <1>4 DEF vars, given, identity, Mapped
<1> QED BY <1>1, <1>2, <1>3, <1>4, NextActors

LEMMA SignalsStep == ASSUME Placed, Signals, [Next]_vars PROVE Signals'
<1> USE SizesAssumption DEF Signals, SetUpRight, Undisturbed
<1>1. CASE ParentStep \/ ChildStep
  BY <1>1, ParentOnly, ChildOnly DEF given
<1>2. CASE SignalStep
  <2>1. program' = program /\ program \in Signalled /\ SetUpRight /\ Undisturbed
    BY <1>2, SignalOnly DEF given
  <2>2. parent \in {"setup", "work", "free", "killed", "exited"}
    BY <2>1 DEF Placed
  <2>3. CASE SetUp
    <3>1. blocked' = (program = "disturb")
      BY <2>3, Zenon DEF SetUp
    <3>2. ~pending /\ (program = "disturb" => ints = 0)
      BY <2>1, <2>3 DEF SetUp, Goes
    <3>3. /\ program = "ignore" => disposition' = "ignore"
          /\ program \in {"custom", "logic"} => disposition' = "handler"
          /\ program = "disturb" => disposition' = "default"
      BY <2>3, Zenon DEF SetUp
    <3>4. parent' = IF program = "logic" THEN "free" ELSE "work"
      BY <2>3 DEF SetUp, Goes
    <3>5. UNCHANGED <<program, handled, count, ints, pending, handling, attempts>> /\ parent = "setup"
      BY <2>3 DEF SetUp, Goes, given
    <3>6. CASE program = "disturb"
      <4>1. blocked' = TRUE
        BY <3>1, <3>6
      <4> QED BY <2>1, <3>2, <3>3, <3>4, <3>5, <3>6, <4>1
    <3>7. CASE program # "disturb"
      BY <2>1, <3>2, <3>3, <3>4, <3>5, <3>7
    <3> QED BY <3>6, <3>7
  <2>4. CASE Work
    BY <2>1, <2>4 DEF Work, Goes
  <2>5. CASE Restore
    BY <2>1, <2>5 DEF Restore, Goes
  <2>6. CASE Loop
    BY <2>1, <2>6 DEF Loop, Goes
  <2>7. CASE Handler
    BY <2>1, <2>2, <2>7 DEF Handler
  <2>8. CASE Interrupt
    <3>1. pending' = (pending \/ disposition # "ignore")
      BY <2>8, Zenon DEF Interrupt
    <3>2. (pending' => pending \/ disposition # "ignore") /\ (pending \/ disposition # "ignore" => pending')
      BY <3>1
    <3>3. UNCHANGED <<program, parent, handled, count, disposition, blocked, handling, attempts>> /\ ints' = ints + 1
      BY <2>1, <2>8 DEF Interrupt
    <3> QED BY <2>1, <3>2, <3>3
  <2>9. CASE Deliver
    BY <2>1, <2>2, <2>9 DEF Deliver
  <2> QED BY <1>2, <2>3, <2>4, <2>5, <2>6, <2>7, <2>8, <2>9 DEF SignalStep, SignalProgram
<1>3. CASE UNCHANGED vars
  BY <1>3 DEF vars, given, signals
<1> QED BY <1>1, <1>2, <1>3, NextActors

ProcessInv == Placed /\ StatusKept /\ Followed /\ Mapped /\ Signals

LEMMA ProcessInit == Init => ProcessInv
<1> SUFFICES ASSUME Init PROVE ProcessInv
  OBVIOUS
<1>1. program \in Forking \cup Spawning \cup Isolating \cup Signalled
  BY ProgramsAssumption DEF Init
<1>2. parent = IF program \in Signalled THEN "setup" ELSE "fork"
  BY DEF Init
<1>3. Placed
  BY <1>1, <1>2 DEF Init, Placed
<1>4. StatusKept /\ Followed /\ Mapped
  BY <1>1, <1>2 DEF Init, StatusKept, Followed, Mapped
<1>5. Signals
  BY <1>1, <1>2 DEF Init, Signals, SetUpRight, Undisturbed
<1> QED BY <1>3, <1>4, <1>5 DEF ProcessInv

(***************************************************************************)
(* The parts of the inductive invariant hold together in every reachable   *)
(* state: each step of a parent, of a child or of a signal keeps all five. *)
(***************************************************************************)
THEOREM ProcessInvariant == Spec => []ProcessInv
<1>1. ProcessInv /\ [Next]_vars => ProcessInv'
  BY PlacedStep, StatusStep, FollowedStep, MappedStep, SignalsStep DEF ProcessInv
<1> QED BY <1>1, ProcessInit, PTL DEF Spec

(* Whatever the child, the pid, the failures and the kills: a program that waits      *)
(* prints its child's exit code (fork-basic.c:45-57, fork-exec.c:38-42,                *)
(* ps-basic.c:26-34, fake_root.c:130-136).                                              *)
THEOREM StatusPrinted == Spec => []StatusIsTheChilds
<1>1. ASSUME ProcessInv, shown # -1, program \notin Unwaited
      PROVE  child = "reaped" /\ shown = IF code = -1 THEN 0 ELSE code
  <2>1. parent = "exited" /\ program \notin Signalled /\ shown = ExitStatus(raw)
    BY <1>1 DEF ProcessInv, StatusKept
  <2>2. child = "reaped"
    BY <1>1, <2>1 DEF ProcessInv, Placed
  <2>3. code \in {-1, 0, 1, 42, 242} /\ raw = IF code = -1 THEN Sigterm ELSE code * 256
    BY <1>1 DEF ProcessInv, StatusKept
  <2> QED BY <2>1, <2>2, <2>3, ExitStatusOf
<1>2. ProcessInv => StatusIsTheChilds
  BY <1>1 DEF StatusIsTheChilds
<1> QED BY <1>2, ProcessInvariant, PTL

(* No child outlives its parent, with the three exceptions NoneOutlives names         *)
(* (fork-exec-pc.c:32, ps-zombie.c, userns_child.c:33-36).                              *)
THEOREM ParentsFollowed == Spec => []NoneOutlives
<1>1. ProcessInv => NoneOutlives
  BY ProgramsAssumption DEF ProcessInv, Placed, Followed, NoneOutlives
<1> QED BY <1>1, ProcessInvariant, PTL

(* The child of fake_root sees root's ids unless it looked before main() had written  *)
(* them or a file could not be written (fake_root.c:71).                                *)
THEOREM RootSeen == Spec => []IdentityShown
<1>1. ProcessInv => IdentityShown
  BY DEF ProcessInv, Placed, Mapped, IdentityShown
<1> QED BY <1>1, ProcessInvariant, PTL

(* Ctrl-C, however often, ends none of the signal demos in its work, and              *)
(* signal-logic ends at the fourth (signal-basic.c:11, signal-custom.c:21,              *)
(* signal-do-not-disturb.c:21, signal-logic.c:50).                                       *)
THEOREM WorkUndisturbed == Spec => []Undisturbed
<1>1. ProcessInv => Undisturbed
  BY DEF ProcessInv, Placed, Signals, Undisturbed
<1> QED BY <1>1, ProcessInvariant, PTL
=============================================================================
