----------------------------- MODULE ThreadDemos -----------------------------
(***************************************************************************)
(* The programs of demos/process-thread/4-posix-threads.  Each creates     *)
(* threads that run one function, and waits for them, or not:              *)
(*   "supermarket"   customers share registers through a semaphore and a   *)
(*                   stack of free registers under a mutex                 *)
(*   "coordination"  threads count under a mutex                           *)
(*   "rc"            threads count without one                             *)
(*   "demo", "parent_child"  threads print; main() of the latter sleeps    *)
(*                   instead of waiting for them                           *)
(* A shared variable is read in one step and written in a later one, as    *)
(* the build, without -O, does (makefile).                                 *)
(***************************************************************************)
EXTENDS Integers, FiniteSets

CONSTANTS
  N,          \* NUM_CUSTOMERS or NUM_THREADS
  Registers,  \* NUM_CHECKOUTS
  Rounds,     \* MAX_COUNT or loop_count
  Programs,   \* which of the programs are run
  MaxFaults   \* bound: pthread_create() calls that fail

ASSUME SizesAssumption ==
  N \in Nat \ {0} /\ Registers \in Nat \ {0} /\ Rounds \in Nat \ {0} /\ MaxFaults \in Nat
ASSUME ProgramsAssumption ==
  Programs \subseteq {"supermarket", "coordination", "rc", "demo", "parent_child"}

VARIABLES
  program,    \* the program; stays as it is
  main,       \* "create", "join", "sleep", or how the process ended
  k,          \* threads created or joined in main()'s loop
  pc,         \* pc[t]: where thread t is
  n,          \* n[t]: rounds of its loop thread t has finished
  mutex,      \* who holds reg_mutex or mutex, 0 for nobody
  sem,        \* the value of checkout_lines
  counter,    \* shared_counter, or top
  registers,  \* the stack registers[]
  old,        \* old[t]: the value of counter thread t has read
  reg,        \* reg[t]: reg_id of a customer, 0 for none
  faults      \* failed calls so far

vars == <<program, main, k, pc, n, mutex, sem, counter, registers, old, reg, faults>>

Threads == 1..N
Over == main \in {"returned", "exited", "crashed"}

-----------------------------------------------------------------------------
(***************************************************************************)
(* The steps the thread functions are made of.                             *)
(***************************************************************************)
At(t, step) == ~Over /\ pc[t] = step
Goes(t, step) == pc' = [pc EXCEPT ![t] = step] /\ UNCHANGED <<program, main, k, faults>>
(* The end of a round: back to first, or to the end of the function. *)
Round(t, first) ==
  /\ n' = [n EXCEPT ![t] = @ + 1]
  /\ Goes(t, IF n[t] + 1 < Rounds THEN first ELSE "ended")

(* Mutant: the mutex is not waited for. *)
LockAnyway(t) ==
  /\ At(t, "lock")
  /\ mutex' = t /\ Goes(t, "load")
  /\ UNCHANGED <<n, sem, counter, registers, old, reg>>

(* pthread_mutex_lock() *)
Lock(t) ==
  /\ At(t, "lock") /\ mutex = 0
  /\ mutex' = t /\ Goes(t, "load")
  /\ UNCHANGED <<n, sem, counter, registers, old, reg>>

Load(t) ==
  /\ At(t, "load")
  /\ old' = [old EXCEPT ![t] = counter] /\ Goes(t, "store")
  /\ UNCHANGED <<n, mutex, sem, counter, registers, reg>>

(* "registers[top--]" *)
GetRegister(t) ==
  /\ At(t, "store") /\ reg[t] = 0
  /\ reg' = [reg EXCEPT ![t] = registers[old[t]]] /\ counter' = old[t] - 1
  /\ Goes(t, "unlock")
  /\ UNCHANGED <<n, mutex, sem, registers, old>>

(* Mutant: "registers[top++] = reg_id" *)
ReleaseRegisterBelow(t) ==
  /\ At(t, "store") /\ reg[t] # 0
  /\ registers' = [registers EXCEPT ![old[t]] = reg[t]] /\ counter' = old[t] + 1
  /\ reg' = [reg EXCEPT ![t] = 0]
  /\ Goes(t, "unlock") /\ n' = [n EXCEPT ![t] = 1]
  /\ UNCHANGED <<mutex, sem, old>>

(* "registers[++top] = reg_id"; the customer counts a round then. *)
ReleaseRegister(t) ==
  /\ At(t, "store") /\ reg[t] # 0
  /\ registers' = [registers EXCEPT ![old[t] + 1] = reg[t]] /\ counter' = old[t] + 1
  /\ reg' = [reg EXCEPT ![t] = 0]
  /\ Goes(t, "unlock") /\ n' = [n EXCEPT ![t] = 1]
  /\ UNCHANGED <<mutex, sem, old>>

(* pthread_mutex_unlock() *)
Unlock(t) == At(t, "unlock") /\ mutex' = 0

(* Mutant: sem_post() is missing. *)
PostForgotten(t) ==
  /\ At(t, "post")
  /\ Goes(t, "ended") /\ UNCHANGED <<n, mutex, sem, counter, registers, old, reg>>

(* sem_post() *)
Post(t) ==
  /\ At(t, "post")
  /\ sem' = sem + 1
  /\ Goes(t, "ended") /\ UNCHANGED <<n, mutex, counter, registers, old, reg>>

-----------------------------------------------------------------------------
(* customer(): sem_wait(), get_register(), sleep(), release_register(), sem_post(). *)
Customer(t) ==
  \/ /\ At(t, "wait") /\ sem > 0
     /\ sem' = sem - 1
     /\ Goes(t, "lock") /\ UNCHANGED <<n, mutex, counter, registers, old, reg>>
  \/ Lock(t) \/ Load(t) \/ GetRegister(t) \/ ReleaseRegister(t)
  \/ /\ Unlock(t) /\ Goes(t, IF n[t] = 0 THEN "pay" ELSE "post")
     /\ UNCHANGED <<n, sem, counter, registers, old, reg>>
  \/ /\ At(t, "pay")
     /\ Goes(t, "lock") /\ UNCHANGED <<n, mutex, sem, counter, registers, old, reg>>
  \/ Post(t)

(* thread_function() of thread-coordination.c *)
Coordinated(t) ==
  \/ Lock(t) \/ Load(t)
  \/ /\ At(t, "store")
     /\ counter' = old[t] + 1
     /\ Goes(t, "unlock") /\ UNCHANGED <<n, mutex, sem, registers, old, reg>>
  \/ Unlock(t) /\ Round(t, "lock") /\ UNCHANGED <<sem, counter, registers, old, reg>>

(* thread_function() of thread-rc.c *)
Racing(t) ==
  \/ Load(t)
  \/ /\ At(t, "store")
     /\ counter' = old[t] + 1
     /\ Round(t, "load") /\ UNCHANGED <<mutex, sem, registers, old, reg>>

(* thread_function() of thread-demo.c and thread-parent-child.c *)
Greeting(t) ==
  /\ At(t, "hello")
  /\ Round(t, "hello") /\ UNCHANGED <<mutex, sem, counter, registers, old, reg>>

ThreadStep(t) ==
  \/ program = "supermarket" /\ Customer(t)
  \/ program = "coordination" /\ Coordinated(t)
  \/ program = "rc" /\ Racing(t)
  \/ program \in {"demo", "parent_child"} /\ Greeting(t)

-----------------------------------------------------------------------------
First ==
  CASE program = "supermarket" -> "wait" [] program = "coordination" -> "lock"
    [] program = "rc" -> "load" [] OTHER -> "hello"

(* thread-demo.c has one thread. *)
Number == IF program = "demo" THEN 1 ELSE N
Shared == UNCHANGED <<program, n, mutex, sem, counter, registers, old, reg>>
(* Mutant: "i <= NUM_THREADS" *)
LoopsTooOften(then) ==
  IF k < Number THEN k' = k + 1 /\ UNCHANGED main ELSE k' = 0 /\ main' = then
(* main()'s loop goes on, or what follows it begins. *)
Loops(then) ==
  IF k + 1 < Number THEN k' = k + 1 /\ UNCHANGED main ELSE k' = 0 /\ main' = then
Created == IF program = "parent_child" THEN "sleep" ELSE "join"

(* pthread_create() *)
Create ==
  /\ main = "create"
  /\ pc' = [pc EXCEPT ![k + 1] = First]
  /\ Loops(Created) /\ Shared /\ UNCHANGED faults

(* It fails: the supermarket opens all the same, the others exit(). *)
CreateFails ==
  /\ main = "create" /\ faults < MaxFaults /\ faults' = faults + 1
  /\ IF program = "supermarket" THEN Loops("join") ELSE main' = "exited" /\ UNCHANGED k
  /\ Shared /\ UNCHANGED pc

(* Mutant: the last thread is not waited for. *)
JoinEarly ==
  /\ main = "join" /\ (k + 1 < Number => pc[k + 1] = "ended")
  /\ Loops("returned") /\ Shared /\ UNCHANGED <<pc, faults>>

(* pthread_join() *)
Join ==
  /\ main = "join" /\ pc[k + 1] = "ended"
  /\ Loops("returned") /\ Shared /\ UNCHANGED <<pc, faults>>

(* pthread_join() with a handle no pthread_create() has set. *)
JoinNobody ==
  /\ main = "join" /\ pc[k + 1] = "none"
  /\ \/ Loops("returned")
     \/ main' = "crashed" /\ UNCHANGED k
  /\ Shared /\ UNCHANGED <<pc, faults>>

(* sleep(5), and the process ends with its threads. *)
WakeUp ==
  /\ main = "sleep"
  /\ main' = "returned" /\ Shared /\ UNCHANGED <<k, pc, faults>>

MainStep == Create \/ Join \/ JoinNobody \/ WakeUp

Init ==
  /\ program \in Programs
  /\ main = "create" /\ k = 0
  /\ pc = [t \in Threads |-> "none"] /\ n = [t \in Threads |-> 0]
  /\ mutex = 0 /\ sem = Registers
  /\ counter = IF program = "supermarket" THEN Registers - 1 ELSE 0
  /\ registers = [i \in 0..Registers - 1 |-> i + 1]
  /\ old = [t \in Threads |-> 0] /\ reg = [t \in Threads |-> 0]
  /\ faults = 0

Next == MainStep \/ CreateFails \/ \E t \in Threads : ThreadStep(t)

Spec == Init /\ [][Next]_vars

(* Threads that can go on are scheduled. *)
FairSpec == Spec /\ WF_vars(MainStep) /\ \A t \in Threads : WF_vars(ThreadStep(t))

-----------------------------------------------------------------------------
Steps == {"none", "wait", "lock", "load", "store", "unlock", "pay", "post", "hello", "ended"}

TypeOK ==
  /\ program \in Programs
  /\ main \in {"create", "join", "sleep", "returned", "exited", "crashed"}
  /\ k \in 0..N - 1
  /\ pc \in [Threads -> Steps] /\ n \in [Threads -> Nat]
  /\ mutex \in Threads \cup {0} /\ sem \in Nat /\ counter \in Int
  /\ old \in [Threads -> Int] /\ faults \in Nat

Locked == program \in {"supermarket", "coordination"}
Inside(t) == pc[t] \in {"load", "store", "unlock"}

(* The mutex is held by who is inside, and what was read there is still so when it   *)
(* is written: no increment and no register is lost (thread-coordination.c:36-40,    *)
(* thread-supermarket.c:18-20).                                                      *)
NothingLost ==
  Locked => \A t \in Threads :
    /\ Inside(t) => mutex = t
    /\ pc[t] = "store" => old[t] = counter

(* A register is free or used by one customer, and none is forgotten: the stack is    *)
(* never read below or written above its ends.                                        *)
EveryRegisterOnce ==
  program = "supermarket" =>
    /\ counter \in -1..Registers - 1 /\ DOMAIN registers = 0..Registers - 1
    /\ \A r \in 1..Registers :
         Cardinality({i \in 0..counter : registers[i] = r}) + Cardinality({t \in Threads : reg[t] = r}) = 1

(* What main() prints: the exact count with the mutex, at least 2 without it (the     *)
(* threads' updates can be lost, but not all but one).                                *)
FinalCount ==
  main = "returned" =>
    /\ program = "coordination" => counter = N * Rounds
    /\ program = "rc" => counter <= N * Rounds /\ (Rounds > 1 => counter >= 2)

(* Every program comes to its end: no customer waits for a register for ever.         *)
ProgramEnds == <>Over
=============================================================================
