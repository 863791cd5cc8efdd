------------------------- MODULE ThreadDemos_proofs -------------------------
(***************************************************************************)
(* Theorems about ThreadDemos, for every number of threads, rounds and     *)
(* registers.                                                              *)
(***************************************************************************)
EXTENDS ThreadDemos, FiniteSetTheorems, TLAPS

(* A round that ends changes the thread's own label and count. *)
LEMMA RoundStep ==
  ASSUME TypeOK, NEW t \in Threads, NEW first \in Steps, Round(t, first)
  PROVE  /\ n' \in [Threads -> Nat]
         /\ \E step \in {first, "ended"} : Goes(t, step)
<1>1. n[t] + 1 \in Nat /\ n' = [n EXCEPT ![t] = n[t] + 1]
  BY DEF Round, TypeOK
<1>2. n' \in [Threads -> Nat]
  BY <1>1 DEF TypeOK
<1>3. CASE n[t] + 1 < Rounds
  BY <1>2, <1>3 DEF Round
<1>4. CASE ~(n[t] + 1 < Rounds)
  BY <1>2, <1>4 DEF Round
<1> QED BY <1>3, <1>4

(* A step of thread t: what it assigns keeps its type. *)
LEMMA TypedGoes ==
  ASSUME TypeOK, NEW t \in Threads, NEW step \in Steps, Goes(t, step),
         n' \in [Threads -> Nat], mutex' \in Threads \cup {0}, sem' \in Nat, counter' \in Int,
         old' \in [Threads -> Int]
  PROVE  TypeOK'
  BY DEF Goes, TypeOK

LEMMA ThreadTyping ==
  ASSUME TypeOK, NEW t \in Threads, ThreadStep(t)
  PROVE  TypeOK'
<1>1. /\ n \in [Threads -> Nat] /\ mutex \in Threads \cup {0} /\ sem \in Nat /\ counter \in Int
      /\ old \in [Threads -> Int] /\ old[t] \in Int /\ old[t] + 1 \in Int /\ old[t] - 1 \in Int
  BY DEF TypeOK
<1>2. {"lock", "load", "store", "unlock", "pay", "post", "hello", "ended"} \subseteq Steps
  BY DEF Steps
<1>3. CASE Lock(t)
  BY <1>1, <1>2, <1>3, TypedGoes DEF Lock
<1>4. CASE Load(t)
  <2>1. old' \in [Threads -> Int]
    BY <1>1, <1>4 DEF Load
  <2> QED BY <1>1, <1>2, <1>4, <2>1, TypedGoes DEF Load
<1>5. ASSUME Unlock(t), NEW step \in Steps, Goes(t, step), n' \in [Threads -> Nat],
             UNCHANGED <<sem, counter, registers, old, reg>>
      PROVE  TypeOK'
  BY <1>1, <1>5, TypedGoes DEF Unlock
<1>6. ASSUME NEW first \in {"lock", "load", "hello"}, Round(t, first), mutex' \in Threads \cup {0},
             counter' \in Int, UNCHANGED <<sem, old>>
      PROVE  TypeOK'
  <2>1. first \in Steps
    BY <1>2
  <2>2. n' \in [Threads -> Nat] /\ \E step \in Steps : Goes(t, step)
    BY <1>2, <1>6, <2>1, RoundStep
  <2> QED BY <1>1, <1>6, <2>2, TypedGoes
<1>7. CASE Customer(t)
  <2>1. CASE At(t, "wait") /\ sem > 0 /\ sem' = sem - 1
             /\ Goes(t, "lock") /\ UNCHANGED <<n, mutex, counter, registers, old, reg>>
    BY <1>1, <1>2, <2>1, TypedGoes
  <2>2. CASE GetRegister(t)
    BY <1>1, <1>2, <2>2, TypedGoes DEF GetRegister
  <2>3. CASE ReleaseRegister(t)
    <3>1. n' \in [Threads -> Nat]
      BY <1>1, <2>3 DEF ReleaseRegister
    <3> QED BY <1>1, <1>2, <2>3, <3>1, TypedGoes DEF ReleaseRegister
  <2>4. CASE Unlock(t) /\ Goes(t, IF n[t] = 0 THEN "pay" ELSE "post")
             /\ UNCHANGED <<n, sem, counter, registers, old, reg>>
    <3>1. (IF n[t] = 0 THEN "pay" ELSE "post") \in Steps
      BY <1>2
    <3> QED BY <1>1, <1>5, <2>4, <3>1
  <2>5. CASE At(t, "pay") /\ Goes(t, "lock") /\ UNCHANGED <<n, mutex, sem, counter, registers, old, reg>>
    BY <1>1, <1>2, <2>5, TypedGoes
  <2>6. CASE Post(t)
    BY <1>1, <1>2, <2>6, TypedGoes DEF Post
  <2> QED BY <1>7, <1>3, <1>4, <2>1, <2>2, <2>3, <2>4, <2>5, <2>6 DEF Customer
<1>8. CASE Coordinated(t)
  <2>1. CASE At(t, "store") /\ counter' = old[t] + 1
             /\ Goes(t, "unlock") /\ UNCHANGED <<n, mutex, sem, registers, old, reg>>
    BY <1>1, <1>2, <2>1, TypedGoes
  <2>2. CASE Unlock(t) /\ Round(t, "lock") /\ UNCHANGED <<sem, counter, registers, old, reg>>
    BY <1>1, <1>6, <2>2 DEF Unlock
  <2> QED BY <1>8, <1>3, <1>4, <2>1, <2>2 DEF Coordinated
<1>9. CASE Racing(t)
  <2>1. CASE At(t, "store") /\ counter' = old[t] + 1
             /\ Round(t, "load") /\ UNCHANGED <<mutex, sem, registers, old, reg>>
    BY <1>1, <1>6, <2>1
  <2> QED BY <1>9, <1>4, <2>1 DEF Racing
<1>10. CASE Greeting(t)
  BY <1>1, <1>6, <1>10 DEF Greeting
<1> QED BY <1>7, <1>8, <1>9, <1>10 DEF ThreadStep

LEMMA TypingStep == TypeOK /\ [Next]_vars => TypeOK'
<1> SUFFICES ASSUME TypeOK, [Next]_vars PROVE TypeOK'
  OBVIOUS
<1>1. CASE MainStep \/ CreateFails
  <2>1. First \in Steps /\ Created \in {"sleep", "join"}
    BY DEF First, Steps, Created
  <2>2. ASSUME NEW then \in {"sleep", "join", "returned"}, Loops(then)
        PROVE  k' \in 0..N - 1 /\ main' \in {"create", "join", "sleep", "returned", "exited", "crashed"}
    <3>1. Number \in 1..N /\ N \in Nat \ {0} /\ k \in 0..N - 1
      BY SizesAssumption DEF Number, TypeOK
    <3> QED BY <2>2, <3>1 DEF Loops, TypeOK
  <2>3. ASSUME Shared, pc' \in [Threads -> Steps], faults' \in Nat, k' \in 0..N - 1,
               main' \in {"create", "join", "sleep", "returned", "exited", "crashed"}
        PROVE  TypeOK'
    BY <2>3 DEF Shared, TypeOK
  <2>4. pc \in [Threads -> Steps] /\ faults \in Nat /\ faults + 1 \in Nat /\ k \in 0..N - 1
    BY DEF TypeOK
  <2>5. CASE Create
    <3>1. pc' \in [Threads -> Steps]
      BY <2>1, <2>4, <2>5 DEF Create
    <3> QED BY <2>1, <2>2, <2>3, <2>4, <2>5, <3>1 DEF Create
  <2>6. CASE CreateFails
    <3>1. CASE program = "supermarket"
      BY <2>2, <2>3, <2>4, <2>6, <3>1 DEF CreateFails
    <3>2. CASE program # "supermarket"
      BY <2>3, <2>4, <2>6, <3>2 DEF CreateFails
    <3> QED BY <3>1, <3>2
  <2>7. CASE Join
    BY <2>2, <2>3, <2>4, <2>7 DEF Join
  <2>8. CASE JoinNobody
    BY <2>2, <2>3, <2>4, <2>8 DEF JoinNobody
  <2>9. CASE WakeUp
    BY <2>3, <2>4, <2>9 DEF WakeUp
  <2> QED BY <1>1, <2>5, <2>6, <2>7, <2>8, <2>9 DEF MainStep
<1>2. CASE \E t \in Threads : ThreadStep(t)
  BY <1>2, ThreadTyping
<1>3. CASE UNCHANGED vars
  BY <1>3 DEF vars, TypeOK
<1> QED BY <1>1, <1>2, <1>3 DEF Next

(* Every variable keeps its type, for any sizes. *)
THEOREM Typing == Spec => []TypeOK
<1>1. Init => TypeOK
  BY SizesAssumption DEF Init, TypeOK, Threads, Steps
<1> QED BY <1>1, TypingStep, PTL DEF Spec

(* With a mutex, thread t comes inside only when nobody holds it, and nobody else     *)
(* writes what t has read before t leaves.                                            *)
LEMMA LockedStep ==
  ASSUME TypeOK, NothingLost, Locked, NEW t \in Threads, ThreadStep(t)
  PROVE  NothingLost'
<1>1. CASE Lock(t)
  BY <1>1 DEF Lock, Goes, NothingLost, Inside, Locked, TypeOK, Threads
<1>2. CASE Load(t)
  BY <1>2 DEF Load, At, Goes, NothingLost, Inside, Locked, TypeOK, Threads
<1>3. ASSUME At(t, "store"), Goes(t, "unlock"), UNCHANGED <<mutex, old>> PROVE NothingLost'
  BY <1>3 DEF At, Goes, NothingLost, Inside, Locked, TypeOK, Threads
<1>4. ASSUME Unlock(t), NEW step \in {"pay", "post", "lock", "ended"},
             pc' = [pc EXCEPT ![t] = step], UNCHANGED <<program, counter, old>>
      PROVE  NothingLost'
  BY <1>4 DEF Unlock, At, NothingLost, Inside, Locked, TypeOK, Threads
<1>5. ASSUME NEW step \in {"lock", "ended"}, Goes(t, step), UNCHANGED <<mutex, counter, old>>
      PROVE  NothingLost'
  BY <1>5 DEF Goes, NothingLost, Inside, Locked, TypeOK, Threads
<1>6. CASE Customer(t)
  BY <1>6, <1>1, <1>2, <1>3, <1>4, <1>5 DEF Customer, GetRegister, ReleaseRegister, Post, Goes
<1>7. CASE Coordinated(t)
  <2>1. CASE Unlock(t) /\ Round(t, "lock") /\ UNCHANGED <<sem, counter, registers, old, reg>>
    <3>1. \E step \in {"lock", "ended"} : Goes(t, step)
      BY <2>1, RoundStep DEF Steps
    <3> QED BY <2>1, <3>1, <1>4 DEF Goes
  <2> QED BY <1>7, <2>1, <1>1, <1>2, <1>3 DEF Coordinated
<1> QED BY <1>6, <1>7 DEF ThreadStep, Locked

LEMMA NothingLostStep == TypeOK /\ NothingLost /\ [Next]_vars => NothingLost'
<1> SUFFICES ASSUME TypeOK, NothingLost, [Next]_vars PROVE NothingLost'
  OBVIOUS
<1>1. CASE ~Locked
  <2>1. program' = program
    BY DEF Next, MainStep, Create, CreateFails, Join, JoinNobody, WakeUp, Shared, ThreadStep, Customer,
           Coordinated, Racing, Greeting, Lock, Load, GetRegister, ReleaseRegister, Post, Round, Goes, vars
  <2> QED BY <1>1, <2>1 DEF NothingLost, Locked
<1>2. CASE Locked /\ (MainStep \/ CreateFails)
  <2>1. First \in {"wait", "lock"}
    BY <1>2 DEF First, Locked
  <2>2. UNCHANGED <<program, mutex, counter, old>> /\ (pc' = pc \/ pc' = [pc EXCEPT ![k + 1] = First])
    BY <1>2 DEF MainStep, Create, CreateFails, Join, JoinNobody, WakeUp, Shared
  <2> QED BY <1>2, <2>1, <2>2 DEF NothingLost, Inside, Locked, TypeOK, Threads
<1>3. CASE Locked /\ \E t \in Threads : ThreadStep(t)
  BY <1>3, LockedStep
<1>4. CASE UNCHANGED vars
  BY <1>4 DEF vars, NothingLost, Inside, Locked
<1> QED BY <1>1, <1>2, <1>3, <1>4 DEF Next

(* With the mutex, no update of the shared variable is lost, whatever the number of  *)
(* threads and the interleaving of their steps.                                       *)
THEOREM NoLostUpdate == Spec => []NothingLost
<1>1. Init => NothingLost
  BY DEF Init, NothingLost, Inside, Threads
<1> QED BY <1>1, Typing, NothingLostStep, PTL DEF Spec

-----------------------------------------------------------------------------
(***************************************************************************)
(* The supermarket: the semaphore lets in as many customers as there are   *)
(* registers, so the stack of free registers is never read below its       *)
(* bottom, and the mutex keeps it a stack.                                 *)
(***************************************************************************)
InLine == {t \in Threads : pc[t] \in {"lock", "load", "store", "unlock", "pay", "post"}}
Holders == {t \in Threads : reg[t] # 0}

(* No register is twice on the stack, twice used, or both, and each is somewhere. *)
Apart ==
  /\ registers \in [0..Registers - 1 -> 1..Registers]
  /\ reg \in [Threads -> 0..Registers]
  /\ counter \in -1..Registers - 1
  /\ \A i, j \in 0..counter : registers[i] = registers[j] => i = j
  /\ \A i \in 0..counter, t \in Threads : registers[i] # reg[t]
  /\ \A s, t \in Threads : reg[s] # 0 /\ reg[s] = reg[t] => s = t
  /\ \A r \in 1..Registers :
       (\E i \in 0..counter : registers[i] = r) \/ (\E t \in Threads : reg[t] = r)

(* The semaphore counts who is in line, the stack pointer who has a register. *)
Counted ==
  /\ sem + Cardinality(InLine) = Registers
  /\ counter + 1 + Cardinality(Holders) = Registers

(* Where a customer is tells whether it has a register and has given it back. *)
ByStep ==
  /\ main = "create" => \A t \in Threads : t > k => pc[t] = "none"
  /\ \A t \in Threads :
       /\ pc[t] # "hello"
       /\ pc[t] \in {"none", "wait", "post", "ended"} => reg[t] = 0
       /\ pc[t] = "pay" => reg[t] # 0
       /\ pc[t] \in {"none", "wait", "lock", "load", "store", "pay"} => n[t] = 0
       /\ pc[t] = "unlock" => (n[t] = 0 <=> reg[t] # 0)

Supermarket == program = "supermarket" => Apart /\ Counted /\ ByStep

LEMMA Finite ==
  /\ IsFiniteSet(InLine) /\ Cardinality(InLine) \in Nat
  /\ IsFiniteSet(Holders) /\ Cardinality(Holders) \in Nat
<1>1. IsFiniteSet(Threads)
  <2>1. 1 \in Int /\ N \in Int
    BY SizesAssumption
  <2>2. IsFiniteSet(1..N)
    BY <2>1, FS_Interval, Zenon
  <2> QED BY <2>2 DEF Threads
<1>2. InLine \in SUBSET Threads /\ Holders \in SUBSET Threads
  BY DEF InLine, Holders
<1> QED BY <1>1, <1>2, FS_Subset, FS_CardinalityType

(* A step inside the line that leaves the shared variables alone. *)
LEMMA MovesUp ==
  ASSUME TypeOK, Apart, Counted, NEW t \in Threads, t \in InLine,
         NEW step \in {"lock", "load", "store", "unlock", "pay", "post"}, Goes(t, step),
         UNCHANGED <<sem, counter, registers, reg>>
  PROVE  Apart' /\ Counted'
<1>1. InLine' = InLine
  BY DEF InLine, Goes, TypeOK
<1>2. Holders' = Holders
  BY DEF Holders
<1>3. Counted'
  BY <1>1, <1>2 DEF Counted
<1>4. Apart'
  BY DEF Apart
<1> QED BY <1>3, <1>4

(* A register comes off the stack: it is not empty, since who is in line and has none *)
(* is one of at most Registers customers. *)
LEMMA StackHolds ==
  ASSUME TypeOK, Apart, Counted, ByStep, NEW t \in Threads, t \in InLine, reg[t] = 0
  PROVE  counter \in 0..Registers - 1
<1>1. Holders \cup {t} \subseteq InLine
  BY DEF Holders, InLine, ByStep, TypeOK, Steps, Apart
<1>2. t \notin Holders
  BY DEF Holders
<1>3. Cardinality(Holders \cup {t}) = Cardinality(Holders) + 1
  BY <1>2, Finite, FS_AddElement
<1>4. Cardinality(Holders \cup {t}) <= Cardinality(InLine)
  BY <1>1, Finite, FS_Subset
<1> QED BY <1>3, <1>4, Finite DEF Counted, Apart, TypeOK

LEMMA Takes ==
  ASSUME TypeOK, NothingLost, program = "supermarket", Apart, Counted, ByStep,
         NEW t \in Threads, GetRegister(t)
  PROVE  Apart' /\ Counted'
<1>1. pc[t] = "store" /\ reg[t] = 0 /\ t \in InLine /\ old[t] = counter
  BY DEF GetRegister, At, InLine, NothingLost, Locked
<1>2. counter \in 0..Registers - 1
  BY <1>1, StackHolds
<1>3. /\ counter' = counter - 1 /\ registers' = registers
      /\ reg' = [reg EXCEPT ![t] = registers[counter]] /\ registers[counter] \in 1..Registers
  BY <1>1, <1>2 DEF GetRegister, Apart
<1>4. InLine' = InLine /\ sem' = sem
  BY <1>1 DEF GetRegister, Goes, InLine, TypeOK
<1>5. Holders' = Holders \cup {t} /\ t \notin Holders
  BY <1>1, <1>3 DEF Holders, Apart
<1>6. Counted'
  <2>1. Cardinality(Holders') = Cardinality(Holders) + 1
    BY <1>5, Finite, FS_AddElement
  <2> QED BY <1>2, <1>3, <1>4, <2>1, Finite DEF Counted
<1>7. Apart'
  <2>1. reg' \in [Threads -> 0..Registers] /\ counter' \in -1..Registers - 1
    <3>1. reg \in [Threads -> 0..Registers] /\ registers[counter] \in 0..Registers
      BY <1>3 DEF Apart
    <3>2. reg' \in [Threads -> 0..Registers]
      BY <1>3, <3>1
    <3>3. counter' \in -1..Registers - 1
      BY <1>2, <1>3, SizesAssumption
    <3> QED BY <3>2, <3>3
  <2>2. 0..counter = 0..counter' \cup {counter} /\ counter \notin 0..counter'
    BY <1>2, <1>3
  <2>3. \A i \in 0..counter', s \in Threads : registers[i] # reg'[s]
    BY <1>2, <1>3, <2>2 DEF Apart
  <2>4. \A s, u \in Threads : reg'[s] # 0 /\ reg'[s] = reg'[u] => s = u
    BY <1>2, <1>3 DEF Apart
  <2>5. ASSUME NEW r \in 1..Registers
        PROVE  (\E i \in 0..counter' : registers[i] = r) \/ (\E s \in Threads : reg'[s] = r)
    <3>1. CASE \E s \in Threads : reg[s] = r
      BY <1>1, <1>3, <3>1 DEF Apart
    <3>2. CASE \E i \in 0..counter : registers[i] = r
      BY <1>3, <2>2, <3>2 DEF Apart
    <3> QED BY <3>1, <3>2 DEF Apart
  <2> QED BY <1>3, <2>1, <2>2, <2>3, <2>4, <2>5 DEF Apart
<1> QED BY <1>6, <1>7

LEMMA GivesBack ==
  ASSUME TypeOK, NothingLost, program = "supermarket", Apart, Counted, ByStep,
         NEW t \in Threads, ReleaseRegister(t)
  PROVE  Apart' /\ Counted'
<1>1. pc[t] = "store" /\ reg[t] # 0 /\ old[t] = counter
  BY DEF ReleaseRegister, At, NothingLost, Locked
<1>2. InLine' = InLine /\ sem' = sem
  BY <1>1 DEF ReleaseRegister, Goes, InLine, TypeOK
<1>3. /\ counter' = counter + 1 /\ reg' = [reg EXCEPT ![t] = 0]
      /\ registers' = [registers EXCEPT ![counter + 1] = reg[t]]
  BY <1>1 DEF ReleaseRegister
<1>4. Holders' = Holders \ {t} /\ t \in Holders
  BY <1>1, <1>3 DEF Holders, Apart
<1>5. Cardinality(Holders') = Cardinality(Holders) - 1
  BY <1>4, Finite, FS_RemoveElement
<1>6. Counted'
  BY <1>2, <1>3, <1>5, Finite DEF Counted, Apart
<1>7. Cardinality(Holders') \in Nat
  BY <1>4, Finite, FS_RemoveElement, FS_CardinalityType
<1>8. counter + 1 \in 0..Registers - 1
  BY <1>5, <1>7, Finite DEF Counted, Apart
<1>9. Apart'
  <2>1. /\ reg[t] \in 1..Registers /\ reg' \in [Threads -> 0..Registers]
        /\ registers' \in [0..Registers - 1 -> 1..Registers] /\ counter' \in 0..Registers - 1
    <3>1. /\ reg \in [Threads -> 0..Registers] /\ 0 \in 0..Registers
          /\ registers \in [0..Registers - 1 -> 1..Registers]
      BY SizesAssumption DEF Apart
    <3>2. reg[t] \in 1..Registers
      BY <1>1, <3>1
    <3>3. reg' \in [Threads -> 0..Registers]
      BY <1>3, <3>1
    <3>4. registers' \in [0..Registers - 1 -> 1..Registers]
      BY <1>3, <3>1, <3>2
    <3> QED BY <1>3, <1>8, <3>2, <3>3, <3>4
  <2>2. 0..counter' = 0..counter \cup {counter + 1} /\ counter + 1 \notin 0..counter
    BY <1>3, <1>8 DEF TypeOK
  <2>3. registers'[counter + 1] = reg[t] /\ \A i \in 0..counter : registers'[i] = registers[i]
    BY <1>3, <1>8 DEF Apart
  <2>4. reg'[t] = 0 /\ \A s \in Threads : s # t => reg'[s] = reg[s]
    BY <1>3 DEF Apart
  <2>5. \A i, j \in 0..counter' : registers'[i] = registers'[j] => i = j
    BY <2>2, <2>3 DEF Apart
  <2>6. \A i \in 0..counter' : registers'[i] # 0
    <3>1. TAKE i \in 0..counter'
    <3>2. i \in 0..Registers - 1
      <4>1. counter' \in Int /\ counter' <= Registers - 1
        BY <2>1, SizesAssumption
      <4>2. i \in Int /\ 0 <= i /\ i <= counter'
        BY <3>1, <4>1
      <4> QED BY <4>1, <4>2, SizesAssumption
    <3>3. registers'[i] \in 1..Registers
      BY <2>1, <3>2
    <3> QED BY <3>3
  <2>7. \A i \in 0..counter', s \in Threads : registers'[i] # reg'[s]
    BY <1>1, <2>2, <2>3, <2>4, <2>6 DEF Apart
  <2>8. \A s, u \in Threads : reg'[s] # 0 /\ reg'[s] = reg'[u] => s = u
    BY <2>4 DEF Apart
  <2>9. ASSUME NEW r \in 1..Registers
        PROVE  (\E i \in 0..counter' : registers'[i] = r) \/ (\E s \in Threads : reg'[s] = r)
    <3>1. CASE \E s \in Threads : reg[s] = r
      BY <2>2, <2>3, <2>4, <3>1
    <3>2. CASE \E i \in 0..counter : registers[i] = r
      BY <2>2, <2>3, <3>2
    <3> QED BY <3>1, <3>2 DEF Apart
  <2> QED BY <2>1, <2>5, <2>7, <2>8, <2>9 DEF Apart
<1> QED BY <1>6, <1>9

(* sem_wait() and sem_post(): who comes into the line and who leaves it. *)
LEMMA EntersOrLeaves ==
  ASSUME TypeOK, Apart, Counted, NEW t \in Threads, UNCHANGED <<counter, registers, reg>>,
         \/ t \notin InLine /\ InLine' = InLine \cup {t} /\ sem' = sem - 1
         \/ t \in InLine /\ InLine' = InLine \ {t} /\ sem' = sem + 1
  PROVE  Apart' /\ Counted'
<1>1. Apart' /\ Holders' = Holders
  BY DEF Apart, Holders
<1>2. CASE t \notin InLine /\ InLine' = InLine \cup {t} /\ sem' = sem - 1
  <2>1. Cardinality(InLine') = Cardinality(InLine) + 1
    BY <1>2, Finite, FS_AddElement
  <2> QED BY <1>1, <1>2, <2>1, Finite DEF Counted, TypeOK
<1>3. CASE t \in InLine /\ InLine' = InLine \ {t} /\ sem' = sem + 1
  <2>1. Cardinality(InLine') = Cardinality(InLine) - 1
    BY <1>3, Finite, FS_RemoveElement
  <2> QED BY <1>1, <1>3, <2>1, Finite DEF Counted, TypeOK
<1> QED BY <1>2, <1>3

(* A customer's own label, count and register still fit together. *)
LEMMA OwnLabel ==
  ASSUME TypeOK, Apart, ByStep, NEW t \in Threads, pc[t] # "none", NEW step, Goes(t, step),
         main' = main,
         \A s \in Threads : s # t => n'[s] = n[s] /\ reg'[s] = reg[s],
         step \in {"lock", "load", "store", "unlock", "pay", "post", "ended"},
         step \in {"post", "ended"} => reg'[t] = 0,
         step = "pay" => reg'[t] # 0,
         step \in {"lock", "load", "store", "pay"} => n'[t] = 0,
         step = "unlock" => (n'[t] = 0 <=> reg'[t] # 0)
  PROVE  ByStep'
<1>1. pc'[t] = step /\ \A s \in Threads : s # t => pc'[s] = pc[s]
  BY DEF Goes, TypeOK
<1>2. k' = k
  BY DEF Goes
<1> QED BY <1>1, <1>2 DEF ByStep

LEMMA CustomerStep ==
  ASSUME TypeOK, NothingLost, program = "supermarket", Apart, Counted, ByStep,
         NEW t \in Threads, Customer(t)
  PROVE  Apart' /\ Counted' /\ ByStep'
<1>1. reg \in [Threads -> 0..Registers] /\ n \in [Threads -> Nat]
  BY DEF Apart, TypeOK
<1>2. /\ pc[t] # "hello"
      /\ pc[t] \in {"none", "wait", "post", "ended"} => reg[t] = 0
      /\ pc[t] = "pay" => reg[t] # 0
      /\ pc[t] \in {"none", "wait", "lock", "load", "store", "pay"} => n[t] = 0
      /\ pc[t] = "unlock" => (n[t] = 0 <=> reg[t] # 0)
  BY DEF ByStep
<1>3. main' = main
  BY DEF Customer, Lock, Load, GetRegister, ReleaseRegister, Post, Goes
<1>4. ASSUME NEW step \in {"lock", "load", "store", "pay", "post"},
             t \in InLine, Goes(t, step), UNCHANGED <<n, sem, counter, registers, reg>>,
             step = "post" => reg[t] = 0, step = "pay" => reg[t] # 0,
             step \in {"lock", "load", "store", "pay"} => n[t] = 0
      PROVE  Apart' /\ Counted' /\ ByStep'
  <2>1. Apart' /\ Counted'
    BY <1>4, MovesUp
  <2>2. pc[t] # "none"
    BY <1>4 DEF InLine
  <2>3. ByStep'
    BY <1>3, <1>4, <2>2, OwnLabel
  <2> QED BY <2>1, <2>3
<1>5. CASE /\ At(t, "wait") /\ sem > 0
           /\ sem' = sem - 1
           /\ Goes(t, "lock") /\ UNCHANGED <<n, mutex, counter, registers, old, reg>>
  <2>1. t \notin InLine /\ InLine' = InLine \cup {t}
    BY <1>5 DEF At, Goes, InLine, TypeOK
  <2>2. Apart' /\ Counted'
    BY <1>5, <2>1, EntersOrLeaves
  <2>3. ByStep'
    BY <1>2, <1>3, <1>5, OwnLabel DEF At
  <2> QED BY <2>2, <2>3
<1>6. CASE Lock(t)
  BY <1>2, <1>4, <1>6 DEF Lock, At, InLine
<1>7. CASE Load(t)
  BY <1>2, <1>4, <1>7 DEF Load, At, InLine
<1>8. CASE GetRegister(t)
  <2>1. pc[t] = "store" /\ reg[t] = 0 /\ old[t] = counter /\ t \in InLine
    BY <1>8 DEF GetRegister, At, InLine, NothingLost, Locked
  <2>2. counter \in 0..Registers - 1
    BY <2>1, StackHolds
  <2>3. registers[counter] \in 1..Registers
    BY <2>2 DEF Apart
  <2>4. reg'[t] # 0 /\ \A u \in Threads : u # t => reg'[u] = reg[u]
    BY <1>1, <1>8, <2>1, <2>3 DEF GetRegister
  <2>5. n' = n /\ Goes(t, "unlock") /\ n[t] = 0
    BY <1>2, <1>8, <2>1 DEF GetRegister
  <2>6. ByStep'
    BY <1>3, <2>1, <2>4, <2>5, OwnLabel
  <2> QED BY <1>8, <2>6, Takes
<1>9. CASE ReleaseRegister(t)
  <2>1. Goes(t, "unlock") /\ pc[t] = "store"
    BY <1>9 DEF ReleaseRegister, At
  <2>2. reg'[t] = 0 /\ n'[t] = 1
    BY <1>1, <1>9 DEF ReleaseRegister
  <2>3. \A u \in Threads : u # t => reg'[u] = reg[u] /\ n'[u] = n[u]
    BY <1>1, <1>9 DEF ReleaseRegister
  <2>4. ByStep'
    BY <1>3, <2>1, <2>2, <2>3, OwnLabel
  <2> QED BY <1>9, <2>4, GivesBack
<1>10. CASE /\ Unlock(t) /\ Goes(t, IF n[t] = 0 THEN "pay" ELSE "post")
            /\ UNCHANGED <<n, sem, counter, registers, old, reg>>
  <2>1. pc[t] = "unlock" /\ t \in InLine
    BY <1>10 DEF Unlock, At, InLine
  <2>2. CASE n[t] = 0
    BY <1>2, <1>4, <1>10, <2>1, <2>2
  <2>3. CASE n[t] # 0
    BY <1>2, <1>4, <1>10, <2>1, <2>3
  <2> QED BY <2>2, <2>3
<1>11. CASE At(t, "pay") /\ Goes(t, "lock") /\ UNCHANGED <<n, mutex, sem, counter, registers, old, reg>>
  BY <1>2, <1>4, <1>11 DEF At, InLine
<1>12. CASE Post(t)
  <2>1. t \in InLine /\ InLine' = InLine \ {t}
    BY <1>12 DEF Post, At, Goes, InLine, TypeOK
  <2>2. Apart' /\ Counted'
    BY <1>12, <2>1, EntersOrLeaves DEF Post
  <2>3. ByStep'
    BY <1>2, <1>3, <1>12, OwnLabel DEF Post, At
  <2> QED BY <2>2, <2>3
<1> QED BY <1>5, <1>6, <1>7, <1>8, <1>9, <1>10, <1>11, <1>12 DEF Customer

LEMMA MainKeeps ==
  ASSUME TypeOK, program = "supermarket", Apart, Counted, ByStep, MainStep \/ CreateFails
  PROVE  Apart' /\ Counted' /\ ByStep'
<1>1. /\ UNCHANGED <<n, sem, counter, registers, reg>>
      /\ pc' = pc \/ (main = "create" /\ pc' = [pc EXCEPT ![k + 1] = "wait"])
  BY DEF MainStep, Create, CreateFails, Join, JoinNobody, WakeUp, Shared, First
<1>2. Number \in Nat /\ k \in 0..N - 1
  BY SizesAssumption DEF Number, TypeOK
<1>3. main' = "create" => main = "create" /\ k' = k + 1
  BY DEF MainStep, Create, CreateFails, Join, JoinNobody, WakeUp, Loops, Created
<1>4. main = "create" => k + 1 \in Threads /\ pc[k + 1] = "none"
  BY <1>2, SizesAssumption DEF Threads, ByStep
<1>5. InLine' = InLine /\ Holders' = Holders
  BY <1>1, <1>4 DEF InLine, Holders, TypeOK
<1>6. Apart' /\ Counted'
  BY <1>1, <1>5 DEF Apart, Counted
<1>7. \A t \in Threads : pc'[t] = pc[t] \/ (main = "create" /\ t = k + 1 /\ pc'[t] = "wait")
  BY <1>1, <1>4 DEF TypeOK
<1>8. main' = "create" => \A t \in Threads : t > k' => pc'[t] = "none"
  <2>1. ASSUME main' = "create", NEW t \in Threads, t > k' PROVE pc'[t] = "none"
    <3>1. t \in Int /\ t > k /\ t # k + 1 /\ main = "create"
      BY <1>2, <1>3, <2>1 DEF Threads
    <3> QED BY <1>7, <3>1 DEF ByStep
  <2> QED BY <2>1
<1>9. ByStep'
  BY <1>1, <1>4, <1>7, <1>8 DEF ByStep
<1> QED BY <1>6, <1>9

LEMMA SupermarketStep == TypeOK /\ NothingLost /\ Supermarket /\ [Next]_vars => Supermarket'
<1> SUFFICES ASSUME TypeOK, NothingLost, Supermarket, [Next]_vars PROVE Supermarket'
  OBVIOUS
<1>1. program' = program
  BY DEF Next, MainStep, Create, CreateFails, Join, JoinNobody, WakeUp, Shared, ThreadStep, Customer,
         Coordinated, Racing, Greeting, Lock, Load, GetRegister, ReleaseRegister, Post, Round, Goes, vars
<1>2. CASE program = "supermarket" /\ (MainStep \/ CreateFails)
  BY <1>2, MainKeeps DEF Supermarket
<1>3. CASE program = "supermarket" /\ \E t \in Threads : ThreadStep(t)
  BY <1>3, CustomerStep DEF Supermarket, ThreadStep
<1>4. CASE UNCHANGED vars
  BY <1>4 DEF vars, Supermarket, Apart, Counted, ByStep, InLine, Holders
<1> QED BY <1>1, <1>2, <1>3, <1>4 DEF Next, Supermarket

LEMMA SupermarketInit == Init => Supermarket
<1> SUFFICES ASSUME Init, program = "supermarket" PROVE Apart /\ Counted /\ ByStep
  BY DEF Supermarket
<1>1. /\ counter = Registers - 1 /\ registers = [i \in 0..Registers - 1 |-> i + 1]
      /\ sem = Registers /\ Registers \in Nat \ {0}
      /\ reg = [t \in Threads |-> 0]
  BY SizesAssumption DEF Init
<1>2. Apart
  <2>1. \A i \in 0..Registers - 1 : registers[i] = i + 1 /\ i + 1 \in 1..Registers
    BY <1>1
  <2>2. ASSUME NEW r \in 1..Registers PROVE \E i \in 0..counter : registers[i] = r
    <3>1. r - 1 \in 0..Registers - 1 /\ r = r - 1 + 1
      BY <1>1
    <3> QED BY <1>1, <2>1, <3>1
  <2>3. registers \in [0..Registers - 1 -> 1..Registers]
    BY <1>1, <2>1
  <2> QED BY <1>1, <2>1, <2>2, <2>3 DEF Apart
<1>3. InLine = {} /\ Holders = {}
  BY <1>1 DEF Init, InLine, Holders
<1>4. Counted
  BY <1>1, <1>3, FS_EmptySet DEF Counted
<1>5. ByStep
  BY <1>1 DEF Init, ByStep
<1> QED BY <1>2, <1>4, <1>5

(* Places and holders that are apart count to one for each register. *)
LEMMA ApartCounts == TypeOK /\ Supermarket => EveryRegisterOnce
<1> SUFFICES ASSUME TypeOK, Apart, NEW r \in 1..Registers
             PROVE  Cardinality({i \in 0..counter : registers[i] = r})
                      + Cardinality({t \in Threads : reg[t] = r}) = 1
  BY DEF EveryRegisterOnce, Supermarket, Apart
<1> DEFINE Free == {i \in 0..counter : registers[i] = r}
           Used == {t \in Threads : reg[t] = r}
<1> HIDE DEF Free, Used
<1>1. Cardinality({}) = 0 /\ \A x : Cardinality({x}) = 1
  BY FS_EmptySet, FS_Singleton
<1> SUFFICES Cardinality(Free) + Cardinality(Used) = 1
  BY DEF Free, Used
<1>2. CASE \E i \in 0..counter : registers[i] = r
  <2>1. PICK i \in 0..counter : registers[i] = r
    BY <1>2
  <2>2. Free = {i} /\ Used = {}
    BY <2>1 DEF Apart, Free, Used
  <2>3. Cardinality(Free) = 1 /\ Cardinality(Used) = 0
    BY <1>1, <2>2
  <2> QED BY <2>3
<1>3. CASE \E t \in Threads : reg[t] = r
  <2>1. PICK t \in Threads : reg[t] = r
    BY <1>3
  <2>2. Used = {t} /\ Free = {}
    BY <2>1 DEF Apart, Free, Used
  <2>3. Cardinality(Used) = 1 /\ Cardinality(Free) = 0
    BY <1>1, <2>2
  <2> QED BY <2>3
<1> QED BY <1>2, <1>3 DEF Apart

(* Every register is free or used by one customer, whatever the number of either and  *)
(* the interleaving of the customers' steps: top stays within registers[].            *)
THEOREM RegistersNeverLost == Spec => []EveryRegisterOnce
<1> QED BY Typing, NoLostUpdate, SupermarketInit, SupermarketStep, ApartCounts, PTL DEF Spec

-----------------------------------------------------------------------------
(***************************************************************************)
(* What the counting programs print.  The rounds done are counted one by   *)
(* one: a thread has done a round when it has written the counter.         *)
(***************************************************************************)
Counting == program \in {"coordination", "rc"}
Written(t) == IF pc[t] = "unlock" THEN n[t] + 1 ELSE n[t]
Done == {p \in Threads \X (1..Rounds) : p[2] <= Written(p[1])}

Labels(t) ==
  /\ pc[t] \in {"none", "load", "store", "ended"} \cup (IF program = "rc" THEN {} ELSE {"lock", "unlock"})
  /\ pc[t] \in {"lock", "load", "store", "unlock"} => n[t] < Rounds
  /\ pc[t] = "ended" => n[t] = Rounds
  /\ pc[t] = "none" => n[t] = 0

(* main() has created the threads it waits for, and waits for all. *)
Waits ==
  /\ main \in {"create", "join", "returned", "exited"}
  /\ main = "create" => \A t \in Threads : t <= k <=> pc[t] # "none"
  /\ main = "join" => \A t \in Threads : pc[t] # "none" /\ (t <= k => pc[t] = "ended")
  /\ main = "returned" => \A t \in Threads : pc[t] = "ended"

(* Without the mutex a thread writes one more than it read, which is not more than *)
(* all rounds written; and a thread that has written before reads at least 1.      *)
Raced ==
  /\ counter \in 0..Cardinality(Done)
  /\ \A t \in Threads :
       /\ n[t] > 0 => counter >= 1
       /\ pc[t] = "store" => old[t] \in 0..Cardinality(Done) /\ (n[t] > 0 => old[t] >= 1)
  /\ Rounds > 1 /\ (\A t \in Threads : pc[t] = "ended") => counter >= 2

CountInv ==
  Counting => /\ Waits /\ \A t \in Threads : Labels(t)
              /\ program = "coordination" => counter = Cardinality(Done)
              /\ program = "rc" => Raced

LEMMA DoneFinite ==
  /\ IsFiniteSet(Done) /\ Cardinality(Done) \in Nat
  /\ IsFiniteSet(Threads \X (1..Rounds)) /\ Cardinality(Threads \X (1..Rounds)) = N * Rounds
<1>1. IsFiniteSet(Threads) /\ Cardinality(Threads) = N /\ IsFiniteSet(1..Rounds) /\ Cardinality(1..Rounds) = Rounds
  <2>1. 1 \in Int /\ N \in Int /\ Rounds \in Int /\ ~(1 > N) /\ ~(1 > Rounds)
        /\ N - 1 + 1 = N /\ Rounds - 1 + 1 = Rounds
    BY SizesAssumption
  <2>2. IsFiniteSet(1..N) /\ Cardinality(1..N) = N - 1 + 1
    BY <2>1, FS_Interval, Zenon
  <2>3. IsFiniteSet(1..Rounds) /\ Cardinality(1..Rounds) = Rounds - 1 + 1
    BY <2>1, FS_Interval, Zenon
  <2> QED BY <2>1, <2>2, <2>3 DEF Threads
<1>2. IsFiniteSet(Threads \X (1..Rounds)) /\ Cardinality(Threads \X (1..Rounds)) = N * Rounds
  BY <1>1, FS_Product, Zenon
<1>3. Done \subseteq Threads \X (1..Rounds)
  BY DEF Done
<1> QED BY <1>2, <1>3, FS_Subset, FS_CardinalityType

LEMMA DoneStays ==
  ASSUME \A t \in Threads : Written(t)' = Written(t)
  PROVE  Done' = Done
  BY DEF Done

(* One thread writes the counter once more. *)
LEMMA DoneGrows ==
  ASSUME TypeOK, NEW t \in Threads, n[t] < Rounds, pc[t] = "store", Written(t)' = Written(t) + 1,
         \A s \in Threads : s # t => Written(s)' = Written(s)
  PROVE  Cardinality(Done') = Cardinality(Done) + 1
<1>1. Written(t) = n[t] /\ n[t] \in Nat /\ n[t] + 1 \in 1..Rounds
  BY SizesAssumption DEF Written, TypeOK
<1>2. Done' = Done \cup {<<t, n[t] + 1>>}
  <2>1. ASSUME NEW p \in Threads \X (1..Rounds) PROVE p \in Done' <=> p \in Done \cup {<<t, n[t] + 1>>}
    <3>1. PICK s \in Threads, r \in 1..Rounds : p = <<s, r>>
      OBVIOUS
    <3>2. CASE s = t
      BY <1>1, <3>1, <3>2 DEF Done
    <3>3. CASE s # t
      BY <3>1, <3>3 DEF Done
    <3> QED BY <3>2, <3>3
  <2>2. <<t, n[t] + 1>> \in Threads \X (1..Rounds)
    BY <1>1
  <2> QED BY <2>1, <2>2 DEF Done
<1>3. <<t, n[t] + 1>> \notin Done
  BY <1>1 DEF Done
<1> QED BY <1>2, <1>3, DoneFinite, FS_AddElement

LEMMA WaitsStep ==
  ASSUME TypeOK, Waits, NEW t \in Threads, ~Over, pc[t] \notin {"none", "ended"},
         NEW step \in Steps \ {"none"}, Goes(t, step)
  PROVE  Waits'
  BY DEF TypeOK, Waits, Over, Goes

(* A step of main() writes nothing the threads count. *)
LEMMA MainCounts ==
  ASSUME TypeOK, CountInv, Counting, MainStep \/ CreateFails
  PROVE  CountInv'
<1>1. /\ UNCHANGED <<program, n, counter, old>>
      /\ pc' = pc \/ (pc' = [pc EXCEPT ![k + 1] = First] /\ Create)
  BY DEF MainStep, Create, CreateFails, Join, JoinNobody, WakeUp, Shared
<1>2. First \in {"lock", "load"} /\ (First = "load" <=> program = "rc") /\ Number = N /\ Created = "join"
      /\ N \in Nat /\ N # 0 /\ k \in 0..N - 1 /\ program \in {"coordination", "rc"}
  BY SizesAssumption DEF Counting, First, Number, Created, TypeOK
<1>3. Waits /\ \A t \in Threads : Labels(t)
  BY DEF CountInv
<1>4. k + 1 \in Threads /\ Threads = 1..N
  BY <1>2 DEF Threads
<1>5. Create => pc[k + 1] = "none"
  BY <1>3, <1>4 DEF Create, Waits, TypeOK
<1>6. Waits'
  <2>1. CASE Create
    <3>1. pc' = [pc EXCEPT ![k + 1] = First] /\ main = "create"
      BY <2>1 DEF Create
    <3>2. \A t \in Threads : pc'[t] # "none" <=> t <= k + 1
      BY <1>2, <1>3, <1>4, <3>1 DEF Waits, TypeOK
    <3>3. CASE k + 1 < N
      <4>1. k' = k + 1 /\ main' = "create"
        BY <1>2, <2>1, <3>1, <3>3 DEF Create, Loops
      <4> QED BY <3>2, <4>1 DEF Waits
    <3>4. CASE ~(k + 1 < N)
      <4>1. k' = 0 /\ main' = "join"
        BY <1>2, <2>1, <3>4 DEF Create, Loops
      <4>2. \A t \in Threads : t <= k + 1 /\ ~(t <= 0)
        BY <1>2, <1>4, <3>4
      <4> QED BY <3>2, <4>1, <4>2 DEF Waits
    <3> QED BY <3>3, <3>4
  <2>2. CASE CreateFails
    <3>1. main' = "exited"
      BY <1>2, <2>2 DEF CreateFails
    <3> QED BY <3>1 DEF Waits
  <2>3. CASE Join
    <3>1. main = "join" /\ pc[k + 1] = "ended" /\ pc' = pc /\ Loops("returned")
      BY <2>3 DEF Join
    <3>2. \A t \in Threads : pc[t] # "none" /\ (t <= k + 1 => pc[t] = "ended")
      BY <1>2, <1>3, <1>4, <3>1 DEF Waits
    <3>3. CASE k + 1 < N
      BY <1>2, <3>1, <3>2, <3>3 DEF Waits, Loops
    <3>4. CASE ~(k + 1 < N)
      <4>1. main' = "returned"
        BY <1>2, <3>1, <3>4 DEF Loops
      <4>2. \A t \in Threads : t <= k + 1
        BY <1>2, <1>4, <3>4
      <4> QED BY <3>1, <3>2, <4>1, <4>2 DEF Waits
    <3> QED BY <3>3, <3>4
  <2>4. ~JoinNobody /\ ~WakeUp
    BY <1>3, <1>4 DEF JoinNobody, WakeUp, Waits
  <2> QED BY <2>1, <2>2, <2>3, <2>4 DEF MainStep
<1>7. ASSUME NEW t \in Threads
      PROVE  /\ Written(t)' = Written(t) /\ Labels(t)'
             /\ pc'[t] = "store" => pc[t] = "store"
             /\ pc'[t] = "ended" => pc[t] = "ended"
  <2>1. CASE pc'[t] = pc[t]
    BY <1>1, <1>3, <2>1 DEF Written, Labels
  <2>2. CASE pc'[t] = First /\ pc[t] = "none"
    BY <1>1, <1>2, <1>3, <2>2, SizesAssumption DEF Written, Labels
  <2> QED BY <1>1, <1>4, <1>5, <2>1, <2>2 DEF TypeOK
<1>8. Done' = Done
  BY <1>7, DoneStays
<1>9. (program = "coordination" => counter = Cardinality(Done))' /\ (program = "rc" => Raced)'
  BY <1>1, <1>7, <1>8 DEF CountInv, Counting, Raced
<1> QED BY <1>1, <1>6, <1>7, <1>9 DEF CountInv

LEMMA CoordinatedCounts ==
  ASSUME TypeOK, NothingLost, CountInv, program = "coordination", NEW t \in Threads, Coordinated(t)
  PROVE  CountInv'
<1>1. /\ Waits /\ (\A s \in Threads : Labels(s)) /\ counter = Cardinality(Done)
      /\ ~Over /\ pc[t] \notin {"none", "ended"} /\ n[t] < Rounds /\ n[t] \in Nat
      /\ program' = program /\ Rounds \in Nat
  <2>1. ~Over /\ pc[t] \in {"lock", "load", "store", "unlock"} /\ program' = program
    BY DEF Coordinated, Lock, Load, Unlock, At, Goes, Round
  <2> QED BY <2>1, SizesAssumption DEF CountInv, Counting, Labels, TypeOK
<1>2. ASSUME NEW step \in {"load", "store", "unlock"}, Goes(t, step), UNCHANGED n
      PROVE  /\ Waits' /\ \A s \in Threads : Labels(s)'
             /\ \A s \in Threads : s # t => Written(s)' = Written(s)
             /\ pc'[t] = step
  <2>1. \A s \in Threads : s # t => pc'[s] = pc[s]
    BY <1>2 DEF Goes, TypeOK
  <2>2. pc'[t] = step
    BY <1>2 DEF Goes, TypeOK
  <2>3. Waits'
    BY <1>1, <1>2, WaitsStep DEF Steps
  <2> QED BY <1>1, <1>2, <2>1, <2>2, <2>3 DEF Labels, Written
<1>3. ASSUME NEW step \in {"load", "store"}, Goes(t, step), UNCHANGED <<n, counter>>,
             pc[t] \in {"lock", "load"}
      PROVE  CountInv'
  <2>1. Written(t)' = Written(t)
    BY <1>2, <1>3 DEF Written
  <2>2. Done' = Done
    BY <1>2, <1>3, <2>1, DoneStays
  <2> QED BY <1>1, <1>2, <1>3, <2>2 DEF CountInv
<1>4. CASE At(t, "store") /\ counter' = old[t] + 1 /\ Goes(t, "unlock") /\ UNCHANGED n
  <2>1. pc[t] = "store" /\ counter' = counter + 1
    BY <1>4 DEF At, NothingLost, Locked
  <2>2. Written(t)' = Written(t) + 1
    BY <1>2, <1>4, <2>1 DEF Written
  <2>3. Cardinality(Done') = Cardinality(Done) + 1
    BY <1>1, <1>2, <1>4, <2>1, <2>2, DoneGrows
  <2> QED BY <1>1, <1>2, <1>4, <2>1, <2>3 DEF CountInv
<1>5. CASE Unlock(t) /\ Round(t, "lock") /\ UNCHANGED counter
  <2>1. /\ pc[t] = "unlock" /\ n' = [n EXCEPT ![t] = n[t] + 1]
        /\ Goes(t, IF n[t] + 1 < Rounds THEN "lock" ELSE "ended")
    BY <1>5 DEF Unlock, At, Round
  <2>2. PICK step \in {"lock", "ended"} : step = IF n[t] + 1 < Rounds THEN "lock" ELSE "ended"
    OBVIOUS
  <2>3. pc' = [pc EXCEPT ![t] = step] /\ Goes(t, step)
    BY <2>1, <2>2 DEF Goes
  <2>4. Waits'
    BY <1>1, <2>3, WaitsStep DEF Steps
  <2>5. /\ pc'[t] = step /\ n'[t] = n[t] + 1
        /\ \A s \in Threads : s # t => pc'[s] = pc[s] /\ n'[s] = n[s]
    BY <2>1, <2>3 DEF TypeOK
  <2>6. \A s \in Threads : Labels(s)' /\ Written(s)' = Written(s)
    BY <1>1, <2>1, <2>2, <2>5 DEF Labels, Written
  <2>7. Done' = Done
    BY <2>6, DoneStays
  <2> QED BY <1>1, <1>5, <2>4, <2>6, <2>7 DEF CountInv
<1>6. CASE Lock(t)
  BY <1>3, <1>6 DEF Lock, At
<1>7. CASE Load(t)
  BY <1>3, <1>7 DEF Load, At
<1> QED BY <1>4, <1>5, <1>6, <1>7 DEF Coordinated

LEMMA RacingCounts ==
  ASSUME TypeOK, CountInv, program = "rc", NEW t \in Threads, Racing(t)
  PROVE  CountInv'
<1>1. /\ Waits /\ (\A s \in Threads : Labels(s)) /\ Raced
      /\ ~Over /\ pc[t] \notin {"none", "ended"} /\ n[t] < Rounds /\ n[t] \in Nat
      /\ program' = program /\ Rounds \in Nat /\ Cardinality(Done) \in Nat
  <2>1. ~Over /\ pc[t] \in {"load", "store"} /\ program' = program
    BY DEF Racing, Load, At, Goes, Round
  <2> QED BY <2>1, SizesAssumption, DoneFinite DEF CountInv, Counting, Labels, TypeOK
<1>2. CASE Load(t)
  <2>1. /\ pc[t] = "load" /\ Goes(t, "store") /\ UNCHANGED <<n, counter>>
        /\ old' = [old EXCEPT ![t] = counter]
    BY <1>2 DEF Load, At
  <2>2. /\ pc'[t] = "store" /\ old'[t] = counter
        /\ \A s \in Threads : s # t => pc'[s] = pc[s] /\ old'[s] = old[s]
    BY <2>1 DEF Goes, TypeOK
  <2>3. \A s \in Threads : Labels(s)' /\ Written(s)' = Written(s)
    BY <1>1, <2>1, <2>2 DEF Labels, Written
  <2>4. Waits'
    BY <1>1, <2>1, WaitsStep DEF Steps
  <2>5. Done' = Done
    BY <2>3, DoneStays
  <2>6. Raced'
    BY <1>1, <2>1, <2>2, <2>5 DEF Raced
  <2> QED BY <1>1, <2>3, <2>4, <2>6 DEF CountInv
<1>3. CASE At(t, "store") /\ counter' = old[t] + 1 /\ Round(t, "load") /\ UNCHANGED old
  <2>1. /\ pc[t] = "store" /\ n' = [n EXCEPT ![t] = n[t] + 1]
        /\ Goes(t, IF n[t] + 1 < Rounds THEN "load" ELSE "ended")
    BY <1>3 DEF At, Round
  <2>2. PICK step \in {"load", "ended"} : step = IF n[t] + 1 < Rounds THEN "load" ELSE "ended"
    OBVIOUS
  <2>3. pc' = [pc EXCEPT ![t] = step] /\ Goes(t, step)
    BY <2>1, <2>2 DEF Goes
  <2>4. Waits'
    BY <1>1, <2>3, WaitsStep DEF Steps
  <2>5. /\ pc'[t] = step /\ n'[t] = n[t] + 1
        /\ \A s \in Threads : s # t => pc'[s] = pc[s] /\ n'[s] = n[s]
    BY <2>1, <2>3 DEF TypeOK
  <2>6. \A s \in Threads : Labels(s)' /\ (s # t => Written(s)' = Written(s))
    BY <1>1, <2>1, <2>2, <2>5 DEF Labels, Written
  <2>7. Written(t)' = Written(t) + 1
    BY <2>1, <2>2, <2>5 DEF Written
  <2>8. Cardinality(Done') = Cardinality(Done) + 1
    BY <1>1, <2>1, <2>6, <2>7, DoneGrows
  <2>9. /\ old[t] \in 0..Cardinality(Done) /\ (n[t] > 0 => old[t] >= 1) /\ counter' = old[t] + 1
        /\ \A s \in Threads : n[s] \in Nat /\ n'[s] \in Nat
    BY <1>1, <1>3, <2>1, <2>5 DEF Raced, TypeOK
  <2>10. Rounds > 1 /\ (\A s \in Threads : pc'[s] = "ended") => counter' >= 2
    <3>1. Rounds > 1 /\ pc'[t] = "ended" => n[t] > 0
      BY <1>1, <2>2, <2>5
    <3> QED BY <2>9, <3>1
  <2>11. \A s \in Threads : pc'[s] = "store" =>
           old'[s] \in 0..Cardinality(Done') /\ (n'[s] > 0 => old'[s] >= 1)
    <3>1. ASSUME NEW s \in Threads, pc'[s] = "store"
          PROVE  old'[s] \in 0..Cardinality(Done') /\ (n'[s] > 0 => old'[s] >= 1)
      <4>1. s # t /\ pc[s] = "store" /\ n'[s] = n[s] /\ old'[s] = old[s]
        BY <1>3, <2>5, <3>1
      <4>2. old[s] \in 0..Cardinality(Done) /\ (n[s] > 0 => old[s] >= 1)
        BY <1>1, <4>1 DEF Raced
      <4> QED BY <1>1, <2>8, <4>1, <4>2
    <3> QED BY <3>1
  <2>12. counter' \in 0..Cardinality(Done') /\ counter' >= 1
    BY <1>1, <2>8, <2>9
  <2>13. Raced'
    BY <2>10, <2>11, <2>12 DEF Raced
  <2> QED BY <1>1, <2>4, <2>6, <2>13 DEF CountInv
<1> QED BY <1>2, <1>3 DEF Racing

(***************************************************************************)
(* In the two counting programs: the threads are at the place their rounds *)
(* say, under the mutex the counter is the number of rounds done, without  *)
(* it no more than that. The invariant behind FinalCount.                  *)
(***************************************************************************)
THEOREM CountInvariant == Spec => []CountInv
<1>1. Init => CountInv
  <2>1. SUFFICES ASSUME Init, Counting PROVE CountInv
    BY DEF CountInv
  <2>2. N \in Nat \ {0} /\ Rounds \in Nat \ {0} /\ Threads = 1..N
    BY SizesAssumption DEF Threads
  <2>3. Waits /\ \A t \in Threads : Labels(t)
    BY <2>1, <2>2 DEF Init, Waits, Labels
  <2>4. Done = {}
    BY <2>1, <2>2 DEF Init, Done, Written
  <2>5. Cardinality(Done) = 0
    BY <2>4, FS_EmptySet
  <2>6. counter = 0 /\ 1 \in Threads /\ \A t \in Threads : n[t] = 0 /\ pc[t] = "none"
    BY <2>1, <2>2 DEF Init, Counting
  <2>7. Raced
    BY <2>5, <2>6 DEF Raced
  <2> QED BY <2>3, <2>5, <2>6, <2>7 DEF CountInv
<1>2. TypeOK /\ NothingLost /\ CountInv /\ [Next]_vars => CountInv'
  <2>1. SUFFICES ASSUME TypeOK, NothingLost, CountInv, [Next]_vars PROVE CountInv'
    OBVIOUS
  <2>2. CASE ~Counting
    <3>1. program' = program
      BY <2>1 DEF Next, MainStep, Create, CreateFails, Join, JoinNobody, WakeUp, Shared, ThreadStep,
             Customer, Coordinated, Racing, Greeting, Lock, Load, GetRegister, ReleaseRegister,
             Post, Round, Goes, vars
    <3> QED BY <2>2, <3>1 DEF CountInv, Counting
  <2>3. CASE Counting /\ (MainStep \/ CreateFails)
    BY <2>1, <2>3, MainCounts
  <2>4. ASSUME Counting, NEW t \in Threads, ThreadStep(t) PROVE CountInv'
    BY <2>1, <2>4, CoordinatedCounts, RacingCounts DEF Counting, ThreadStep
  <2>5. CASE UNCHANGED vars
    <3>1. Done' = Done
      BY <2>5, DoneStays DEF vars, Written
    <3> QED BY <2>1, <2>5, <3>1 DEF vars, CountInv, Counting, Waits, Labels, Raced
  <2> QED BY <2>1, <2>2, <2>3, <2>4, <2>5 DEF Next
<1> QED BY <1>1, <1>2, Typing, NoLostUpdate, PTL DEF Spec

(***************************************************************************)
(* FinalCount: thread-coordination.c prints NUM_THREADS * MAX_COUNT,       *)
(* thread-rc.c no more than that and, when a thread does two rounds or     *)
(* more, at least 2, for every number of threads and rounds.               *)
(***************************************************************************)
THEOREM CountsRight == Spec => []FinalCount
<1>1. TypeOK /\ CountInv => FinalCount
  <2>1. SUFFICES ASSUME TypeOK, CountInv, main = "returned", Counting PROVE FinalCount
    BY DEF FinalCount, Counting
  <2>2. \A t \in Threads : pc[t] = "ended" /\ n[t] = Rounds
    BY <2>1 DEF CountInv, Waits, Labels
  <2>3. Done = Threads \X (1..Rounds)
    BY <2>2, SizesAssumption DEF Done, Written
  <2>4. Cardinality(Done) = N * Rounds
    BY <2>3, DoneFinite
  <2>5. program = "coordination" => counter = N * Rounds
    BY <2>1, <2>4 DEF CountInv
  <2>6. program = "rc" => counter <= N * Rounds /\ (Rounds > 1 => counter >= 2)
    <3>1. SUFFICES ASSUME Raced PROVE counter <= N * Rounds /\ (Rounds > 1 => counter >= 2)
      BY <2>1 DEF CountInv
    <3>2. counter \in 0..Cardinality(Done) /\ Cardinality(Done) \in Nat
      BY <3>1, DoneFinite DEF Raced
    <3>3. counter <= Cardinality(Done)
      BY <3>2
    <3> QED BY <2>2, <2>4, <3>1, <3>3 DEF Raced
  <2> QED BY <2>5, <2>6 DEF FinalCount
<1> QED BY <1>1, CountInvariant, Typing, PTL
=============================================================================
