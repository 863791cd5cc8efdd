--------------------------- MODULE StudentDB_proofs ---------------------------
(***************************************************************************)
(* Theorems about StudentDB, for every number of processes and students.   *)
(***************************************************************************)
EXTENDS StudentDB, FiniteSetTheorems, WellFoundedInduction, TLAPS

USE IdAssumption, InodeAssumption, BoundAssumption, OpsAssumption

File == Seq(0..MaxId)

LEMMA AtType ==
  ASSUME NEW f \in File, NEW o \in Nat
  PROVE  At(f, o) \in 0..MaxId
  BY DEF At, File

LEMMA PutType ==
  ASSUME NEW f \in File, NEW o \in Nat, NEW r \in 0..MaxId
  PROVE  /\ Put(f, o, r) \in File
         /\ Len(Put(f, o, r)) = IF o < Len(f) THEN Len(f) ELSE o + 1
         /\ \A i \in 1..Len(Put(f, o, r)) :
              Put(f, o, r)[i] = IF i = o + 1 THEN r ELSE At(f, i - 1)
<1> DEFINE n == IF o < Len(f) THEN Len(f) ELSE o + 1
<1>1. Len(f) \in Nat /\ n \in Nat
  BY DEF File
<1>2. \A i \in 1..n : i - 1 \in Nat /\ At(f, i - 1) \in 0..MaxId
  <2>1. \A i \in 1..n : i - 1 \in Nat
    BY <1>1
  <2>2. \A p \in Nat : At(f, p) \in 0..MaxId
    BY AtType
  <2> QED BY <2>1, <2>2
<1>3. Put(f, o, r) = [i \in 1..n |-> IF i = o + 1 THEN r ELSE At(f, i - 1)]
  BY DEF Put
<1>4. Put(f, o, r) \in [1..n -> 0..MaxId]
  BY <1>2, <1>3
<1> HIDE DEF n
<1>5. Put(f, o, r) \in File /\ Len(Put(f, o, r)) = n
  <2>1. \A g \in [1..n -> 0..MaxId] : g \in Seq(0..MaxId) /\ Len(g) = n
    BY <1>1
  <2> QED BY <1>4, <2>1 DEF File
<1>6. \A i \in 1..n : Put(f, o, r)[i] = IF i = o + 1 THEN r ELSE At(f, i - 1)
  BY <1>3
<1> QED BY <1>5, <1>6 DEF n

(* The history variable collects numbers. *)
LEMMA ObservedType ==
  ASSUME TypeOK, Observed, (db \in Inodes \cup {None})', (disk \in [Inodes -> File])'
  PROVE  seen' \in [Procs -> SUBSET Nat]
<1>1. Db' \in File
  <2>1. <<>> \in File
    BY DEF File
  <2>2. CASE db' = None
    BY <2>1, <2>2 DEF Db
  <2>3. CASE db' # None
    <3>1. db' \in Inodes
      BY <2>3
    <3>2. disk'[db'] \in File
      BY <3>1
    <3> QED BY <2>3, <3>2 DEF Db
  <2> QED BY <2>2, <2>3
<1>2. Cardinality({i \in 1..Len(Db) : Db[i] # 0})' \in Nat
  <2>1. IsFiniteSet(1..Len(Db'))
    BY <1>1, FS_Interval DEF File
  <2>2. IsFiniteSet({i \in 1..Len(Db') : Db'[i] # 0})
    BY <2>1, FS_Subset
  <2> QED BY <2>2, FS_CardinalityType
<1>3. \A p \in Procs : Answer(proc[p].job)' \in Nat
  BY <1>2 DEF Answer
<1> QED BY <1>3 DEF TypeOK, Observed

(***************************************************************************)
(* A process takes step s: what the rest of the typing invariant asks for. *)
(***************************************************************************)
Ready(s) ==
  /\ s \in Process
  /\ s.pc \notin {"idle", "rename", "reopen"} => s.fd # None
  /\ s.pc \in {"copy", "copywrite"} => s.tfd # None
  /\ s.pc \in {"add", "addwrite"} => s.job.id \in Ids
  /\ s.pc = "copywrite" => s.buf \in Ids

LEMMA ReadyNow ==
  ASSUME TypeOK, NEW p \in Procs
  PROVE  Ready(proc[p]) /\ (proc[p].pc # "idle" => db # None)
  BY DEF TypeOK, Equipped, Ready

ProcOK == proc \in [Procs -> Process] /\ \A p \in Procs : Equipped(p)

LEMMA GoesType ==
  ASSUME TypeOK, NEW p \in Procs, NEW s, Ready(s), Goes(p, s),
         db # None => db' # None, s.pc # "idle" => db' # None
  PROVE  ProcOK'
<1>1. proc' \in [Procs -> Process] /\ proc'[p] = s /\ \A q \in Procs : q # p => proc'[q] = proc[q]
  BY DEF Goes, TypeOK, Ready
<1>2. Equipped(p)'
  BY <1>1 DEF Equipped, Ready
<1>3. ASSUME NEW q \in Procs, q # p PROVE Equipped(q)'
  BY <1>1, <1>3, ReadyNow DEF Equipped, Ready
<1> QED BY <1>1, <1>2, <1>3 DEF ProcOK

LEMMA ExitsType ==
  ASSUME TypeOK, NEW p \in Procs, NEW rc \in Codes, NEW n \in Nat, Exits(p, rc, n),
         db # None => db' # None
  PROVE  ProcOK' /\ out' \in [Procs -> [rc : Codes, n : Nat]]
<1> DEFINE s == [proc[p] EXCEPT !.pc = "idle", !.fd = None, !.off = 0, !.tfd = None,
                                !.toff = 0, !.buf = 0]
<1>1. proc[p] \in Process
  BY DEF TypeOK
<1>2. s \in Process /\ s.pc = "idle"
  BY <1>1 DEF Process, PCs
<1>3. Goes(p, s)
  BY DEF Exits
<1> HIDE DEF s
<1>4. Ready(s)
  BY <1>2 DEF Ready
<1>5. ProcOK'
  BY <1>2, <1>3, <1>4, GoesType
<1> QED BY <1>5 DEF Exits, TypeOK

LEMMA FinishType ==
  ASSUME TypeOK, Observed, ProcOK', (db \in Inodes \cup {None})', (tmp \in Inodes \cup {None})',
         (disk \in [Inodes -> File])', (out \in [Procs -> [rc : Codes, n : Nat]])',
         runs' \in Nat, faults' \in Nat
  PROVE  TypeOK'
  BY ObservedType DEF TypeOK, ProcOK, File

(***************************************************************************)
(* The steps.                                                              *)
(***************************************************************************)
StepOK ==
  /\ ProcOK
  /\ db \in Inodes \cup {None} /\ tmp \in Inodes \cup {None}
  /\ disk \in [Inodes -> File]
  /\ out \in [Procs -> [rc : Codes, n : Nat]]
  /\ faults \in Nat

LEMMA RejectedType ==
  ASSUME TypeOK, NEW p \in Procs, NEW j \in Job, NEW rc \in Codes, Rejected(p, j, rc),
         proc[p].pc = "idle", db # None => db' # None
  PROVE  ProcOK' /\ out' \in [Procs -> [rc : Codes, n : Nat]]
<1>1. [proc[p] EXCEPT !.job = j] \in Process /\ [proc[p] EXCEPT !.job = j].pc = "idle"
  BY DEF TypeOK, Process
<1>2. Ready([proc[p] EXCEPT !.job = j])
  BY <1>1 DEF Ready
<1>3. ProcOK'
  BY <1>1, <1>2, GoesType DEF Rejected
<1> QED BY <1>3 DEF Rejected, TypeOK

LEMMA RunType ==
  ASSUME TypeOK, NEW p \in Procs, Run(p) \/ RunFails(p)
  PROVE  StepOK'
<1>1. CASE Run(p)
  <2>1. PICK j \in Job, i \in Inodes :
          /\ \/ db = None /\ Creates(i) /\ db' = i
             \/ db = i /\ UNCHANGED <<db, disk>>
          /\ IF BadArgs(j)
             THEN Rejected(p, j, "EXIT_FAIL_ARGS")
             ELSE /\ Goes(p, [proc[p] EXCEPT !.job = j, !.pc = FirstStep[j.op], !.fd = i])
                  /\ UNCHANGED out
    BY <1>1 DEF Run
  <2>2. proc[p].pc = "idle" /\ UNCHANGED <<tmp, faults>>
    BY <1>1 DEF Run
  <2>3. db' = i /\ i # None /\ disk' \in [Inodes -> File]
    <3>1. disk \in [Inodes -> File] /\ <<>> \in File
      BY DEF TypeOK, File
    <3>2. i # None
      BY DEF None
    <3>3. db' = i
      BY <2>1
    <3>4. disk' = disk \/ disk' = [disk EXCEPT ![i] = <<>>]
      BY <2>1 DEF Creates
    <3> QED BY <3>1, <3>2, <3>3, <3>4
  <2>4. CASE BadArgs(j)
    BY <2>1, <2>2, <2>3, <2>4, RejectedType DEF StepOK, TypeOK, Codes
  <2>5. CASE ~BadArgs(j)
    <3> DEFINE s == [proc[p] EXCEPT !.job = j, !.pc = FirstStep[j.op], !.fd = i]
    <3>1. /\ FirstStep[j.op] \in PCs \ {"rename", "reopen", "copy", "copywrite", "addwrite"}
          /\ FirstStep[j.op] = "add" => j.op = "a"
      BY DEF FirstStep, Job, AllOps, PCs
    <3>2. proc[p] \in Process
      BY DEF TypeOK
    <3>3. s \in Process /\ s.pc = FirstStep[j.op] /\ s.fd = i /\ s.job = j
      BY <3>1, <3>2 DEF Process
    <3>4. FirstStep[j.op] = "add" => j.id \in Ids
      BY <2>5, <3>1 DEF BadArgs, Job, Ids
    <3>5. Goes(p, s) /\ UNCHANGED out
      BY <2>1, <2>5
    <3> HIDE DEF s
    <3>6. Ready(s)
      BY <2>3, <3>1, <3>3, <3>4 DEF Ready
    <3>7. ProcOK'
      BY <2>3, <3>5, <3>6, GoesType
    <3> QED BY <2>2, <2>3, <3>5, <3>7 DEF StepOK, TypeOK
  <2> QED BY <2>4, <2>5
<1>2. CASE RunFails(p)
  <2>1. PICK j \in Job : Rejected(p, j, "ERR_DB_FILE")
    BY <1>2 DEF RunFails
  <2>2. proc[p].pc = "idle" /\ UNCHANGED fileVars /\ faults' = faults + 1
    BY <1>2 DEF RunFails
  <2> QED BY <2>1, <2>2, RejectedType DEF StepOK, TypeOK, fileVars, Codes, File
<1> QED BY <1>1, <1>2

(* A call fails, or the process is killed: nothing but the process changes. *)
LEMMA FailType ==
  ASSUME TypeOK, NEW p \in Procs, CallFails(p) \/ Killed(p)
  PROVE  StepOK'
<1>1. PICK rc \in {"ERR_DB_FILE", "killed"} :
        Exits(p, rc, 0) /\ UNCHANGED fileVars /\ faults' = faults + 1
  BY DEF CallFails, Killed, Fails
<1>2. rc \in Codes /\ UNCHANGED db /\ 0 \in Nat
  BY <1>1 DEF Codes, fileVars
<1>3. ProcOK' /\ out' \in [Procs -> [rc : Codes, n : Nat]]
  BY <1>1, <1>2, ExitsType
<1> QED BY <1>1, <1>3 DEF StepOK, TypeOK, fileVars, File

(* The process at work ends without touching a file, or overwrites one slot. *)
LEMMA WorkEnds ==
  ASSUME TypeOK, NEW p \in Procs, NEW rc \in Codes, NEW n \in Nat, Exits(p, rc, n),
         UNCHANGED <<db, tmp, faults>>, disk' \in [Inodes -> File]
  PROVE  StepOK'
<1>1. ProcOK' /\ out' \in [Procs -> [rc : Codes, n : Nat]]
  BY ExitsType
<1> QED BY <1>1 DEF StepOK, TypeOK

LEMMA WorkGoesOn ==
  ASSUME TypeOK, NEW p \in Procs, NEW s, Ready(s), Goes(p, s), proc[p].pc # "idle",
         UNCHANGED <<db, out>>, tmp' \in Inodes \cup {None}, disk' \in [Inodes -> File],
         faults' \in Nat
  PROVE  StepOK'
<1>1. ProcOK'
  BY GoesType, ReadyNow
<1> QED BY <1>1 DEF StepOK, TypeOK

LEMMA WorksType ==
  ASSUME TypeOK, NEW p \in Procs, Works(p)
  PROVE  StepOK'
<1> DEFINE s == proc[p]
<1>1. /\ s \in Process /\ s.fd \in Inodes \cup {None} /\ s.tfd \in Inodes \cup {None}
      /\ s.job \in Job /\ s.job.id \in 0..(MaxId + 1) /\ s.off \in Nat /\ s.toff \in Nat
      /\ s.buf \in Nat /\ s.pc \in PCs
  BY DEF TypeOK, Process, Job
<1>2. Ready(s)
  BY ReadyNow
<1>3. disk \in [Inodes -> File] /\ db \in Inodes \cup {None} /\ tmp \in Inodes \cup {None}
      /\ faults \in Nat /\ out \in [Procs -> [rc : Codes, n : Nat]]
  BY DEF TypeOK, File
<1> HIDE DEF s
<1>4. CASE AddRead(p)
  <2> DEFINE next == IF s.job.id < Len(disk[s.fd]) THEN s.job.id + 1 ELSE s.job.id
             t == [s EXCEPT !.pc = "addwrite", !.off = next]
  <2>1. /\ s.pc = "add" /\ UNCHANGED <<db, tmp, disk, faults>>
        /\ \/ Exits(p, "ERR_DB_OP", 0)
           \/ Goes(p, t) /\ UNCHANGED out
    BY <1>4 DEF AddRead, fileVars, s
  <2>2. next \in Nat
    BY <1>1
  <2>3. Ready(t)
    BY <1>1, <1>2, <2>1, <2>2 DEF Ready, Process, PCs
  <2> HIDE DEF t
  <2>4. "ERR_DB_OP" \in Codes /\ proc[p].pc # "idle"
    BY <2>1 DEF Codes, s
  <2> QED BY <1>3, <2>1, <2>3, <2>4, WorkEnds, WorkGoesOn
<1>5. CASE AddWrite(p)
  <2>1. s.pc = "addwrite" /\ Exits(p, "NO_ERROR", 0) /\ UNCHANGED <<db, tmp, faults>>
        /\ disk' = [disk EXCEPT ![s.fd] = Put(disk[s.fd], s.off, s.job.id)]
    BY <1>5 DEF AddWrite, s
  <2>2. s.fd \in Inodes /\ disk[s.fd] \in File /\ s.job.id \in 0..MaxId
    <3>1. s.fd # None /\ s.job.id \in Ids
      BY <1>2, <2>1 DEF Ready
    <3>2. s.fd \in Inodes /\ s.job.id \in 0..MaxId
      BY <1>1, <3>1 DEF Ids
    <3> QED BY <1>3, <3>2
  <2>3. disk' \in [Inodes -> File] /\ "NO_ERROR" \in Codes
    BY <1>1, <1>3, <2>1, <2>2, PutType DEF Codes
  <2> QED BY <2>1, <2>3, WorkEnds
<1>6. CASE DelRead(p)
  <2> DEFINE t == [s EXCEPT !.pc = "delwrite"]
  <2>1. /\ s.pc = "del" /\ UNCHANGED <<db, tmp, disk, faults>>
        /\ \/ Exits(p, "ERR_DB_OP", 0)
           \/ Goes(p, t) /\ UNCHANGED out
    BY <1>6 DEF DelRead, fileVars, s
  <2>2. Ready(t)
    BY <1>1, <1>2, <2>1 DEF Ready, Process, PCs
  <2> HIDE DEF t
  <2>3. "ERR_DB_OP" \in Codes /\ proc[p].pc # "idle"
    BY <2>1 DEF Codes, s
  <2> QED BY <1>3, <2>1, <2>2, <2>3, WorkEnds, WorkGoesOn
<1>7. CASE DelWrite(p)
  <2>1. s.pc = "delwrite" /\ Exits(p, "NO_ERROR", 0) /\ UNCHANGED <<db, tmp, faults>>
        /\ disk' = [disk EXCEPT ![s.fd] = Put(disk[s.fd], s.job.id, 0)]
    BY <1>7 DEF DelWrite, s
  <2>2. s.fd \in Inodes /\ disk[s.fd] \in File /\ s.job.id \in Nat /\ 0 \in 0..MaxId
    <3>1. s.fd # None
      BY <1>2, <2>1 DEF Ready
    <3>2. s.fd \in Inodes
      BY <1>1, <3>1
    <3>3. s.job.id \in Nat /\ 0 \in 0..MaxId
      BY <1>1
    <3> QED BY <1>3, <3>2, <3>3
  <2>3. disk' \in [Inodes -> File] /\ "NO_ERROR" \in Codes
    BY <1>3, <2>1, <2>2, PutType DEF Codes
  <2> QED BY <2>1, <2>3, WorkEnds
<1>8. CASE Scan(p)
  <2> DEFINE b == IF s.job.op = "c" /\ At(disk[s.fd], s.off) # 0 THEN s.buf + 1 ELSE s.buf
             t == [s EXCEPT !.off = s.off + 1, !.buf = b]
  <2>1. /\ s.pc = "scan" /\ UNCHANGED <<db, tmp, disk, faults>>
        /\ \/ \E rc \in {"SRCH_NOT_FOUND", "NO_ERROR"}, n \in {0, s.buf} : Exits(p, rc, n)
           \/ Goes(p, t) /\ UNCHANGED out
    BY <1>8 DEF Scan, fileVars, s
  <2>2. s.buf + 1 \in Nat /\ s.off + 1 \in Nat /\ b \in Nat
    BY <1>1
  <2>3. Ready(t)
    BY <1>1, <1>2, <2>1, <2>2 DEF Ready, Process
  <2> HIDE DEF t
  <2>4. {"SRCH_NOT_FOUND", "NO_ERROR"} \subseteq Codes /\ proc[p].pc # "idle" /\ {0, s.buf} \subseteq Nat
    BY <1>1, <2>1 DEF Codes, s
  <2> QED BY <1>3, <2>1, <2>3, <2>4, WorkEnds, WorkGoesOn
<1>9. CASE Zero(p)
  <2>1. Exits(p, "NO_ERROR", 0) /\ UNCHANGED <<db, tmp, faults>>
        /\ disk' = [disk EXCEPT ![db] = <<>>]
    BY <1>9 DEF Zero
  <2>2. disk' \in [Inodes -> File] /\ "NO_ERROR" \in Codes
    <3>1. <<>> \in File
      BY DEF File
    <3> QED BY <1>3, <2>1, <3>1 DEF Codes
  <2> QED BY <2>1, <2>2, WorkEnds
<1>10. CASE OpenTemp(p)
  <2>1. PICK i \in Inodes :
          /\ disk' = [disk EXCEPT ![i] = <<>>] /\ tmp' = i
          /\ Goes(p, [s EXCEPT !.pc = "copy", !.tfd = i])
    BY <1>10 DEF OpenTemp, Creates, s
  <2> DEFINE t == [s EXCEPT !.pc = "copy", !.tfd = i]
  <2>2. s.pc = "temp" /\ UNCHANGED <<db, out, faults>>
    BY <1>10 DEF OpenTemp, s
  <2>3. i # None
    BY DEF None
  <2>4. Ready(t)
    BY <1>1, <1>2, <2>2, <2>3 DEF Ready, Process, PCs
  <2>5. Goes(p, t) /\ proc[p].pc # "idle"
    BY <2>1, <2>2 DEF s
  <2> HIDE DEF t
  <2>6. disk' \in [Inodes -> File]
    BY <1>3, <2>1 DEF File
  <2> QED BY <1>3, <2>1, <2>2, <2>4, <2>5, <2>6, WorkGoesOn
<1>11. CASE CopyRead(p)
  <2> DEFINE r == At(disk[s.fd], s.off)
             t == [s EXCEPT !.off = s.off + 1, !.buf = r,
                            !.pc = IF r = 0 THEN "copy" ELSE "copywrite"]
             u == [s EXCEPT !.pc = "rename", !.fd = None, !.tfd = None]
  <2>1. /\ s.pc = "copy" /\ UNCHANGED <<db, tmp, disk, out>> /\ faults' \in {faults, faults + 1}
        /\ Goes(p, t) \/ Goes(p, u)
    BY <1>11 DEF CopyRead, fileVars, s
  <2>2. s.fd \in Inodes /\ disk[s.fd] \in File
    <3>1. s.fd # None
      BY <1>2, <2>1 DEF Ready
    <3>2. s.fd \in Inodes
      BY <1>1, <3>1
    <3> QED BY <1>3, <3>2
  <2>3. r \in 0..MaxId
    BY <1>1, <2>2, AtType
  <2>4. Ready(t)
    <3> HIDE DEF r
    <3>1. (r # 0 => r \in Ids) /\ r \in Nat
      BY <2>3 DEF Ids
    <3>2. s.fd # None /\ s.tfd # None
      BY <1>2, <2>1 DEF Ready
    <3>3. ASSUME NEW k \in {"copy", "copywrite"}, NEW o \in Nat, k = "copywrite" => r \in Ids
          PROVE  Ready([s EXCEPT !.off = o, !.buf = r, !.pc = k])
      BY <1>1, <3>1, <3>2, <3>3 DEF Ready, Process, PCs
    <3>4. s.off + 1 \in Nat
      BY <1>1
    <3> QED BY <3>1, <3>3, <3>4
  <2>5. Ready(u)
    BY <1>1, <1>2 DEF Ready, Process, PCs
  <2>6. proc[p].pc # "idle"
    BY <2>1 DEF s
  <2> HIDE DEF t, u
  <2> QED BY <1>3, <2>1, <2>4, <2>5, <2>6, WorkGoesOn
<1>12. CASE CopyWrite(p)
  <2> DEFINE t == [s EXCEPT !.pc = "copy", !.toff = s.toff + 1]
  <2>1. s.pc = "copywrite" /\ UNCHANGED <<db, tmp, out, faults>> /\ Goes(p, t)
        /\ disk' = [disk EXCEPT ![s.tfd] = Put(disk[s.tfd], s.toff, s.buf)]
    BY <1>12 DEF CopyWrite, s
  <2>2. s.tfd \in Inodes /\ disk[s.tfd] \in File /\ s.buf \in 0..MaxId
    BY <1>1, <1>2, <1>3, <2>1 DEF Ready, Ids
  <2>3. disk' \in [Inodes -> File]
    BY <1>1, <1>3, <2>1, <2>2, PutType
  <2>4. Ready(t)
    <3>1. s.fd # None /\ s.tfd # None /\ s.toff + 1 \in Nat
      BY <1>1, <1>2, <2>1 DEF Ready
    <3> QED BY <1>1, <3>1 DEF Ready, Process, PCs
  <2>5. proc[p].pc # "idle"
    BY <2>1 DEF s
  <2> HIDE DEF t
  <2> QED BY <1>3, <2>1, <2>3, <2>4, <2>5, WorkGoesOn
<1>13. CASE Rename(p)
  <2>1. s.pc = "rename" /\ UNCHANGED <<disk, faults>>
    BY <1>13 DEF Rename, fileVars, s
  <2>2. CASE tmp # None
    <3> DEFINE t == [s EXCEPT !.pc = "reopen"]
    <3>1. db' = tmp /\ tmp' = None /\ UNCHANGED out /\ Goes(p, t)
      BY <1>13, <2>2 DEF Rename, s
    <3>2. Ready(t) /\ t.pc # "idle"
      BY <1>1, <1>2 DEF Ready, Process, PCs
    <3> HIDE DEF t
    <3>3. ProcOK'
      BY <2>2, <3>1, <3>2, GoesType
    <3> QED BY <1>3, <2>1, <2>2, <3>1, <3>3 DEF StepOK
  <2>3. CASE tmp = None
    <3>1. Exits(p, "ERR_DB_FILE", 0) /\ UNCHANGED <<db, tmp>> /\ "ERR_DB_FILE" \in Codes
      BY <1>13, <2>3 DEF Rename, fileVars, Codes
    <3> QED BY <1>3, <2>1, <3>1, WorkEnds
  <2> QED BY <2>2, <2>3
<1>14. CASE Reopen(p)
  <2>1. Exits(p, "NO_ERROR", 0) /\ UNCHANGED <<db, tmp, disk, faults>> /\ "NO_ERROR" \in Codes
    BY <1>14 DEF Reopen, fileVars, Codes
  <2> QED BY <1>3, <2>1, WorkEnds
<1> QED BY <1>4, <1>5, <1>6, <1>7, <1>8, <1>9, <1>10, <1>11, <1>12, <1>13, <1>14 DEF Works

(***************************************************************************)
(* Every sdbsc process works with open descriptors and ids in range,       *)
(* whatever the other processes rename or truncate meanwhile.              *)
(***************************************************************************)
THEOREM Typing == Spec => []TypeOK
<1>1. Init => TypeOK
  <2> SUFFICES ASSUME Init PROVE TypeOK
    OBVIOUS
  <2>1. proc \in [Procs -> Process] /\ \A p \in Procs : Equipped(p)
    BY DEF Init, Process, PCs, Job, AllOps, Equipped, None
  <2> QED BY <2>1 DEF Init, TypeOK, Codes, None
<1>2. TypeOK /\ [Next]_vars => TypeOK'
  <2>1. ASSUME TypeOK, Next PROVE TypeOK'
    <3>1. PICK p \in Procs :
            Run(p) \/ RunFails(p) \/ ((Works(p) \/ CallFails(p) \/ Killed(p)) /\ UNCHANGED runs)
      BY <2>1 DEF Next
    <3>2. StepOK'
      BY <2>1, <3>1, RunType, WorksType, FailType
    <3>3. runs' \in Nat
      <4>1. runs' \in {runs, runs + 1}
        BY <3>1 DEF Run, RunFails
      <4>2. runs \in Nat
        BY <2>1 DEF TypeOK
      <4> QED BY <4>1, <4>2
    <3>4. Observed
      BY <2>1 DEF Next
    <3> QED BY <2>1, <3>2, <3>3, <3>4, FinishType DEF StepOK
  <2>2. ASSUME TypeOK, UNCHANGED vars PROVE TypeOK'
    BY <2>2 DEF TypeOK, Equipped, vars
  <2> QED BY <2>1, <2>2
<1> QED BY <1>1, <1>2, PTL DEF Spec

-----------------------------------------------------------------------------
(***************************************************************************)
(* The case in which the file is a plain table (AppendMode): one terminal  *)
(* modifies it, nobody compresses it and no empty slot is filled.  Then    *)
(* read() moves the offset on only over a taken slot, every descriptor is  *)
(* for the file now named student.db, and every student is in the slot of  *)
(* its id.  TableImplemented and its lemmas rest on it.                    *)
(***************************************************************************)
AppendMode == ~Refill /\ "x" \notin Ops /\ \A p, q \in Modifiers : p = q
Placed(p) ==
  LET s == proc[p] IN
  /\ s.pc \in {"idle", "scan", "add", "addwrite", "del", "delwrite", "zero"}
  /\ s.pc \notin {"idle", "scan"} => p \in Modifiers
  /\ s.pc # "idle" => s.fd = db
  /\ s.pc = "add" => s.job.id >= Len(Db) \/ At(Db, s.job.id) # 0
  /\ s.pc = "addwrite" => s.off = s.job.id
PlaceInv == InPlace /\ \A p \in Procs : Placed(p)

LEMMA DbType == ASSUME TypeOK PROVE Db \in File
<1>1. <<>> \in File /\ (db # None => disk[db] \in File)
  BY DEF TypeOK, File
<1> QED BY <1>1 DEF Db

(* Writing r into slot o, its own or an empty record, misplaces nothing. *)
LEMMA PutInPlace ==
  ASSUME NEW f \in File, NEW o \in Nat, NEW r \in 0..MaxId, r \in {0, o},
         \A i \in 1..Len(f) : f[i] # 0 => f[i] = i - 1
  PROVE  \A i \in 1..Len(Put(f, o, r)) : Put(f, o, r)[i] # 0 => Put(f, o, r)[i] = i - 1
<1> TAKE i \in 1..Len(Put(f, o, r))
<1>1. Len(f) \in Nat /\ i \in Nat /\ i >= 1
  BY PutType DEF File
<1>2. CASE i = o + 1
  BY <1>1, <1>2, PutType
<1>3. CASE i # o + 1
  <2>1. Put(f, o, r)[i] = At(f, i - 1)
    BY <1>3, PutType
  <2>2. At(f, i - 1) # 0 => At(f, i - 1) = i - 1
    BY <1>1 DEF At
  <2> QED BY <2>1, <2>2
<1> QED BY <1>2, <1>3

(* The process at work changes; the others see the same file or, if it was *)
(* written, are readers.                                                   *)
LEMMA PlacedFrame ==
  ASSUME TypeOK, PlaceInv, AppendMode, NEW p \in Procs, NEW s, Goes(p, s),
         UNCHANGED <<db, disk>> \/ (UNCHANGED db /\ p \in Modifiers),
         Placed(p)', InPlace'
  PROVE  PlaceInv'
<1>1. ASSUME NEW q \in Procs, q # p PROVE Placed(q)'
  <2>1. proc'[q] = proc[q] /\ Placed(q)
    BY <1>1 DEF Goes, TypeOK, PlaceInv
  <2>2. CASE UNCHANGED <<db, disk>>
    BY <2>1, <2>2 DEF Placed, Db
  <2>3. CASE UNCHANGED db /\ p \in Modifiers
    <3>1. q \notin Modifiers
      BY <1>1, <2>3 DEF AppendMode
    <3>2. proc[q].pc \in {"idle", "scan"}
      BY <2>1, <3>1 DEF Placed
    <3> QED BY <2>1, <2>3, <3>2 DEF Placed
  <2> QED BY <2>2, <2>3
<1> QED BY <1>1 DEF PlaceInv

LEMMA ExitsPlaced ==
  ASSUME TypeOK, PlaceInv, AppendMode, NEW p \in Procs, NEW rc, NEW n, Exits(p, rc, n),
         UNCHANGED <<db, disk>> \/ (UNCHANGED db /\ p \in Modifiers), InPlace'
  PROVE  PlaceInv'
<1>1. PICK s : Goes(p, s) /\ s.pc = "idle"
  <2> DEFINE t == [proc[p] EXCEPT !.pc = "idle", !.fd = None, !.off = 0, !.tfd = None,
                                  !.toff = 0, !.buf = 0]
  <2>1. proc[p] \in Process
    BY DEF TypeOK
  <2>2. t.pc = "idle"
    BY <2>1 DEF Process
  <2>3. Goes(p, t)
    BY DEF Exits
  <2> HIDE DEF t
  <2> QED BY <2>2, <2>3
<1>2. proc'[p].pc = "idle"
  BY <1>1 DEF Goes, TypeOK
<1>3. Placed(p)'
  BY <1>2 DEF Placed
<1> QED BY <1>1, <1>3, PlacedFrame

LEMMA SameFile ==
  ASSUME PlaceInv, UNCHANGED <<db, disk>>
  PROVE  Db' = Db /\ InPlace'
  BY DEF PlaceInv, InPlace, Db

LEMMA WrittenInPlace ==
  ASSUME TypeOK, PlaceInv, db # None, NEW o \in Nat, NEW r \in 0..MaxId, r \in {0, o},
         disk' = [disk EXCEPT ![db] = Put(@, o, r)], UNCHANGED db
  PROVE  InPlace'
<1>1. Db = disk[db] /\ Db' = Put(Db, o, r)
  BY DEF TypeOK, Db
<1>2. Db \in File
  BY DbType
<1> HIDE DEF Db
<1>3. \A i \in 1..Len(Put(Db, o, r)) : Put(Db, o, r)[i] # 0 => Put(Db, o, r)[i] = i - 1
  BY <1>2, PutInPlace DEF PlaceInv, InPlace
<1> QED BY <1>1, <1>3 DEF InPlace

LEMMA RunPlaced ==
  ASSUME TypeOK, PlaceInv, AppendMode, NEW p \in Procs, Run(p) \/ RunFails(p)
  PROVE  PlaceInv'
<1>0. proc[p] \in Process /\ proc[p].pc = "idle"
  BY DEF TypeOK, Run, RunFails
<1>1. PICK j \in Job :
        /\ Typed(p, j)
        /\ \/ Goes(p, [proc[p] EXCEPT !.job = j])
           \/ Goes(p, [proc[p] EXCEPT !.job = j, !.pc = FirstStep[j.op], !.fd = db'])
  <2>1. CASE Run(p)
    BY <2>1 DEF Run, Rejected
  <2>2. CASE RunFails(p)
    BY <2>2 DEF RunFails, Rejected
  <2> QED BY <2>1, <2>2
<1>2. UNCHANGED <<db, disk>> \/ (db = None /\ Db' = <<>>)
  <2>1. CASE Run(p)
    <3>1. PICK i \in Inodes : \/ db = None /\ Creates(i) /\ db' = i
                              \/ UNCHANGED <<db, disk>>
      BY <2>1 DEF Run
    <3>2. i # None
      BY DEF None
    <3> QED BY <3>1, <3>2 DEF Creates, TypeOK, Db
  <2>2. CASE RunFails(p)
    BY <2>2 DEF RunFails, fileVars
  <2> QED BY <2>1, <2>2
<1>3. Db' = Db
  BY <1>2 DEF Db
<1>4. InPlace'
  BY <1>3 DEF PlaceInv, InPlace
<1>5. ASSUME NEW q \in Procs, q # p PROVE Placed(q)'
  <2>1. proc'[q] = proc[q] /\ Placed(q) /\ Equipped(q)
    BY <1>1, <1>5 DEF Goes, TypeOK, PlaceInv
  <2>2. CASE UNCHANGED <<db, disk>>
    BY <1>3, <2>1, <2>2 DEF Placed
  <2>3. CASE db = None
    BY <2>1, <2>3 DEF Placed, Equipped
  <2> QED BY <1>2, <2>2, <2>3
<1>6. Placed(p)'
  <2>1. CASE proc'[p].pc = "idle"
    BY <2>1 DEF Placed
  <2>2. CASE Goes(p, [proc[p] EXCEPT !.job = j, !.pc = FirstStep[j.op], !.fd = db'])
    <3>1. proc'[p].pc = FirstStep[j.op] /\ proc'[p].fd = db' /\ proc'[p].job = j
      BY <1>0, <2>2 DEF Goes, TypeOK, Process
    <3>2. /\ j.op \in {"a", "c", "d", "f", "z"}
          /\ p \notin Modifiers => j.op \in {"c", "f"}
          /\ j.op = "a" => j.id >= Len(Db) \/ At(Db, j.id) # 0
      BY <1>1 DEF Typed, AppendMode, Job, AllOps
    <3>3. /\ FirstStep[j.op] \in {"scan", "add", "del", "zero"}
          /\ FirstStep[j.op] # "scan" => p \in Modifiers
          /\ FirstStep[j.op] = "add" => j.op = "a"
      BY <3>2 DEF FirstStep
    <3> QED BY <1>3, <3>1, <3>2, <3>3 DEF Placed
  <2>3. CASE Goes(p, [proc[p] EXCEPT !.job = j])
    <3>1. proc'[p].pc = "idle"
      BY <1>0, <2>3 DEF Goes, TypeOK, Process
    <3> QED BY <2>1, <3>1
  <2> QED BY <1>1, <2>2, <2>3
<1> QED BY <1>4, <1>5, <1>6 DEF PlaceInv

LEMMA WorksPlaced ==
  ASSUME TypeOK, PlaceInv, AppendMode, NEW p \in Procs, Works(p)
  PROVE  PlaceInv'
<1> DEFINE s == proc[p]
<1>1. /\ s \in Process /\ s.job.id \in 0..(MaxId + 1) /\ s.off \in Nat /\ s.pc \in PCs
      /\ Placed(p) /\ Ready(s) /\ (s.pc # "idle" => db # None)
  BY ReadyNow DEF TypeOK, Process, Job, PlaceInv
<1>2. s.pc # "idle" => s.fd = db /\ Db = disk[s.fd]
  BY <1>1 DEF Placed, Db
<1>3. s.pc \in {"idle", "scan", "add", "addwrite", "del", "delwrite", "zero"}
      /\ (s.pc \notin {"idle", "scan"} => p \in Modifiers)
  BY <1>1 DEF Placed
<1> HIDE DEF s
<1>4. ASSUME NEW t, Goes(p, t), UNCHANGED <<db, disk>>, Placed(p)' PROVE PlaceInv'
  BY <1>4, SameFile, PlacedFrame
<1>5. ASSUME NEW rc, NEW n, Exits(p, rc, n), UNCHANGED <<db, disk>> PROVE PlaceInv'
  BY <1>5, SameFile, ExitsPlaced
<1>6. CASE AddRead(p)
  <2> DEFINE next == IF s.job.id < Len(disk[s.fd]) THEN s.job.id + 1 ELSE s.job.id
             t == [s EXCEPT !.pc = "addwrite", !.off = next]
  <2>1. s.pc = "add" /\ UNCHANGED <<db, disk>>
    BY <1>6 DEF AddRead, fileVars, s
  <2>2. CASE At(disk[s.fd], s.job.id) # 0
    BY <1>5, <1>6, <2>1, <2>2 DEF AddRead, s
  <2>3. CASE At(disk[s.fd], s.job.id) = 0
    <3>1. Goes(p, t)
      BY <1>6, <2>3 DEF AddRead, s
    <3>2. next = s.job.id
      <4>1. s.job.id >= Len(Db) /\ Db = disk[s.fd]
        BY <1>1, <1>2, <2>1, <2>3 DEF Placed, s
      <4>2. Len(Db) \in Nat /\ s.job.id \in Nat
        BY <1>1, DbType DEF File
      <4> QED BY <4>1, <4>2
    <3>3. proc'[p] = t
      BY <3>1 DEF Goes, TypeOK
    <3>4. t.pc = "addwrite" /\ t.off = t.job.id /\ t.fd = db
      BY <1>1, <1>2, <2>1, <3>2 DEF Process
    <3> HIDE DEF t
    <3>5. Placed(p)'
      BY <1>3, <2>1, <3>3, <3>4 DEF Placed
    <3> QED BY <1>4, <2>1, <3>1, <3>5
  <2> QED BY <2>2, <2>3
<1>7. CASE AddWrite(p)
  <2>1. s.pc = "addwrite" /\ Exits(p, "NO_ERROR", 0) /\ UNCHANGED db
        /\ disk' = [disk EXCEPT ![s.fd] = Put(@, s.off, s.job.id)]
    BY <1>7 DEF AddWrite, s
  <2>2. s.off = s.job.id /\ s.fd = db /\ db # None /\ s.job.id \in 0..MaxId
    BY <1>1, <1>2, <2>1 DEF Placed, Ready, Ids, s
  <2>3. InPlace'
    BY <1>1, <2>1, <2>2, WrittenInPlace
  <2> QED BY <1>3, <2>1, <2>3, ExitsPlaced
<1>8. CASE DelRead(p)
  <2> DEFINE t == [s EXCEPT !.pc = "delwrite"]
  <2>1. /\ s.pc = "del" /\ UNCHANGED <<db, disk>>
        /\ Exits(p, "ERR_DB_OP", 0) \/ Goes(p, t)
    BY <1>8 DEF DelRead, fileVars, s
  <2>2. CASE Goes(p, t)
    <3>1. t.pc = "delwrite" /\ t.fd = db
      BY <1>1, <1>2, <2>1 DEF Process
    <3> HIDE DEF t
    <3>2. proc'[p] = t
      BY <2>2 DEF Goes, TypeOK
    <3>3. Placed(p)'
      BY <1>3, <2>1, <3>1, <3>2 DEF Placed
    <3> QED BY <1>4, <2>1, <2>2, <3>3
  <2> QED BY <1>5, <2>1, <2>2
<1>9. CASE DelWrite(p)
  <2>1. s.pc = "delwrite" /\ Exits(p, "NO_ERROR", 0) /\ UNCHANGED db
        /\ disk' = [disk EXCEPT ![s.fd] = Put(@, s.job.id, 0)]
    BY <1>9 DEF DelWrite, s
  <2>2. s.fd = db /\ db # None /\ s.job.id \in Nat /\ 0 \in 0..MaxId
    BY <1>1, <1>2, <2>1
  <2>3. InPlace'
    BY <2>1, <2>2, WrittenInPlace
  <2> QED BY <1>3, <2>1, <2>3, ExitsPlaced
<1>10. CASE Scan(p)
  <2> DEFINE b == IF s.job.op = "c" /\ At(disk[s.fd], s.off) # 0 THEN s.buf + 1 ELSE s.buf
             t == [s EXCEPT !.off = s.off + 1, !.buf = b]
  <2>1. /\ s.pc = "scan" /\ UNCHANGED <<db, disk>>
        /\ (\E rc, n : Exits(p, rc, n)) \/ Goes(p, t)
    BY <1>10 DEF Scan, fileVars, s
  <2>2. CASE Goes(p, t)
    <3>1. t.pc = "scan" /\ t.fd = db
      BY <1>1, <1>2, <2>1 DEF Process
    <3> HIDE DEF t
    <3>2. proc'[p] = t
      BY <2>2 DEF Goes, TypeOK
    <3>3. Placed(p)'
      BY <2>1, <3>1, <3>2 DEF Placed
    <3> QED BY <1>4, <2>1, <2>2, <3>3
  <2> QED BY <1>5, <2>1, <2>2
<1>11. CASE Zero(p)
  <2>1. s.pc = "zero" /\ Exits(p, "NO_ERROR", 0) /\ UNCHANGED db
        /\ disk' = [disk EXCEPT ![db] = <<>>]
    BY <1>11 DEF Zero, s
  <2>2. db # None /\ p \in Modifiers
    BY <1>1, <1>3, <2>1
  <2>3. Db' = <<>>
    BY <2>1, <2>2 DEF Db, TypeOK
  <2>4. InPlace'
    BY <2>3 DEF InPlace
  <2> QED BY <2>1, <2>2, <2>4, ExitsPlaced
<1>12. ~OpenTemp(p) /\ ~CopyRead(p) /\ ~CopyWrite(p) /\ ~Rename(p) /\ ~Reopen(p)
  BY <1>3 DEF OpenTemp, CopyRead, CopyWrite, Rename, Reopen, s
<1> QED BY <1>6, <1>7, <1>8, <1>9, <1>10, <1>11, <1>12 DEF Works

(* For every number of students, readers, commands, failing calls and killed processes. *)
LEMMA Placement == ASSUME AppendMode PROVE Spec => []PlaceInv
<1>1. Init => PlaceInv
  BY DEF Init, PlaceInv, InPlace, Placed, Db
<1>2. TypeOK /\ PlaceInv /\ [Next]_vars => PlaceInv'
  <2>1. ASSUME TypeOK, PlaceInv, Next PROVE PlaceInv'
    <3>1. PICK p \in Procs : Run(p) \/ RunFails(p) \/ Works(p) \/ CallFails(p) \/ Killed(p)
      BY <2>1 DEF Next
    <3>2. CASE CallFails(p) \/ Killed(p)
      <4>1. (\E rc : Exits(p, rc, 0)) /\ UNCHANGED <<db, disk>>
        BY <3>2 DEF CallFails, Killed, Fails, fileVars
      <4> QED BY <2>1, <4>1, SameFile, ExitsPlaced
    <3> QED BY <2>1, <3>1, <3>2, RunPlaced, WorksPlaced
  <2>2. ASSUME PlaceInv, UNCHANGED vars PROVE PlaceInv'
    BY <2>2 DEF PlaceInv, InPlace, Placed, Db, vars
  <2> QED BY <2>1, <2>2
<1> QED BY <1>1, <1>2, Typing, PTL DEF Spec

-----------------------------------------------------------------------------
(***************************************************************************)
(* NearPlace, for every use of the program.  The file offset of an add is  *)
(* on the student's slot or one behind it, and compress_db() never writes  *)
(* a record further on than it read it.                                    *)
(***************************************************************************)
Offsets(s) ==
  /\ s.pc = "addwrite" => s.off \in {s.job.id, s.job.id + 1}
  /\ s.pc \notin {"copy", "copywrite", "rename", "reopen"} => s.toff = 0
  /\ s.pc = "copy" => s.toff <= s.off
  /\ s.pc = "copywrite" => s.toff < s.off /\ s.off <= s.buf + 2
  /\ s.pc \in {"temp", "copy", "copywrite", "rename", "reopen"} => "x" \in Ops
NearInv == (\A i \in Inodes : Near(disk[i])) /\ \A p \in Procs : Offsets(proc[p])

(* A record written no more than one slot beyond its own. *)
LEMMA PutNear ==
  ASSUME NEW f \in File, Near(f), NEW o \in Nat, NEW r \in 0..MaxId,
         r # 0 => o <= r + 1 /\ ("x" \notin Ops => r <= o)
  PROVE  Near(Put(f, o, r))
<1>1. SUFFICES ASSUME NEW i \in 1..Len(Put(f, o, r)), Put(f, o, r)[i] # 0
               PROVE  i <= Put(f, o, r)[i] + 2 /\ ("x" \notin Ops => Put(f, o, r)[i] < i)
  BY DEF Near
<1>2. Len(f) \in Nat /\ i \in Nat /\ i >= 1
  BY PutType DEF File
<1>3. CASE i = o + 1
  BY <1>1, <1>2, <1>3, PutType
<1>4. CASE i # o + 1
  <2>1. Put(f, o, r)[i] = At(f, i - 1)
    BY <1>4, PutType
  <2>2. i \in 1..Len(f) /\ At(f, i - 1) = f[i]
    BY <1>1, <1>2, <2>1 DEF At
  <2> QED BY <1>1, <2>1, <2>2 DEF Near
<1> QED BY <1>3, <1>4

LEMMA NearEmpty == Near(<<>>)
  BY DEF Near

(* One process takes a step and no file but one is written. *)
LEMMA NearStep ==
  ASSUME TypeOK, NearInv, NEW p \in Procs, NEW s, Goes(p, s), Offsets(s),
         \/ UNCHANGED disk
         \/ \E i \in Inodes : \E f : Near(f) /\ disk' = [disk EXCEPT ![i] = f]
  PROVE  NearInv'
<1>1. \A i \in Inodes : Near(disk'[i])
  <2>1. CASE UNCHANGED disk
    BY <2>1 DEF NearInv
  <2>2. ASSUME NEW i \in Inodes, NEW f, Near(f), disk' = [disk EXCEPT ![i] = f]
        PROVE  \A k \in Inodes : Near(disk'[k])
    <3>1. \A k \in Inodes : disk'[k] = f \/ disk'[k] = disk[k]
      BY <2>2 DEF TypeOK
    <3> QED BY <2>2, <3>1 DEF NearInv
  <2> QED BY <2>1, <2>2
<1>2. \A q \in Procs : proc'[q] = s \/ proc'[q] = proc[q]
  BY DEF Goes, TypeOK
<1>3. \A q \in Procs : Offsets(proc'[q])
  BY <1>2 DEF NearInv
<1> QED BY <1>1, <1>3 DEF NearInv, Near

LEMMA NearExits ==
  ASSUME TypeOK, NearInv, NEW p \in Procs, NEW rc, NEW n, Exits(p, rc, n),
         \/ UNCHANGED disk
         \/ \E i \in Inodes : \E f : Near(f) /\ disk' = [disk EXCEPT ![i] = f]
  PROVE  NearInv'
<1> DEFINE t == [proc[p] EXCEPT !.pc = "idle", !.fd = None, !.off = 0, !.tfd = None,
                                !.toff = 0, !.buf = 0]
<1>1. proc[p] \in Process
  BY DEF TypeOK
<1>2. t.pc = "idle" /\ t.toff = 0
  BY <1>1 DEF Process
<1>3. Goes(p, t)
  BY DEF Exits
<1> HIDE DEF t
<1>4. Offsets(t)
  BY <1>2 DEF Offsets
<1> QED BY <1>3, <1>4, NearStep

LEMMA RunNear ==
  ASSUME TypeOK, NearInv, NEW p \in Procs, Run(p) \/ RunFails(p)
  PROVE  NearInv'
<1>1. proc[p] \in Process /\ proc[p].pc = "idle" /\ proc[p].toff = 0
  BY DEF TypeOK, NearInv, Offsets, Run, RunFails
<1>2. PICK j, i : /\ j \in Job /\ Typed(p, j)
                  /\ \/ Goes(p, [proc[p] EXCEPT !.job = j])
                     \/ Goes(p, [proc[p] EXCEPT !.job = j, !.pc = FirstStep[j.op], !.fd = i])
  <2>1. CASE Run(p)
    BY <2>1 DEF Run, Rejected
  <2>2. CASE RunFails(p)
    BY <2>2 DEF RunFails, Rejected
  <2> QED BY <2>1, <2>2
<1>3. \/ UNCHANGED disk
      \/ \E k \in Inodes : \E f : Near(f) /\ disk' = [disk EXCEPT ![k] = f]
  BY NearEmpty DEF Run, RunFails, Creates, fileVars
<1>4. PICK s : Goes(p, s) /\ s.toff = 0 /\ s.pc \in {"idle", FirstStep[j.op]}
  <2>1. /\ [proc[p] EXCEPT !.job = j].toff = 0 /\ [proc[p] EXCEPT !.job = j].pc = "idle"
        /\ [proc[p] EXCEPT !.job = j, !.pc = FirstStep[j.op], !.fd = i].toff = 0
        /\ [proc[p] EXCEPT !.job = j, !.pc = FirstStep[j.op], !.fd = i].pc = FirstStep[j.op]
    BY <1>1 DEF Process
  <2> QED BY <1>2, <2>1
<1>5. /\ FirstStep[j.op] \in {"add", "scan", "del", "temp", "zero"}
      /\ FirstStep[j.op] = "temp" => "x" \in Ops
  BY <1>2 DEF FirstStep, Typed, Job, AllOps
<1>6. Offsets(s)
  BY <1>4, <1>5 DEF Offsets
<1> QED BY <1>3, <1>4, <1>6, NearStep

LEMMA WorksNear ==
  ASSUME TypeOK, NearInv, NEW p \in Procs, Works(p)
  PROVE  NearInv'
<1> DEFINE s == proc[p]
<1>1. /\ s \in Process /\ s.job.id \in 0..(MaxId + 1) /\ s.off \in Nat /\ s.toff \in Nat
      /\ s.buf \in Nat /\ Offsets(s) /\ Ready(s)
  BY ReadyNow DEF TypeOK, Process, Job, NearInv
<1>2. \A i \in Inodes : disk[i] \in File /\ Near(disk[i])
  BY DEF TypeOK, NearInv, File
<1> HIDE DEF s
<1>3. ASSUME NEW rc, NEW n, Exits(p, rc, n), UNCHANGED disk PROVE NearInv'
  BY <1>3, NearExits
<1>4. ASSUME NEW o \in Nat, NEW r \in 0..MaxId, NEW i \in Inodes, disk' = [disk EXCEPT ![i] = Put(@, o, r)],
             r # 0 => o <= r + 1 /\ ("x" \notin Ops => r <= o)
      PROVE  \E k \in Inodes : \E f : Near(f) /\ disk' = [disk EXCEPT ![k] = f]
  <2>1. Near(Put(disk[i], o, r)) /\ disk' = [disk EXCEPT ![i] = Put(disk[i], o, r)]
    BY <1>2, <1>4, PutNear
  <2> QED BY <2>1
<1>5. CASE AddRead(p)
  <2> DEFINE next == IF s.job.id < Len(disk[s.fd]) THEN s.job.id + 1 ELSE s.job.id
             t == [s EXCEPT !.pc = "addwrite", !.off = next]
  <2>1. s.pc = "add" /\ UNCHANGED disk /\ (Exits(p, "ERR_DB_OP", 0) \/ Goes(p, t))
    BY <1>5 DEF AddRead, fileVars, s
  <2>2. t.pc = "addwrite" /\ t.toff = 0 /\ t.off \in {t.job.id, t.job.id + 1}
    BY <1>1, <2>1 DEF Process, Offsets
  <2> HIDE DEF t
  <2>3. Offsets(t)
    BY <2>2 DEF Offsets
  <2> QED BY <1>3, <2>1, <2>3, NearStep
<1>6. CASE AddWrite(p)
  <2>1. s.pc = "addwrite" /\ Exits(p, "NO_ERROR", 0)
        /\ disk' = [disk EXCEPT ![s.fd] = Put(@, s.off, s.job.id)]
    BY <1>6 DEF AddWrite, s
  <2>2. s.off \in {s.job.id, s.job.id + 1} /\ s.job.id \in 0..MaxId /\ s.fd \in Inodes
    BY <1>1, <2>1 DEF Offsets, Ready, Ids, Process
  <2>3. s.off <= s.job.id + 1 /\ s.job.id <= s.off
    BY <1>1, <2>2
  <2>4. \E k \in Inodes : \E f : Near(f) /\ disk' = [disk EXCEPT ![k] = f]
    BY <1>1, <1>4, <2>1, <2>2, <2>3
  <2> QED BY <2>1, <2>4, NearExits
<1>7. CASE DelRead(p)
  <2> DEFINE t == [s EXCEPT !.pc = "delwrite"]
  <2>1. s.pc = "del" /\ UNCHANGED disk /\ (Exits(p, "ERR_DB_OP", 0) \/ Goes(p, t))
    BY <1>7 DEF DelRead, fileVars, s
  <2>2. t.pc = "delwrite" /\ t.toff = 0
    BY <1>1, <2>1 DEF Process, Offsets
  <2> HIDE DEF t
  <2>3. Offsets(t)
    BY <2>2 DEF Offsets
  <2> QED BY <1>3, <2>1, <2>3, NearStep
<1>8. CASE DelWrite(p)
  <2>1. s.pc = "delwrite" /\ Exits(p, "NO_ERROR", 0)
        /\ disk' = [disk EXCEPT ![s.fd] = Put(@, s.job.id, 0)]
    BY <1>8 DEF DelWrite, s
  <2>2. s.job.id \in Nat /\ s.fd \in Inodes /\ 0 \in 0..MaxId
    BY <1>1, <2>1 DEF Ready, Process
  <2>3. \E k \in Inodes : \E f : Near(f) /\ disk' = [disk EXCEPT ![k] = f]
    BY <1>4, <2>1, <2>2
  <2> QED BY <2>1, <2>3, NearExits
<1>9. CASE Scan(p)
  <2> DEFINE b == IF s.job.op = "c" /\ At(disk[s.fd], s.off) # 0 THEN s.buf + 1 ELSE s.buf
             t == [s EXCEPT !.off = s.off + 1, !.buf = b]
  <2>1. s.pc = "scan" /\ UNCHANGED disk /\ ((\E rc, n : Exits(p, rc, n)) \/ Goes(p, t))
    BY <1>9 DEF Scan, fileVars, s
  <2>2. t.pc = "scan" /\ t.toff = 0
    BY <1>1, <2>1 DEF Process, Offsets
  <2> HIDE DEF t
  <2>3. Offsets(t)
    BY <2>2 DEF Offsets
  <2> QED BY <1>3, <2>1, <2>3, NearStep
<1>10. CASE Zero(p)
  <2>1. Exits(p, "NO_ERROR", 0) /\ disk' = [disk EXCEPT ![db] = <<>>] /\ db \in Inodes
    BY <1>10, ReadyNow DEF Zero, TypeOK
  <2> QED BY <2>1, NearEmpty, NearExits
<1>11. CASE OpenTemp(p)
  <2>1. PICK i \in Inodes : /\ UNCHANGED disk \/ disk' = [disk EXCEPT ![i] = <<>>]
                            /\ Goes(p, [s EXCEPT !.pc = "copy", !.tfd = i])
                            /\ s.pc = "temp"
    BY <1>11 DEF OpenTemp, Creates, s
  <2> DEFINE t == [s EXCEPT !.pc = "copy", !.tfd = i]
  <2>2. t.pc = "copy" /\ t.toff = 0 /\ t.off = s.off /\ "x" \in Ops
    BY <1>1, <2>1 DEF Process, Offsets
  <2>3. Goes(p, t)
    BY <2>1
  <2> HIDE DEF t
  <2>4. Offsets(t)
    BY <1>1, <2>2 DEF Offsets
  <2> QED BY <2>1, <2>3, <2>4, NearEmpty, NearStep
<1>12. CASE CopyRead(p)
  <2>1. s.pc = "copy" /\ UNCHANGED disk /\ "x" \in Ops /\ s.toff <= s.off /\ s.fd \in Inodes
    BY <1>1, <1>12 DEF CopyRead, fileVars, s, Offsets, Ready, Process
  <2> DEFINE r == At(disk[s.fd], s.off)
             t == [s EXCEPT !.off = s.off + 1, !.buf = r, !.pc = IF r = 0 THEN "copy" ELSE "copywrite"]
             u == [s EXCEPT !.pc = "rename", !.fd = None, !.tfd = None]
  <2>2. Goes(p, u) \/ (Goes(p, t) /\ s.off < Len(disk[s.fd]))
    BY <1>1, <1>2, <1>12, <2>1 DEF CopyRead, s, File
  <2>3. CASE Goes(p, u)
    <3>1. u.pc = "rename"
      BY <1>1 DEF Process
    <3> HIDE DEF u
    <3>2. Offsets(u)
      BY <2>1, <3>1 DEF Offsets
    <3> QED BY <2>1, <2>3, <3>2, NearStep
  <2>4. CASE Goes(p, t) /\ s.off < Len(disk[s.fd])
    <3>1. r # 0 => s.off + 1 <= r + 2
      <4>1. Len(disk[s.fd]) \in Nat
        BY <1>2, <2>1 DEF File
      <4>2. r = disk[s.fd][s.off + 1] /\ s.off + 1 \in 1..Len(disk[s.fd])
        BY <1>1, <2>4, <4>1 DEF At
      <4> HIDE DEF r
      <4> QED BY <1>2, <2>1, <4>2 DEF Near
    <3> HIDE DEF r
    <3>2. /\ t.pc = (IF r = 0 THEN "copy" ELSE "copywrite") /\ t.toff = s.toff
          /\ t.off = s.off + 1 /\ t.buf = r
      BY <1>1 DEF Process
    <3> HIDE DEF t
    <3>3. s.toff < s.off + 1
      BY <1>1, <2>1
    <3>4. Offsets(t)
      BY <1>1, <2>1, <3>1, <3>2, <3>3 DEF Offsets
    <3> QED BY <2>1, <2>4, <3>4, NearStep
  <2> QED BY <2>2, <2>3, <2>4
<1>13. CASE CopyWrite(p)
  <2>1. /\ s.pc = "copywrite" /\ disk' = [disk EXCEPT ![s.tfd] = Put(@, s.toff, s.buf)]
        /\ Goes(p, [s EXCEPT !.pc = "copy", !.toff = s.toff + 1])
    BY <1>13 DEF CopyWrite, s
  <2>2. /\ "x" \in Ops /\ s.toff < s.off /\ s.off <= s.buf + 2 /\ s.buf \in 0..MaxId
        /\ s.tfd \in Inodes
    BY <1>1, <2>1 DEF Offsets, Ready, Ids, Process
  <2>3. s.toff <= s.buf + 1
    BY <1>1, <2>2
  <2>4. \E k \in Inodes : \E f : Near(f) /\ disk' = [disk EXCEPT ![k] = f]
    BY <1>1, <1>4, <2>1, <2>2, <2>3
  <2> DEFINE t == [s EXCEPT !.pc = "copy", !.toff = s.toff + 1]
  <2>5. t.pc = "copy" /\ t.toff = s.toff + 1 /\ t.off = s.off
    BY <1>1 DEF Process
  <2>6. Goes(p, t)
    BY <2>1
  <2> HIDE DEF t
  <2>7. Offsets(t)
    BY <1>1, <2>2, <2>5 DEF Offsets
  <2> QED BY <2>4, <2>6, <2>7, NearStep
<1>14. CASE Rename(p)
  <2> DEFINE t == [s EXCEPT !.pc = "reopen"]
  <2>1. s.pc = "rename" /\ UNCHANGED disk /\ (Exits(p, "ERR_DB_FILE", 0) \/ Goes(p, t))
    BY <1>14 DEF Rename, fileVars, s
  <2>2. t.pc = "reopen"
    BY <1>1 DEF Process
  <2> HIDE DEF t
  <2>3. Offsets(t)
    BY <1>1, <2>1, <2>2 DEF Offsets
  <2> QED BY <1>3, <2>1, <2>3, NearStep
<1>15. CASE Reopen(p)
  BY <1>3, <1>15 DEF Reopen, fileVars
<1> QED BY <1>5, <1>6, <1>7, <1>8, <1>9, <1>10, <1>11, <1>12, <1>13, <1>14, <1>15 DEF Works

(***************************************************************************)
(* NearPlace: with any number of terminals that add, delete, compress and  *)
(* truncate at once, and whatever fails or is killed, no student is more   *)
(* than one slot beyond its own, nor before it unless somebody compressed  *)
(* the file (add_student, sdbsc.c:122-153; compress_db, 432-473).          *)
(***************************************************************************)
THEOREM NeverFar == Spec => []NearPlace
<1>1. Init => NearInv
  BY NearEmpty DEF Init, NearInv, Offsets
<1>2. TypeOK /\ NearInv /\ [Next]_vars => NearInv'
  <2>1. ASSUME TypeOK, NearInv, Next PROVE NearInv'
    <3>1. PICK p \in Procs : Run(p) \/ RunFails(p) \/ Works(p) \/ CallFails(p) \/ Killed(p)
      BY <2>1 DEF Next
    <3>2. CASE CallFails(p) \/ Killed(p)
      <4>1. (\E rc : Exits(p, rc, 0)) /\ UNCHANGED disk
        BY <3>2 DEF CallFails, Killed, Fails, fileVars
      <4> QED BY <2>1, <4>1, NearExits
    <3> QED BY <2>1, <3>1, <3>2, RunNear, WorksNear
  <2>2. ASSUME NearInv, UNCHANGED vars PROVE NearInv'
    BY <2>2 DEF NearInv, Near, Offsets, vars
  <2> QED BY <2>1, <2>2
<1>3. TypeOK /\ NearInv => NearPlace
  BY NearEmpty DEF NearInv, NearPlace, Db, TypeOK
<1> QED BY <1>1, <1>2, <1>3, Typing, PTL DEF Spec

-----------------------------------------------------------------------------
(***************************************************************************)
(* What -f and -c report was true, with one modifying terminal: whatever   *)
(* it adds into holes, compresses and truncates, whatever fails or is      *)
(* killed, and however many terminals look.                                *)
(***************************************************************************)
OneWriter == \A p, q \in Modifiers : p = q

(* The slots that hold a record, and the answer file f gives to job j. *)
Taken(f) == {i \in 1..Len(f) : f[i] # 0}
Found(f, i, x) == f[i] # 0 /\ f[i] = x
AnswerIn(j, f) == CASE j.op = "f" -> IF \E i \in 1..Len(f) : Found(f, i, j.id) THEN 1 ELSE 0
                    [] j.op = "c" -> Cardinality(Taken(f))
                    [] OTHER -> 0

(* A record is written into slot id, or the next one when read() has moved the offset, *)
(* and compress_db() moves it down.                                                     *)
Low(f) == \A i \in 1..Len(f) : f[i] # 0 => i <= f[i] + 2

(* The processes that modify the file have it, and the temporary file, to themselves. *)
Working(p) ==
  LET s == proc[p] IN
  /\ s.pc = "scan" => s.job.op \in {"c", "f"}
  /\ s.pc \notin {"idle", "scan"} => p \in Modifiers /\ s.job.op \notin {"c", "f"}
  /\ s.pc \notin {"idle", "scan", "rename", "reopen"} => s.fd = db
  /\ s.pc \in {"idle", "temp"} => s.off = 0 /\ s.toff = 0 /\ s.buf = 0
  /\ s.pc \in {"copy", "copywrite"} => s.tfd = tmp /\ s.toff <= s.off
  /\ s.fd # None => s.fd # tmp
  /\ s.pc = "addwrite" => (s.off = s.job.id /\ Len(Db) <= s.off) \/ s.off = s.job.id + 1
  /\ s.pc = "copywrite" => s.toff < s.off /\ s.toff <= s.buf + 1

(* A scan that has read the slots below off of file f and counted n records, when the *)
(* answers have been those of S: f's own is one of them; the student looked for is not *)
(* in the slots read, unless it was missing at some moment; the count is right so far  *)
(* when the answer has never changed.                                                  *)
Kept(j, off, n, S, f) ==
  /\ AnswerIn(j, f) \in S
  /\ j.op = "f" => 0 \in S \/ (off <= Len(f) /\ \A i \in 1..off : ~Found(f, i, j.id))
  /\ j.op = "c" => \A a \in S : S = {a} => n = Cardinality(Taken(f) \cap 1..off)

Scanning(p) ==
  LET s == proc[p] IN
  s.pc = "scan" => Kept(s.job, s.off, s.buf, seen[p], disk[s.fd])

(* Inductive, with TypeOK, when there is one writer. *)
ScanInv ==
  /\ \A i \in Inodes : Low(disk[i])
  /\ tmp # None => tmp # db
  /\ \A p \in Procs : Working(p) /\ Scanning(p)
  /\ Truthful

-----------------------------------------------------------------------------
(* Files. *)
LEMMA FileFacts ==
  ASSUME NEW f \in File
  PROVE  Len(f) \in Nat /\ \A i \in 1..Len(f) : f[i] \in 0..MaxId
<1>1. \A S : f \in Seq(S) => Len(f) \in Nat /\ f \in [1..Len(f) -> S]
  OBVIOUS
<1> QED BY <1>1 DEF File

LEMMA TakenFinite ==
  ASSUME NEW f \in File
  PROVE  IsFiniteSet(Taken(f)) /\ Cardinality(Taken(f)) \in Nat
<1>1. IsFiniteSet(1..Len(f))
  BY FS_Interval DEF File
<1>2. IsFiniteSet(Taken(f))
  BY <1>1, FS_Subset DEF Taken
<1> QED BY <1>2, FS_CardinalityType

(* The right answer is what the file called student.db gives, now and after a step. *)
LEMMA AnswerNext ==
  ASSUME TypeOK', NEW j \in Job
  PROVE  Db' \in File /\ Answer(j)' = AnswerIn(j, Db')
<1>1. Db' \in File
  <2>1. <<>> \in File /\ (db' # None => disk'[db'] \in File)
    BY DEF TypeOK, File
  <2> QED BY <2>1 DEF Db
<1>2. j.id \in Table' <=> \E i \in 1..Len(Db') : Found(Db', i, j.id)
  <2>1. PICK f \in File : f = Db'
    BY <1>1
  <2>2. Table' = {r \in Ids : \E i \in 1..Len(f) : f[i] = r}
    BY <2>1 DEF Table
  <2>3. \A i \in 1..Len(f) : f[i] # 0 => f[i] \in Ids
    BY FileFacts DEF Ids
  <2>4. 0 \notin Ids
    BY DEF Ids
  <2>5. j.id \in {r \in Ids : \E i \in 1..Len(f) : f[i] = r}
        <=> \E i \in 1..Len(f) : f[i] # 0 /\ f[i] = j.id
    BY <2>3, <2>4
  <2> QED BY <2>1, <2>2, <2>5, Zenon DEF Found
<1>3. Cardinality({i \in 1..Len(Db) : Db[i] # 0})' = Cardinality(Taken(Db'))
  BY DEF Taken
<1>4. Answer(j)' = CASE j.op = "f" -> IF j.id \in Table' THEN 1 ELSE 0
                     [] j.op = "c" -> Cardinality({i \in 1..Len(Db) : Db[i] # 0})'
                     [] OTHER -> 0
  BY DEF Answer
<1>5. AnswerIn(j, Db') = CASE j.op = "f" -> IF \E i \in 1..Len(Db') : Found(Db', i, j.id) THEN 1 ELSE 0
                     [] j.op = "c" -> Cardinality(Taken(Db'))
                     [] OTHER -> 0
  BY DEF AnswerIn
<1> QED BY <1>1, <1>2, <1>3, <1>4, <1>5, Zenon

LEMMA PutLow ==
  ASSUME NEW f \in File, NEW o \in Nat, NEW r \in 0..MaxId, Low(f), r = 0 \/ o <= r + 1
  PROVE  Low(Put(f, o, r))
<1> SUFFICES ASSUME NEW i \in 1..Len(Put(f, o, r)), Put(f, o, r)[i] # 0
             PROVE  i <= Put(f, o, r)[i] + 2
  BY DEF Low
<1>1. Len(f) \in Nat /\ i \in Nat /\ i >= 1
  BY PutType DEF File
<1>2. CASE i = o + 1
  <2>1. Put(f, o, r)[i] = r
    BY <1>2, PutType
  <2> QED BY <1>1, <1>2, <2>1
<1>3. CASE i # o + 1
  <2>1. Put(f, o, r)[i] = At(f, i - 1)
    BY <1>3, PutType
  <2>2. i <= Len(f) /\ At(f, i - 1) = f[i]
    BY <1>1, <2>1 DEF At
  <2> QED BY <1>1, <2>1, <2>2 DEF Low
<1> QED BY <1>2, <1>3

(* A write changes whether its slot is taken, and no other slot. *)
LEMMA PutTaken ==
  ASSUME NEW f \in File, NEW o \in Nat, NEW r \in 0..MaxId
  PROVE  Taken(Put(f, o, r)) = IF r = 0 THEN Taken(f) \ {o + 1} ELSE Taken(f) \cup {o + 1}
<1> DEFINE g == Put(f, o, r)
<1>0. Len(f) \in Nat
  BY FileFacts
<1>1. Len(f) \in Nat /\ Len(g) = IF o < Len(f) THEN Len(f) ELSE o + 1
  BY <1>0, PutType, Zenon
<1>2. \A i \in 1..Len(g) : g[i] = IF i = o + 1 THEN r ELSE At(f, i - 1)
  BY PutType
<1> HIDE DEF g
<1>3. \A i \in 1..Len(g) : i # o + 1 => g[i] = IF i <= Len(f) THEN f[i] ELSE 0
  BY <1>1, <1>2 DEF At
<1>4. \A i \in 1..Len(g) : i = o + 1 => g[i] = r
  BY <1>2
<1>5. \A i : i \in 1..Len(f) => i \in 1..Len(g)
  BY <1>1
<1>6. o + 1 \in 1..Len(g)
  BY <1>1
<1>7. \A i \in 1..Len(g) : i \in 1..Len(f) <=> i <= Len(f)
  BY <1>1
<1>8. ASSUME NEW i, i # o + 1 PROVE i \in Taken(g) <=> i \in Taken(f)
  BY <1>3, <1>5, <1>7, <1>8 DEF Taken
<1>9. o + 1 \in Taken(g) <=> r # 0
  BY <1>4, <1>6 DEF Taken
<1> QED BY <1>8, <1>9 DEF g

-----------------------------------------------------------------------------
(* What a scan keeps. *)
LEMMA KeptBegins ==
  ASSUME NEW j \in Job, NEW f \in File, NEW S, AnswerIn(j, f) \in S
  PROVE  Kept(j, 0, 0, S, f)
<1>1. Taken(f) \cap 1..0 = {} /\ Cardinality({}) = 0 /\ 0 <= Len(f)
  BY FileFacts, FS_EmptySet
<1> QED BY <1>1 DEF Kept

(* Another answer is added while the file that is read stays as it is. *)
LEMMA KeptLonger ==
  ASSUME NEW j, NEW off, NEW n, NEW S, NEW f, NEW a, Kept(j, off, n, S, f)
  PROVE  Kept(j, off, n, S \cup {a}, f)
<1>1. \A b \in S \cup {a} : S \cup {a} = {b} => S = {b}
  BY DEF Kept
<1> QED BY <1>1 DEF Kept

(* The file is written: the slots read are as before, or the change shows in the answer. *)
LEMMA KeptPut ==
  ASSUME NEW j \in Job, NEW off \in Nat, NEW n \in Nat, NEW S, NEW f \in File, Low(f),
         NEW o \in Nat, NEW r \in 0..MaxId,
         r = 0 \/ (o = r /\ Len(f) <= o) \/ o = r + 1,
         Kept(j, off, n, S, f)
  PROVE  Kept(j, off, n, S \cup {AnswerIn(j, Put(f, o, r))}, Put(f, o, r))
<1> DEFINE g == Put(f, o, r)
           T == S \cup {AnswerIn(j, g)}
<1>1. g \in File
  BY PutType
<1>2. Len(f) \in Nat /\ Len(g) \in Nat /\ Len(f) <= Len(g) /\ o + 1 <= Len(g)
  <2>1. Len(f) \in Nat /\ Len(g) = IF o < Len(f) THEN Len(f) ELSE o + 1
    BY FileFacts, PutType, Zenon
  <2> HIDE DEF g
  <2> QED BY <2>1
<1>3. Taken(g) = IF r = 0 THEN Taken(f) \ {o + 1} ELSE Taken(f) \cup {o + 1}
  BY PutTaken
<1>4. \A i \in 1..Len(f) : g[i] = IF i = o + 1 THEN r ELSE f[i]
  <2>1. \A i \in 1..Len(g) : g[i] = IF i = o + 1 THEN r ELSE At(f, i - 1)
    BY PutType
  <2>2. \A i \in 1..Len(f) : i \in 1..Len(g) /\ At(f, i - 1) = f[i]
    BY <1>2 DEF At
  <2> QED BY <2>1, <2>2
<1> HIDE DEF g
<1>5. j.op = "f" => 0 \in T \/ (off <= Len(g) /\ \A i \in 1..off : ~Found(g, i, j.id))
  <2> SUFFICES ASSUME j.op = "f", 0 \notin T
               PROVE  off <= Len(g) /\ \A i \in 1..off : ~Found(g, i, j.id)
    OBVIOUS
  <2>1. off <= Len(f) /\ \A i \in 1..off : ~Found(f, i, j.id)
    BY DEF Kept
  <2>2. PICK k \in 1..Len(f) : Found(f, k, j.id)
    BY DEF Kept, AnswerIn
  <2>3. k > off /\ k <= j.id + 2 /\ j.id \in Nat
    BY <1>2, <2>1, <2>2 DEF Low, Found, Job
  <2>4. off <= Len(g)
    BY <1>2, <2>1
  <2>5. ASSUME NEW i \in 1..off, Found(g, i, j.id) PROVE FALSE
    <3>1. i \in 1..Len(f) /\ i \in Int
      BY <1>2, <2>1
    <3>2. i = o + 1 /\ r = j.id /\ r # 0
      BY <1>4, <2>1, <2>5, <3>1 DEF Found
    <3>3. i <= off /\ i <= Len(f) /\ k \in Int
      BY <1>2, <3>1
    <3>4. CASE o = r /\ Len(f) <= o
      BY <1>2, <3>2, <3>3, <3>4
    <3>5. CASE o = r + 1
      <4> DEFINE x == j.id
      <4>1. k > off /\ k <= x + 2 /\ x \in Nat /\ i = o + 1 /\ r = x /\ i <= off /\ i \in Int /\ k \in Int
        BY <2>3, <3>1, <3>2, <3>3
      <4> HIDE DEF x
      <4> QED BY <3>5, <4>1
    <3> QED BY <3>2, <3>4, <3>5
  <2> QED BY <2>4, <2>5
<1>6. j.op = "c" => \A a \in T : T = {a} => n = Cardinality(Taken(g) \cap 1..off)
  <2> SUFFICES ASSUME j.op = "c", NEW a \in T, T = {a}
               PROVE  n = Cardinality(Taken(g) \cap 1..off)
    OBVIOUS
  <2>1. Cardinality(Taken(f)) \in S /\ Cardinality(Taken(g)) \in T
    BY DEF Kept, AnswerIn
  <2>2. S = {a} /\ Cardinality(Taken(g)) = Cardinality(Taken(f))
    BY <2>1
  <2>3. IsFiniteSet(Taken(f)) /\ Cardinality(Taken(f)) \in Nat
    BY TakenFinite
  <2>4. o + 1 \notin Taken(f) => Cardinality(Taken(f) \cup {o + 1}) = Cardinality(Taken(f)) + 1
    BY <2>3, FS_AddElement
  <2>5. o + 1 \in Taken(f) => Cardinality(Taken(f) \ {o + 1}) = Cardinality(Taken(f)) - 1
    BY <2>3, FS_RemoveElement
  <2>6. Taken(g) = Taken(f)
    <3>1. CASE r = 0
      <4>1. Taken(g) = Taken(f) \ {o + 1}
        BY <1>3, <3>1
      <4>2. o + 1 \notin Taken(f)
        BY <2>2, <2>3, <2>5, <4>1
      <4> QED BY <4>1, <4>2
    <3>2. CASE r # 0
      <4>1. Taken(g) = Taken(f) \cup {o + 1}
        BY <1>3, <3>2
      <4>2. o + 1 \in Taken(f)
        BY <2>2, <2>3, <2>4, <4>1
      <4> QED BY <4>1, <4>2
    <3> QED BY <3>1, <3>2
  <2> QED BY <2>2, <2>6 DEF Kept
<1> QED BY <1>5, <1>6 DEF Kept, g

(* The file is truncated. *)
LEMMA KeptCleared ==
  ASSUME NEW j \in Job, NEW off \in Nat, NEW n \in Nat, NEW S, NEW f \in File,
         Kept(j, off, n, S, f)
  PROVE  Kept(j, off, n, S \cup {AnswerIn(j, <<>>)}, <<>>)
<1>1. Taken(<<>>) = {} /\ Cardinality({}) = 0
  BY FS_EmptySet DEF Taken
<1>2. j.op = "f" => AnswerIn(j, <<>>) = 0
  BY DEF AnswerIn
<1>3. j.op = "c" => AnswerIn(j, <<>>) = 0
  BY <1>1 DEF AnswerIn
<1>4. ASSUME j.op = "c", NEW a, S \cup {AnswerIn(j, <<>>)} = {a} PROVE n = 0
  <2>1. Cardinality(Taken(f)) = 0 /\ S = {a} /\ a = 0
    BY <1>3, <1>4 DEF Kept, AnswerIn
  <2>2. Taken(f) = {}
    BY <2>1, TakenFinite, FS_EmptySet
  <2>3. n = Cardinality(Taken(f) \cap 1..off)
    BY <1>4, <2>1 DEF Kept
  <2> QED BY <1>1, <2>2, <2>3
<1>5. Taken(<<>>) \cap 1..off = {}
  BY <1>1
<1> QED BY <1>1, <1>2, <1>4, <1>5 DEF Kept

(* One more slot is read, and another answer added. *)
LEMMA KeptReads ==
  ASSUME NEW j \in Job, NEW off \in Nat, NEW n \in Nat, NEW S, NEW f \in File,
         off < Len(f), j.op = "f" => ~Found(f, off + 1, j.id),
         Kept(j, off, n, S, f)
  PROVE  Kept(j, off + 1, IF j.op = "c" /\ f[off + 1] # 0 THEN n + 1 ELSE n, S, f)
<1>1. Len(f) \in Nat /\ off + 1 \in 1..Len(f)
  BY FileFacts
<1>2. \A i \in 1..off + 1 : i \in 1..off \/ i = off + 1
  OBVIOUS
<1>3. ASSUME j.op = "c", NEW a \in S, S = {a}
      PROVE  (IF f[off + 1] # 0 THEN n + 1 ELSE n) = Cardinality(Taken(f) \cap 1..off + 1)
  <2>1. n = Cardinality(Taken(f) \cap 1..off)
    BY <1>3 DEF Kept
  <2>2. IsFiniteSet(Taken(f) \cap 1..off)
    BY TakenFinite, FS_Subset
  <2>3. off + 1 \notin Taken(f) \cap 1..off
    OBVIOUS
  <2>4. Cardinality((Taken(f) \cap 1..off) \cup {off + 1}) = n + 1
    BY <2>1, <2>2, <2>3, FS_AddElement
  <2>5. Taken(f) \cap 1..off + 1 = IF f[off + 1] # 0 THEN (Taken(f) \cap 1..off) \cup {off + 1}
                                   ELSE Taken(f) \cap 1..off
    BY <1>1 DEF Taken
  <2> QED BY <2>1, <2>4, <2>5
<1>4. j.op = "f" => 0 \in S \/ (off + 1 <= Len(f) /\ \A i \in 1..off + 1 : ~Found(f, i, j.id))
  BY <1>1, <1>2 DEF Kept
<1>5. j.op = "c" => j.op # "f"
  OBVIOUS
<1> QED BY <1>3, <1>4, <1>5 DEF Kept

(* At the end of the file. *)
LEMMA KeptToEnd ==
  ASSUME NEW j \in Job, NEW off \in Nat, NEW n \in Nat, NEW S, NEW f \in File,
         off >= Len(f), Kept(j, off, n, S, f)
  PROVE  /\ j.op = "f" => 0 \in S
         /\ j.op = "c" => \A a \in S : S = {a} => n = a
<1>1. Len(f) \in Nat /\ \A i \in 1..Len(f) : i \in 1..off
  BY FileFacts
<1>2. Taken(f) \cap 1..off = Taken(f)
  BY <1>1 DEF Taken
<1>3. j.op = "f" => 0 \in S
  <2> SUFFICES ASSUME j.op = "f", 0 \notin S PROVE FALSE
    OBVIOUS
  <2>1. \A i \in 1..Len(f) : ~Found(f, i, j.id)
    BY <1>1 DEF Kept
  <2>2. AnswerIn(j, f) = 0
    BY <2>1 DEF AnswerIn
  <2> QED BY <2>2 DEF Kept
<1>4. ASSUME j.op = "c", NEW a \in S, S = {a} PROVE n = a
  <2>1. Cardinality(Taken(f)) = a
    BY <1>4 DEF Kept, AnswerIn
  <2> QED BY <1>2, <1>4, <2>1 DEF Kept
<1> QED BY <1>3, <1>4

(* A scan that comes on the student it looks for. *)
LEMMA KeptFinds ==
  ASSUME NEW j \in Job, NEW off \in Nat, NEW n, NEW S, NEW f \in File,
         off < Len(f), j.op = "f", Found(f, off + 1, j.id), Kept(j, off, n, S, f)
  PROVE  1 \in S
<1>1. off + 1 \in 1..Len(f)
  BY FileFacts
<1>2. AnswerIn(j, f) = 1
  BY <1>1 DEF AnswerIn
<1> QED BY <1>2 DEF Kept

-----------------------------------------------------------------------------
(* What a step does to the files that are being scanned: nothing, or one write to the *)
(* file that is student.db.                                                            *)
Rewritten(f, g) ==
  \/ g = <<>>
  \/ \E o \in Nat, r \in 0..MaxId :
       g = Put(f, o, r) /\ (r = 0 \/ (o = r /\ Len(f) <= o) \/ o = r + 1)

FilesKept ==
  \A q \in Procs : proc[q].pc = "scan" =>
    \/ disk'[proc[q].fd] = disk[proc[q].fd]
    \/ proc[q].fd = db /\ db' = db /\ Rewritten(disk[db], disk'[db])

LEMMA ScanFrame ==
  ASSUME TypeOK, TypeOK', ScanInv, Observed, FilesKept, NEW q \in Procs, proc'[q] = proc[q]
  PROVE  Scanning(q)'
<1> DEFINE s == proc[q]
<1> SUFFICES ASSUME s.pc = "scan"
             PROVE  Kept(s.job, s.off, s.buf, seen'[q], disk'[s.fd])
  BY DEF Scanning
<1>1. s.job \in Job /\ s.off \in Nat /\ s.buf \in Nat /\ s.fd \in Inodes /\ s.fd # None
  <2>1. s \in Process /\ s.fd # None
    BY ReadyNow DEF TypeOK, Ready
  <2> QED BY <2>1 DEF Process
<1>2. disk[s.fd] \in File /\ Low(disk[s.fd])
  BY <1>1 DEF TypeOK, ScanInv, File
<1>3. Kept(s.job, s.off, s.buf, seen[q], disk[s.fd])
  BY DEF ScanInv, Scanning
<1>4. seen'[q] = seen[q] \cup {Answer(s.job)'}
  BY DEF Observed
<1>5. Answer(s.job)' = AnswerIn(s.job, Db')
  BY <1>1, AnswerNext
<1> HIDE DEF s
<1>6. CASE disk'[s.fd] = disk[s.fd]
  <2>1. PICK a : a = Answer(s.job)'
    OBVIOUS
  <2>2. Kept(s.job, s.off, s.buf, seen[q] \cup {a}, disk[s.fd])
    BY <1>3, KeptLonger
  <2> QED BY <1>4, <1>6, <2>1, <2>2
<1>7. CASE s.fd = db /\ db' = db /\ Rewritten(disk[db], disk'[db])
  <2>1. Db' = disk'[s.fd]
    BY <1>1, <1>7 DEF Db
  <2>2. CASE disk'[db] = <<>>
    BY <1>1, <1>2, <1>3, <1>4, <1>5, <1>7, <2>1, <2>2, KeptCleared
  <2>3. CASE \E o \in Nat, r \in 0..MaxId :
               disk'[db] = Put(disk[db], o, r)
               /\ (r = 0 \/ (o = r /\ Len(disk[db]) <= o) \/ o = r + 1)
    <3>1. PICK o \in Nat, r \in 0..MaxId :
            disk'[db] = Put(disk[db], o, r)
            /\ (r = 0 \/ (o = r /\ Len(disk[db]) <= o) \/ o = r + 1)
      BY <2>3
    <3>2. PICK f : f = disk[db]
      OBVIOUS
    <3>3. f \in File /\ Low(f) /\ Kept(s.job, s.off, s.buf, seen[q], f)
          /\ (r = 0 \/ (o = r /\ Len(f) <= o) \/ o = r + 1)
      BY <1>2, <1>3, <1>7, <3>1, <3>2
    <3>4. Kept(s.job, s.off, s.buf, seen[q] \cup {AnswerIn(s.job, Put(f, o, r))}, Put(f, o, r))
      BY <1>1, <3>3, KeptPut
    <3> QED BY <1>4, <1>5, <1>7, <2>1, <3>1, <3>2, <3>4
  <2> QED BY <1>7, <2>2, <2>3 DEF Rewritten
<1> QED BY <1>6, <1>7 DEF FilesKept, s

(* The processes that do not take the step. *)
LEMMA OthersKeep ==
  ASSUME TypeOK, TypeOK', ScanInv, OneWriter, Observed, FilesKept, NEW p \in Procs, NEW s, Goes(p, s),
         UNCHANGED <<db, tmp, disk>> \/ p \in Modifiers \/ db = None,
         \A q \in Procs : proc[q].fd # None => proc[q].fd # tmp',
         \A q \in Procs : q # p => out'[q] = out[q]
  PROVE  \A q \in Procs : q # p => Working(q)' /\ Scanning(q)' /\ (proc[q].pc = "idle" => Told(q))'
<1> SUFFICES ASSUME NEW q \in Procs, q # p
             PROVE  Working(q)' /\ Scanning(q)' /\ (proc[q].pc = "idle" => Told(q))'
  OBVIOUS
<1>1. proc'[q] = proc[q] /\ Working(q) /\ out'[q] = out[q]
  BY DEF Goes, TypeOK, ScanInv
<1>2. Scanning(q)'
  BY <1>1, ScanFrame
<1>3. Working(q)'
  <2>1. CASE UNCHANGED <<db, tmp, disk>>
    BY <1>1, <2>1 DEF Working, Db
  <2>2. CASE p \in Modifiers
    <3>1. proc[q].pc \in {"idle", "scan"}
      BY <1>1, <2>2 DEF Working, OneWriter
    <3> QED BY <1>1, <3>1 DEF Working
  <2>3. CASE db = None
    <3>1. proc[q].pc = "idle"
      BY <2>3, ReadyNow
    <3> QED BY <1>1, <3>1 DEF Working
  <2> QED BY <2>1, <2>2, <2>3
<1>4. ASSUME proc[q].pc = "idle" PROVE Told(q)'
  <2>1. seen'[q] = seen[q] /\ Told(q)
    BY <1>1, <1>4 DEF Observed, ScanInv, Truthful
  <2> QED BY <1>1, <1>4, <2>1 DEF Told
<1> QED BY <1>1, <1>2, <1>3, <1>4

(* A step of p, when p itself is all right after it. *)
LEMMA StepKeeps ==
  ASSUME TypeOK, TypeOK', ScanInv, OneWriter, Observed, FilesKept, NEW p \in Procs, NEW s, Goes(p, s),
         UNCHANGED <<db, tmp, disk>> \/ p \in Modifiers \/ db = None,
         \A q \in Procs : proc[q].fd # None => proc[q].fd # tmp',
         \A q \in Procs : q # p => out'[q] = out[q],
         (\A i \in Inodes : Low(disk[i]))', (tmp # None => tmp # db)',
         Working(p)', Scanning(p)', (proc[p].pc = "idle" => Told(p))'
  PROVE  ScanInv'
<1>1. \A q \in Procs : q # p => Working(q)' /\ Scanning(q)' /\ (proc[q].pc = "idle" => Told(q))'
  BY OthersKeep
<1> QED BY <1>1 DEF ScanInv, Truthful

(* A process that ends tells nothing it has not seen. *)
LEMMA ExitsKeep ==
  ASSUME TypeOK, TypeOK', ScanInv, OneWriter, Observed, FilesKept, NEW p \in Procs,
         NEW rc, NEW n, Exits(p, rc, n), UNCHANGED <<db, tmp>>,
         UNCHANGED disk \/ p \in Modifiers, (\A i \in Inodes : Low(disk[i]))',
         proc[p].job.op = "f" /\ rc = "NO_ERROR" => 1 \in seen[p],
         proc[p].job.op = "f" /\ rc = "SRCH_NOT_FOUND" => 0 \in seen[p],
         proc[p].job.op = "c" /\ rc = "NO_ERROR" => \A a \in seen[p] : seen[p] = {a} => n = a
  PROVE  ScanInv'
<1> DEFINE s == [proc[p] EXCEPT !.pc = "idle", !.fd = None, !.off = 0, !.tfd = None,
                                !.toff = 0, !.buf = 0]
<1>1. proc[p] \in Process
  BY DEF TypeOK
<1>2. Goes(p, s) /\ out' = [out EXCEPT ![p] = [rc |-> rc, n |-> n]]
  BY DEF Exits
<1>3. /\ s.pc = "idle" /\ s.fd = None /\ s.off = 0 /\ s.toff = 0 /\ s.buf = 0 /\ s.job = proc[p].job
  BY <1>1 DEF Process
<1> HIDE DEF s
<1>4. proc'[p] = s /\ seen'[p] = seen[p] /\ out'[p] = [rc |-> rc, n |-> n]
  <2>1. proc'[p] = s /\ out'[p] = [rc |-> rc, n |-> n]
    BY <1>2 DEF Goes, TypeOK
  <2> QED BY <1>3, <2>1 DEF Observed
<1>5. Working(p)' /\ Scanning(p)'
  BY <1>3, <1>4 DEF Working, Scanning
<1>6. Told(p)'
  BY <1>3, <1>4 DEF Told
<1>7. \A q \in Procs : q # p => out'[q] = out[q]
  BY <1>2 DEF TypeOK
<1>8. (\A q \in Procs : proc[q].fd # None => proc[q].fd # tmp') /\ (tmp # None => tmp # db)'
  BY DEF ScanInv, Working
<1> QED BY <1>2, <1>5, <1>6, <1>7, <1>8, StepKeeps

-----------------------------------------------------------------------------
(* The steps. *)
LEMMA FilesSame == ASSUME UNCHANGED disk PROVE FilesKept
  BY DEF FilesKept

(* The file called student.db is written. *)
LEMMA DbWritten ==
  ASSUME TypeOK, db # None, UNCHANGED db, NEW g, disk' = [disk EXCEPT ![db] = g],
         Rewritten(disk[db], g)
  PROVE  FilesKept
<1> SUFFICES ASSUME NEW q \in Procs, proc[q].pc = "scan"
             PROVE  \/ disk'[proc[q].fd] = disk[proc[q].fd]
                    \/ proc[q].fd = db /\ Rewritten(disk[db], disk'[db])
  BY DEF FilesKept
<1>1. proc[q].fd \in Inodes /\ db \in Inodes
  <2>1. proc[q] \in Process /\ proc[q].fd # None /\ db \in Inodes
    BY ReadyNow DEF TypeOK, Ready
  <2> QED BY <2>1 DEF Process
<1> QED BY <1>1 DEF TypeOK

(* A file is written that nobody scans. *)
LEMMA OtherWritten ==
  ASSUME TypeOK, NEW i \in Inodes, NEW g, disk' = [disk EXCEPT ![i] = g],
         \A q \in Procs : proc[q].fd # None => proc[q].fd # i
  PROVE  FilesKept
<1> SUFFICES ASSUME NEW q \in Procs, proc[q].pc = "scan"
             PROVE  disk'[proc[q].fd] = disk[proc[q].fd]
  BY DEF FilesKept
<1>1. proc[q].fd \in Inodes /\ proc[q].fd # None
  <2>1. proc[q] \in Process /\ proc[q].fd # None
    BY ReadyNow DEF TypeOK, Ready
  <2> QED BY <2>1 DEF Process
<1> QED BY <1>1 DEF TypeOK

LEMMA LowWritten ==
  ASSUME TypeOK, ScanInv, NEW i, NEW g, disk' = [disk EXCEPT ![i] = g], Low(g)
  PROVE  (\A k \in Inodes : Low(disk[k]))'
<1> SUFFICES ASSUME NEW k \in Inodes PROVE Low(disk'[k])
  OBVIOUS
<1>1. disk'[k] = IF k = i THEN g ELSE disk[k]
  BY DEF TypeOK
<1> QED BY <1>1 DEF ScanInv

LEMMA NotNone == \A i \in Inodes : i # None
  BY DEF None

LEMMA LowEmpty == Low(<<>>)
  BY DEF Low

LEMMA RunKeeps ==
  ASSUME TypeOK, TypeOK', ScanInv, OneWriter, Observed, NEW p \in Procs, Run(p) \/ RunFails(p)
  PROVE  ScanInv'
<1>1. /\ proc[p] \in Process /\ proc[p].pc = "idle" /\ Working(p)
      /\ proc[p].off = 0 /\ proc[p].toff = 0 /\ proc[p].buf = 0
  BY DEF TypeOK, Run, RunFails, ScanInv, Working
<1>2. UNCHANGED tmp
  BY DEF Run, RunFails, fileVars
<1>3. \A q \in Procs : proc[q].fd # None => proc[q].fd # tmp'
  BY <1>2 DEF ScanInv, Working
<1>4. ASSUME NEW j \in Job, NEW rc \in {"EXIT_FAIL_ARGS", "ERR_DB_FILE"}, Rejected(p, j, rc),
             FilesKept, UNCHANGED <<db, tmp, disk>> \/ p \in Modifiers \/ db = None,
             (\A i \in Inodes : Low(disk[i]))', (tmp # None => tmp # db)'
      PROVE  ScanInv'
  <2> DEFINE s == [proc[p] EXCEPT !.job = j]
  <2>1. /\ s.pc = "idle" /\ s.off = 0 /\ s.toff = 0 /\ s.buf = 0 /\ s.fd = proc[p].fd
    BY <1>1 DEF Process
  <2>2. Goes(p, s) /\ out' = [out EXCEPT ![p] = [rc |-> rc, n |-> 0]]
    BY <1>4 DEF Rejected
  <2> HIDE DEF s
  <2>3. proc'[p] = s /\ out'[p].rc = rc /\ \A q \in Procs : q # p => out'[q] = out[q]
    BY <2>2 DEF Goes, TypeOK
  <2>4. Working(p)'
    BY <1>3, <2>1, <2>3 DEF Working
  <2>5. Scanning(p)' /\ Told(p)'
    BY <2>1, <2>3 DEF Scanning, Told
  <2> QED BY <1>3, <1>4, <2>2, <2>3, <2>4, <2>5, StepKeeps
<1>5. CASE Run(p)
  <2>1. PICK j \in Job, i \in Inodes :
          /\ Typed(p, j)
          /\ \/ db = None /\ Creates(i) /\ db' = i
             \/ db = i /\ UNCHANGED <<db, disk>>
          /\ IF BadArgs(j)
             THEN Rejected(p, j, "EXIT_FAIL_ARGS")
             ELSE /\ Goes(p, [proc[p] EXCEPT !.job = j, !.pc = FirstStep[j.op], !.fd = i])
                  /\ UNCHANGED out
    BY <1>5 DEF Run
  <2>2. i # None /\ db' = i
    <3>1. i # None
      BY NotNone
    <3> QED BY <2>1, <3>1
  <2>3. FilesKept /\ (UNCHANGED <<db, tmp, disk>> \/ p \in Modifiers \/ db = None)
        /\ (\A k \in Inodes : Low(disk[k]))' /\ (tmp # None => tmp # db)'
    <3>1. CASE db = None /\ Creates(i)
      <4>1. \A q \in Procs : proc[q].pc # "scan"
        BY <3>1, ReadyNow
      <4>2. FilesKept
        BY <4>1 DEF FilesKept
      <4>3. (\A k \in Inodes : Low(disk[k]))'
        BY <3>1, LowWritten, LowEmpty DEF Creates
      <4> QED BY <1>2, <2>2, <3>1, <4>2, <4>3 DEF Creates, Unused
    <3>2. CASE UNCHANGED <<db, disk>>
      BY <1>2, <3>2, FilesSame DEF ScanInv
    <3> QED BY <2>1, <3>1, <3>2
  <2>4. CASE BadArgs(j)
    BY <1>4, <2>1, <2>3, <2>4
  <2>5. CASE ~BadArgs(j)
    <3> DEFINE s == [proc[p] EXCEPT !.job = j, !.pc = FirstStep[j.op], !.fd = i]
    <3>1. Goes(p, s) /\ UNCHANGED out
      BY <2>1, <2>5
    <3>2. /\ s.pc = FirstStep[j.op] /\ s.fd = i /\ s.job = j
          /\ s.off = 0 /\ s.toff = 0 /\ s.buf = 0
      BY <1>1 DEF Process
    <3> HIDE DEF s
    <3>3. proc'[p] = s /\ \A q \in Procs : q # p => out'[q] = out[q]
      BY <3>1 DEF Goes, TypeOK
    <3>4. /\ s.pc = "scan" => j.op \in {"c", "f"}
          /\ s.pc # "scan" => p \in Modifiers /\ j.op \notin {"c", "f"}
          /\ s.pc \in {"scan", "add", "del", "zero", "temp"}
      BY <2>1, <3>2 DEF Typed, FirstStep, Job, AllOps
    <3>5. Working(p)'
      BY <2>2, <2>3, <3>2, <3>3, <3>4 DEF Working
    <3>6. Scanning(p)'
      <4> SUFFICES ASSUME s.pc = "scan" PROVE Kept(j, 0, 0, seen'[p], disk'[i])
        BY <3>2, <3>3 DEF Scanning
      <4>1. seen'[p] = {Answer(j)'}
        BY <1>1, <3>2, <3>3 DEF Observed
      <4>2. Db' = disk'[i]
        BY <2>2 DEF Db
      <4> QED BY <4>1, <4>2, AnswerNext, KeptBegins
    <3>7. proc'[p].pc # "idle"
      BY <3>3, <3>4
    <3> QED BY <1>3, <2>3, <3>1, <3>3, <3>5, <3>6, <3>7, StepKeeps
  <2> QED BY <2>4, <2>5
<1>6. CASE RunFails(p)
  <2>1. PICK j \in Job : Rejected(p, j, "ERR_DB_FILE")
    BY <1>6 DEF RunFails
  <2>2. UNCHANGED <<db, tmp, disk>>
    BY <1>6 DEF RunFails, fileVars
  <2>3. (\A i \in Inodes : Low(disk[i]))' /\ (tmp # None => tmp # db)'
    BY <2>2 DEF ScanInv
  <2> QED BY <1>4, <2>1, <2>2, <2>3, FilesSame
<1> QED BY <1>5, <1>6

LEMMA WorksKeeps ==
  ASSUME TypeOK, TypeOK', ScanInv, OneWriter, Observed, NEW p \in Procs, Works(p)
  PROVE  ScanInv'
<1> DEFINE s == proc[p]
<1>1. /\ s \in Process /\ s.job \in Job /\ s.job.id \in 0..(MaxId + 1) /\ s.off \in Nat
      /\ s.toff \in Nat /\ s.buf \in Nat /\ s.fd \in Inodes \cup {None}
  BY DEF TypeOK, Process, Job
<1>2. Working(p) /\ Scanning(p) /\ Ready(s) /\ (s.pc # "idle" => db # None)
  BY ReadyNow DEF ScanInv
<1>3. /\ s.pc \notin {"idle", "scan"} => p \in Modifiers /\ s.job.op \notin {"c", "f"}
      /\ s.pc \notin {"idle", "scan", "rename", "reopen"} => s.fd = db
      /\ s.fd # None => s.fd # tmp
  BY <1>2 DEF Working
<1>4. /\ db \in Inodes \cup {None} /\ tmp \in Inodes \cup {None}
      /\ \A i \in Inodes : disk[i] \in File /\ Low(disk[i])
      /\ \A q \in Procs : proc[q].fd # None => proc[q].fd # tmp
      /\ tmp # None => tmp # db
  BY DEF TypeOK, File, ScanInv, Working
<1> HIDE DEF s
(* A modifying step of p that ends, or goes on. *)
<1>5. ASSUME NEW rc, NEW n, Exits(p, rc, n), s.pc \notin {"idle", "scan"}, UNCHANGED <<db, tmp>>,
             FilesKept, (\A i \in Inodes : Low(disk[i]))'
      PROVE  ScanInv'
  <2>1. p \in Modifiers /\ proc[p].job.op \notin {"c", "f"}
    BY <1>3, <1>5 DEF s
  <2> QED BY <1>5, <2>1, ExitsKeep
<1>6. ASSUME NEW t, Goes(p, t), s.pc \notin {"idle", "scan"}, t.pc \notin {"idle", "scan"},
             FilesKept, (\A i \in Inodes : Low(disk[i]))', UNCHANGED out,
             \A q \in Procs : proc[q].fd # None => proc[q].fd # tmp', (tmp # None => tmp # db)',
             Working(p)'
      PROVE  ScanInv'
  <2>1. p \in Modifiers
    BY <1>3, <1>6
  <2>2. proc'[p] = t
    BY <1>6 DEF Goes, TypeOK
  <2>3. Scanning(p)' /\ (proc[p].pc = "idle" => Told(p))'
    BY <1>6, <2>2 DEF Scanning
  <2> QED BY <1>6, <2>1, <2>3, StepKeeps
<1>7. CASE AddRead(p)
  <2> DEFINE next == IF s.job.id < Len(disk[s.fd]) THEN s.job.id + 1 ELSE s.job.id
             t == [s EXCEPT !.pc = "addwrite", !.off = next]
  <2>1. /\ s.pc = "add" /\ UNCHANGED <<db, tmp, disk>>
        /\ \/ Exits(p, "ERR_DB_OP", 0)
           \/ Goes(p, t) /\ UNCHANGED out
    BY <1>7 DEF AddRead, fileVars, s
  <2>2. FilesKept /\ (\A i \in Inodes : Low(disk[i]))'
    BY <1>4, <2>1, FilesSame
  <2>3. CASE Exits(p, "ERR_DB_OP", 0)
    BY <1>5, <2>1, <2>2, <2>3
  <2>4. CASE Goes(p, t) /\ UNCHANGED out
    <3>1. /\ t.pc = "addwrite" /\ t.off = next /\ t.job = s.job /\ t.fd = s.fd
      BY <1>1 DEF Process
    <3>2. s.fd = db /\ Db' = disk[s.fd] /\ Len(Db') \in Nat
      <4>1. s.fd = db /\ db # None
        BY <1>2, <1>3, <2>1
      <4>2. Db' = disk[s.fd]
        BY <2>1, <4>1 DEF Db
      <4> QED BY <1>4, <4>1, <4>2, FileFacts
    <3>3. (next = s.job.id /\ Len(Db') <= next) \/ next = s.job.id + 1
      BY <1>1, <3>2
    <3>4. p \in Modifiers /\ s.job.op \notin {"c", "f"}
      BY <1>3, <2>1
    <3> HIDE DEF t, next
    <3>5. proc'[p] = t
      BY <2>4 DEF Goes, TypeOK
    <3>6. Working(p)'
      BY <1>3, <2>1, <3>1, <3>2, <3>3, <3>4, <3>5 DEF Working
    <3> QED BY <1>4, <1>6, <2>1, <2>2, <2>4, <3>1, <3>6
  <2> QED BY <2>1, <2>3, <2>4
<1>8. CASE AddWrite(p)
  <2> DEFINE g == Put(disk[s.fd], s.off, s.job.id)
  <2>1. s.pc = "addwrite" /\ Exits(p, "NO_ERROR", 0) /\ UNCHANGED <<db, tmp>>
        /\ disk' = [disk EXCEPT ![s.fd] = g]
    BY <1>8 DEF AddWrite, s
  <2>2. s.fd = db /\ db \in Inodes /\ db # None /\ s.job.id \in 0..MaxId
    BY <1>2, <1>3, <1>4, <2>1 DEF Ready, Ids
  <2>3. (s.off = s.job.id /\ Len(disk[db]) <= s.off) \/ s.off = s.job.id + 1
    BY <1>2, <2>1, <2>2 DEF Working, Db, s
  <2>4. Rewritten(disk[db], g)
    BY <1>1, <2>2, <2>3 DEF Rewritten
  <2>5. Low(g)
    BY <1>1, <1>4, <2>2, <2>3, PutLow
  <2> HIDE DEF g
  <2>6. FilesKept /\ (\A i \in Inodes : Low(disk[i]))'
    BY <2>1, <2>2, <2>4, <2>5, DbWritten, LowWritten
  <2> QED BY <1>5, <2>1, <2>6
<1>9. CASE DelRead(p)
  <2> DEFINE t == [s EXCEPT !.pc = "delwrite"]
  <2>1. /\ s.pc = "del" /\ UNCHANGED <<db, tmp, disk>>
        /\ \/ Exits(p, "ERR_DB_OP", 0)
           \/ Goes(p, t) /\ UNCHANGED out
    BY <1>9 DEF DelRead, fileVars, s
  <2>2. FilesKept /\ (\A i \in Inodes : Low(disk[i]))'
    BY <1>4, <2>1, FilesSame
  <2>3. CASE Exits(p, "ERR_DB_OP", 0)
    BY <1>5, <2>1, <2>2, <2>3
  <2>4. CASE Goes(p, t) /\ UNCHANGED out
    <3>1. t.pc = "delwrite" /\ t.job = s.job /\ t.fd = s.fd
      BY <1>1 DEF Process
    <3>2. p \in Modifiers /\ s.job.op \notin {"c", "f"} /\ s.fd = db
      BY <1>3, <2>1
    <3> HIDE DEF t
    <3>3. proc'[p] = t
      BY <2>4 DEF Goes, TypeOK
    <3>4. Working(p)'
      BY <1>3, <2>1, <3>1, <3>2, <3>3 DEF Working
    <3> QED BY <1>4, <1>6, <2>1, <2>2, <2>4, <3>1, <3>4
  <2> QED BY <2>1, <2>3, <2>4
<1>10. CASE DelWrite(p)
  <2> DEFINE g == Put(disk[s.fd], s.job.id, 0)
  <2>1. s.pc = "delwrite" /\ Exits(p, "NO_ERROR", 0) /\ UNCHANGED <<db, tmp>>
        /\ disk' = [disk EXCEPT ![s.fd] = g]
    BY <1>10 DEF DelWrite, s
  <2>2. s.fd = db /\ db \in Inodes /\ db # None /\ s.job.id \in Nat /\ 0 \in 0..MaxId
    <3>1. s.fd = db /\ db # None
      BY <1>2, <1>3, <2>1
    <3>2. db \in Inodes
      BY <1>4, <3>1
    <3>3. s.job.id \in Nat /\ 0 \in 0..MaxId
      BY <1>1
    <3> QED BY <3>1, <3>2, <3>3
  <2>3. Rewritten(disk[db], g)
    BY <2>2 DEF Rewritten
  <2>4. Low(g)
    BY <1>4, <2>2, PutLow
  <2> HIDE DEF g
  <2>5. FilesKept /\ (\A i \in Inodes : Low(disk[i]))'
    BY <2>1, <2>2, <2>3, <2>4, DbWritten, LowWritten
  <2> QED BY <1>5, <2>1, <2>5
<1>11. CASE Scan(p)
  <2> DEFINE f == disk[s.fd]
             b == IF s.job.op = "c" /\ At(f, s.off) # 0 THEN s.buf + 1 ELSE s.buf
             t == [s EXCEPT !.off = s.off + 1, !.buf = b]
  <2>1. s.pc = "scan" /\ UNCHANGED <<db, tmp, disk>> /\ s.job.op \in {"c", "f"}
    BY <1>2, <1>11 DEF Scan, fileVars, s, Working
  <2>2. FilesKept /\ (\A i \in Inodes : Low(disk[i]))'
    BY <1>4, <2>1, FilesSame
  <2>3. f \in File /\ Kept(s.job, s.off, s.buf, seen[p], f) /\ Len(f) \in Nat
    <3>1. s.fd \in Inodes
      BY <1>2, <2>1 DEF Ready, Process
    <3>2. f \in File
      BY <1>4, <3>1
    <3> QED BY <1>2, <2>1, <3>2, FileFacts DEF Scanning, s
  <2> HIDE DEF f
  <2>4. CASE s.off >= Len(f)
    <3>0. /\ s.job.op = "f" => 0 \in seen[p]
          /\ s.job.op = "c" => \A a \in seen[p] : seen[p] = {a} => s.buf = a
      BY <1>1, <2>3, <2>4, KeptToEnd
    <3>1. CASE s.job.op = "f"
      <4>1. Exits(p, "SRCH_NOT_FOUND", 0)
        BY <1>11, <2>4, <3>1 DEF Scan, s, f
      <4>2. 0 \in seen[p]
        BY <3>0, <3>1
      <4> QED BY <2>1, <2>2, <3>1, <4>1, <4>2, ExitsKeep DEF s
    <3>2. CASE s.job.op = "c"
      <4>1. Exits(p, "NO_ERROR", s.buf)
        BY <1>11, <2>4, <3>2 DEF Scan, s, f
      <4>2. \A a \in seen[p] : seen[p] = {a} => s.buf = a
        BY <3>0, <3>2
      <4> QED BY <2>1, <2>2, <3>2, <4>1, <4>2, ExitsKeep DEF s
    <3> QED BY <2>1, <3>1, <3>2
  <2>5. CASE s.off < Len(f) /\ s.job.op = "f" /\ Found(f, s.off + 1, s.job.id)
    <3>1. Exits(p, "NO_ERROR", 0)
      <4>1. ~(s.off >= Len(f))
        BY <1>1, <2>3, <2>5
      <4> QED BY <1>11, <2>5, <4>1 DEF Scan, At, Found, s, f
    <3>2. 1 \in seen[p]
      BY <1>1, <2>3, <2>5, KeptFinds
    <3> QED BY <2>1, <2>2, <2>5, <3>1, <3>2, ExitsKeep DEF s
  <2>6. CASE s.off < Len(f) /\ (s.job.op = "f" => ~Found(f, s.off + 1, s.job.id))
    <3>1. Goes(p, t) /\ UNCHANGED out
      <4>1. ~(s.off >= Len(f))
        BY <1>1, <2>3, <2>6
      <4> QED BY <1>11, <2>6, <4>1 DEF Scan, At, Found, s, f
    <3>2. /\ t.pc = "scan" /\ t.off = s.off + 1 /\ t.buf = b /\ t.job = s.job /\ t.fd = s.fd
      BY <1>1, <2>1 DEF Process
    <3>3. b = IF s.job.op = "c" /\ f[s.off + 1] # 0 THEN s.buf + 1 ELSE s.buf
      BY <2>6 DEF At
    <3> HIDE DEF t, b
    <3>4. proc'[p] = t
      BY <3>1 DEF Goes, TypeOK
    <3>5. Kept(s.job, s.off + 1, b, seen[p], f)
      BY <1>1, <2>3, <2>6, <3>3, KeptReads
    <3>6. Kept(s.job, s.off + 1, b, seen'[p], f)
      <4>1. PICK a : a = Answer(s.job)'
        OBVIOUS
      <4>2. seen'[p] = seen[p] \cup {a}
        BY <2>1, <3>2, <3>4, <4>1 DEF Observed, s
      <4>3. Kept(s.job, s.off + 1, b, seen[p] \cup {a}, f)
        BY <3>5, KeptLonger
      <4> QED BY <4>2, <4>3
    <3>7. disk'[t.fd] = f
      BY <2>1, <3>2 DEF f
    <3>8. Scanning(p)'
      BY <3>2, <3>4, <3>6, <3>7 DEF Scanning
    <3>9. Working(p)'
      BY <1>3, <2>1, <3>2, <3>4 DEF Working
    <3>10. (proc[p].pc = "idle" => Told(p))' /\ (tmp # None => tmp # db)'
      BY <1>4, <2>1, <3>2, <3>4
    <3>11. \A q \in Procs : proc[q].fd # None => proc[q].fd # tmp'
      BY <1>4, <2>1
    <3> QED BY <2>1, <2>2, <3>1, <3>8, <3>9, <3>10, <3>11, StepKeeps
  <2> QED BY <1>1, <2>3, <2>4, <2>5, <2>6
<1>12. CASE Zero(p)
  <2>1. s.pc = "zero" /\ Exits(p, "NO_ERROR", 0) /\ UNCHANGED <<db, tmp>>
        /\ disk' = [disk EXCEPT ![db] = <<>>]
    BY <1>12 DEF Zero, s
  <2>2. db # None /\ Rewritten(disk[db], <<>>)
    BY <1>2, <2>1 DEF Rewritten
  <2>3. FilesKept /\ (\A i \in Inodes : Low(disk[i]))'
    BY <2>1, <2>2, DbWritten, LowWritten, LowEmpty
  <2> QED BY <1>5, <2>1, <2>3
<1>13. CASE OpenTemp(p)
  <2>1. PICK i \in Inodes :
          /\ \/ tmp = None /\ Creates(i)
             \/ tmp = i /\ disk' = [disk EXCEPT ![i] = <<>>]
          /\ tmp' = i
          /\ Goes(p, [s EXCEPT !.pc = "copy", !.tfd = i])
    BY <1>13 DEF OpenTemp, s
  <2> DEFINE t == [s EXCEPT !.pc = "copy", !.tfd = i]
  <2>2. s.pc = "temp" /\ UNCHANGED <<db, out>> /\ Goes(p, t)
    BY <1>13, <2>1 DEF OpenTemp, s
  <2>3. disk' = [disk EXCEPT ![i] = <<>>] /\ i # db
        /\ \A q \in Procs : proc[q].fd # None => proc[q].fd # i
    <3>1. CASE tmp = None /\ Creates(i)
      BY <3>1 DEF Creates, Unused
    <3>2. CASE tmp = i /\ disk' = [disk EXCEPT ![i] = <<>>]
      <4>1. i # None
        BY NotNone
      <4> QED BY <1>4, <3>2, <4>1
    <3> QED BY <2>1, <3>1, <3>2
  <2>4. FilesKept /\ (\A k \in Inodes : Low(disk[k]))'
    BY <2>3, OtherWritten, LowWritten, LowEmpty
  <2>5. /\ t.pc = "copy" /\ t.tfd = i /\ t.job = s.job /\ t.fd = s.fd /\ t.off = s.off /\ t.toff = s.toff
    BY <1>1 DEF Process
  <2> HIDE DEF t
  <2>6. proc'[p] = t
    BY <2>2 DEF Goes, TypeOK
  <2>7. s.off = 0 /\ s.toff = 0 /\ p \in Modifiers /\ s.job.op \notin {"c", "f"} /\ s.fd = db /\ s.fd # None
    BY <1>2, <1>3, <2>2 DEF Working, Ready, s
  <2>8. Working(p)'
    BY <2>1, <2>2, <2>3, <2>5, <2>6, <2>7 DEF Working
  <2> QED BY <1>6, <2>1, <2>2, <2>3, <2>4, <2>5, <2>8
<1>14. CASE CopyRead(p)
  <2> DEFINE f == disk[s.fd]
             r == At(f, s.off)
             t == [s EXCEPT !.off = s.off + 1, !.buf = r, !.pc = IF r = 0 THEN "copy" ELSE "copywrite"]
             u == [s EXCEPT !.pc = "rename", !.fd = None, !.tfd = None]
  <2>1. /\ s.pc = "copy" /\ UNCHANGED <<db, tmp, disk, out>>
        /\ (s.off < Len(f) /\ Goes(p, t)) \/ Goes(p, u)
    <3>1. /\ s.pc = "copy" /\ UNCHANGED <<db, tmp, disk, out>>
          /\ (~(s.off >= Len(f)) /\ Goes(p, t)) \/ Goes(p, u)
      BY <1>14 DEF CopyRead, fileVars, s
    <3>2. s.fd \in Inodes
      <4>1. s.fd # None
        BY <1>2, <3>1 DEF Ready
      <4> QED BY <1>1, <4>1
    <3>3. Len(f) \in Nat
      BY <1>4, <3>2, FileFacts
    <3> HIDE DEF f, t, u
    <3>4. ~(s.off >= Len(f)) => s.off < Len(f)
      BY <1>1, <3>3
    <3> QED BY <3>1, <3>4, Zenon
  <2>2. FilesKept /\ (\A i \in Inodes : Low(disk[i]))'
    BY <1>4, <2>1, FilesSame
  <2>3. p \in Modifiers /\ s.job.op \notin {"c", "f"} /\ s.fd = db /\ s.tfd = tmp /\ s.toff <= s.off
    BY <1>2, <1>3, <2>1 DEF Working, s
  <2>4. CASE s.off < Len(f) /\ Goes(p, t)
    <3>1. f \in File /\ Low(f)
      <4>1. s.fd \in Inodes
        BY <1>2, <2>1 DEF Ready, Process
      <4> QED BY <1>4, <4>1
    <3>2. r \in 0..MaxId /\ (r # 0 => s.off <= r + 1)
      <4>1. r = f[s.off + 1] /\ s.off + 1 \in 1..Len(f)
        BY <1>1, <2>4, <3>1, FileFacts DEF At
      <4>2. f[s.off + 1] \in 0..MaxId /\ (f[s.off + 1] # 0 => s.off + 1 <= f[s.off + 1] + 2)
        BY <3>1, <4>1, FileFacts DEF Low
      <4> HIDE DEF f, r
      <4> QED BY <1>1, <4>1, <4>2
    <3> HIDE DEF r
    <3>3. /\ t.pc = (IF r = 0 THEN "copy" ELSE "copywrite") /\ t.off = s.off + 1 /\ t.buf = r
          /\ t.job = s.job /\ t.fd = s.fd /\ t.tfd = s.tfd /\ t.toff = s.toff
      BY <1>1 DEF Process
    <3> HIDE DEF t
    <3>4. proc'[p] = t
      BY <2>4 DEF Goes, TypeOK
    <3>5. t.toff < t.off /\ (r # 0 => t.toff <= t.buf + 1)
      BY <1>1, <2>3, <3>2, <3>3
    <3>6. Working(p)'
      <4>1. t.pc \in {"copy", "copywrite"} /\ (t.pc = "copywrite" => r # 0) /\ t.toff <= t.off
        BY <1>1, <3>3, <3>5
      <4> QED BY <1>3, <2>1, <2>3, <3>3, <3>4, <3>5, <4>1 DEF Working
    <3>7. t.pc \notin {"idle", "scan"}
      BY <3>3
    <3> QED BY <1>4, <1>6, <2>1, <2>2, <2>4, <3>6, <3>7
  <2>5. CASE Goes(p, u)
    <3>1. u.pc = "rename" /\ u.fd = None /\ u.job = s.job
      BY <1>1 DEF Process
    <3> HIDE DEF u
    <3>2. proc'[p] = u
      BY <2>5 DEF Goes, TypeOK
    <3>3. Working(p)'
      BY <2>3, <3>1, <3>2 DEF Working
    <3> QED BY <1>4, <1>6, <2>1, <2>2, <2>5, <3>1, <3>3
  <2> QED BY <2>1, <2>4, <2>5
<1>15. CASE CopyWrite(p)
  <2> DEFINE t == [s EXCEPT !.pc = "copy", !.toff = s.toff + 1]
             g == Put(disk[s.tfd], s.toff, s.buf)
  <2>1. s.pc = "copywrite" /\ UNCHANGED <<db, tmp, out>> /\ Goes(p, t)
        /\ disk' = [disk EXCEPT ![s.tfd] = g]
    BY <1>15 DEF CopyWrite, s
  <2>2. /\ p \in Modifiers /\ s.job.op \notin {"c", "f"} /\ s.fd = db /\ s.tfd = tmp
        /\ s.toff < s.off /\ s.toff <= s.buf + 1
    BY <1>2, <1>3, <2>1 DEF Working, s
  <2>3. s.tfd \in Inodes /\ s.buf \in 0..MaxId
    BY <1>1, <1>2, <2>1 DEF Ready, Ids, Process
  <2>4. Low(g)
    BY <1>1, <1>4, <2>2, <2>3, PutLow
  <2> HIDE DEF g
  <2>5. \A q \in Procs : proc[q].fd # None => proc[q].fd # s.tfd
    BY <1>4, <2>2
  <2>6. FilesKept /\ (\A i \in Inodes : Low(disk[i]))'
    BY <2>1, <2>3, <2>4, <2>5, OtherWritten, LowWritten
  <2>7. /\ t.pc = "copy" /\ t.off = s.off /\ t.job = s.job /\ t.fd = s.fd /\ t.tfd = s.tfd
        /\ t.toff = s.toff + 1
    BY <1>1 DEF Process
  <2> HIDE DEF t
  <2>8. proc'[p] = t /\ t.toff <= t.off
    BY <1>1, <2>1, <2>2, <2>7 DEF Goes, TypeOK
  <2>9. Working(p)'
    BY <1>3, <2>1, <2>2, <2>7, <2>8 DEF Working
  <2> QED BY <1>4, <1>6, <2>1, <2>6, <2>7, <2>9
<1>16. CASE Rename(p)
  <2>1. s.pc = "rename" /\ UNCHANGED disk
    BY <1>16 DEF Rename, fileVars, s
  <2>2. FilesKept /\ (\A i \in Inodes : Low(disk[i]))'
    BY <1>4, <2>1, FilesSame
  <2>3. CASE tmp # None
    <3> DEFINE t == [s EXCEPT !.pc = "reopen"]
    <3>1. db' = tmp /\ tmp' = None /\ UNCHANGED out /\ Goes(p, t)
      BY <1>16, <2>3 DEF Rename, s
    <3>2. t.pc = "reopen" /\ t.job = s.job
      BY <1>1 DEF Process
    <3> HIDE DEF t
    <3>3. proc'[p] = t
      BY <3>1 DEF Goes, TypeOK
    <3>4. Working(p)'
      BY <1>3, <2>1, <3>1, <3>2, <3>3 DEF Working
    <3> QED BY <1>6, <2>1, <2>2, <3>1, <3>2, <3>4
  <2>4. CASE tmp = None
    <3>1. Exits(p, "ERR_DB_FILE", 0) /\ UNCHANGED <<db, tmp>>
      BY <1>16, <2>4 DEF Rename, fileVars
    <3> QED BY <1>5, <2>1, <2>2, <3>1
  <2> QED BY <2>3, <2>4
<1>17. CASE Reopen(p)
  <2>1. s.pc = "reopen" /\ Exits(p, "NO_ERROR", 0) /\ UNCHANGED <<db, tmp, disk>>
    BY <1>17 DEF Reopen, fileVars, s
  <2>2. FilesKept /\ (\A i \in Inodes : Low(disk[i]))'
    BY <1>4, <2>1, FilesSame
  <2> QED BY <1>5, <2>1, <2>2
<1> QED BY <1>7, <1>8, <1>9, <1>10, <1>11, <1>12, <1>13, <1>14, <1>15, <1>16, <1>17 DEF Works

(***************************************************************************)
(* Whatever one terminal adds, deletes, compresses and truncates, and      *)
(* whatever is killed or fails: a scan works on one file, the one that was *)
(* student.db when it began, and follows every answer this file has given. *)
(***************************************************************************)
THEOREM ScanInvariant == ASSUME OneWriter PROVE Spec => []ScanInv
<1>1. Init => ScanInv
  <2> SUFFICES ASSUME Init PROVE ScanInv
    OBVIOUS
  <2>1. \A i \in Inodes : disk[i] = <<>> /\ Low(<<>>)
    BY LowEmpty DEF Init
  <2>2. \A p \in Procs : /\ proc[p] = [pc |-> "idle", job |-> [op |-> "c", id |-> 0], fd |-> None,
                                       off |-> 0, tfd |-> None, toff |-> 0, buf |-> 0]
                         /\ out[p] = [rc |-> "none", n |-> 0]
    BY DEF Init
  <2>3. \A p \in Procs : Working(p) /\ Scanning(p) /\ Told(p)
    BY <2>2 DEF Working, Scanning, Told
  <2> QED BY <2>1, <2>3 DEF Init, ScanInv, Truthful
<1>2. TypeOK /\ TypeOK' /\ ScanInv /\ [Next]_vars => ScanInv'
  <2>1. ASSUME TypeOK, TypeOK', ScanInv, Next PROVE ScanInv'
    <3>1. PICK p \in Procs : Run(p) \/ RunFails(p) \/ Works(p) \/ CallFails(p) \/ Killed(p)
      BY <2>1 DEF Next
    <3>2. Observed
      BY <2>1 DEF Next
    <3>3. CASE CallFails(p) \/ Killed(p)
      <4>1. PICK rc \in {"ERR_DB_FILE", "killed"} : Exits(p, rc, 0) /\ UNCHANGED <<db, tmp, disk>>
        BY <3>3 DEF CallFails, Killed, Fails, fileVars
      <4>2. FilesKept /\ (\A i \in Inodes : Low(disk[i]))'
        BY <2>1, <4>1, FilesSame DEF ScanInv
      <4>3. rc # "NO_ERROR" /\ rc # "SRCH_NOT_FOUND"
        OBVIOUS
      <4> QED BY <2>1, <3>2, <4>1, <4>2, <4>3, ExitsKeep
    <3> QED BY <2>1, <3>1, <3>2, <3>3, RunKeeps, WorksKeeps
  <2>2. ASSUME ScanInv, UNCHANGED vars PROVE ScanInv'
    BY <2>2 DEF ScanInv, Working, Scanning, Truthful, Told, Db, vars
  <2> QED BY <2>1, <2>2
<1> QED BY <1>1, <1>2, Typing, PTL DEF Spec

(***************************************************************************)
(* With one modifying terminal, what -f reports was so at some moment while *)
(* it ran, and what -c reports is exact when nothing changed meanwhile      *)
(* (sdbsc.c:63-95 and 242-271).                                            *)
(***************************************************************************)
THEOREM AnswersTrue == ASSUME OneWriter PROVE Spec => []Truthful
<1>1. ScanInv => Truthful
  BY DEF ScanInv
<1> QED BY <1>1, ScanInvariant, PTL

-----------------------------------------------------------------------------
(***************************************************************************)
(* In AppendMode the processes implement StudentTable, the set of students *)
(* every command acts on at one instant (safety; that every command ends   *)
(* is a liveness property).                                                *)
(***************************************************************************)
(* What a process has seen in its slot is still so when it writes; a count has seen no *)
(* record in slot 0.                                                                   *)
Sighted(p) ==
  LET s == proc[p] IN
  /\ s.pc \in {"add", "addwrite"} => s.job.op = "a"
  /\ s.pc \in {"del", "delwrite"} => s.job.op = "d"
  /\ s.pc = "zero" => s.job.op = "z"
  /\ s.pc = "addwrite" => At(Db, s.job.id) = 0
  /\ s.pc = "delwrite" => At(Db, s.job.id) # 0
  /\ s.pc = "scan" => (s.off = 0 /\ s.buf = 0) \/ (s.buf < s.off /\ s.off <= MaxId + 1)

(* Inductive, with TypeOK and PlaceInv, in AppendMode. *)
TableInv == Len(Db) <= MaxId + 1 /\ \A p \in Procs : Sighted(p)

(* The other processes have no student in sight, or the file has not changed. *)
LEMMA SightedStep ==
  ASSUME TypeOK, PlaceInv, TableInv, AppendMode, NEW p \in Procs, NEW s, Goes(p, s),
         Db' = Db \/ p \in Modifiers, Sighted(p)', Len(Db') <= MaxId + 1
  PROVE  TableInv'
<1>1. ASSUME NEW q \in Procs, q # p PROVE Sighted(q)'
  <2>1. proc'[q] = proc[q] /\ Sighted(q) /\ Placed(q)
    BY <1>1 DEF Goes, TypeOK, TableInv, PlaceInv
  <2>2. CASE Db' = Db
    BY <2>1, <2>2 DEF Sighted
  <2>3. CASE p \in Modifiers
    <3>1. proc[q].pc \in {"idle", "scan"}
      BY <1>1, <2>1, <2>3 DEF Placed, AppendMode
    <3> QED BY <2>1, <3>1 DEF Sighted
  <2> QED BY <2>2, <2>3
<1> QED BY <1>1 DEF TableInv

LEMMA SightedExits ==
  ASSUME TypeOK, PlaceInv, TableInv, AppendMode, NEW p \in Procs, NEW rc, NEW n, Exits(p, rc, n),
         Db' = Db \/ p \in Modifiers, Len(Db') <= MaxId + 1
  PROVE  TableInv'
<1>1. PICK s : Goes(p, s) /\ s.pc = "idle"
  <2> DEFINE t == [proc[p] EXCEPT !.pc = "idle", !.fd = None, !.off = 0, !.tfd = None,
                                  !.toff = 0, !.buf = 0]
  <2>1. proc[p] \in Process /\ Goes(p, t)
    BY DEF TypeOK, Exits
  <2>2. t.pc = "idle"
    BY <2>1 DEF Process
  <2> HIDE DEF t
  <2> QED BY <2>1, <2>2
<1>2. proc'[p].pc = "idle"
  BY <1>1 DEF Goes, TypeOK
<1>3. Sighted(p)'
  BY <1>2 DEF Sighted
<1> QED BY <1>1, <1>3, SightedStep

(* Slot 0 is never taken: a student with id 0 is no record. *)
LEMMA SlotZero ==
  ASSUME TypeOK, PlaceInv, NEW o \in Nat, o < Len(Db), Db[o + 1] # 0
  PROVE  o # 0 /\ Db[o + 1] = o /\ o \in Nat
<1>1. Len(Db) \in Nat
  BY DbType, FileFacts
<1>2. Db[o + 1] = (o + 1) - 1
  BY <1>1 DEF PlaceInv, InPlace
<1> QED BY <1>2

LEMMA SightedWorks ==
  ASSUME TypeOK, PlaceInv, TableInv, AppendMode, NEW p \in Procs, Works(p)
  PROVE  TableInv'
<1> DEFINE s == proc[p]
<1>1. /\ s \in Process /\ s.job.id \in 0..(MaxId + 1) /\ s.off \in Nat /\ s.buf \in Nat
      /\ Placed(p) /\ Sighted(p) /\ Ready(s) /\ (s.pc # "idle" => db # None)
  BY ReadyNow DEF TypeOK, Process, Job, PlaceInv, TableInv
<1>2. s.pc # "idle" => s.fd = db /\ Db = disk[s.fd]
  BY <1>1 DEF Placed, Db
<1>3. s.pc \in {"idle", "scan", "add", "addwrite", "del", "delwrite", "zero"}
      /\ (s.pc \notin {"idle", "scan"} => p \in Modifiers)
  BY <1>1 DEF Placed
<1>4. Db \in File /\ Len(Db) \in Nat /\ Len(Db) <= MaxId + 1
  BY DbType, FileFacts DEF TableInv
<1> HIDE DEF s
<1>5. UNCHANGED <<db, disk>> => Db' = Db
  BY DEF Db
<1>6. ASSUME s.pc # "idle", NEW o \in Nat, NEW r, disk' = [disk EXCEPT ![s.fd] = Put(@, o, r)],
             UNCHANGED db
      PROVE  Db' = Put(Db, o, r)
  <2>1. s.fd = db /\ db # None /\ db \in Inodes
    BY <1>1, <1>2, <1>6 DEF TypeOK
  <2> QED BY <1>6, <2>1 DEF TypeOK, Db
<1>7. CASE AddRead(p)
  <2> DEFINE next == IF s.job.id < Len(disk[s.fd]) THEN s.job.id + 1 ELSE s.job.id
             t == [s EXCEPT !.pc = "addwrite", !.off = next]
  <2>1. s.pc = "add" /\ UNCHANGED <<db, disk>>
    BY <1>7 DEF AddRead, fileVars, s
  <2>2. CASE At(disk[s.fd], s.job.id) # 0
    <3>1. Exits(p, "ERR_DB_OP", 0)
      BY <1>7, <2>2 DEF AddRead, s
    <3> QED BY <1>4, <1>5, <2>1, <3>1, SightedExits
  <2>3. CASE At(disk[s.fd], s.job.id) = 0
    <3>1. Goes(p, t)
      BY <1>7, <2>3 DEF AddRead, s
    <3>2. t.pc = "addwrite" /\ t.job = s.job /\ s.job.op = "a"
      BY <1>1, <2>1 DEF Process, Sighted, s
    <3> HIDE DEF t
    <3>3. proc'[p] = t
      BY <3>1 DEF Goes, TypeOK
    <3>4. Sighted(p)'
      BY <1>2, <1>5, <2>1, <2>3, <3>2, <3>3 DEF Sighted
    <3> QED BY <1>4, <1>5, <2>1, <3>1, <3>4, SightedStep
  <2> QED BY <2>2, <2>3
<1>8. CASE AddWrite(p)
  <2>1. s.pc = "addwrite" /\ Exits(p, "NO_ERROR", 0) /\ UNCHANGED db
        /\ disk' = [disk EXCEPT ![s.fd] = Put(@, s.off, s.job.id)]
    BY <1>8 DEF AddWrite, s
  <2>2. s.off = s.job.id /\ s.job.id \in Nat /\ s.job.id <= MaxId /\ s.job.id \in 0..MaxId
    BY <1>1, <2>1 DEF Placed, Ready, Ids, s
  <2>3. Db' = Put(Db, s.off, s.job.id)
    BY <1>1, <1>6, <2>1
  <2>4. Len(Db') = IF s.off < Len(Db) THEN Len(Db) ELSE s.off + 1
    BY <1>4, <2>2, <2>3, PutType
  <2>5. Len(Db') <= MaxId + 1
    BY <1>4, <2>2, <2>4
  <2> QED BY <1>3, <2>1, <2>5, SightedExits
<1>9. CASE DelRead(p)
  <2> DEFINE t == [s EXCEPT !.pc = "delwrite"]
  <2>1. s.pc = "del" /\ UNCHANGED <<db, disk>>
    BY <1>9 DEF DelRead, fileVars, s
  <2>2. CASE At(disk[s.fd], s.job.id) = 0
    <3>1. Exits(p, "ERR_DB_OP", 0)
      BY <1>9, <2>2 DEF DelRead, s
    <3> QED BY <1>4, <1>5, <2>1, <3>1, SightedExits
  <2>3. CASE At(disk[s.fd], s.job.id) # 0
    <3>1. Goes(p, t)
      BY <1>9, <2>3 DEF DelRead, s
    <3>2. t.pc = "delwrite" /\ t.job = s.job /\ s.job.op = "d"
      BY <1>1, <2>1 DEF Process, Sighted, s
    <3> HIDE DEF t
    <3>3. proc'[p] = t
      BY <3>1 DEF Goes, TypeOK
    <3>4. Sighted(p)'
      BY <1>2, <1>5, <2>1, <2>3, <3>2, <3>3 DEF Sighted
    <3> QED BY <1>4, <1>5, <2>1, <3>1, <3>4, SightedStep
  <2> QED BY <2>2, <2>3
<1>10. CASE DelWrite(p)
  <2>1. s.pc = "delwrite" /\ Exits(p, "NO_ERROR", 0) /\ UNCHANGED db
        /\ disk' = [disk EXCEPT ![s.fd] = Put(@, s.job.id, 0)]
    BY <1>10 DEF DelWrite, s
  <2>2. s.job.id \in Nat /\ 0 \in 0..MaxId
    BY <1>1
  <2>3. Db' = Put(Db, s.job.id, 0)
    BY <1>6, <2>1, <2>2
  <2>4. s.job.id < Len(Db)
    BY <1>1, <2>1 DEF Sighted, At, s
  <2>5. Len(Db') = Len(Db)
    BY <1>4, <2>2, <2>3, <2>4, PutType
  <2> QED BY <1>3, <1>4, <2>1, <2>5, SightedExits
<1>11. CASE Scan(p)
  <2> DEFINE b == IF s.job.op = "c" /\ At(Db, s.off) # 0 THEN s.buf + 1 ELSE s.buf
             t == [s EXCEPT !.off = s.off + 1, !.buf = b]
  <2>1. s.pc = "scan" /\ UNCHANGED <<db, disk>>
    BY <1>11 DEF Scan, fileVars, s
  <2>2. (\E rc, n : Exits(p, rc, n)) \/ (~(s.off >= Len(Db)) /\ Goes(p, t))
    BY <1>2, <1>11, <2>1 DEF Scan, s
  <2>3. CASE ~(s.off >= Len(Db)) /\ Goes(p, t)
    <3>1. t.pc = "scan" /\ t.off = s.off + 1 /\ t.buf = b
      BY <1>1, <2>1 DEF Process
    <3>2. s.off < Len(Db)
      BY <1>1, <1>4, <2>3
    <3>3. At(Db, s.off) # 0 => s.off # 0
      BY <1>1, <3>2, SlotZero DEF At
    <3>4. (s.off = 0 /\ s.buf = 0) \/ (s.buf < s.off /\ s.off <= MaxId + 1)
      BY <1>1, <2>1 DEF Sighted, s
    <3>5. b < s.off + 1 /\ s.off + 1 <= MaxId + 1
      BY <1>1, <1>4, <3>2, <3>3, <3>4
    <3> HIDE DEF t, b
    <3>6. proc'[p] = t
      BY <2>3 DEF Goes, TypeOK
    <3>7. Sighted(p)'
      BY <3>1, <3>5, <3>6 DEF Sighted
    <3> QED BY <1>4, <1>5, <2>1, <2>3, <3>7, SightedStep
  <2>4. CASE \E rc, n : Exits(p, rc, n)
    BY <1>4, <1>5, <2>1, <2>4, SightedExits
  <2> QED BY <2>2, <2>3, <2>4
<1>12. CASE Zero(p)
  <2>1. s.pc = "zero" /\ Exits(p, "NO_ERROR", 0) /\ UNCHANGED db
        /\ disk' = [disk EXCEPT ![db] = <<>>]
    BY <1>12 DEF Zero, s
  <2>2. Db' = <<>>
    BY <1>1, <2>1 DEF Db, TypeOK
  <2>3. Len(Db') <= MaxId + 1
    BY <2>2
  <2> QED BY <1>3, <2>1, <2>3, SightedExits
<1>13. ~OpenTemp(p) /\ ~CopyRead(p) /\ ~CopyWrite(p) /\ ~Rename(p) /\ ~Reopen(p)
  BY <1>3 DEF OpenTemp, CopyRead, CopyWrite, Rename, Reopen, s
<1> QED BY <1>7, <1>8, <1>9, <1>10, <1>11, <1>12, <1>13 DEF Works

(* open_db() makes an empty file at most. *)
LEMMA RunFiles ==
  ASSUME TypeOK, NEW p \in Procs, Run(p) \/ RunFails(p)
  PROVE  Db' = Db
<1>1. CASE Run(p)
  <2>1. PICK i \in Inodes : \/ db = None /\ Creates(i) /\ db' = i
                            \/ UNCHANGED <<db, disk>>
    BY <1>1 DEF Run
  <2>2. i # None
    BY NotNone
  <2> QED BY <2>1, <2>2 DEF Creates, TypeOK, Db
<1>2. CASE RunFails(p)
  BY <1>2 DEF RunFails, fileVars, Db
<1> QED BY <1>1, <1>2

LEMMA SightedRun ==
  ASSUME TypeOK, PlaceInv, ScanInv, TableInv, AppendMode, NEW p \in Procs, Run(p) \/ RunFails(p)
  PROVE  TableInv'
<1>1. /\ proc[p] \in Process /\ proc[p].pc = "idle" /\ proc[p].off = 0 /\ proc[p].buf = 0
  BY DEF TypeOK, Run, RunFails, ScanInv, Working
<1>2. Db' = Db /\ Len(Db') <= MaxId + 1
  BY RunFiles DEF TableInv
<1>3. PICK j \in Job :
        \/ Goes(p, [proc[p] EXCEPT !.job = j])
        \/ Goes(p, [proc[p] EXCEPT !.job = j, !.pc = FirstStep[j.op], !.fd = db'])
  <2>1. CASE Run(p)
    BY <2>1 DEF Run, Rejected
  <2>2. CASE RunFails(p)
    BY <2>2 DEF RunFails, Rejected
  <2> QED BY <2>1, <2>2
<1>4. CASE Goes(p, [proc[p] EXCEPT !.job = j])
  <2> DEFINE s == [proc[p] EXCEPT !.job = j]
  <2>1. s.pc = "idle"
    BY <1>1 DEF Process
  <2> HIDE DEF s
  <2>2. Goes(p, s)
    BY <1>4 DEF s
  <2>3. proc'[p] = s
    BY <2>2 DEF Goes, TypeOK
  <2>4. Sighted(p)'
    BY <2>1, <2>3 DEF Sighted
  <2> QED BY <1>2, <2>2, <2>4, SightedStep
<1>5. CASE Goes(p, [proc[p] EXCEPT !.job = j, !.pc = FirstStep[j.op], !.fd = db'])
  <2> DEFINE s == [proc[p] EXCEPT !.job = j, !.pc = FirstStep[j.op], !.fd = db']
  <2>1. s.pc = FirstStep[j.op] /\ s.job = j /\ s.off = 0 /\ s.buf = 0
    BY <1>1 DEF Process
  <2> HIDE DEF s
  <2>2. Goes(p, s)
    BY <1>5 DEF s
  <2>3. proc'[p] = s
    BY <2>2 DEF Goes, TypeOK
  <2>4. Sighted(p)'
    BY <2>1, <2>3 DEF Sighted, FirstStep, Job, AllOps
  <2> QED BY <1>2, <2>2, <2>4, SightedStep
<1> QED BY <1>3, <1>4, <1>5

LEMMA OneWriterAppends == AppendMode => OneWriter
  BY DEF AppendMode, OneWriter

(***************************************************************************)
(* In AppendMode a process about to write has found the slot as it is      *)
(* still: free for add_student(), taken for del_student() (sdbsc.c:131-153 *)
(* and 180-199), and a scan has counted no more slots than it has read.    *)
(***************************************************************************)
THEOREM TableInvariant == ASSUME AppendMode PROVE Spec => []TableInv
<1>1. Init => TableInv
  BY DEF Init, TableInv, Sighted, Db, At
<1>2. TypeOK /\ PlaceInv /\ ScanInv /\ TableInv /\ [Next]_vars => TableInv'
  <2>1. ASSUME TypeOK, PlaceInv, ScanInv, TableInv, Next PROVE TableInv'
    <3>1. PICK p \in Procs : Run(p) \/ RunFails(p) \/ Works(p) \/ CallFails(p) \/ Killed(p)
      BY <2>1 DEF Next
    <3>2. CASE CallFails(p) \/ Killed(p)
      <4>1. PICK rc : Exits(p, rc, 0) /\ UNCHANGED <<db, disk>>
        BY <3>2 DEF CallFails, Killed, Fails, fileVars
      <4>2. Db' = Db /\ Len(Db') <= MaxId + 1
        BY <2>1, <4>1 DEF TableInv, Db
      <4> QED BY <2>1, <4>1, <4>2, SightedExits
    <3> QED BY <2>1, <3>1, <3>2, SightedRun, SightedWorks
  <2>2. ASSUME TableInv, UNCHANGED vars PROVE TableInv'
    BY <2>2 DEF TableInv, Sighted, Db, vars
  <2> QED BY <2>1, <2>2
<1>3. OneWriter
  BY OneWriterAppends
<1> QED BY <1>1, <1>2, <1>3, Typing, Placement, ScanInvariant, PTL DEF Spec

(* In a file with every student in place the set of ids is that of the taken slots. *)
TableOf(f) == {r \in Ids : \E i \in 1..Len(f) : f[i] = r}

LEMMA TableFacts ==
  ASSUME NEW f \in File, \A i \in 1..Len(f) : f[i] # 0 => f[i] = i - 1
  PROVE  /\ \A x \in Nat : x \in TableOf(f) <=> At(f, x) # 0
         /\ Cardinality(TableOf(f)) = Cardinality(Taken(f))
<1>1. Len(f) \in Nat /\ \A i \in 1..Len(f) : f[i] \in 0..MaxId
  BY FileFacts
<1>2. ASSUME NEW x \in Nat PROVE x \in TableOf(f) <=> At(f, x) # 0
  <2>1. ASSUME x \in TableOf(f) PROVE At(f, x) # 0
    <3>1. PICK i \in 1..Len(f) : f[i] = x /\ x \in Ids
      BY <2>1 DEF TableOf
    <3>2. x # 0 /\ x = i - 1
      BY <3>1 DEF Ids
    <3> QED BY <1>1, <3>1, <3>2 DEF At
  <2>2. ASSUME At(f, x) # 0 PROVE x \in TableOf(f)
    <3>1. x + 1 \in 1..Len(f) /\ f[x + 1] # 0
      BY <1>1, <2>2 DEF At
    <3>2. f[x + 1] = x
      BY <3>1
    <3>3. x \in Ids
      BY <1>1, <3>1, <3>2 DEF Ids
    <3> QED BY <3>1, <3>2, <3>3 DEF TableOf
  <2> QED BY <2>1, <2>2
<1>3. Cardinality(TableOf(f)) = Cardinality(Taken(f))
  <2> DEFINE b == [i \in Taken(f) |-> f[i]]
  <2>1. \A i \in Taken(f) : i \in 1..Len(f) /\ f[i] = i - 1 /\ f[i] \in TableOf(f)
    <3> SUFFICES ASSUME NEW i \in Taken(f)
                 PROVE  i \in 1..Len(f) /\ f[i] = i - 1 /\ f[i] \in TableOf(f)
      OBVIOUS
    <3>1. i \in 1..Len(f) /\ f[i] # 0 /\ f[i] = i - 1
      BY DEF Taken
    <3>2. f[i] \in Ids
      BY <1>1, <3>1 DEF Ids
    <3> QED BY <3>1, <3>2 DEF TableOf
  <2>2. b \in [Taken(f) -> TableOf(f)]
    BY <2>1
  <2>3. \A i, k \in Taken(f) : b[i] = b[k] => i = k
    BY <2>1
  <2>4. \A x \in TableOf(f) : \E i \in Taken(f) : b[i] = x
    <3> SUFFICES ASSUME NEW x \in TableOf(f) PROVE \E i \in Taken(f) : b[i] = x
      OBVIOUS
    <3>1. PICK i \in 1..Len(f) : f[i] = x /\ x \in Ids
      BY DEF TableOf
    <3>2. i \in Taken(f)
      BY <3>1 DEF Taken, Ids
    <3> QED BY <3>1, <3>2
  <2> HIDE DEF b
  <2>5. b \in Bijection(Taken(f), TableOf(f))
    <3>1. b \in Injection(Taken(f), TableOf(f))
      BY <2>2, <2>3 DEF Injection, IsInjective
    <3>2. b \in Surjection(Taken(f), TableOf(f))
      BY <2>2, <2>4 DEF Surjection
    <3> QED BY <3>1, <3>2 DEF Bijection
  <2>6. ExistsBijection(Taken(f), TableOf(f))
    BY <2>5 DEF ExistsBijection
  <2> QED BY <2>6, TakenFinite, FS_Bijection
<1> QED BY <1>2, <1>3

LEMMA TableNow ==
  ASSUME TypeOK, PlaceInv
  PROVE  /\ \A x \in Nat : x \in Table <=> At(Db, x) # 0
         /\ Cardinality(Table) = Cardinality(Taken(Db))
<1>1. PICK f \in File : f = Db
  BY DbType
<1>2. Table = TableOf(f)
  BY <1>1 DEF Table, TableOf
<1>3. \A i \in 1..Len(f) : f[i] # 0 => f[i] = i - 1
  BY <1>1 DEF PlaceInv, InPlace
<1> QED BY <1>1, <1>2, <1>3, TableFacts

LEMMA TableNext ==
  ASSUME TypeOK', PlaceInv', NEW j \in Job
  PROVE  /\ Db' \in File
         /\ \A x \in Nat : x \in Table' <=> At(Db', x) # 0
         /\ Cardinality(Table') = Cardinality(Taken(Db'))
<1>1. PICK f \in File : f = Db'
  BY AnswerNext
<1>2. Table' = TableOf(f)
  BY <1>1 DEF Table, TableOf
<1>3. \A i \in 1..Len(f) : f[i] # 0 => f[i] = i - 1
  BY <1>1 DEF PlaceInv, InPlace
<1> QED BY <1>1, <1>2, <1>3, TableFacts

-----------------------------------------------------------------------------
(* The steps of StudentTable. *)
LEMMA AbstractObserves ==
  ASSUME TypeOK, TypeOK', PlaceInv', ScanInv', Observed
  PROVE  Abstract!Observed
<1>1. ASSUME NEW p \in Procs
      PROVE  /\ Abstract!Looks(p)' <=> proc'[p].pc = "scan"
             /\ Abstract!Answer(proc[p].job)' = Answer(proc[p].job)'
  <2>1. /\ proc'[p].pc = "scan" => proc'[p].job.op \in {"c", "f"}
        /\ proc'[p].pc \notin {"idle", "scan"} => proc'[p].job.op \notin {"c", "f"}
    BY DEF ScanInv, Working
  <2>2. Abstract!Looks(p)' <=> proc'[p].pc # "idle" /\ proc'[p].job.op \in {"c", "f"}
    BY DEF Abstract!Looks
  <2>3. proc'[p].job \in Job
    BY DEF TypeOK, Process
  <2>4. Cardinality(Table') = Cardinality(Taken(Db'))
    BY <2>3, TableNext
  <2>5. Taken(Db') = {i \in 1..Len(Db) : Db[i] # 0}'
    BY DEF Taken
  <2>6. Abstract!Answer(proc[p].job)' = Answer(proc[p].job)'
    BY <2>4, <2>5 DEF Abstract!Answer, Answer
  <2> QED BY <2>1, <2>2, <2>6
<1> QED BY <1>1 DEF Observed, TypeOK, Abstract!Observed

(* While the file stays as it is the right answers are those that were seen already. *)
LEMMA SeenAlready ==
  ASSUME TypeOK, TypeOK', PlaceInv, ScanInv, Observed, Db' = Db,
         \A p \in Procs : proc'[p].pc = "scan" => proc[p].pc = "scan" /\ proc'[p].job = proc[p].job
  PROVE  seen' = seen
<1>1. ASSUME NEW p \in Procs, proc'[p].pc = "scan"
      PROVE  proc[p].pc = "scan" /\ Answer(proc[p].job)' \in seen[p]
  <2>1. proc[p].pc = "scan" /\ proc'[p].job = proc[p].job
    BY <1>1
  <2>2. proc[p].job \in Job /\ proc[p].fd = db /\ db # None
    BY <2>1, ReadyNow DEF TypeOK, Process, PlaceInv, Placed
  <2>3. AnswerIn(proc[p].job, Db) \in seen[p]
    BY <2>1, <2>2 DEF ScanInv, Scanning, Kept, Db
  <2>4. PICK j \in Job : j = proc[p].job
    BY <2>2
  <2>5. Answer(j)' = AnswerIn(j, Db')
    BY AnswerNext
  <2>6. Answer(proc[p].job)' = Answer(j)'
    BY <2>1, <2>4
  <2> QED BY <2>1, <2>3, <2>4, <2>5, <2>6
<1>2. \A p \in Procs : seen'[p] = seen[p]
  BY <1>1 DEF Observed
<1>3. seen \in [Procs -> SUBSET Nat] /\ seen' \in [Procs -> SUBSET Nat]
  BY DEF TypeOK
<1> QED BY <1>2, <1>3

(* A step that goes on changes nothing of StudentTable. *)
LEMMA AbstractStutters ==
  ASSUME TypeOK, TypeOK', PlaceInv, ScanInv, Observed, Db' = Db, UNCHANGED out,
         NEW p \in Procs, NEW t, Goes(p, t), proc[p].pc # "idle", t.pc # "idle",
         t.pc = "scan" => proc[p].pc = "scan", t.job = proc[p].job
  PROVE  UNCHANGED Abstract!vars
<1>1. proc'[p] = t /\ \A q \in Procs : q # p => proc'[q] = proc[q]
  BY DEF Goes, TypeOK
<1>2. seen' = seen
  BY <1>1, SeenAlready
<1>3. Table' = Table
  BY DEF Table
<1>4. [q \in Procs |-> proc[q].pc # "idle"]' = [q \in Procs |-> proc[q].pc # "idle"]
  BY <1>1
<1>5. [q \in Procs |-> proc[q].job]' = [q \in Procs |-> proc[q].job]
  BY <1>1
<1> QED BY <1>2, <1>3, <1>4, <1>5 DEF Abstract!vars

LEMMA AbstractEnds ==
  ASSUME TypeOK, NEW p \in Procs, NEW rc, NEW n, Exits(p, rc, n), proc[p].pc # "idle"
  PROVE  Abstract!Ends(p, rc, n)
<1> DEFINE s == [proc[p] EXCEPT !.pc = "idle", !.fd = None, !.off = 0, !.tfd = None,
                                !.toff = 0, !.buf = 0]
<1>1. proc[p] \in Process /\ Goes(p, s) /\ out' = [out EXCEPT ![p] = [rc |-> rc, n |-> n]]
  BY DEF TypeOK, Exits
<1>2. s.pc = "idle" /\ s.job = proc[p].job
  BY <1>1 DEF Process
<1> HIDE DEF s
<1>3. proc'[p] = s /\ \A q \in Procs : q # p => proc'[q] = proc[q]
  BY <1>1 DEF Goes, TypeOK
<1>4. [q \in Procs |-> proc[q].pc # "idle"]'
      = [[q \in Procs |-> proc[q].pc # "idle"] EXCEPT ![p] = FALSE]
  BY <1>2, <1>3
<1>5. [q \in Procs |-> proc[q].job]' = [q \in Procs |-> proc[q].job]
  BY <1>2, <1>3
<1> QED BY <1>1, <1>4, <1>5 DEF Abstract!Ends

LEMMA AbstractBegins ==
  ASSUME TypeOK, TypeOK', ScanInv, NEW p \in Procs, Run(p) \/ RunFails(p)
  PROVE  Abstract!Begin(p)
<1>1. Table' = Table
  BY RunFiles DEF Table
<1>2. proc[p] \in Process /\ proc[p].pc = "idle"
  BY DEF TypeOK, Run, RunFails
<1>3. PICK j \in Job :
        \/ /\ BadArgs(j) /\ Rejected(p, j, "EXIT_FAIL_ARGS")
        \/ Rejected(p, j, "ERR_DB_FILE")
        \/ /\ ~BadArgs(j) /\ UNCHANGED out
           /\ Goes(p, [proc[p] EXCEPT !.job = j, !.pc = FirstStep[j.op], !.fd = db'])
  <2>1. CASE Run(p)
    BY <2>1 DEF Run
  <2>2. CASE RunFails(p)
    BY <2>2 DEF RunFails
  <2> QED BY <2>1, <2>2
<1>4. j \in Abstract!Jobs
  BY DEF Job, AllOps, Abstract!Jobs
<1>5. BadArgs(j) <=> j.op = "a" /\ j.id \notin Abstract!Ids
  BY DEF BadArgs, Abstract!Ids, Job
<1>6. ~[q \in Procs |-> proc[q].pc # "idle"][p]
  BY <1>2
<1>7. ASSUME NEW rc, Rejected(p, j, rc)
      PROVE  /\ [q \in Procs |-> proc[q].job]' = [[q \in Procs |-> proc[q].job] EXCEPT ![p] = j]
             /\ UNCHANGED [q \in Procs |-> proc[q].pc # "idle"]
             /\ out' = [out EXCEPT ![p] = [rc |-> rc, n |-> 0]]
  <2> DEFINE s == [proc[p] EXCEPT !.job = j]
  <2>1. s.pc = "idle" /\ s.job = j
    BY <1>2 DEF Process
  <2>2. Goes(p, s)
    BY <1>7 DEF Rejected
  <2> HIDE DEF s
  <2>3. proc'[p] = s /\ \A q \in Procs : q # p => proc'[q] = proc[q]
    BY <2>2 DEF Goes, TypeOK
  <2>4. [q \in Procs |-> proc[q].job]' = [[q \in Procs |-> proc[q].job] EXCEPT ![p] = j]
    BY <2>1, <2>3
  <2>5. UNCHANGED [q \in Procs |-> proc[q].pc # "idle"]
    BY <1>2, <2>1, <2>3
  <2> QED BY <1>7, <2>4, <2>5 DEF Rejected
<1>8. CASE BadArgs(j) /\ Rejected(p, j, "EXIT_FAIL_ARGS")
  <2>1. "EXIT_FAIL_ARGS" \in {"ERR_DB_FILE"} \cup Abstract!Reject(j)
    BY <1>5, <1>8 DEF Abstract!Reject
  <2> QED BY <1>1, <1>4, <1>6, <1>7, <1>8, <2>1 DEF Abstract!Begin
<1>9. CASE Rejected(p, j, "ERR_DB_FILE")
  BY <1>1, <1>4, <1>6, <1>7, <1>9 DEF Abstract!Begin
<1>10. CASE /\ ~BadArgs(j) /\ UNCHANGED out
            /\ Goes(p, [proc[p] EXCEPT !.job = j, !.pc = FirstStep[j.op], !.fd = db'])
  <2> DEFINE s == [proc[p] EXCEPT !.job = j, !.pc = FirstStep[j.op], !.fd = db']
  <2>1. s.pc = FirstStep[j.op] /\ s.job = j
    BY <1>2 DEF Process
  <2>2. s.pc # "idle"
    BY <2>1 DEF FirstStep, Job, AllOps
  <2>3. Goes(p, s)
    BY <1>10
  <2> HIDE DEF s
  <2>4. proc'[p] = s /\ \A q \in Procs : q # p => proc'[q] = proc[q]
    BY <2>3 DEF Goes, TypeOK
  <2>5. [q \in Procs |-> proc[q].job]' = [[q \in Procs |-> proc[q].job] EXCEPT ![p] = j]
    BY <2>1, <2>4
  <2>6. [q \in Procs |-> proc[q].pc # "idle"]' = [[q \in Procs |-> proc[q].pc # "idle"] EXCEPT ![p] = TRUE]
    BY <2>2, <2>4
  <2>7. j.op = "a" => j.id \in Abstract!Ids
    BY <1>5, <1>10
  <2> QED BY <1>1, <1>4, <1>6, <1>10, <2>5, <2>6, <2>7 DEF Abstract!Begin
<1> QED BY <1>3, <1>8, <1>9, <1>10

(* What the slots hold after a write. *)
LEMMA AtPut ==
  ASSUME NEW f \in File, NEW o \in Nat, NEW r \in 0..MaxId, NEW x \in Nat
  PROVE  At(Put(f, o, r), x) = IF x = o THEN r ELSE At(f, x)
<1> DEFINE g == Put(f, o, r)
<1>1. Len(f) \in Nat
  BY FileFacts
<1>2. Len(g) = IF o < Len(f) THEN Len(f) ELSE o + 1
  BY PutType
<1>3. \A i \in 1..Len(g) : g[i] = IF i = o + 1 THEN r ELSE At(f, i - 1)
  BY PutType
<1> HIDE DEF g
<1>4. CASE x < Len(g)
  <2>1. x + 1 \in 1..Len(g) /\ (x + 1) - 1 = x /\ (x + 1 = o + 1 <=> x = o)
    BY <1>1, <1>2, <1>4
  <2>2. At(g, x) = g[x + 1]
    BY <1>4 DEF At
  <2> QED BY <1>3, <2>1, <2>2 DEF g
<1>5. CASE ~(x < Len(g))
  <2>1. At(g, x) = 0 /\ x # o /\ ~(x < Len(f))
    BY <1>1, <1>2, <1>5 DEF At
  <2> QED BY <2>1 DEF At, g
<1> QED BY <1>4, <1>5

LEMMA AbstractFinishes ==
  ASSUME TypeOK, TypeOK', PlaceInv, PlaceInv', ScanInv, ScanInv', TableInv, Observed,
         NEW p \in Procs, Works(p)
  PROVE  Abstract!Finish(p) \/ UNCHANGED Abstract!vars
<1> DEFINE s == proc[p]
           JobOf == [q \in Procs |-> proc[q].job]
<1>1. /\ s \in Process /\ s.job.id \in 0..(MaxId + 1) /\ s.off \in Nat /\ s.buf \in Nat
      /\ Placed(p) /\ Sighted(p) /\ Ready(s) /\ Working(p) /\ Scanning(p) /\ (s.pc # "idle" => db # None)
  BY ReadyNow DEF TypeOK, Process, Job, PlaceInv, TableInv, ScanInv
<1>2. s.pc # "idle" => s.fd = db /\ Db = disk[s.fd]
  BY <1>1 DEF Placed, Db
<1>3. s.pc \in {"idle", "scan", "add", "addwrite", "del", "delwrite", "zero"}
  BY <1>1 DEF Placed
<1>4. Db \in File /\ Len(Db) \in Nat /\ Len(Db) <= MaxId + 1
  BY DbType, FileFacts DEF TableInv
<1>5. JobOf[p] = s.job
  OBVIOUS
<1>6. s.job \in Job /\ s.job.id \in Nat
  BY <1>1 DEF Process
<1>7. /\ \A x \in Nat : x \in Table <=> At(Db, x) # 0
      /\ \A x \in Nat : x \in Table' <=> At(Db', x) # 0
  BY <1>6, TableNow, TableNext
<1>8. Table \subseteq Ids /\ Table' \subseteq Ids /\ Ids \subseteq Nat
  BY DEF Table, Ids
<1> HIDE DEF s, JobOf
<1>9. UNCHANGED <<db, disk>> => Db' = Db /\ Table' = Table
  BY DEF Db, Table
<1>10. ASSUME s.pc # "idle", NEW o \in Nat, NEW r, disk' = [disk EXCEPT ![s.fd] = Put(@, o, r)],
              UNCHANGED db
       PROVE  Db' = Put(Db, o, r)
  <2>1. s.fd = db /\ db # None /\ db \in Inodes
    BY <1>1, <1>2, <1>10 DEF TypeOK
  <2> QED BY <1>10, <2>1 DEF TypeOK, Db
<1>11. ASSUME NEW rc, NEW n, Exits(p, rc, n), s.pc # "idle" PROVE Abstract!Ends(p, rc, n)
  BY <1>11, AbstractEnds DEF s
<1>12. CASE AddRead(p)
  <2> DEFINE next == IF s.job.id < Len(disk[s.fd]) THEN s.job.id + 1 ELSE s.job.id
             t == [s EXCEPT !.pc = "addwrite", !.off = next]
  <2>1. s.pc = "add" /\ UNCHANGED <<db, disk>> /\ s.job.op = "a"
    BY <1>1, <1>12 DEF AddRead, fileVars, Sighted, s
  <2>2. CASE At(disk[s.fd], s.job.id) # 0
    <3>1. Exits(p, "ERR_DB_OP", 0)
      BY <1>12, <2>2 DEF AddRead, s
    <3>2. Abstract!Ends(p, "ERR_DB_OP", 0) /\ s.job.id \in Table /\ UNCHANGED Table
      BY <1>2, <1>6, <1>7, <1>9, <1>11, <2>1, <2>2, <3>1
    <3> QED BY <1>5, <2>1, <3>2 DEF Abstract!Finish, Abstract!Add, JobOf
  <2>3. CASE At(disk[s.fd], s.job.id) = 0
    <3>1. Goes(p, t) /\ UNCHANGED out
      BY <1>12, <2>3 DEF AddRead, s
    <3>2. t.pc = "addwrite" /\ t.job = s.job
      BY <1>1 DEF Process
    <3> HIDE DEF t
    <3> QED BY <1>9, <2>1, <3>1, <3>2, AbstractStutters DEF s
  <2> QED BY <2>2, <2>3
<1>13. CASE AddWrite(p)
  <2>1. s.pc = "addwrite" /\ Exits(p, "NO_ERROR", 0) /\ UNCHANGED db /\ s.job.op = "a"
        /\ disk' = [disk EXCEPT ![s.fd] = Put(@, s.off, s.job.id)]
    BY <1>1, <1>13 DEF AddWrite, Sighted, s
  <2>2. s.off = s.job.id /\ s.job.id \in Ids /\ s.job.id \in 0..MaxId /\ s.job.id # 0 /\ At(Db, s.job.id) = 0
    BY <1>1, <2>1 DEF Placed, Ready, Ids, Sighted, s
  <2>3. Db' = Put(Db, s.off, s.job.id)
    BY <1>1, <1>10, <2>1
  <2>4. \A x \in Nat : At(Db', x) = IF x = s.job.id THEN s.job.id ELSE At(Db, x)
    BY <1>4, <1>6, <2>2, <2>3, AtPut
  <2>5. Table' = Table \cup {s.job.id}
    BY <1>6, <1>7, <1>8, <2>2, <2>4
  <2>6. s.job.id \notin Table /\ Abstract!Ends(p, "NO_ERROR", 0)
    BY <1>6, <1>7, <1>11, <2>1, <2>2
  <2> QED BY <1>5, <2>1, <2>5, <2>6 DEF Abstract!Finish, Abstract!Add, JobOf
<1>14. CASE DelRead(p)
  <2> DEFINE t == [s EXCEPT !.pc = "delwrite"]
  <2>1. s.pc = "del" /\ UNCHANGED <<db, disk>> /\ s.job.op = "d"
    BY <1>1, <1>14 DEF DelRead, fileVars, Sighted, s
  <2>2. CASE At(disk[s.fd], s.job.id) = 0
    <3>1. Exits(p, "ERR_DB_OP", 0)
      BY <1>14, <2>2 DEF DelRead, s
    <3>2. Abstract!Ends(p, "ERR_DB_OP", 0) /\ s.job.id \notin Table /\ UNCHANGED Table
      BY <1>2, <1>6, <1>7, <1>9, <1>11, <2>1, <2>2, <3>1
    <3> QED BY <1>5, <2>1, <3>2 DEF Abstract!Finish, Abstract!Delete, JobOf
  <2>3. CASE At(disk[s.fd], s.job.id) # 0
    <3>1. Goes(p, t) /\ UNCHANGED out
      BY <1>14, <2>3 DEF DelRead, s
    <3>2. t.pc = "delwrite" /\ t.job = s.job
      BY <1>1 DEF Process
    <3> HIDE DEF t
    <3> QED BY <1>9, <2>1, <3>1, <3>2, AbstractStutters DEF s
  <2> QED BY <2>2, <2>3
<1>15. CASE DelWrite(p)
  <2>1. s.pc = "delwrite" /\ Exits(p, "NO_ERROR", 0) /\ UNCHANGED db /\ s.job.op = "d"
        /\ disk' = [disk EXCEPT ![s.fd] = Put(@, s.job.id, 0)]
    BY <1>1, <1>15 DEF DelWrite, Sighted, s
  <2>2. At(Db, s.job.id) # 0 /\ 0 \in 0..MaxId
    BY <1>1, <2>1 DEF Sighted, s
  <2>3. Db' = Put(Db, s.job.id, 0)
    BY <1>6, <1>10, <2>1
  <2>4. \A x \in Nat : At(Db', x) = IF x = s.job.id THEN 0 ELSE At(Db, x)
    BY <1>4, <1>6, <2>2, <2>3, AtPut
  <2>5. Table' = Table \ {s.job.id}
    BY <1>6, <1>7, <1>8, <2>2, <2>4
  <2>6. s.job.id \in Table /\ Abstract!Ends(p, "NO_ERROR", 0)
    BY <1>6, <1>7, <1>11, <2>1, <2>2
  <2> QED BY <1>5, <2>1, <2>5, <2>6 DEF Abstract!Finish, Abstract!Delete, JobOf
<1>16. CASE Scan(p)
  <2> DEFINE b == IF s.job.op = "c" /\ At(Db, s.off) # 0 THEN s.buf + 1 ELSE s.buf
             t == [s EXCEPT !.off = s.off + 1, !.buf = b]
  <2>1. s.pc = "scan" /\ UNCHANGED <<db, disk>> /\ s.job.op \in {"c", "f"}
    BY <1>1, <1>16 DEF Scan, fileVars, s, Working
  <2>2. UNCHANGED Table
    BY <1>9, <2>1
  <2>3. Kept(s.job, s.off, s.buf, seen[p], Db)
    BY <1>1, <1>2, <2>1 DEF Scanning, s
  <2>4. CASE s.off >= Len(Db)
    <3>1. /\ s.job.op = "f" => 0 \in seen[p]
          /\ s.job.op = "c" => \A a \in seen[p] : seen[p] = {a} => s.buf = a
      BY <1>1, <1>4, <1>6, <2>3, <2>4, KeptToEnd
    <3>2. CASE s.job.op = "f"
      <4>1. Exits(p, "SRCH_NOT_FOUND", 0)
        BY <1>2, <1>16, <2>1, <2>4, <3>2 DEF Scan, s
      <4>2. Abstract!Ends(p, "SRCH_NOT_FOUND", 0)
        BY <1>11, <2>1, <4>1
      <4> QED BY <1>5, <2>2, <3>1, <3>2, <4>2 DEF Abstract!Finish, Abstract!Find, JobOf
    <3>3. CASE s.job.op = "c"
      <4>1. Exits(p, "NO_ERROR", s.buf)
        BY <1>2, <1>16, <2>1, <2>4, <3>3 DEF Scan, s
      <4>2. PICK n : n = s.buf
        OBVIOUS
      <4>3. Abstract!Ends(p, "NO_ERROR", n)
        BY <1>11, <2>1, <4>1, <4>2
      <4>4. n \in 0..MaxId
        <5>1. (s.off = 0 /\ s.buf = 0) \/ (s.buf < s.off /\ s.off <= MaxId + 1)
          BY <1>1, <2>1 DEF Sighted, s
        <5> QED BY <1>1, <4>2, <5>1
      <4>5. \A m \in seen[p] : seen[p] = {m} => n = m
        BY <3>1, <3>3, <4>2
      <4>6. Abstract!Count(p)
        BY <1>5, <2>2, <3>3, <4>3, <4>4, <4>5 DEF Abstract!Count, JobOf
      <4> QED BY <4>6 DEF Abstract!Finish
    <3> QED BY <2>1, <3>2, <3>3
  <2>5. CASE s.off < Len(Db) /\ s.job.op = "f" /\ Found(Db, s.off + 1, s.job.id)
    <3>1. ~(s.off >= Len(Db))
      BY <1>1, <1>4, <2>5
    <3>2. Exits(p, "NO_ERROR", 0)
      BY <1>2, <1>16, <2>1, <2>5, <3>1 DEF Scan, At, Found, s
    <3>3. 1 \in seen[p]
      BY <1>1, <1>4, <1>6, <2>3, <2>5, KeptFinds
    <3>4. Abstract!Ends(p, "NO_ERROR", 0)
      BY <1>11, <2>1, <3>2
    <3> QED BY <1>5, <2>2, <2>5, <3>3, <3>4 DEF Abstract!Finish, Abstract!Find, JobOf
  <2>6. CASE s.off < Len(Db) /\ (s.job.op = "f" => ~Found(Db, s.off + 1, s.job.id))
    <3>1. ~(s.off >= Len(Db))
      BY <1>1, <1>4, <2>6
    <3>2. Goes(p, t) /\ UNCHANGED out
      BY <1>2, <1>16, <2>1, <2>6, <3>1 DEF Scan, At, Found, s
    <3>3. t.pc = "scan" /\ t.job = s.job
      BY <1>1, <2>1 DEF Process
    <3> HIDE DEF t
    <3> QED BY <1>9, <2>1, <3>2, <3>3, AbstractStutters DEF s
  <2> QED BY <1>1, <1>4, <2>4, <2>5, <2>6
<1>17. CASE Zero(p)
  <2>1. s.pc = "zero" /\ Exits(p, "NO_ERROR", 0) /\ UNCHANGED db /\ s.job.op = "z"
        /\ disk' = [disk EXCEPT ![db] = <<>>]
    BY <1>1, <1>17 DEF Zero, Sighted, s
  <2>2. Db' = <<>>
    BY <1>1, <2>1 DEF Db, TypeOK
  <2>3. Table' = {}
    BY <2>2 DEF Table
  <2>4. Abstract!Ends(p, "NO_ERROR", 0)
    BY <1>11, <2>1
  <2> QED BY <1>5, <2>1, <2>3, <2>4 DEF Abstract!Finish, Abstract!Clear, JobOf
<1>18. ~OpenTemp(p) /\ ~CopyRead(p) /\ ~CopyWrite(p) /\ ~Rename(p) /\ ~Reopen(p)
  BY <1>3 DEF OpenTemp, CopyRead, CopyWrite, Rename, Reopen, s
<1> QED BY <1>12, <1>13, <1>14, <1>15, <1>16, <1>17, <1>18 DEF Works

LEMMA AbstractFails ==
  ASSUME TypeOK, NEW p \in Procs, CallFails(p) \/ Killed(p)
  PROVE  Abstract!Finish(p)
<1>1. PICK rc \in {"ERR_DB_FILE", "killed"} : Exits(p, rc, 0) /\ UNCHANGED <<db, disk>>
  BY DEF CallFails, Killed, Fails, fileVars
<1>2. proc[p].pc # "idle"
  BY DEF CallFails, Killed
<1>3. Abstract!Ends(p, rc, 0)
  BY <1>1, <1>2, AbstractEnds
<1>4. Table' = Table
  BY <1>1 DEF Table, Db
<1> QED BY <1>3, <1>4 DEF Abstract!Finish, Abstract!Fail

(***************************************************************************)
(* In AppendMode, for any number of terminals, students, failing calls and *)
(* killed processes, the file is a set of ids (StudentTable): -a, -d and   *)
(* -z change it in one step, the write(); -f and -c report what was so     *)
(* while they ran; a command that fails or is killed changes nothing.      *)
(***************************************************************************)
THEOREM TableImplemented ==
  ASSUME AppendMode
  PROVE  Spec => Abstract!Init /\ [][Abstract!Next]_(Abstract!vars)
<1>1. Init => Abstract!Init
  <2> SUFFICES ASSUME Init PROVE Abstract!Init
    OBVIOUS
  <2>1. Table = {}
    BY DEF Init, Table, Db
  <2> QED BY <2>1 DEF Init, Abstract!Init
<1>2. /\ TypeOK /\ PlaceInv /\ ScanInv /\ TableInv
      /\ TypeOK' /\ PlaceInv' /\ ScanInv' /\ [Next]_vars
      => [Abstract!Next]_(Abstract!vars)
  <2>1. ASSUME TypeOK, PlaceInv, ScanInv, TableInv, TypeOK', PlaceInv', ScanInv', Next
        PROVE  Abstract!Next \/ UNCHANGED Abstract!vars
    <3>1. PICK p \in Procs : Run(p) \/ RunFails(p) \/ Works(p) \/ CallFails(p) \/ Killed(p)
      BY <2>1 DEF Next
    <3>2. Observed
      BY <2>1 DEF Next
    <3>3. Abstract!Observed
      BY <2>1, <3>2, AbstractObserves
    <3>4. Abstract!Begin(p) \/ Abstract!Finish(p) \/ UNCHANGED Abstract!vars
      BY <2>1, <3>1, <3>2, AbstractBegins, AbstractFinishes, AbstractFails
    <3> QED BY <3>3, <3>4 DEF Abstract!Next
  <2>2. ASSUME UNCHANGED vars PROVE UNCHANGED Abstract!vars
    BY <2>2 DEF vars, Abstract!vars, Table, Db
  <2> QED BY <2>1, <2>2
<1>3. OneWriter
  BY OneWriterAppends
<1> QED BY <1>1, <1>2, <1>3, Typing, Placement, ScanInvariant, TableInvariant, PTL DEF Spec

-----------------------------------------------------------------------------
(***************************************************************************)
(* Compression.  RecordsUpTo is defined by recursion on the slots; that it *)
(* is what its definition says, and what it is of a file without empty     *)
(* slots, is shown by taking the least slot where it is not.               *)
(***************************************************************************)
LEMMA LeastNumber ==
  ASSUME NEW T, T \subseteq Nat, T # {}
  PROVE  \E x \in T : \A y \in T : ~(y < x)
<1> DEFINE R == OpToRel(<, Nat)
<1>1. IsWellFoundedOn(R, Nat)
  BY NatLessThanWellFounded
<1>2. \E x \in T : \A y \in T : <<y, x>> \notin R
  <2> HIDE DEF R
  <2> QED BY <1>1, WFMin
<1>3. \A x, y \in Nat : y < x => <<y, x>> \in R
  BY DEF OpToRel
<1> QED BY <1>2, <1>3

(* One round of compress_db()'s loop: what is kept of slots 1..n given what is of 1..(n-1). *)
NextKept(f, F, n) == IF n = 0 THEN <<>> ELSE IF f[n] = 0 THEN F[n - 1] ELSE Append(F[n - 1], f[n])

(* RecordsUpTo(f) is what its definition says: there is such a function. *)
LEMMA RecordsDefined ==
  ASSUME NEW f, Len(f) \in Nat
  PROVE  RecordsUpTo(f) = [n \in 0..Len(f) |-> NextKept(f, RecordsUpTo(f), n)]
<1> DEFINE L == Len(f)
           T == {m \in 0..L : ~\E F : DOMAIN F = 0..L /\ \A n \in 0..m : F[n] = NextKept(f, F, n)}
<1>1. L \in Nat
  OBVIOUS
<1> HIDE DEF L
<1>2. T = {}
  <2> SUFFICES ASSUME T # {} PROVE FALSE
    OBVIOUS
  <2>1. PICK m \in T : \A l \in T : ~(l < m)
    <3>1. T \subseteq Nat
      BY <1>1
    <3> HIDE DEF T
    <3> QED BY <3>1, LeastNumber
  <2>2. m \in 0..L /\ m \in Nat
    BY <1>1
  <2>3. CASE m = 0
    <3> DEFINE F == [n \in 0..L |-> <<>>]
    <3>1. DOMAIN F = 0..L /\ \A n \in 0..m : F[n] = NextKept(f, F, n)
      BY <2>2, <2>3 DEF NextKept
    <3> QED BY <3>1
  <2>4. CASE m > 0
    <3>1. m - 1 \in 0..L /\ m - 1 < m
      BY <1>1, <2>2, <2>4
    <3>2. m - 1 \notin T
      BY <2>1, <3>1
    <3>3. PICK G : DOMAIN G = 0..L /\ \A n \in 0..(m - 1) : G[n] = NextKept(f, G, n)
      BY <3>1, <3>2
    <3> DEFINE F == [n \in 0..L |-> IF n = m THEN NextKept(f, G, m) ELSE G[n]]
    <3>4. DOMAIN F = 0..L /\ F[m] = NextKept(f, G, m) /\ \A n \in 0..L : n # m => F[n] = G[n]
      BY <2>2
    <3> HIDE DEF F
    <3>5. ASSUME NEW n \in 0..m PROVE F[n] = NextKept(f, F, n)
      <4>1. n = 0 \/ (n - 1 \in 0..L /\ n - 1 # m)
        BY <1>1, <2>2
      <4>2. NextKept(f, F, n) = NextKept(f, G, n)
        BY <3>4, <4>1 DEF NextKept
      <4>3. CASE n = m
        BY <3>4, <4>2, <4>3
      <4>4. CASE n # m
        <5>1. n \in 0..L /\ n \in 0..(m - 1)
          BY <1>1, <2>2, <4>4
        <5> QED BY <3>3, <3>4, <4>2, <4>4, <5>1
      <4> QED BY <4>3, <4>4
    <3> QED BY <3>4, <3>5
  <2> QED BY <2>2, <2>3, <2>4
<1>3. \E F : DOMAIN F = 0..L /\ \A n \in 0..L : F[n] = NextKept(f, F, n)
  <2>1. L \in 0..L
    BY <1>1
  <2> QED BY <1>2, <2>1
<1>4. \E F : F = [n \in 0..L |-> NextKept(f, F, n)]
  <2>1. PICK G : \A n \in 0..L : G[n] = NextKept(f, G, n)
    BY <1>3
  <2> DEFINE F == [n \in 0..L |-> NextKept(f, G, n)]
  <2>2. \A n \in 0..L : F[n] = G[n]
    BY <2>1
  <2>3. ASSUME NEW n \in 0..L PROVE NextKept(f, F, n) = NextKept(f, G, n)
    <3>1. n = 0 \/ n - 1 \in 0..L
      BY <1>1
    <3> HIDE DEF F
    <3> QED BY <2>2, <3>1 DEF NextKept
  <2>4. F = [n \in 0..L |-> NextKept(f, F, n)]
    <3> DEFINE H == [n \in 0..L |-> NextKept(f, F, n)]
    <3>1. \A n \in 0..L : H[n] = F[n]
      BY <2>3
    <3>2. DOMAIN H = DOMAIN F /\ H = [n \in DOMAIN H |-> H[n]] /\ F = [n \in DOMAIN F |-> F[n]]
      OBVIOUS
    <3> QED BY <3>1, <3>2
  <2> QED BY <2>4
<1>5. RecordsUpTo(f) = CHOOSE F : F = [n \in 0..L |-> NextKept(f, F, n)]
  BY DEF RecordsUpTo, NextKept, L
<1> QED BY <1>4, <1>5 DEF L

LEMMA RecordsStep ==
  ASSUME NEW f \in File
  PROVE  /\ RecordsUpTo(f)[0] = <<>>
         /\ \A n \in 1..Len(f) : RecordsUpTo(f)[n] = IF f[n] = 0 THEN RecordsUpTo(f)[n - 1]
                                                     ELSE Append(RecordsUpTo(f)[n - 1], f[n])
<1>1. Len(f) \in Nat
  BY FileFacts
<1>2. \A n \in 0..Len(f) : RecordsUpTo(f)[n] = NextKept(f, RecordsUpTo(f), n)
  BY <1>1, RecordsDefined
<1>3. 0 \in 0..Len(f) /\ \A n \in 1..Len(f) : n \in 0..Len(f) /\ n # 0
  BY <1>1
<1> QED BY <1>2, <1>3 DEF NextKept

(* What is kept is no empty slot. *)
LEMMA RecordsType ==
  ASSUME NEW f \in File
  PROVE  \A n \in 0..Len(f) : RecordsUpTo(f)[n] \in Seq(Ids)
<1> DEFINE R == RecordsUpTo(f)
           T == {n \in 0..Len(f) : R[n] \notin Seq(Ids)}
<1>1. Len(f) \in Nat /\ \A i \in 1..Len(f) : f[i] \in 0..MaxId
  BY FileFacts
<1>2. R[0] = <<>> /\ \A n \in 1..Len(f) : R[n] = IF f[n] = 0 THEN R[n - 1] ELSE Append(R[n - 1], f[n])
  BY RecordsStep
<1>3. SUFFICES ASSUME T # {} PROVE FALSE
  OBVIOUS
<1> HIDE DEF R
<1>4. PICK n \in T : \A m \in T : ~(m < n)
  <2>1. T \subseteq Nat
    BY <1>1
  <2> HIDE DEF T
  <2> QED BY <1>3, <2>1, LeastNumber
<1>5. CASE n = 0
  <2>1. <<>> \in Seq(Ids)
    OBVIOUS
  <2> QED BY <1>2, <1>4, <1>5, <2>1
<1>6. CASE n # 0
  <2>1. n \in 1..Len(f) /\ n - 1 \in 0..Len(f) /\ n - 1 < n
    BY <1>1, <1>4, <1>6
  <2>2. R[n - 1] \in Seq(Ids)
    BY <1>4, <2>1
  <2>3. f[n] = 0 \/ f[n] \in Ids
    BY <1>1, <2>1 DEF Ids
  <2>4. R[n] \in Seq(Ids)
    <3>1. \A t \in Seq(Ids), e \in Ids : Append(t, e) \in Seq(Ids)
      OBVIOUS
    <3> QED BY <1>2, <2>1, <2>2, <2>3, <3>1
  <2> QED BY <1>4, <2>4
<1> QED BY <1>5, <1>6

(* A file without empty slots has nothing else. *)
LEMMA RecordsOfPacked ==
  ASSUME NEW f \in Seq(Ids)
  PROVE  Records(f) = f
<1>1. f \in File /\ Len(f) \in Nat
  BY DEF File, Ids
<1> DEFINE R == RecordsUpTo(f)
           T == {n \in 0..Len(f) : R[n] # SubSeq(f, 1, n)}
<1>2. R[0] = <<>> /\ \A n \in 1..Len(f) : R[n] = IF f[n] = 0 THEN R[n - 1] ELSE Append(R[n - 1], f[n])
  BY <1>1, RecordsStep
<1>3. SubSeq(f, 1, Len(f)) = f
  OBVIOUS
<1>4. T = {}
  <2> HIDE DEF R
  <2> SUFFICES ASSUME T # {} PROVE FALSE
    OBVIOUS
  <2>1. PICK n \in T : \A m \in T : ~(m < n)
    <3>1. T \subseteq Nat
      BY <1>1
    <3> HIDE DEF T
    <3> QED BY <3>1, LeastNumber
  <2>2. CASE n = 0
    <3>1. SubSeq(f, 1, 0) = <<>>
      OBVIOUS
    <3> QED BY <1>2, <2>1, <2>2, <3>1
  <2>3. CASE n # 0
    <3>1. n \in 1..Len(f) /\ n - 1 \in 0..Len(f) /\ n - 1 < n
      BY <1>1, <2>1, <2>3
    <3>2. R[n - 1] = SubSeq(f, 1, n - 1)
      BY <2>1, <3>1
    <3>3. f[n] # 0
      BY <3>1 DEF Ids
    <3>4. Append(SubSeq(f, 1, n - 1), f[n]) = SubSeq(f, 1, n)
      BY <1>1, <3>1
    <3> QED BY <1>2, <2>1, <3>1, <3>2, <3>3, <3>4
  <2> QED BY <2>2, <2>3
<1>5. Len(f) \in 0..Len(f)
  BY <1>1
<1> QED BY <1>3, <1>4, <1>5 DEF Records

-----------------------------------------------------------------------------
(* What compress_db() has copied: the records among the slots read, one slot being in   *)
(* the buffer between read() and write().                                               *)
Copied(p) ==
  LET s == proc[p] IN
  /\ s.pc \in {"copy", "copywrite", "rename"} => tmp # None /\ s.off <= Len(Db)
  /\ s.pc \in {"copy", "copywrite"} => s.toff = Len(disk[tmp])
  /\ s.pc \in {"copy", "rename"} => disk[tmp] = RecordsUpTo(Db)[s.off]
  /\ s.pc = "copywrite" => /\ s.off >= 1 /\ s.buf = Db[s.off] /\ s.buf # 0
                           /\ disk[tmp] = RecordsUpTo(Db)[s.off - 1]

(* Inductive, with TypeOK and ScanInv, when there is one writer. *)
CopyInv == \A p \in Procs : Copied(p)

(* A process that compresses is not disturbed by the steps of another. *)
LEMMA OthersCopied ==
  ASSUME TypeOK, ScanInv, CopyInv, OneWriter, NEW p \in Procs, NEW s, Goes(p, s),
         UNCHANGED <<db, tmp, disk>> \/ p \in Modifiers \/ db = None,
         NEW q \in Procs, q # p
  PROVE  Copied(q)'
<1>1. proc'[q] = proc[q] /\ Working(q) /\ Copied(q)
  BY DEF Goes, TypeOK, ScanInv, CopyInv
<1>2. CASE UNCHANGED <<db, tmp, disk>>
  BY <1>1, <1>2 DEF Copied, Db
<1>3. CASE p \in Modifiers
  <2>1. proc[q].pc \in {"idle", "scan"}
    BY <1>1, <1>3 DEF Working, OneWriter
  <2> QED BY <1>1, <2>1 DEF Copied
<1>4. CASE db = None
  <2>1. proc[q].pc = "idle"
    BY <1>4, ReadyNow
  <2> QED BY <1>1, <2>1 DEF Copied
<1> QED BY <1>2, <1>3, <1>4

LEMMA CopyIdle ==
  ASSUME TypeOK, NEW p \in Procs, NEW rc, NEW n, Exits(p, rc, n)
  PROVE  Copied(p)' /\ \E s : Goes(p, s)
<1>1. proc[p] \in Process
  BY DEF TypeOK
<1>2. proc'[p].pc = "idle"
  BY <1>1 DEF Exits, Goes, TypeOK, Process
<1> QED BY <1>2 DEF Copied, Exits

LEMMA CopyRun ==
  ASSUME TypeOK, ScanInv, CopyInv, OneWriter, NEW p \in Procs, Run(p) \/ RunFails(p)
  PROVE  CopyInv'
<1>1. proc[p] \in Process /\ proc[p].pc = "idle"
  BY DEF TypeOK, Run, RunFails
<1>2. PICK s : Goes(p, s) /\ s.pc \notin {"copy", "copywrite", "rename"}
  <2>1. ASSUME NEW j, NEW rc, Rejected(p, j, rc)
        PROVE  \E s : Goes(p, s) /\ s.pc \notin {"copy", "copywrite", "rename"}
    <3>1. [proc[p] EXCEPT !.job = j].pc = "idle"
      BY <1>1 DEF Process
    <3> QED BY <2>1, <3>1 DEF Rejected
  <2>2. ASSUME NEW j \in Job, NEW i, Goes(p, [proc[p] EXCEPT !.job = j, !.pc = FirstStep[j.op], !.fd = i])
        PROVE  \E s : Goes(p, s) /\ s.pc \notin {"copy", "copywrite", "rename"}
    <3>1. FirstStep[j.op] \notin {"copy", "copywrite", "rename"}
      BY DEF FirstStep, Job, AllOps
    <3>2. [proc[p] EXCEPT !.job = j, !.pc = FirstStep[j.op], !.fd = i].pc = FirstStep[j.op]
      BY <1>1 DEF Process
    <3> QED BY <2>2, <3>1, <3>2
  <2> QED BY <2>1, <2>2 DEF Run, RunFails
<1>3. proc'[p] = s
  BY <1>2 DEF Goes, TypeOK
<1>4. Copied(p)'
  BY <1>2, <1>3 DEF Copied
<1>5. UNCHANGED <<db, tmp, disk>> \/ db = None
  BY DEF Run, RunFails, fileVars
<1> QED BY <1>2, <1>4, <1>5, OthersCopied DEF CopyInv

LEMMA CopyWorks ==
  ASSUME TypeOK, TypeOK', ScanInv, ScanInv', CopyInv, OneWriter, NEW p \in Procs, Works(p)
  PROVE  CopyInv'
<1> DEFINE s == proc[p]
<1>1. /\ s \in Process /\ s.off \in Nat /\ s.toff \in Nat /\ s.buf \in Nat /\ s.pc # "idle"
      /\ Working(p) /\ Ready(s) /\ db # None /\ Copied(p)
  <2>1. s.pc # "idle"
    BY DEF Works, AddRead, AddWrite, DelRead, DelWrite, Scan, Zero, OpenTemp, CopyRead, CopyWrite, Rename, Reopen
  <2> QED BY <2>1, ReadyNow DEF TypeOK, Process, ScanInv, CopyInv
<1>2. Db \in File /\ Len(Db) \in Nat /\ Db = disk[db]
  BY <1>1, DbType, FileFacts DEF Db
<1>3. UNCHANGED <<db, tmp, disk>> \/ p \in Modifiers
  BY <1>1 DEF Works, AddRead, AddWrite, DelRead, DelWrite, Scan, Zero, OpenTemp, CopyRead, CopyWrite, Rename, Reopen,
              Working, fileVars
<1>4. ASSUME NEW t, Goes(p, t), Copied(p)' PROVE CopyInv'
  BY <1>3, <1>4, OthersCopied DEF CopyInv
<1>5. ASSUME NEW rc, NEW n, Exits(p, rc, n) PROVE CopyInv'
  BY <1>4, <1>5, CopyIdle
<1>6. ASSUME NEW t, Goes(p, t), t.pc \notin {"copy", "copywrite", "rename"} PROVE CopyInv'
  <2>1. proc'[p] = t
    BY <1>6 DEF Goes, TypeOK
  <2> QED BY <1>4, <1>6, <2>1 DEF Copied
<1>7. CASE AddRead(p)
  <2>1. [s EXCEPT !.pc = "addwrite", !.off = 0].pc = "addwrite" /\ \A o : [s EXCEPT !.pc = "addwrite", !.off = o].pc = "addwrite"
    BY <1>1 DEF Process
  <2> QED BY <1>5, <1>6, <1>7, <2>1 DEF AddRead
<1>8. CASE DelRead(p)
  <2>1. [s EXCEPT !.pc = "delwrite"].pc = "delwrite"
    BY <1>1 DEF Process
  <2> QED BY <1>5, <1>6, <1>8, <2>1 DEF DelRead
<1>9. CASE AddWrite(p) \/ DelWrite(p) \/ Zero(p) \/ Reopen(p)
  BY <1>5, <1>9 DEF AddWrite, DelWrite, Zero, Reopen
<1>10. CASE Scan(p)
  <2>1. s.pc = "scan"
    BY <1>10 DEF Scan
  <2>2. \A o, b : [s EXCEPT !.off = o, !.buf = b].pc = "scan"
    BY <1>1, <2>1 DEF Process
  <2> QED BY <1>5, <1>6, <1>10, <2>2 DEF Scan
<1>11. CASE OpenTemp(p)
  <2>1. PICK i \in Inodes : /\ \/ tmp = None /\ Creates(i)
                               \/ tmp = i /\ disk' = [disk EXCEPT ![i] = <<>>]
                            /\ tmp' = i /\ s.pc = "temp" /\ UNCHANGED db
                            /\ Goes(p, [s EXCEPT !.pc = "copy", !.tfd = i])
    BY <1>11 DEF OpenTemp
  <2> DEFINE t == [s EXCEPT !.pc = "copy", !.tfd = i]
  <2>2. t.pc = "copy" /\ t.off = 0 /\ t.toff = 0
    BY <1>1, <2>1 DEF Process, Working
  <2>3. Goes(p, t)
    BY <2>1
  <2> HIDE DEF t
  <2>4. proc'[p] = t
    BY <2>3 DEF Goes, TypeOK
  <2>5. disk'[i] = <<>> /\ i # None /\ i # db
    <3>1. disk'[i] = <<>>
      BY <2>1 DEF Creates, TypeOK
    <3> QED BY <2>1, <3>1, NotNone DEF ScanInv
  <2>6. Db' = Db
    <3>1. \A l : disk' = [disk EXCEPT ![i] = l] => disk'[db] = disk[db]
      BY <2>5
    <3>2. disk'[db] = disk[db]
      BY <2>1, <3>1 DEF Creates
    <3> QED BY <1>1, <2>1, <3>2 DEF Db
  <2>7. RecordsUpTo(Db)[0] = <<>>
    BY <1>2, RecordsStep
  <2>8. Copied(p)'
    BY <1>2, <2>1, <2>2, <2>4, <2>5, <2>6, <2>7 DEF Copied
  <2> QED BY <1>4, <2>3, <2>8
<1>12. CASE CopyRead(p)
  <2>1. s.pc = "copy" /\ s.fd = db /\ UNCHANGED <<db, tmp, disk>>
    BY <1>1, <1>12 DEF CopyRead, Working, fileVars
  <2>2. Db' = Db
    BY <2>1 DEF Db
  <2>3. tmp # None /\ s.off <= Len(Db) /\ s.toff = Len(disk[tmp]) /\ disk[tmp] = RecordsUpTo(Db)[s.off]
    BY <1>1, <2>1 DEF Copied
  <2> DEFINE r == At(Db, s.off)
  <2>4. CASE s.off < Len(Db) /\ Goes(p, [s EXCEPT !.off = @ + 1, !.buf = r, !.pc = IF r = 0 THEN "copy" ELSE "copywrite"])
    <3> DEFINE t == [s EXCEPT !.off = @ + 1, !.buf = r, !.pc = IF r = 0 THEN "copy" ELSE "copywrite"]
    <3>1. /\ t.off = s.off + 1 /\ t.buf = r /\ t.pc = (IF r = 0 THEN "copy" ELSE "copywrite")
          /\ t.toff = s.toff
      BY <1>1 DEF Process
    <3>2. Goes(p, t)
      BY <2>4
    <3> HIDE DEF t
    <3>3. proc'[p] = t
      BY <3>2 DEF Goes, TypeOK
    <3>4. r = Db[s.off + 1] /\ s.off + 1 \in 1..Len(Db) /\ (s.off + 1) - 1 = s.off
      BY <1>1, <1>2, <2>4 DEF At
    <3>5. RecordsUpTo(Db)[s.off + 1] = IF r = 0 THEN RecordsUpTo(Db)[s.off] ELSE Append(RecordsUpTo(Db)[s.off], r)
      BY <1>2, <3>4, RecordsStep
    <3> HIDE DEF r
    <3>6. Copied(p)'
      <4>0. s.off + 1 <= Len(Db) /\ s.off + 1 >= 1
        BY <1>1, <1>2, <3>4
      <4>1. CASE r = 0
        BY <2>1, <2>2, <2>3, <3>1, <3>3, <3>5, <4>0, <4>1 DEF Copied
      <4>2. CASE r # 0
        BY <2>1, <2>2, <2>3, <3>1, <3>3, <3>4, <4>0, <4>2 DEF Copied
      <4> QED BY <4>1, <4>2
    <3> QED BY <1>4, <3>2, <3>6
  <2>5. CASE Goes(p, [s EXCEPT !.pc = "rename", !.fd = None, !.tfd = None])
    <3> DEFINE t == [s EXCEPT !.pc = "rename", !.fd = None, !.tfd = None]
    <3>1. t.off = s.off /\ t.pc = "rename"
      BY <1>1 DEF Process
    <3>2. Goes(p, t)
      BY <2>5
    <3> HIDE DEF t
    <3>3. proc'[p] = t
      BY <3>2 DEF Goes, TypeOK
    <3>4. Copied(p)'
      BY <2>1, <2>2, <2>3, <3>1, <3>3 DEF Copied
    <3> QED BY <1>4, <3>2, <3>4
  <2> QED BY <1>1, <1>2, <1>12, <2>1, <2>4, <2>5 DEF CopyRead
<1>13. CASE CopyWrite(p)
  <2>1. /\ s.pc = "copywrite" /\ s.fd = db /\ s.tfd = tmp /\ UNCHANGED <<db, tmp>>
        /\ disk' = [disk EXCEPT ![tmp] = Put(disk[tmp], s.toff, s.buf)]
        /\ Goes(p, [s EXCEPT !.pc = "copy", !.toff = @ + 1])
    BY <1>1, <1>13 DEF CopyWrite, Working
  <2>2. /\ tmp # None /\ tmp # db /\ s.off <= Len(Db) /\ s.toff = Len(disk[tmp]) /\ s.off >= 1
        /\ s.buf = Db[s.off] /\ s.buf # 0 /\ disk[tmp] = RecordsUpTo(Db)[s.off - 1]
    BY <1>1, <2>1 DEF Copied, ScanInv
  <2>3. tmp \in Inodes /\ disk[tmp] \in File
    BY <2>2 DEF TypeOK, File
  <2>4. disk'[tmp] = Append(disk[tmp], s.buf) /\ Len(disk'[tmp]) = s.toff + 1
    <3>1. disk'[tmp] = Put(disk[tmp], s.toff, s.buf)
      BY <2>1, <2>3 DEF TypeOK
    <3>2. \A f \in File : Put(f, Len(f), s.buf) = Append(f, s.buf)
      <4> TAKE f \in File
      <4>1. Len(f) \in Nat /\ f = [i \in 1..Len(f) |-> f[i]]
        BY FileFacts DEF File
      <4>2. Put(f, Len(f), s.buf) = [i \in 1..(Len(f) + 1) |-> IF i = Len(f) + 1 THEN s.buf ELSE f[i]]
        BY <4>1 DEF Put, At
      <4> QED BY <4>1, <4>2 DEF File
    <3>3. Len(Append(disk[tmp], s.buf)) = Len(disk[tmp]) + 1
      BY <2>3 DEF File
    <3> QED BY <2>2, <2>3, <3>1, <3>2, <3>3
  <2>5. Db' = Db
    BY <1>1, <2>1, <2>2 DEF Db
  <2>6. RecordsUpTo(Db)[s.off] = Append(RecordsUpTo(Db)[s.off - 1], s.buf)
    <3>1. s.off \in 1..Len(Db)
      BY <1>1, <1>2, <2>2
    <3> QED BY <1>2, <2>2, <3>1, RecordsStep
  <2> DEFINE t == [s EXCEPT !.pc = "copy", !.toff = @ + 1]
  <2>7. t.pc = "copy" /\ t.off = s.off /\ t.toff = s.toff + 1
    BY <1>1 DEF Process
  <2>8. Goes(p, t)
    BY <2>1
  <2> HIDE DEF t
  <2>9. proc'[p] = t
    BY <2>8 DEF Goes, TypeOK
  <2>10. Copied(p)'
    BY <2>1, <2>2, <2>4, <2>5, <2>6, <2>7, <2>9 DEF Copied
  <2> QED BY <1>4, <2>8, <2>10
<1>14. CASE Rename(p)
  <2>1. [s EXCEPT !.pc = "reopen"].pc = "reopen"
    BY <1>1 DEF Process
  <2> QED BY <1>5, <1>6, <1>14, <2>1 DEF Rename
<1> QED BY <1>7, <1>8, <1>9, <1>10, <1>11, <1>12, <1>13, <1>14 DEF Works

LEMMA CopyStep == ASSUME OneWriter PROVE TypeOK /\ TypeOK' /\ ScanInv /\ ScanInv' /\ CopyInv /\ [Next]_vars => CopyInv'
<1>1. ASSUME TypeOK, TypeOK', ScanInv, ScanInv', CopyInv, Next PROVE CopyInv'
  <2>1. PICK p \in Procs : Run(p) \/ RunFails(p) \/ Works(p) \/ CallFails(p) \/ Killed(p)
    BY <1>1 DEF Next
  <2>2. CASE CallFails(p) \/ Killed(p)
    <3>1. PICK rc : Exits(p, rc, 0) /\ UNCHANGED <<db, tmp, disk>>
      BY <2>2 DEF CallFails, Killed, Fails, fileVars
    <3>2. Copied(p)' /\ \E s : Goes(p, s)
      BY <1>1, <3>1, CopyIdle
    <3> QED BY <1>1, <3>1, <3>2, OthersCopied DEF CopyInv
  <2> QED BY <1>1, <2>1, <2>2, CopyRun, CopyWorks
<1>2. ASSUME CopyInv, UNCHANGED vars PROVE CopyInv'
  BY <1>2 DEF CopyInv, Copied, Db, vars
<1> QED BY <1>1, <1>2

(* With one modifying terminal, and whatever has been killed or failed before: the      *)
(* temporary file of compress_db() holds the records among the slots it has read,        *)
(* in their order (sdbsc.c:432-473).                                                     *)
THEOREM CopyInvariant == ASSUME OneWriter PROVE Spec => []CopyInv
<1>1. Init => CopyInv
  BY DEF Init, CopyInv, Copied
<1> QED BY <1>1, CopyStep, Typing, ScanInvariant, PTL DEF Spec

(* CompressKeeps: the file that takes the name student.db holds exactly the records of   *)
(* the slots read, as the old one has them at that moment and in their order, for any     *)
(* number of slots and of readers, also when a read() has failed (sdbsc.c:447).           *)
THEOREM RecordsKept == ASSUME OneWriter PROVE Spec => CompressKeeps
<1> DEFINE A == \A p \in Procs : proc[p].pc = "rename" /\ proc'[p].pc = "reopen"
                                 => Records(Db') = RecordsUpTo(Db)[proc[p].off]
<1>1. TypeOK /\ CopyInv /\ [Next]_vars => [A]_vars
  <2> SUFFICES ASSUME TypeOK, CopyInv, Next, NEW p \in Procs,
                      proc[p].pc = "rename", proc'[p].pc = "reopen"
               PROVE  Records(Db') = RecordsUpTo(Db)[proc[p].off]
    OBVIOUS
  <2>1. Db \in File /\ Len(Db) \in Nat /\ proc[p].off \in Nat
    BY DbType, FileFacts DEF TypeOK, Process
  <2> DEFINE kept == RecordsUpTo(Db)[proc[p].off]
  <2>2. tmp # None /\ proc[p].off <= Len(Db) /\ disk[tmp] = kept
    BY DEF CopyInv, Copied
  <2>3. Rename(p)
    <3>1. PICK q \in Procs : Run(q) \/ RunFails(q) \/ Works(q) \/ CallFails(q) \/ Killed(q)
      BY DEF Next
    <3>2. ASSUME NEW s, Goes(q, s) PROVE q = p /\ s.pc = "reopen"
      BY <3>2 DEF Goes, TypeOK
    <3>3. ASSUME NEW rc, NEW n, Exits(q, rc, n) PROVE FALSE
      <4>1. proc[q] \in Process
        BY DEF TypeOK
      <4>2. [proc[q] EXCEPT !.pc = "idle", !.fd = None, !.off = 0, !.tfd = None, !.toff = 0, !.buf = 0].pc = "idle"
        BY <4>1 DEF Process
      <4> QED BY <3>2, <3>3, <4>2 DEF Exits
    <3>4. q = p
      <4>1. \E s : Goes(q, s)
        BY <3>1 DEF Run, RunFails, Rejected, Works, CallFails, Killed, Fails, Exits, AddRead, AddWrite, DelRead,
                    DelWrite, Scan, Zero, OpenTemp, CopyRead, CopyWrite, Rename, Reopen
      <4> QED BY <3>2, <4>1
    <3>5. ~CallFails(q) /\ ~Killed(q)
      BY <3>3 DEF CallFails, Killed, Fails
    <3> QED BY <3>1, <3>4, <3>5 DEF Run, RunFails, Works, AddRead, AddWrite, DelRead, DelWrite, Scan, Zero,
                                    OpenTemp, CopyRead, CopyWrite, Reopen
  <2>4. db' = tmp /\ UNCHANGED disk
    BY <2>2, <2>3 DEF Rename
  <2>5. Db' = kept
    BY <2>2, <2>4 DEF Db
  <2>6. kept \in Seq(Ids)
    <3>1. proc[p].off \in 0..Len(Db)
      BY <2>1, <2>2
    <3> QED BY <2>1, <3>1, RecordsType
  <2> QED BY <2>5, <2>6, RecordsOfPacked
<1> QED BY <1>1, Typing, CopyInvariant, PTL DEF Spec, CompressKeeps
=============================================================================
