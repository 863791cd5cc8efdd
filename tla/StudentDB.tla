------------------------------ MODULE StudentDB ------------------------------
(***************************************************************************)
(* The student database of assignments/2-StudentDB/submission/sdbsc.c: any *)
(* number of sdbsc processes working on one file of fixed-size slots, one  *)
(* system call per step.                                                   *)
(*                                                                         *)
(* A student record is its id; 0 is a record of zero bytes, a deleted      *)
(* student or a hole of the sparse file.  A file is the sequence of its    *)
(* slots: slot k, the bytes from k * STUDENT_RECORD_SIZE, is element k+1.  *)
(* A descriptor names an inode, so that a process keeps the file it opened *)
(* when compress_db() renames another one over it.                         *)
(***************************************************************************)
EXTENDS Naturals, Sequences, FiniteSets

CONSTANTS
  Procs,      \* the terminals sdbsc is run from, one command at a time on each
  Modifiers,  \* those that also run -a, -d, -x and -z
  Ops,        \* the options used, a subset of a, c, d, f, x, z
  MaxId,      \* MAX_STD_ID
  Refill,     \* FALSE: nobody adds a student into an empty slot inside the file
  Inodes,     \* the inodes available to the two file names
  Faults,     \* the system calls that may fail
  MaxFaults,  \* bound: failing calls and killed processes
  MaxRuns     \* bound: commands run

AllOps == {"a", "c", "d", "f", "x", "z"}

ASSUME ProcsAssumption == IsFiniteSet(Procs) /\ Modifiers \subseteq Procs
ASSUME OpsAssumption == Ops \subseteq AllOps /\ Refill \in BOOLEAN
ASSUME IdAssumption == MaxId \in Nat \ {0}
ASSUME InodeAssumption == Inodes \subseteq Nat \ {0}
ASSUME FaultAssumption == Faults \subseteq {"open", "read", "write", "rename"}
ASSUME BoundAssumption == MaxFaults \in Nat /\ MaxRuns \in Nat

None == 0
Ids == 1..MaxId

VARIABLES
  db, tmp,   \* the inode of student.db and of .tmp_student.db, or None
  disk,      \* disk[i]: the slots of inode i
  proc,      \* proc[p]: the process at terminal p
  out,       \* out[p]: how the last command of p ended, and what it counted
  seen,      \* seen[p]: what a correct answer to p has been since it started
  runs, faults

fileVars == <<db, tmp, disk>>
vars == <<db, tmp, disk, proc, out, seen, runs, faults>>

Job == [op : AllOps, id : 0..(MaxId + 1)]
PCs == {"idle", "add", "addwrite", "del", "delwrite", "scan", "zero",
        "temp", "copy", "copywrite", "rename", "reopen"}
(* fd, off: the database file; tfd, toff: the temporary file; buf: the record  *)
(* last read, or the number of records counted so far.                         *)
Process == [pc : PCs, job : Job, fd : Inodes \cup {None}, off : Nat,
            tfd : Inodes \cup {None}, toff : Nat, buf : Nat]
Codes == {"none", "NO_ERROR", "ERR_DB_FILE", "ERR_DB_OP", "SRCH_NOT_FOUND",
          "EXIT_FAIL_ARGS", "killed"}

(* read() at slot o returns nothing at the end of the file: the buffer stays 0. *)
At(f, o) == IF o < Len(f) THEN f[o + 1] ELSE 0
(* write() at slot o; beyond the end it leaves a hole of zeroes. *)
Put(f, o, r) ==
  [i \in 1..(IF o < Len(f) THEN Len(f) ELSE o + 1) |-> IF i = o + 1 THEN r ELSE At(f, i - 1)]

Db == IF db = None THEN <<>> ELSE disk[db]
(* The records among the first n slots of f, and all of them. *)
RecordsUpTo(f) ==
  LET kept[n \in 0..Len(f)] ==
        IF n = 0 THEN <<>> ELSE IF f[n] = 0 THEN kept[n - 1] ELSE Append(kept[n - 1], f[n])
  IN kept
Records(f) == RecordsUpTo(f)[Len(f)]
Table == {r \in Ids : \E i \in 1..Len(Db) : Db[i] = r}

Unused == {i \in Inodes : /\ i \notin {db, tmp}
                          /\ \A p \in Procs : i \notin {proc[p].fd, proc[p].tfd}}
(* open() with O_CREAT made a new, empty file with inode i. *)
Creates(i) ==
  /\ i \in Unused /\ \A j \in Unused : i <= j
  /\ disk' = [disk EXCEPT ![i] = <<>>]

Goes(p, step) == proc' = [proc EXCEPT ![p] = step]
(* main() closes the file and exits. *)
Exits(p, rc, n) ==
  /\ Goes(p, [proc[p] EXCEPT !.pc = "idle", !.fd = None, !.off = 0, !.tfd = None,
                             !.toff = 0, !.buf = 0])
  /\ out' = [out EXCEPT ![p] = [rc |-> rc, n |-> n]]

-----------------------------------------------------------------------------
(***************************************************************************)
(* main(): the command line, and open_db() before anything is looked at.   *)
(***************************************************************************)
FirstStep == [a |-> "add", c |-> "scan", d |-> "del", f |-> "scan", x |-> "temp",
              z |-> "zero"]

(* Mutant: validate_range() is off by one. *)
BadArgsLate(j) == j.op = "a" /\ ~(1 <= j.id /\ j.id <= MaxId + 1)

(* validate_range() guards -a only. *)
BadArgs(j) == j.op = "a" /\ ~(1 <= j.id /\ j.id <= MaxId)

(* A command a user may type. *)
Typed(p, j) ==
  /\ j.op \in Ops /\ (p \notin Modifiers => j.op \in {"c", "f"})
  /\ (j.op \in {"c", "x", "z"} => j.id = 0)
  /\ (j.op = "a" /\ ~Refill => j.id >= Len(Db) \/ At(Db, j.id) # 0)

(* The command ends in main(), before any operation. *)
Rejected(p, j, rc) ==
  /\ Goes(p, [proc[p] EXCEPT !.job = j])
  /\ out' = [out EXCEPT ![p] = [rc |-> rc, n |-> 0]]

Run(p) ==
  /\ proc[p].pc = "idle" /\ runs < MaxRuns
  /\ runs' = runs + 1
  /\ \E j \in Job, i \in Inodes :
       /\ Typed(p, j)
       /\ \/ db = None /\ Creates(i) /\ db' = i
          \/ db = i /\ UNCHANGED <<db, disk>>
       /\ IF BadArgs(j)
          THEN Rejected(p, j, "EXIT_FAIL_ARGS")
          ELSE /\ Goes(p, [proc[p] EXCEPT !.job = j, !.pc = FirstStep[j.op], !.fd = i])
               /\ UNCHANGED out
  /\ UNCHANGED <<tmp, faults>>

(* open_db() fails. *)
RunFails(p) ==
  /\ proc[p].pc = "idle" /\ runs < MaxRuns
  /\ runs' = runs + 1
  /\ "open" \in Faults /\ faults < MaxFaults
  /\ faults' = faults + 1
  /\ \E j \in Job : Typed(p, j) /\ Rejected(p, j, "ERR_DB_FILE")
  /\ UNCHANGED fileVars

(* A system call fails and the function returns ERR_DB_FILE. *)
Fails(p, call) ==
  /\ call \in Faults /\ faults < MaxFaults
  /\ faults' = faults + 1
  /\ Exits(p, "ERR_DB_FILE", 0)
  /\ UNCHANGED fileVars

-----------------------------------------------------------------------------
(***************************************************************************)
(* add_student() and del_student().                                        *)
(***************************************************************************)
(* Mutant: the slot is computed from id - 1. *)
AddReadShifted(p) ==
  LET s == proc[p]
      slot == s.job.id - 1
      r == At(disk[s.fd], slot)
      next == IF slot < Len(disk[s.fd]) THEN slot + 1 ELSE slot
  IN /\ s.pc = "add"
     /\ IF r # 0 THEN Exits(p, "ERR_DB_OP", 0)
                 ELSE Goes(p, [s EXCEPT !.pc = "addwrite", !.off = next]) /\ UNCHANGED out
     /\ UNCHANGED <<fileVars, faults>>

(* Mutant: the slot is looked up, and then read again. *)
AddReadTwice(p) ==
  LET s == proc[p]
      slot == s.job.id
      r == At(disk[s.fd], slot)
      next == IF slot < Len(disk[s.fd]) THEN slot + 2 ELSE slot
  IN /\ s.pc = "add"
     /\ IF r # 0 THEN Exits(p, "ERR_DB_OP", 0)
                 ELSE Goes(p, [s EXCEPT !.pc = "addwrite", !.off = next]) /\ UNCHANGED out
     /\ UNCHANGED <<fileVars, faults>>

(* lseek() and read(); the file offset moves on when there was something to read. *)
AddRead(p) ==
  LET s == proc[p]
      slot == s.job.id
      r == At(disk[s.fd], slot)
      next == IF slot < Len(disk[s.fd]) THEN slot + 1 ELSE slot
  IN /\ s.pc = "add"
     /\ IF r # 0 THEN Exits(p, "ERR_DB_OP", 0)
                 ELSE Goes(p, [s EXCEPT !.pc = "addwrite", !.off = next]) /\ UNCHANGED out
     /\ UNCHANGED <<fileVars, faults>>

(* write() where the offset is now. *)
AddWrite(p) ==
  LET s == proc[p]
  IN /\ s.pc = "addwrite"
     /\ disk' = [disk EXCEPT ![s.fd] = Put(@, s.off, s.job.id)]
     /\ Exits(p, "NO_ERROR", 0)
     /\ UNCHANGED <<db, tmp, faults>>

DelRead(p) ==
  LET s == proc[p]
  IN /\ s.pc = "del"
     /\ IF At(disk[s.fd], s.job.id) = 0
        THEN Exits(p, "ERR_DB_OP", 0)
        ELSE Goes(p, [s EXCEPT !.pc = "delwrite"]) /\ UNCHANGED out
     /\ UNCHANGED <<fileVars, faults>>

(* Mutant: the second lseek() is missing, the empty record lands one slot on. *)
DelWriteOneOn(p) ==
  LET s == proc[p]
  IN /\ s.pc = "delwrite"
     /\ disk' = [disk EXCEPT ![s.fd] = Put(@, s.job.id + 1, 0)]
     /\ Exits(p, "NO_ERROR", 0)
     /\ UNCHANGED <<db, tmp, faults>>

(* lseek() back and write() of EMPTY_STUDENT_RECORD. *)
DelWrite(p) ==
  LET s == proc[p]
  IN /\ s.pc = "delwrite"
     /\ disk' = [disk EXCEPT ![s.fd] = Put(@, s.job.id, 0)]
     /\ Exits(p, "NO_ERROR", 0)
     /\ UNCHANGED <<db, tmp, faults>>

-----------------------------------------------------------------------------
(***************************************************************************)
(* get_student() and count_db_records(); print_db() reads the file as the  *)
(* latter does.  main() turns the count into an exit code.                 *)
(***************************************************************************)
(* Mutant: an empty slot ends the scan. *)
ScanToHole(p) ==
  LET s == proc[p]
      r == At(disk[s.fd], s.off)
  IN /\ s.pc = "scan"
     /\ IF s.off >= Len(disk[s.fd]) \/ (r = 0 /\ s.off > 0)
        THEN IF s.job.op = "f" THEN Exits(p, "SRCH_NOT_FOUND", 0)
                               ELSE Exits(p, "NO_ERROR", s.buf)
        ELSE IF s.job.op = "f" /\ r # 0 /\ r = s.job.id
        THEN Exits(p, "NO_ERROR", 0)
        ELSE /\ Goes(p, [s EXCEPT !.off = @ + 1,
                                  !.buf = IF s.job.op = "c" /\ r # 0 THEN @ + 1 ELSE @])
             /\ UNCHANGED out
     /\ UNCHANGED <<fileVars, faults>>

(* One read() of the loop. *)
Scan(p) ==
  LET s == proc[p]
      r == At(disk[s.fd], s.off)
  IN /\ s.pc = "scan"
     /\ IF s.off >= Len(disk[s.fd])
        THEN IF s.job.op = "f" THEN Exits(p, "SRCH_NOT_FOUND", 0)
                               ELSE Exits(p, "NO_ERROR", s.buf)
        ELSE IF s.job.op = "f" /\ r # 0 /\ r = s.job.id
        THEN Exits(p, "NO_ERROR", 0)
        ELSE /\ Goes(p, [s EXCEPT !.off = @ + 1,
                                  !.buf = IF s.job.op = "c" /\ r # 0 THEN @ + 1 ELSE @])
             /\ UNCHANGED out
     /\ UNCHANGED <<fileVars, faults>>

(* -z: close(), then open_db() with O_TRUNC. *)
Zero(p) ==
  /\ proc[p].pc = "zero"
  /\ disk' = [disk EXCEPT ![db] = <<>>]
  /\ Exits(p, "NO_ERROR", 0)
  /\ UNCHANGED <<db, tmp, faults>>

-----------------------------------------------------------------------------
(***************************************************************************)
(* compress_db().                                                          *)
(***************************************************************************)
(* Mutant: the temporary file is not truncated. *)
OpenTempAsIs(p) ==
  /\ proc[p].pc = "temp"
  /\ \E i \in Inodes :
       /\ \/ tmp = None /\ Creates(i)
          \/ tmp = i /\ UNCHANGED disk
       /\ tmp' = i
       /\ Goes(p, [proc[p] EXCEPT !.pc = "copy", !.tfd = i])
  /\ UNCHANGED <<db, out, faults>>

(* open() of TMP_DB_FILE with O_CREAT | O_TRUNC. *)
OpenTemp(p) ==
  /\ proc[p].pc = "temp"
  /\ \E i \in Inodes :
       /\ \/ tmp = None /\ Creates(i)
          \/ tmp = i /\ disk' = [disk EXCEPT ![i] = <<>>]
       /\ tmp' = i
       /\ Goes(p, [proc[p] EXCEPT !.pc = "copy", !.tfd = i])
  /\ UNCHANGED <<db, out, faults>>

(* read(): the loop ends at the end of the file, and on an error as well. *)
CopyRead(p) ==
  LET s == proc[p]
      r == At(disk[s.fd], s.off)
      ended == s.off >= Len(disk[s.fd])
  IN /\ s.pc = "copy"
     /\ \/ /\ ~ended
           /\ Goes(p, [s EXCEPT !.off = @ + 1, !.buf = r,
                                !.pc = IF r = 0 THEN "copy" ELSE "copywrite"])
           /\ UNCHANGED faults
        \/ /\ \/ ended /\ UNCHANGED faults
              \/ "read" \in Faults /\ faults < MaxFaults /\ faults' = faults + 1
           /\ Goes(p, [s EXCEPT !.pc = "rename", !.fd = None, !.tfd = None])
     /\ UNCHANGED <<fileVars, out>>

CopyWrite(p) ==
  LET s == proc[p]
  IN /\ s.pc = "copywrite"
     /\ disk' = [disk EXCEPT ![s.tfd] = Put(@, s.toff, s.buf)]
     /\ Goes(p, [s EXCEPT !.pc = "copy", !.toff = @ + 1])
     /\ UNCHANGED <<db, tmp, out, faults>>

(* rename(): it fails when another process has already renamed the file. *)
Rename(p) ==
  /\ proc[p].pc = "rename"
  /\ IF tmp # None
     THEN /\ db' = tmp /\ tmp' = None
          /\ Goes(p, [proc[p] EXCEPT !.pc = "reopen"])
          /\ UNCHANGED <<disk, out>>
     ELSE Exits(p, "ERR_DB_FILE", 0) /\ UNCHANGED fileVars
  /\ UNCHANGED faults

Reopen(p) ==
  /\ proc[p].pc = "reopen"
  /\ Exits(p, "NO_ERROR", 0)
  /\ UNCHANGED <<fileVars, faults>>

-----------------------------------------------------------------------------
(* The call each step begins with. *)
CallFails(p) ==
  \/ proc[p].pc \in {"add", "del", "scan"} /\ Fails(p, "read")
  \/ proc[p].pc \in {"addwrite", "delwrite", "copywrite"} /\ Fails(p, "write")
  \/ proc[p].pc \in {"zero", "temp", "reopen"} /\ Fails(p, "open")
  \/ proc[p].pc = "rename" /\ Fails(p, "rename")

(* The process is killed between two system calls. *)
Killed(p) ==
  /\ proc[p].pc # "idle" /\ faults < MaxFaults
  /\ faults' = faults + 1
  /\ Exits(p, "killed", 0)
  /\ UNCHANGED fileVars

Works(p) ==
  \/ AddRead(p) \/ AddWrite(p) \/ DelRead(p) \/ DelWrite(p) \/ Scan(p) \/ Zero(p)
  \/ OpenTemp(p) \/ CopyRead(p) \/ CopyWrite(p) \/ Rename(p) \/ Reopen(p)

(* What a command that looks into the database should answer at this moment. *)
Answer(j) == CASE j.op = "f" -> IF j.id \in Table THEN 1 ELSE 0
               [] j.op = "c" -> Cardinality({i \in 1..Len(Db) : Db[i] # 0})
               [] OTHER -> 0
(* The history variable; no process reads it. *)
Observed ==
  seen' = [p \in Procs |->
             IF proc'[p].pc # "scan" THEN seen[p]
             ELSE (IF proc[p].pc = "idle" THEN {} ELSE seen[p]) \cup {Answer(proc[p].job)'}]

Init ==
  /\ db = None /\ tmp = None /\ disk = [i \in Inodes |-> <<>>]
  /\ proc = [p \in Procs |-> [pc |-> "idle", job |-> [op |-> "c", id |-> 0], fd |-> None,
                              off |-> 0, tfd |-> None, toff |-> 0, buf |-> 0]]
  /\ out = [p \in Procs |-> [rc |-> "none", n |-> 0]]
  /\ seen = [p \in Procs |-> {}]
  /\ runs = 0 /\ faults = 0

Next ==
  /\ \E p \in Procs :
       \/ Run(p) \/ RunFails(p)
       \/ (Works(p) \/ CallFails(p) \/ Killed(p)) /\ UNCHANGED runs
  /\ Observed

Spec == Init /\ [][Next]_vars

(* A process that runs is scheduled; nobody has to type a command or kill one. *)
FairSpec == Spec /\ \A p \in Procs : WF_vars(Works(p) /\ UNCHANGED runs /\ Observed)
-----------------------------------------------------------------------------
(* A process has what its next step works on. *)
Equipped(p) ==
  LET s == proc[p] IN
  /\ s.pc # "idle" => db # None
  /\ s.pc \notin {"idle", "rename", "reopen"} => s.fd # None
  /\ s.pc \in {"copy", "copywrite"} => s.tfd # None
  /\ s.pc \in {"add", "addwrite"} => s.job.id \in Ids
  /\ s.pc = "copywrite" => s.buf \in Ids

(* The module's typing invariant: every process works with open descriptors and *)
(* ids in range, whatever the others renamed or truncated.                      *)
TypeOK ==
  /\ db \in Inodes \cup {None} /\ tmp \in Inodes \cup {None}
  /\ disk \in [Inodes -> Seq(0..MaxId)]
  /\ proc \in [Procs -> Process]
  /\ out \in [Procs -> [rc : Codes, n : Nat]]
  /\ seen \in [Procs -> SUBSET Nat]
  /\ runs \in Nat /\ faults \in Nat
  /\ \A p \in Procs : Equipped(p)

(* Student x is in slot x of the file, "starting at byte x * sizeof(student_t)" *)
(* (a2-directions.md:73), where -a and -d look for it.  As long as a student is *)
(* added only past the end or where one is already: into an empty slot inside   *)
(* the file add_student() writes where its read() has left the offset, one slot *)
(* on (sdbsc.c:131-146).                                                        *)
InPlace == \A i \in 1..Len(Db) : Db[i] # 0 => Db[i] = i - 1

(* Whatever is added, by however many terminals at once, deleted, compressed,   *)
(* killed or failing: no student is further than one slot beyond its own, and   *)
(* none is before its own unless somebody compressed the file.  So an add hits  *)
(* at worst a neighbour's slot.                                                 *)
Near(f) == \A i \in 1..Len(f) : f[i] # 0 => i <= f[i] + 2 /\ ("x" \notin Ops => f[i] < i)
NearPlace == Near(Db)

(* When a new file takes the name student.db it holds exactly the records among the *)
(* slots that have been read, in their order, as the old file has them at that moment: *)
(* whatever was killed or failed before, and with all of them unless a read() failed,  *)
(* which compress_db() takes for the end of the file (sdbsc.c:432-473).                 *)
CompressKeeps ==
  [][\A p \in Procs :
       proc[p].pc = "rename" /\ proc'[p].pc = "reopen"
       => Records(Db') = RecordsUpTo(Db)[proc[p].off]]_vars

(* The answer on p's terminal, when it has one, was true while p looked. *)
Told(p) ==
  LET rc == out[p].rc IN
  /\ proc[p].job.op = "f" /\ rc = "NO_ERROR" => 1 \in seen[p]
  /\ proc[p].job.op = "f" /\ rc = "SRCH_NOT_FOUND" => 0 \in seen[p]
  /\ proc[p].job.op = "c" /\ rc = "NO_ERROR" =>
       \A n \in seen[p] : seen[p] = {n} => out[p].n = n

(* What -f and -c report was true at some moment while they ran, whatever was  *)
(* added, deleted or renamed meanwhile; the count is exact when it was steady   *)
(* (get_student, sdbsc.c:63-95; count_db_records, sdbsc.c:242-271).             *)
Truthful == \A p \in Procs : proc[p].pc = "idle" => Told(p)

(* While students are added past the end of the file only and nobody compresses, *)
(* the file is a set of ids on which every command acts at one instant, and every *)
(* command ends.                                                                  *)
Abstract == INSTANCE StudentTable WITH
              table <- Table,
              busy <- [p \in Procs |-> proc[p].pc # "idle"],
              job <- [p \in Procs |-> proc[p].job]
ImplementsTable == Abstract!FairSpec
=============================================================================
