----------------------------- MODULE StudentTable ----------------------------
(***************************************************************************)
(* What sdbsc promises its users: a set of student ids that -a, -d and -z  *)
(* change in one step each, and of which -f and -c report something that   *)
(* was true while they ran.                                                *)
(***************************************************************************)
EXTENDS Naturals, FiniteSets

CONSTANTS Procs, MaxId

VARIABLES
  table,  \* the ids of the students in the database
  busy,   \* busy[p]: a command runs at terminal p
  job,    \* job[p]: the last command of p, [op, id]
  out,    \* out[p]: how it ended, [rc, n]
  seen    \* seen[p]: the right answers to it since it started

vars == <<table, busy, job, out, seen>>

Ids == 1..MaxId
Jobs == [op : {"a", "c", "d", "f", "x", "z"}, id : 0..(MaxId + 1)]
Answer(j) == CASE j.op = "f" -> IF j.id \in table THEN 1 ELSE 0
               [] j.op = "c" -> Cardinality(table)
               [] OTHER -> 0

Ends(p, rc, n) ==
  /\ busy[p]
  /\ busy' = [busy EXCEPT ![p] = FALSE]
  /\ out' = [out EXCEPT ![p] = [rc |-> rc, n |-> n]]
  /\ UNCHANGED job

Reject(j) == IF j.op = "a" /\ j.id \notin Ids THEN {"EXIT_FAIL_ARGS"} ELSE {}
Begin(p) ==
  /\ ~busy[p]
  /\ \E j \in Jobs :
       /\ job' = [job EXCEPT ![p] = j]
       /\ \/ /\ j.op = "a" => j.id \in Ids
             /\ busy' = [busy EXCEPT ![p] = TRUE]
             /\ UNCHANGED out
          \/ /\ \E rc \in {"ERR_DB_FILE"} \cup Reject(j) :
                  out' = [out EXCEPT ![p] = [rc |-> rc, n |-> 0]]
             /\ UNCHANGED busy
  /\ UNCHANGED table

Add(p) ==
  /\ job[p].op = "a"
  /\ \/ job[p].id \notin table /\ table' = table \cup {job[p].id} /\ Ends(p, "NO_ERROR", 0)
     \/ job[p].id \in table /\ UNCHANGED table /\ Ends(p, "ERR_DB_OP", 0)

Delete(p) ==
  /\ job[p].op = "d"
  /\ \/ job[p].id \in table /\ table' = table \ {job[p].id} /\ Ends(p, "NO_ERROR", 0)
     \/ job[p].id \notin table /\ UNCHANGED table /\ Ends(p, "ERR_DB_OP", 0)

Clear(p) == job[p].op = "z" /\ table' = {} /\ Ends(p, "NO_ERROR", 0)

Find(p) ==
  /\ job[p].op = "f"
  /\ \/ 1 \in seen[p] /\ Ends(p, "NO_ERROR", 0)
     \/ 0 \in seen[p] /\ Ends(p, "SRCH_NOT_FOUND", 0)
  /\ UNCHANGED table

Count(p) ==
  /\ job[p].op = "c"
  /\ \E n \in 0..MaxId : (\A m \in seen[p] : seen[p] = {m} => n = m) /\ Ends(p, "NO_ERROR", n)
  /\ UNCHANGED table

(* A failed system call or a killed process changes nothing. *)
Fail(p) == (\E rc \in {"ERR_DB_FILE", "killed"} : Ends(p, rc, 0)) /\ UNCHANGED table

Finish(p) == Add(p) \/ Delete(p) \/ Clear(p) \/ Find(p) \/ Count(p) \/ Fail(p)

Looks(p) == busy[p] /\ job[p].op \in {"c", "f"}
Observed ==
  seen' = [p \in DOMAIN seen |->
             IF ~Looks(p)' THEN seen[p]
             ELSE (IF busy[p] THEN seen[p] ELSE {}) \cup {Answer(job[p])'}]

Init ==
  /\ table = {} /\ busy = [p \in Procs |-> FALSE]
  /\ job = [p \in Procs |-> [op |-> "c", id |-> 0]]
  /\ out = [p \in Procs |-> [rc |-> "none", n |-> 0]]
  /\ seen = [p \in Procs |-> {}]

Next == (\E p \in Procs : Begin(p) \/ Finish(p)) /\ Observed

FairSpec == Init /\ [][Next]_vars /\ \A p \in Procs : WF_vars(Finish(p) /\ Observed)
=============================================================================
