--------------------------- MODULE Pipeline_proofs ---------------------------
(***************************************************************************)
(* Theorems about Pipeline, for any calls, pipelines, callers and sizes.   *)
(***************************************************************************)
EXTENDS Pipeline, WellFoundedInduction, TLAPS

Codes == {"none", "OK", "OK_EXIT", "ERR_EXEC_CMD"}
Places == {"idle", "pipe", "fork", "close", "wait", "done"}

(* What the caller assigns keeps its type. *)
CallerTyped ==
  /\ \A s \in Calls : clist[s] \in Pipelines[s] \cup {<<>>}
  /\ hpc \in [Calls -> Places]
  /\ n \in [Calls -> Nat] /\ rc \in [Calls -> Codes]
  /\ server \subseteq Ends

LEMMA Parts == TypeOK <=> /\ mode \in Modes /\ CallerTyped /\ kid \in [Calls -> [Slots -> Kid]]
                          /\ pipe \in [Calls -> [Slots -> 0..Cap]]
                          /\ shown \in [Calls -> Nat] /\ faults \in Nat
BY DEF TypeOK, CallerTyped, Codes, Places

(* A command list is no longer than the slots. *)
LEMMA Fits ==
  ASSUME CallerTyped, NEW s \in Calls
  PROVE  Num(s) \in Nat /\ Num(s) <= CmdMax
<1>1. CASE clist[s] = <<>>
  BY <1>1, SizeAssumption DEF Num
<1>2. CASE clist[s] \in Pipelines[s]
  <2>1. clist[s] \in Seq(Programs \cup BuiltIns) /\ Len(clist[s]) <= CmdMax
    BY <1>2, PipelinesAssumption
  <2> QED BY <2>1 DEF Num
<1> QED BY <1>1, <1>2 DEF CallerTyped

LEMMA Moved ==
  ASSUME CallerTyped, NEW s \in Calls, NEW place \in Places, NEW i \in Nat, Moves(s, place, i)
  PROVE  hpc' \in [Calls -> Places] /\ n' \in [Calls -> Nat]
BY DEF CallerTyped, Moves

LEMMA Returned ==
  ASSUME CallerTyped, NEW s \in Calls, NEW code \in Codes, Returns(s, code)
  PROVE  hpc' \in [Calls -> Places] /\ n' \in [Calls -> Nat] /\ rc' \in [Calls -> Codes]
<1>1. "done" \in Places /\ 0 \in Nat
  BY DEF Places
<1> QED BY <1>1, Moved DEF Returns, CallerTyped

LEMMA KidTyped ==
  ASSUME kid \in [Calls -> [Slots -> Kid]], NEW s \in Calls, NEW i \in Slots, NEW k \in Kid, KidGoes(s, i, k)
  PROVE  kid' \in [Calls -> [Slots -> Kid]]
BY DEF KidGoes

LEMMA ForkTyped ==
  ASSUME TypeOK, NEW s \in Calls, Fork(s)
  PROVE  CallerTyped' /\ kid' \in [Calls -> [Slots -> Kid]]
<1>1. CallerTyped /\ kid \in [Calls -> [Slots -> Kid]]
  BY Parts
<1>2. n[s] \in Nat /\ n[s] < Num(s) /\ n[s] + 1 \in Slots
  BY <1>1, Fits, SizeAssumption DEF Fork, CallerTyped, Slots
<1>3. [NoKid EXCEPT !.st = "born", !.ends = server] \in Kid
  BY <1>1 DEF NoKid, Kid, CallerTyped
<1>4. kid' \in [Calls -> [Slots -> Kid]]
  BY <1>1, <1>2, <1>3, KidTyped DEF Fork
<1>5. {"close", "fork"} \subseteq Places /\ 0 \in Nat /\ n[s] + 1 \in Nat
  BY <1>2 DEF Places
<1>6. hpc' \in [Calls -> Places] /\ n' \in [Calls -> Nat]
  BY <1>1, <1>5, Moved DEF Fork
<1> QED BY <1>1, <1>4, <1>6 DEF Fork, CallerTyped

LEMMA CallerTyping ==
  ASSUME TypeOK, NEW s \in Calls,
         Call(s) \/ CallerStep(s) \/ PipeFails(s) \/ ForkFails(s) \/ ForkFailsOpen(s)
  PROVE  TypeOK'
<1>1. /\ mode \in Modes /\ CallerTyped /\ kid \in [Calls -> [Slots -> Kid]]
      /\ pipe \in [Calls -> [Slots -> 0..Cap]] /\ shown \in [Calls -> Nat] /\ faults \in Nat
  BY Parts
<1>2. Num(s) \in Nat /\ Num(s) <= CmdMax /\ n[s] \in Nat /\ n[s] + 1 \in Nat
  BY <1>1, Fits DEF CallerTyped
<1>3. {"pipe", "fork", "close", "wait", "done"} \subseteq Places /\ {0, 1} \subseteq Nat
      /\ {"OK", "OK_EXIT", "ERR_EXEC_CMD"} \subseteq Codes
  BY DEF Places, Codes
<1>4. ASSUME CallerTyped', UNCHANGED <<mode, kid, pipe, shown>>, faults' \in Nat PROVE TypeOK'
  BY <1>1, <1>4 DEF TypeOK, CallerTyped, Codes, Places
<1>5. Fault => faults' \in Nat
  BY <1>1 DEF Fault
<1>6. server \ Own(s) \subseteq Ends
  BY <1>1 DEF CallerTyped
<1>7. CASE Call(s)
  <2>1. hpc' \in [Calls -> Places] /\ n' \in [Calls -> Nat]
    BY <1>1, <1>3, <1>7, Moved DEF Call
  <2>2. \A t \in Calls : clist'[t] \in Pipelines[t] \cup {<<>>}
    <3>1. PICK l \in Pipelines[s] : clist' = [clist EXCEPT ![s] = l]
      BY <1>7 DEF Call
    <3>2. \A t \in Calls : clist'[t] = clist[t] \/ (t = s /\ clist'[t] \in {l, clist[t]})
      BY <3>1
    <3> QED BY <1>1, <3>2 DEF CallerTyped
  <2> QED BY <1>1, <1>4, <1>7, <2>1, <2>2 DEF Call, CallerTyped
<1>8. CASE MakePipe(s)
  <2>1. hpc' \in [Calls -> Places] /\ n' \in [Calls -> Nat]
    BY <1>1, <1>2, <1>3, <1>8, Moved DEF MakePipe
  <2>2. server' \subseteq Ends
    <3>1. CASE n[s] < Num(s) - 1 /\ server' = server \cup {<<s, n[s] + 1, "r">>, <<s, n[s] + 1, "w">>}
      <4>1. n[s] + 1 \in Slots
        BY <1>2, <3>1, SizeAssumption DEF Slots
      <4> QED BY <1>1, <3>1, <4>1 DEF CallerTyped, Ends
    <3>2. CASE server' = server
      BY <1>1, <3>2 DEF CallerTyped
    <3> QED BY <1>8, <3>1, <3>2 DEF MakePipe
  <2> QED BY <1>1, <1>4, <1>8, <2>1, <2>2 DEF MakePipe, CallerTyped
<1>9. CASE Fork(s)
  <2>1. CallerTyped' /\ kid' \in [Calls -> [Slots -> Kid]]
    BY <1>9, ForkTyped
  <2> QED BY <1>1, <1>9, <2>1 DEF Fork, TypeOK, CallerTyped, Codes, Places
<1>10. ASSUME NEW code \in Codes, Returns(s, code), server' \in {server, server \ Own(s)},
              UNCHANGED <<mode, clist, kid, pipe, shown>>, faults' \in Nat
       PROVE  TypeOK'
  <2>1. hpc' \in [Calls -> Places] /\ n' \in [Calls -> Nat] /\ rc' \in [Calls -> Codes]
    BY <1>1, <1>10, Returned
  <2> QED BY <1>1, <1>4, <1>6, <1>10, <2>1 DEF CallerTyped
<1>11. CASE PipeFails(s)
  BY <1>3, <1>5, <1>10, <1>11 DEF PipeFails
<1>12. CASE ForkFails(s) \/ ForkFailsOpen(s)
  BY <1>3, <1>5, <1>10, <1>12 DEF ForkFails, ForkFailsOpen, GivesUp
<1>13. CASE MeetsBuiltIn(s)
  BY <1>1, <1>3, <1>10, <1>13 DEF MeetsBuiltIn, GivesUp
<1>14. CASE Close(s)
  <2>1. server' \subseteq Ends
    BY <1>1, <1>14 DEF Close, CallerTyped
  <2>2. hpc' \in [Calls -> Places] /\ n' \in [Calls -> Nat]
    <3>1. CASE UNCHANGED <<hpc, n>>
      BY <1>1, <3>1 DEF CallerTyped
    <3>2. CASE Moves(s, "wait", 1)
      BY <1>1, <1>3, <3>2, Moved
    <3> QED BY <1>14, <3>1, <3>2 DEF Close
  <2> QED BY <1>1, <1>4, <1>14, <2>1, <2>2 DEF Close, CallerTyped
<1>15. CASE Wait(s)
  <2>1. CASE Moves(s, "wait", n[s] + 1) /\ UNCHANGED rc
    <3>1. hpc' \in [Calls -> Places] /\ n' \in [Calls -> Nat]
      BY <1>1, <1>2, <1>3, <2>1, Moved
    <3> QED BY <1>1, <1>4, <1>15, <2>1, <3>1 DEF Wait, CallerTyped
  <2>2. CASE \E code \in {"OK", "ERR_EXEC_CMD"} : Returns(s, code)
    BY <1>1, <1>3, <1>10, <1>15, <2>2 DEF Wait
  <2> QED BY <1>15, <2>1, <2>2 DEF Wait
<1> QED BY <1>7, <1>8, <1>9, <1>11, <1>12, <1>13, <1>14, <1>15 DEF CallerStep

LEMMA KidTyping ==
  ASSUME TypeOK, NEW s \in Calls, NEW i \in Slots, KidStep(s, i)
  PROVE  TypeOK'
<1>1. /\ mode \in Modes /\ CallerTyped /\ kid \in [Calls -> [Slots -> Kid]]
      /\ pipe \in [Calls -> [Slots -> 0..Cap]] /\ shown \in [Calls -> Nat] /\ faults \in Nat
      /\ Output \in Nat /\ Cap \in Nat \ {0}
  BY Parts, SizeAssumption
<1>2. kid[s][i] \in Kid
  BY <1>1
<1>3. ASSUME NEW k \in Kid, KidGoes(s, i, k), UNCHANGED <<mode, clist, hpc, n, rc, server, faults>>,
             pipe' \in [Calls -> [Slots -> 0..Cap]], shown' \in [Calls -> Nat]
      PROVE  TypeOK'
  <2>1. kid' \in [Calls -> [Slots -> Kid]]
    BY <1>1, <1>3, KidTyped
  <2> QED BY <1>1, <1>3, <2>1 DEF TypeOK
<1>4. \A b \in BOOLEAN : Ended(kid[s][i], b) \in Kid
  BY <1>2 DEF Kid, Ended
<1>5. CASE Exec(s, i)
  <2> DEFINE k == [kid[s][i] EXCEPT !.st = "runs", !.todo = IF clist[s][i] = "ls" THEN Output ELSE 0,
                                    !.ends = {e \in @ : e[1] # s \/ e \in Std(s, i)}]
  <2>1. k \in Kid
    BY <1>1, <1>2 DEF Kid
  <2>2. KidGoes(s, i, k)
    BY <1>5 DEF Exec
  <2> HIDE DEF k
  <2> QED BY <1>1, <1>3, <1>5, <2>1, <2>2 DEF Exec
<1>6. CASE Write(s, i)
  <2>1. kid[s][i].todo \in Nat /\ kid[s][i].todo > 0
    BY <1>2, <1>6 DEF Kid, Write
  <2>2. AfterWrite(s, i, kid[s][i]) \in Kid
    <3>1. Ended(kid[s][i], FALSE) \in Kid
      BY <1>4
    <3>2. kid[s][i].todo - 1 \in Nat
      BY <2>1
    <3>3. [kid[s][i] EXCEPT !.todo = @ - 1] \in Kid
      BY <1>2, <3>2 DEF Kid
    <3> QED BY <3>1, <3>3 DEF AfterWrite
  <2>3. CASE i = Num(s) /\ shown' = [shown EXCEPT ![s] = @ + 1] /\ KidGoes(s, i, AfterWrite(s, i, kid[s][i]))
             /\ UNCHANGED pipe
    <3>1. shown' \in [Calls -> Nat]
      BY <1>1, <2>3
    <3> QED BY <1>1, <1>3, <1>6, <2>2, <2>3, <3>1 DEF Write
  <2>4. CASE pipe[s][i] < Cap /\ pipe' = [pipe EXCEPT ![s][i] = @ + 1]
             /\ KidGoes(s, i, AfterWrite(s, i, kid[s][i])) /\ UNCHANGED shown
    <3>1. pipe[s][i] + 1 \in 0..Cap
      BY <1>1, <2>4
    <3>2. pipe' \in [Calls -> [Slots -> 0..Cap]]
      BY <1>1, <2>4, <3>1
    <3> QED BY <1>1, <1>3, <1>6, <2>2, <2>4, <3>2 DEF Write
  <2>5. CASE KidGoes(s, i, Ended(kid[s][i], FALSE)) /\ UNCHANGED <<pipe, shown>>
    BY <1>1, <1>3, <1>4, <1>6, <2>5 DEF Write
  <2> QED BY <1>6, <2>3, <2>4, <2>5 DEF Write
<1>7. CASE Read(s, i)
  <2>1. CASE pipe[s][i - 1] > 0 /\ pipe' = [pipe EXCEPT ![s][i - 1] = @ - 1]
             /\ KidGoes(s, i, [kid[s][i] EXCEPT !.todo = 1])
    <3>1. i - 1 \in Slots
      BY <1>7, SizeAssumption DEF Read, Slots
    <3>2. pipe[s][i - 1] - 1 \in 0..Cap
      BY <1>1, <2>1, <3>1
    <3>3. pipe' \in [Calls -> [Slots -> 0..Cap]]
      BY <1>1, <2>1, <3>1, <3>2
    <3>4. [kid[s][i] EXCEPT !.todo = 1] \in Kid
      BY <1>2 DEF Kid
    <3> QED BY <1>1, <1>3, <1>7, <2>1, <3>3, <3>4 DEF Read
  <2>2. CASE KidGoes(s, i, Ended(kid[s][i], FALSE)) /\ UNCHANGED pipe
    BY <1>1, <1>3, <1>4, <1>7, <2>2 DEF Read
  <2> QED BY <1>7, <2>1, <2>2 DEF Read
<1>8. CASE Quits(s, i)
  BY <1>1, <1>3, <1>4, <1>8 DEF Quits
<1> QED BY <1>5, <1>6, <1>7, <1>8 DEF KidStep

LEMMA TypingStep == TypeOK /\ [Next]_vars => TypeOK'
<1> SUFFICES ASSUME TypeOK, [Next]_vars PROVE TypeOK'
  OBVIOUS
<1>1. CASE UNCHANGED vars
  BY <1>1 DEF vars, TypeOK
<1>2. CASE Next
  BY <1>2, CallerTyping, KidTyping DEF Next, RshExecutePipeline, ExecPipeline, ForkPipe, ForkPipeline
<1> QED BY <1>1, <1>2

(* Every variable keeps its type, for any sizes: no call has more children or pipes   *)
(* than slots, no pipe more than it holds.                                            *)
THEOREM Typing == Spec => []TypeOK
<1>1. Init => TypeOK
  <2>1. NoKid \in Kid /\ 0 \in 0..Cap
    BY SizeAssumption DEF NoKid, Kid
  <2> QED BY <2>1 DEF Init, TypeOK
<1> QED BY <1>1, TypingStep, PTL DEF Spec

-----------------------------------------------------------------------------
(* The caller has closed the pipes of a call it waits for, and a child that has       *)
(* reached its program holds of its own call's pipes its input and its output.        *)
Tidy ==
  \A s \in Calls :
    /\ hpc[s] = "idle" => \A i \in Slots : kid[s][i].st = "none"
    /\ hpc[s] = "wait" => Own(s) = {}
    /\ \A i \in Slots :
         /\ kid[s][i].st \in {"none", "ended"} => kid[s][i].ends = {}
         /\ kid[s][i].st = "runs" => \A e \in kid[s][i].ends : e[1] = s => e \in Std(s, i)

(* A step of call t's caller that leaves the children alone. *)
LEMMA TidyCaller ==
  ASSUME TypeOK, Tidy, NEW t \in Calls,
         UNCHANGED kid, \A s \in Calls : s # t => hpc'[s] = hpc[s] /\ clist'[s] = clist[s],
         \A s \in Calls : s # t => Own(s)' \subseteq Own(s),
         hpc'[t] # "idle", hpc'[t] = "wait" => Own(t)' = {},
         clist'[t] = clist[t] \/ hpc[t] = "idle"
  PROVE  Tidy'
<1>1. ASSUME NEW s \in Calls, NEW i \in Slots, kid'[s][i].st = "runs", NEW e \in kid'[s][i].ends, e[1] = s
      PROVE  e \in Std(s, i)'
  <2>1. hpc[s] # "idle"
    BY <1>1 DEF Tidy
  <2>2. clist'[s] = clist[s]
    BY <2>1
  <2> QED BY <1>1, <2>2 DEF Tidy, Std, Num
<1> QED BY <1>1 DEF Tidy

LEMMA TidyStep == TypeOK /\ Tidy /\ [Next]_vars => Tidy'
<1> SUFFICES ASSUME TypeOK, Tidy, [Next]_vars PROVE Tidy'
  OBVIOUS
<1>0. hpc \in [Calls -> Places] /\ kid \in [Calls -> [Slots -> Kid]] /\ server \subseteq Ends
  BY Parts DEF CallerTyped
<1>1. ASSUME NEW t \in Calls, NEW place \in Places, NEW i, Moves(t, place, i)
      PROVE  hpc'[t] = place /\ \A s \in Calls : s # t => hpc'[s] = hpc[s]
  BY <1>0, <1>1 DEF Moves
<1>2. {"pipe", "fork", "close", "wait", "done"} \subseteq Places
  BY DEF Places
<1>3. ASSUME NEW t \in Calls, Call(t) PROVE Tidy'
  <2>1. hpc[t] = "idle" /\ hpc'[t] = "pipe" /\ \A s \in Calls : s # t => hpc'[s] = hpc[s]
    BY <1>1, <1>2, <1>3 DEF Call
  <2>2. UNCHANGED <<kid, server>> /\ \A s \in Calls : s # t => clist'[s] = clist[s]
    BY <1>3 DEF Call
  <2> QED BY <2>1, <2>2, TidyCaller DEF Own
<1>4. ASSUME NEW t \in Calls, MakePipe(t) PROVE Tidy'
  <2>1. hpc'[t] \in {"pipe", "fork"} /\ \A s \in Calls : s # t => hpc'[s] = hpc[s]
    BY <1>1, <1>2, <1>4 DEF MakePipe
  <2>2. UNCHANGED <<kid, clist>> /\ \A s \in Calls : s # t => Own(s)' \subseteq Own(s)
    BY <1>4 DEF MakePipe, Own
  <2> QED BY <2>1, <2>2, TidyCaller
<1>5. ASSUME NEW t \in Calls, NEW code, Returns(t, code), server' \subseteq server, UNCHANGED <<clist, kid>>
      PROVE  Tidy'
  <2>1. hpc'[t] = "done" /\ \A s \in Calls : s # t => hpc'[s] = hpc[s]
    BY <1>1, <1>2, <1>5 DEF Returns
  <2> QED BY <1>5, <2>1, TidyCaller DEF Own
<1>6. ASSUME NEW t \in Calls, PipeFails(t) \/ ForkFails(t) \/ ForkFailsOpen(t) \/ MeetsBuiltIn(t) PROVE Tidy'
  BY <1>5, <1>6 DEF PipeFails, ForkFails, ForkFailsOpen, MeetsBuiltIn, GivesUp
<1>7. ASSUME NEW t \in Calls, Close(t) PROVE Tidy'
  <2>1. server' \subseteq server /\ UNCHANGED <<clist, kid>>
    BY <1>7 DEF Close
  <2>2. hpc[t] = "close" /\ (hpc' = hpc \/ (Own(t) = {} /\ Moves(t, "wait", 1)))
    BY <1>7 DEF Close
  <2>3. hpc'[t] \in {"close", "wait"} /\ \A s \in Calls : s # t => hpc'[s] = hpc[s]
    BY <1>1, <1>2, <2>2
  <2>4. hpc'[t] = "wait" => Own(t)' = {}
    BY <2>1, <2>2 DEF Own
  <2>5. \A s \in Calls : s # t => Own(s)' \subseteq Own(s)
    BY <2>1 DEF Own
  <2> QED BY <2>1, <2>3, <2>4, <2>5, TidyCaller
<1>8. ASSUME NEW t \in Calls, Wait(t) PROVE Tidy'
  <2>1. hpc'[t] \in {"wait", "done"} /\ \A s \in Calls : s # t => hpc'[s] = hpc[s]
    BY <1>1, <1>2, <1>8 DEF Wait, Returns
  <2>2. hpc[t] = "wait" /\ UNCHANGED <<server, clist, kid>>
    BY <1>8 DEF Wait
  <2> QED BY <2>1, <2>2, TidyCaller DEF Tidy, Own
<1>9. ASSUME NEW t \in Calls, NEW j, NEW k, KidGoes(t, j, k), UNCHANGED <<clist, server>>,
             hpc'[t] # "idle", hpc'[t] = "wait" => hpc[t] = "wait",
             \A s \in Calls : s # t => hpc'[s] = hpc[s],
             k.st \in {"none", "ended"} => k.ends = {},
             k.st = "runs" => \A e \in k.ends : e[1] = t => e \in Std(t, j)
      PROVE  Tidy'
  <2>1. \A s \in Calls, i \in Slots : kid'[s][i] = kid[s][i] \/ (s = t /\ i = j /\ kid'[s][i] = k)
    BY <1>0, <1>9 DEF KidGoes
  <2>2. \A s \in Calls : s # t => \A i \in Slots : kid'[s][i] = kid[s][i]
    BY <2>1
  <2>3. \A s \in Calls, i \in Slots : Std(s, i)' = Std(s, i) /\ Own(s)' = Own(s)
    BY <1>9 DEF Std, Own, Num
  <2>4. ASSUME NEW s \in Calls
        PROVE  /\ hpc'[s] = "idle" => \A i \in Slots : kid'[s][i].st = "none"
               /\ hpc'[s] = "wait" => Own(s)' = {}
    BY <1>9, <2>2 DEF Tidy, Own
  <2>5. ASSUME NEW s \in Calls, NEW i \in Slots
        PROVE  /\ kid'[s][i].st \in {"none", "ended"} => kid'[s][i].ends = {}
               /\ kid'[s][i].st = "runs" => \A e \in kid'[s][i].ends : e[1] = s => e \in Std(s, i)'
    BY <1>9, <2>1, <2>3 DEF Tidy
  <2> QED BY <2>4, <2>5 DEF Tidy
<1>10. ASSUME NEW t \in Calls, Fork(t) PROVE Tidy'
  <2> DEFINE k == [NoKid EXCEPT !.st = "born", !.ends = server]
  <2>1. k.st = "born" /\ KidGoes(t, n[t] + 1, k) /\ UNCHANGED <<clist, server>>
    BY <1>10 DEF Fork, NoKid
  <2>2. hpc'[t] \in {"close", "fork"} /\ \A s \in Calls : s # t => hpc'[s] = hpc[s]
    BY <1>1, <1>2, <1>10 DEF Fork
  <2> HIDE DEF k
  <2> QED BY <1>9, <2>1, <2>2
<1>11. ASSUME NEW t \in Calls, NEW j \in Slots, KidStep(t, j) PROVE Tidy'
  <2>1. kid[t][j].st \in {"born", "runs"} /\ UNCHANGED <<clist, server, hpc>> /\ kid[t][j] \in Kid
    BY <1>0, <1>11 DEF KidStep, Exec, Write, Read, Quits
  <2>2. hpc'[t] # "idle"
    BY <2>1 DEF Tidy
  <2>3. ASSUME NEW k, KidGoes(t, j, k),
               \/ k.st = "ended" /\ k.ends = {}
               \/ k.st = "runs" /\ \A e \in k.ends : e[1] = t => e \in Std(t, j)
        PROVE  Tidy'
    BY <1>9, <2>1, <2>2, <2>3
  <2>4. \A b : Ended(kid[t][j], b).st = "ended" /\ Ended(kid[t][j], b).ends = {}
    BY <2>1 DEF Ended, Kid
  <2>5. kid[t][j].st = "runs" => \A e \in kid[t][j].ends : e[1] = t => e \in Std(t, j)
    BY DEF Tidy
  <2>6. CASE Exec(t, j)
    <3> DEFINE k == [kid[t][j] EXCEPT !.st = "runs", !.todo = IF clist[t][j] = "ls" THEN Output ELSE 0,
                                      !.ends = {e \in @ : e[1] # t \/ e \in Std(t, j)}]
    <3>1. k.st = "runs" /\ k.ends = {e \in kid[t][j].ends : e[1] # t \/ e \in Std(t, j)}
      BY <2>1 DEF Kid
    <3>2. KidGoes(t, j, k)
      BY <2>6 DEF Exec
    <3> HIDE DEF k
    <3> QED BY <2>3, <3>1, <3>2
  <2>7. ASSUME kid[t][j].st = "runs", NEW todo, KidGoes(t, j, [kid[t][j] EXCEPT !.todo = todo])
        PROVE  Tidy'
    <3> DEFINE k == [kid[t][j] EXCEPT !.todo = todo]
    <3>1. k.st = "runs" /\ k.ends = kid[t][j].ends /\ KidGoes(t, j, k)
      BY <2>1, <2>7 DEF Kid
    <3> HIDE DEF k
    <3> QED BY <2>3, <2>5, <2>7, <3>1
  <2>8. ASSUME NEW b, KidGoes(t, j, Ended(kid[t][j], b)) PROVE Tidy'
    BY <2>3, <2>4, <2>8
  <2>9. CASE Write(t, j)
    BY <2>7, <2>8, <2>9 DEF Write, AfterWrite
  <2>10. CASE Read(t, j)
    BY <2>7, <2>8, <2>10 DEF Read
  <2>11. CASE Quits(t, j)
    BY <2>8, <2>11 DEF Quits
  <2> QED BY <1>11, <2>6, <2>9, <2>10, <2>11 DEF KidStep
<1>12. CASE UNCHANGED vars
  BY <1>12 DEF vars, Tidy, Own, Std, Num
<1> QED BY <1>3, <1>4, <1>6, <1>7, <1>8, <1>10, <1>11, <1>12
        DEF Next, RshExecutePipeline, ExecPipeline, ForkPipe, ForkPipeline, CallerStep

(* For any calls, pipelines and failing calls: what keeps a reader waiting once its   *)
(* writer has ended is a child of another call.                                       *)
THEOREM StrangersOnly == Spec => []OnlyStrangersBlock
<1>1. Init => Tidy
  BY DEF Init, Tidy, NoKid, Own
<1>2. TypeOK /\ Tidy => OnlyStrangersBlock
  <2> SUFFICES ASSUME TypeOK, Tidy, NEW s \in Calls, NEW i \in Slots, hpc[s] = "wait",
                      \A j \in Slots : kid[s][j].st # "born",
                      i > 1, kid[s][i - 1].st = "ended", Held(<<s, i - 1, "w">>)
               PROVE  \E t \in Calls \ {s}, j \in Slots : <<s, i - 1, "w">> \in kid[t][j].ends
    BY DEF OnlyStrangersBlock
  <2> DEFINE e == <<s, i - 1, "w">>
  <2>1. i \in Nat /\ i - 1 \in Nat /\ e[1] = s
    BY SizeAssumption DEF Slots
  <2>2. e \notin server
    BY <2>1 DEF Tidy, Own
  <2>3. PICK t \in Calls, j \in Slots : e \in kid[t][j].ends
    BY <2>2 DEF Held
  <2>4. CASE t = s
    <3>1. kid[s][j].st \in {"none", "born", "runs", "ended"}
      BY DEF TypeOK, Kid
    <3>2. kid[s][j].st = "runs" /\ e \in Std(s, j)
      BY <2>1, <2>3, <2>4, <3>1 DEF Tidy
    <3>3. j \in Nat /\ e = <<s, j, "w">>
      BY <2>1, <3>2, SizeAssumption DEF Std, Slots
    <3>4. j = i - 1
      BY <3>3
    <3> QED BY <3>2, <3>4
  <2> QED BY <2>3, <2>4
<1> QED BY <1>1, <1>2, Typing, TidyStep, PTL DEF Spec

-----------------------------------------------------------------------------
(* The least number principle; with it, an induction over the commands of a call.     *)
LEMMA LeastNumber ==
  ASSUME NEW T, T \subseteq Nat, T # {}
  PROVE  \E x \in T : \A y \in T : ~(y < x)
<1> DEFINE R == OpToRel(<, Nat)
<1>1. IsWellFoundedOn(R, Nat)
  BY NatLessThanWellFounded
<1>2. \E x \in T : \A y \in T : <<y, x>> \notin R
  <2> HIDE DEF R
  <2> QED BY <1>1, WFMin
<1>3. \A x, y \in Nat : y < x => <<y, x>> \in R
  BY DEF OpToRel
<1> QED BY <1>2, <1>3

-----------------------------------------------------------------------------
(* AllShown speaks of such a call, and of one whose children are there or being made. *)
Plain(s) == clist[s] # <<>> /\ clist[s][1] = "ls" /\ \A i \in 2..Num(s) : clist[s][i] = "cat"
Manned(s) == hpc[s] \in {"fork", "close", "wait"} \/ rc[s] = "OK"

(* The caller of s: where it is, it has made these pipes and no children, or all pipes. *)
Placed(s) ==
  /\ hpc[s] # "done" => rc[s] = "none"
  /\ hpc[s] # "idle" => clist[s] # <<>>
  /\ hpc[s] \in {"idle", "pipe"} =>
       /\ shown[s] = 0
       /\ \A i \in Slots : kid[s][i].st = "none" /\ kid[s][i].todo = 0 /\ pipe[s][i] = 0
  /\ \A i \in Slots : i > Num(s) => kid[s][i].st = "none"
  /\ hpc[s] \in {"pipe", "fork"} => n[s] < Num(s)
  /\ hpc[s] = "wait" => n[s] \in 1..Num(s)
  /\ \A j \in Slots : (hpc[s] = "pipe" /\ j <= n[s]) \/ (hpc[s] = "fork" /\ j < Num(s)) =>
       <<s, j, "r">> \in server /\ <<s, j, "w">> \in server

(* Child i: forked in turn, ended when waited for; it holds every pipe end of the call *)
(* before execvp(), and its input and output after it.                                 *)
Forked(s, i) ==
  LET k == kid[s][i] IN
  /\ k.st = "none" <=> (hpc[s] = "fork" /\ i > n[s])
  /\ hpc[s] = "wait" /\ i < n[s] => k.st = "ended"
  /\ rc[s] = "OK" => k.st = "ended"
  /\ k.st \in {"none", "born"} => k.todo = 0
  /\ k.st = "born" => \A j \in Slots : j < Num(s) => <<s, j, "r">> \in k.ends /\ <<s, j, "w">> \in k.ends
  /\ k.st = "runs" => Std(s, i) \subseteq k.ends

(* "cat" ends after its writer and leaves nothing in its pipe. *)
Drained(s, i) ==
  kid[s][i].st = "ended" =>
    /\ kid[s][i].todo = 0
    /\ i > 1 => kid[s][i - 1].st = "ended" /\ pipe[s][i - 1] = 0

(* w[i] is what command i has written: what it has not is in hand, and what it has and *)
(* the next one has not is in the pipe between, or in the hand of the next.            *)
Carried(s, w) ==
  /\ w[Num(s)] = shown[s]
  /\ w[1] + kid[s][1].todo = IF kid[s][1].st \in {"none", "born"} THEN 0 ELSE Output
  /\ \A i \in 2..Num(s) : w[i - 1] = pipe[s][i - 1] + kid[s][i].todo + w[i]

Flows(s) == (\A i \in 1..Num(s) : Drained(s, i)) /\ \E w \in [Slots -> Nat] : Carried(s, w)

Whole(s) ==
  /\ Placed(s)
  /\ Manned(s) => \A i \in 1..Num(s) : Forked(s, i)
  /\ Manned(s) /\ Plain(s) => Flows(s)

(* The other calls take no notice. *)
LEMMA WholeElsewhere ==
  ASSUME NEW s \in Calls, Whole(s),
         hpc'[s] = hpc[s], n'[s] = n[s], rc'[s] = rc[s], clist'[s] = clist[s],
         kid'[s] = kid[s], pipe'[s] = pipe[s], shown'[s] = shown[s],
         \A e \in server : e[1] = s => e \in server'
  PROVE  Whole(s)'
<1>1. Num(s)' = Num(s) /\ Manned(s)' = Manned(s) /\ Plain(s)' = Plain(s)
  BY DEF Num, Manned, Plain
<1>2. Placed(s)'
  BY <1>1 DEF Whole, Placed
<1>3. \A i : Forked(s, i) <=> Forked(s, i)'
  BY <1>1 DEF Forked, Std
<1>4. \A i : Drained(s, i) <=> Drained(s, i)'
  BY DEF Drained
<1>5. \A w : Carried(s, w) <=> Carried(s, w)'
  BY <1>1 DEF Carried
<1> QED BY <1>1, <1>2, <1>3, <1>4, <1>5 DEF Whole, Flows

(* What a child of s that has been forked and has not ended may do. *)
LEMMA ForkedStep ==
  ASSUME TypeOK, NEW s \in Calls, Manned(s), \A i \in 1..Num(s) : Forked(s, i),
         NEW j \in 1..Num(s), NEW k, KidGoes(s, j, k), UNCHANGED <<clist, hpc, n, rc>>,
         kid[s][j].st \in {"born", "runs"}, k.st \in {"runs", "ended"},
         k.st = "runs" => Std(s, j) \subseteq k.ends
  PROVE  \A i \in 1..Num(s)' : Forked(s, i)'
<1>1. Num(s) \in Nat /\ Num(s) <= CmdMax /\ CmdMax \in Nat
  BY Parts, Fits, SizeAssumption
<1>2. ASSUME NEW i \in 1..Num(s) PROVE kid'[s][i] = IF i = j THEN k ELSE kid[s][i]
  BY <1>1, <1>2 DEF TypeOK, KidGoes, Slots
<1>3. Num(s)' = Num(s) /\ \A i : Std(s, i)' = Std(s, i)
  BY DEF Num, Std
<1>4. ASSUME NEW i \in 1..Num(s) PROVE Forked(s, i)'
  <2>1. CASE i = j
    BY <1>2, <1>3, <2>1 DEF Forked
  <2>2. CASE i # j
    BY <1>2, <1>3, <2>2 DEF Forked
  <2> QED BY <2>1, <2>2
<1> QED BY <1>3, <1>4

(* The caller's own steps, of the call s.                                              *)
LEMMA WholeCaller ==
  ASSUME TypeOK, DOMAIN clist = Calls, NEW s \in Calls, Whole(s),
         Call(s) \/ CallerStep(s) \/ PipeFails(s) \/ ForkFails(s) \/ ForkFailsOpen(s)
  PROVE  Whole(s)'
<1>1. /\ Num(s) \in Nat /\ Num(s) <= CmdMax /\ CmdMax \in Nat /\ n[s] \in Nat
      /\ hpc \in [Calls -> Places] /\ n \in [Calls -> Nat] /\ rc \in [Calls -> Codes]
      /\ kid \in [Calls -> [Slots -> Kid]]
  BY Parts, Fits, SizeAssumption DEF CallerTyped
<1>13. Num(s) \in Nat /\ n[s] \in Nat
  BY <1>1
<1>2. ASSUME NEW place, NEW i, Moves(s, place, i) PROVE hpc'[s] = place /\ n'[s] = i
  BY <1>1, <1>2 DEF Moves
<1>3. ASSUME UNCHANGED clist PROVE Num(s)' = Num(s) /\ Plain(s)' = Plain(s) /\ \A i : Std(s, i)' = Std(s, i)
  BY <1>3 DEF Num, Plain, Std
<1>4. hpc[s] # "idle" => Num(s) >= 1
  <2>1. \A l \in Pipelines[s] : l # <<>> => Len(l) >= 1
    BY PipelinesAssumption
  <2> QED BY <2>1 DEF Whole, Placed, TypeOK, Num
<1>5. CASE Call(s)
  <2>1. hpc[s] = "idle" /\ hpc'[s] = "pipe" /\ n'[s] = 0 /\ UNCHANGED <<rc, kid, pipe, shown>>
    BY <1>2, <1>5 DEF Call
  <2>2. PICK l \in Pipelines[s] : clist' = [clist EXCEPT ![s] = l]
    BY <1>5 DEF Call
  <2>3. clist'[s] = l /\ l # <<>> /\ Len(l) \in Nat /\ Len(l) >= 1
    BY <2>2, PipelinesAssumption
  <2>4. Placed(s)'
    BY <2>1, <2>3 DEF Whole, Placed, Num, Slots
  <2>5. ~Manned(s)'
    BY <2>1 DEF Whole, Placed, Manned
  <2> QED BY <2>4, <2>5 DEF Whole
<1>6. CASE MakePipe(s)
  <2>1. hpc[s] = "pipe" /\ UNCHANGED <<clist, rc, kid, pipe, shown>> /\ rc[s] = "none"
    BY <1>6 DEF MakePipe, Whole, Placed
  <2>2. CASE /\ n[s] < Num(s) - 1
             /\ server' = server \cup {<<s, n[s] + 1, "r">>, <<s, n[s] + 1, "w">>}
             /\ hpc'[s] = "pipe" /\ n'[s] = n[s] + 1
    <3>1. \A j \in Slots : j <= n[s] + 1 => j <= n[s] \/ j = n[s] + 1
      BY <1>1 DEF Slots
    <3>2. Placed(s)'
      BY <1>1, <1>3, <2>1, <2>2, <3>1 DEF Whole, Placed
    <3> QED BY <2>1, <2>2, <3>2 DEF Whole, Manned
  <2>3. CASE n[s] = Num(s) - 1 /\ UNCHANGED server /\ hpc'[s] = "fork" /\ n'[s] = 0
    <3>1. \A j \in Slots : j < Num(s) => j <= n[s]
      BY <1>1, <2>3 DEF Slots
    <3>2. Placed(s)'
      BY <1>1, <1>3, <1>4, <2>1, <2>3, <3>1 DEF Whole, Placed
    <3>3. \A i \in 1..Num(s) : i \in Slots /\ kid[s][i].st = "none" /\ kid[s][i].todo = 0 /\ pipe[s][i] = 0
      BY <1>1, <2>1 DEF Whole, Placed, Slots
    <3>4. \A i \in 1..Num(s) : Forked(s, i)' /\ Drained(s, i)'
      BY <1>1, <2>1, <2>3, <3>3 DEF Forked, Drained
    <3> DEFINE w == [i \in Slots |-> 0]
    <3>5. Carried(s, w)'
      <4>1. shown[s] = 0 /\ 1 \in 1..Num(s) /\ Num(s) \in 1..Num(s)
        BY <1>1, <1>4, <2>1 DEF Whole, Placed
      <4>2. \A i \in 2..Num(s) : i \in 1..Num(s) /\ i - 1 \in 1..Num(s)
        BY <1>1
      <4>3. \A i \in 1..Num(s) : w[i] = 0
        BY <3>3
      <4> HIDE DEF w
      <4> QED BY <1>3, <2>1, <3>3, <4>1, <4>2, <4>3 DEF Carried
    <3>6. w \in [Slots -> Nat]
      OBVIOUS
    <3> HIDE DEF w
    <3> QED BY <1>3, <2>1, <3>2, <3>4, <3>5, <3>6 DEF Whole, Flows
  <2> QED BY <1>2, <1>6, <2>2, <2>3 DEF MakePipe
<1>7. ASSUME NEW code \in Codes \ {"OK"}, Returns(s, code), UNCHANGED <<clist, kid, pipe, shown>>, hpc[s] # "idle"
      PROVE  Whole(s)'
  <2>1. hpc'[s] = "done" /\ rc'[s] = code
    BY <1>1, <1>2, <1>7 DEF Returns
  <2> QED BY <1>3, <1>7, <2>1 DEF Whole, Placed, Manned
<1>8. CASE PipeFails(s) \/ ForkFails(s) \/ ForkFailsOpen(s) \/ MeetsBuiltIn(s)
  BY <1>7, <1>8 DEF PipeFails, ForkFails, ForkFailsOpen, MeetsBuiltIn, GivesUp, Codes
<1>9. CASE Fork(s)
  <2> DEFINE k == [NoKid EXCEPT !.st = "born", !.ends = server]
  <2>1. /\ hpc[s] = "fork" /\ n[s] < Num(s) /\ rc[s] = "none"
        /\ UNCHANGED <<clist, rc, server, pipe, shown>> /\ KidGoes(s, n[s] + 1, k)
        /\ \/ n[s] + 1 = Num(s) /\ hpc'[s] = "close" /\ n'[s] = 0
           \/ n[s] + 1 # Num(s) /\ hpc'[s] = "fork" /\ n'[s] = n[s] + 1
    BY <1>2, <1>9 DEF Fork, Whole, Placed
  <2>2. k.st = "born" /\ k.todo = 0 /\ k.ends = server
    BY DEF NoKid
  <2> HIDE DEF k
  <2>3. \A i \in Slots : kid'[s][i] = IF i = n[s] + 1 THEN k ELSE kid[s][i]
    BY <1>1, <2>1 DEF KidGoes
  <2>4. n[s] + 1 \in 1..Num(s) /\ \A i \in 1..Num(s) : i \in Slots
    BY <1>1, <2>1 DEF Slots
  <2>5. Placed(s)'
    <3>1. \A i \in Slots : i > Num(s) => kid'[s][i].st = "none"
      BY <1>1, <2>1, <2>3 DEF Whole, Placed
    <3>2. hpc'[s] = "fork" => n'[s] < Num(s)
      BY <1>13, <2>1
    <3> QED BY <1>3, <2>1, <3>1, <3>2 DEF Whole, Placed
  <2>6. ASSUME NEW i \in 1..Num(s) PROVE Forked(s, i)'
    <3>1. Forked(s, i) /\ i \in Slots
      BY <2>1, <2>4 DEF Whole, Manned
    <3>2. CASE i = n[s] + 1
      BY <1>1, <1>3, <2>1, <2>2, <2>3, <3>1, <3>2 DEF Forked, Whole, Placed
    <3>3. CASE i # n[s] + 1
      <4>1. kid'[s][i] = kid[s][i]
        BY <2>3, <3>1, <3>3
      <4>2. (hpc[s] = "fork" /\ i > n[s]) <=> (hpc'[s] = "fork" /\ i > n'[s])
        <5>1. i \in Nat /\ i <= Num(s)
          BY <1>13
        <5>2. i > n[s] <=> i > n[s] + 1
          BY <1>13, <3>3, <5>1
        <5> QED BY <1>13, <2>1, <5>1, <5>2
      <4>3. ~(hpc'[s] = "wait") /\ rc'[s] # "OK"
        BY <2>1
      <4>4. Num(s)' = Num(s) /\ Std(s, i)' = Std(s, i)
        BY <1>3, <2>1
      <4> QED BY <3>1, <4>1, <4>2, <4>3, <4>4 DEF Forked
    <3> QED BY <3>2, <3>3
  <2>7. ASSUME Plain(s) PROVE Flows(s)'
    <3>1. Flows(s)
      BY <2>1, <2>7 DEF Whole, Manned
    <3>2. kid[s][n[s] + 1].st = "none" /\ kid[s][n[s] + 1].todo = 0
      BY <1>1, <2>1, <2>4 DEF Whole, Manned, Forked
    <3>3. ASSUME NEW i \in 1..Num(s) PROVE Drained(s, i)'
      <4>1. Drained(s, i) /\ i \in Slots /\ i \in Nat
        BY <1>1, <2>4, <3>1 DEF Flows
      <4>2. i > 1 => i - 1 \in Slots
        BY <1>1 DEF Slots
      <4> QED BY <2>1, <2>2, <2>3, <3>2, <4>1, <4>2 DEF Drained
    <3>4. PICK w \in [Slots -> Nat] : Carried(s, w)
      BY <3>1 DEF Flows
    <3>5. \A i \in 1..Num(s) : kid'[s][i].todo = kid[s][i].todo
      BY <2>2, <2>3, <2>4, <3>2
    <3>7. 1 \in 1..Num(s) /\ \A i \in 2..Num(s) : i \in 1..Num(s)
      BY <1>1, <2>4
    <3>6. kid'[s][1].st \in {"none", "born"} <=> kid[s][1].st \in {"none", "born"}
      <4>1. CASE n[s] + 1 = 1
        BY <2>2, <2>3, <2>4, <3>2, <3>7, <4>1
      <4>2. CASE n[s] + 1 # 1
        BY <2>3, <2>4, <3>7, <4>2
      <4> QED BY <4>1, <4>2
    <3>8. Carried(s, w)'
      BY <1>3, <2>1, <3>4, <3>5, <3>6, <3>7 DEF Carried
    <3> QED BY <1>3, <2>1, <3>3, <3>8 DEF Flows
  <2> QED BY <1>3, <2>1, <2>5, <2>6, <2>7 DEF Whole
<1>10. ASSUME UNCHANGED <<clist, kid, pipe, shown>>, Manned(s),
              \/ hpc'[s] = "close" /\ rc'[s] = "none"
              \/ hpc'[s] = "wait" /\ rc'[s] = "none" /\ n'[s] \in 1..Num(s)
              \/ hpc'[s] = "done" /\ rc'[s] = "OK",
              hpc[s] \in {"close", "wait"},
              \A i \in 1..Num(s) : (hpc'[s] = "wait" /\ i < n'[s]) \/ rc'[s] = "OK" => kid[s][i].st = "ended"
       PROVE  Whole(s)'
  <2>1. Placed(s)'
    BY <1>3, <1>10 DEF Whole, Placed
  <2>2. \A i \in 1..Num(s) : Forked(s, i)'
    BY <1>3, <1>10 DEF Whole, Forked
  <2>3. Plain(s) => Flows(s)'
    BY <1>3, <1>10 DEF Whole, Flows, Drained, Carried
  <2> QED BY <1>3, <1>10, <2>1, <2>2, <2>3 DEF Whole
<1>11. CASE Close(s)
  <2>1. hpc[s] = "close" /\ rc[s] = "none" /\ Manned(s) /\ UNCHANGED <<clist, rc, kid, pipe, shown>>
    BY <1>11 DEF Close, Whole, Placed, Manned
  <2>2. hpc' = hpc \/ (hpc'[s] = "wait" /\ n'[s] = 1)
    BY <1>2, <1>11 DEF Close
  <2>3. \A i \in 1..Num(s) : ~(i < 1)
    BY <1>1
  <2> QED BY <1>1, <1>4, <1>10, <2>1, <2>2, <2>3
<1>12. CASE Wait(s)
  <2>1. /\ hpc[s] = "wait" /\ rc[s] = "none" /\ Manned(s) /\ UNCHANGED <<clist, kid, pipe, shown>>
        /\ kid[s][n[s]].st = "ended" /\ n[s] \in 1..Num(s)
    BY <1>12 DEF Wait, Whole, Placed, Manned
  <2>2. \A i \in 1..Num(s) : i < n[s] + 1 => kid[s][i].st = "ended"
    <3>1. \A i \in 1..Num(s) : i < n[s] + 1 => i < n[s] \/ i = n[s]
      BY <1>13
    <3>2. \A i \in 1..Num(s) : Forked(s, i)
      BY <2>1 DEF Whole
    <3> QED BY <2>1, <3>1, <3>2 DEF Forked
  <2>3. CASE n[s] < Num(s) /\ Moves(s, "wait", n[s] + 1) /\ UNCHANGED rc
    <3>1. hpc'[s] = "wait" /\ n'[s] = n[s] + 1 /\ rc'[s] = "none" /\ n[s] + 1 \in 1..Num(s)
      BY <1>1, <1>2, <2>1, <2>3
    <3> QED BY <1>10, <2>1, <2>2, <3>1
  <2>4. CASE n[s] = Num(s) /\ Returns(s, "OK")
    <3>1. hpc'[s] = "done" /\ rc'[s] = "OK"
      BY <1>1, <1>2, <2>4 DEF Returns
    <3>2. \A i \in 1..Num(s) : kid[s][i].st = "ended"
      BY <1>1, <2>2, <2>4
    <3> QED BY <1>10, <2>1, <3>1, <3>2
  <2>5. CASE Returns(s, "ERR_EXEC_CMD")
    BY <1>7, <2>1, <2>5 DEF Codes
  <2>6. n[s] < Num(s) \/ n[s] = Num(s)
    BY <1>13, <2>1
  <2> QED BY <1>12, <2>3, <2>4, <2>5, <2>6 DEF Wait
<1> QED BY <1>5, <1>6, <1>8, <1>9, <1>11, <1>12 DEF CallerStep

(* The pipe that a child of s reads cannot lose its writer before that has ended, nor the *)
(* pipe it writes its reader.                                                            *)
LEMMA Connected ==
  ASSUME TypeOK, NEW s \in Calls, Whole(s), Manned(s), Plain(s), NEW j \in 1..Num(s), kid[s][j].st = "runs"
  PROVE  /\ j < Num(s) => Held(<<s, j, "r">>)
         /\ j > 1 /\ ~Held(<<s, j - 1, "w">>) => kid[s][j - 1].st = "ended"
<1>1. Num(s) \in Nat /\ Num(s) <= CmdMax /\ CmdMax \in Nat
  BY Parts, Fits, SizeAssumption
<1>2. \A i \in 1..Num(s) : i \in Slots /\ kid[s][i].st \in {"none", "born", "runs", "ended"} /\ Forked(s, i)
  BY <1>1 DEF TypeOK, Kid, Slots, Whole
<1>3. ASSUME j < Num(s) PROVE Held(<<s, j, "r">>)
  <2>1. j + 1 \in 1..Num(s) /\ j \in Slots /\ j + 1 > 1 /\ (j + 1) - 1 = j
    BY <1>1, <1>3 DEF Slots
  <2>2. Drained(s, j + 1)
    BY <2>1 DEF Whole, Flows
  <2>3. kid[s][j + 1].st # "ended"
    BY <2>1, <2>2 DEF Drained
  <2>4. CASE kid[s][j + 1].st = "none"
    <3>1. hpc[s] = "fork"
      BY <1>2, <2>1, <2>4 DEF Forked
    <3> QED BY <1>3, <2>1, <3>1 DEF Whole, Placed, Held
  <2>5. CASE kid[s][j + 1].st = "born"
    BY <1>2, <1>3, <2>1, <2>5 DEF Forked, Held
  <2>6. CASE kid[s][j + 1].st = "runs"
    BY <1>2, <2>1, <2>6 DEF Forked, Held, Std
  <2> QED BY <1>2, <2>1, <2>3, <2>4, <2>5, <2>6
<1>4. ASSUME j > 1, ~Held(<<s, j - 1, "w">>) PROVE kid[s][j - 1].st = "ended"
  <2>1. j - 1 \in 1..Num(s) /\ j - 1 < Num(s) /\ j - 1 \in Slots
    BY <1>1, <1>4 DEF Slots
  <2>2. kid[s][j - 1].st # "none"
    <3>1. ASSUME hpc[s] = "fork", j - 1 > n[s] PROVE FALSE
      <4>1. n[s] \in Nat
        BY Parts DEF CallerTyped
      <4>2. j > n[s]
        BY <1>1, <3>1, <4>1
      <4> QED BY <1>2, <3>1, <4>2 DEF Forked
    <3> QED BY <1>2, <2>1, <3>1 DEF Forked
  <2>3. kid[s][j - 1].st # "born"
    BY <1>2, <1>4, <2>1 DEF Forked, Held
  <2>4. kid[s][j - 1].st # "runs"
    BY <1>2, <1>4, <2>1 DEF Forked, Held, Std
  <2> QED BY <1>2, <2>1, <2>2, <2>3, <2>4
<1> QED BY <1>3, <1>4

(* The steps of a child, of the call s.                                                *)
LEMMA WholeKid ==
  ASSUME TypeOK, NEW s \in Calls, Whole(s), NEW j \in Slots, KidStep(s, j)
  PROVE  Whole(s)'
<1>1. /\ Num(s) \in Nat /\ Num(s) <= CmdMax /\ CmdMax \in Nat /\ Output \in Nat
      /\ kid \in [Calls -> [Slots -> Kid]] /\ pipe \in [Calls -> [Slots -> 0..Cap]] /\ Cap \in Nat
      /\ shown \in [Calls -> Nat]
  BY Parts, Fits, SizeAssumption
<1>2. UNCHANGED <<clist, hpc, n, rc, server>> /\ kid[s][j] \in Kid /\ kid[s][j].st \in {"born", "runs"}
  BY <1>1 DEF KidStep, Exec, Write, Read, Quits
<1>3. Num(s)' = Num(s) /\ Plain(s)' = Plain(s) /\ Manned(s)' = Manned(s)
  BY <1>2 DEF Num, Plain, Manned
<1>4. hpc[s] \notin {"idle", "pipe"} /\ j \in 1..Num(s) /\ j \in Nat
  <2>1. hpc[s] \notin {"idle", "pipe"} /\ ~(j > Num(s))
    BY <1>2 DEF Whole, Placed
  <2> QED BY <1>1, <2>1 DEF Slots
<1>5. \A i \in 1..Num(s) : i \in Slots
  BY <1>1 DEF Slots
<1> DEFINE k == kid'[s][j]
<1>6. PICK knew : KidGoes(s, j, knew)
  BY DEF KidStep, Exec, Write, AfterWrite, Read, Quits
<1>7. \A i \in Slots : i # j => kid'[s][i] = kid[s][i]
  BY <1>1, <1>6 DEF KidGoes
<1>8. KidGoes(s, j, k)
  BY <1>1, <1>6 DEF KidGoes
<1>9. /\ Exec(s, j) => /\ kid[s][j].st = "born" /\ k.st = "runs" /\ k.todo = IF clist[s][j] = "ls" THEN Output ELSE 0
                       /\ k.ends = {e \in kid[s][j].ends : e[1] # s \/ e \in Std(s, j)}
      /\ ~Exec(s, j) => kid[s][j].st = "runs" /\ (k.st = "ended" \/ (k.st = "runs" /\ k.ends = kid[s][j].ends))
  <2>1. \A kk : KidGoes(s, j, kk) => k = kk
    BY <1>1 DEF KidGoes
  <2>2. \A b : Ended(kid[s][j], b).st = "ended"
    BY <1>2 DEF Ended, Kid
  <2>3. \A t : /\ [kid[s][j] EXCEPT !.todo = t].st = kid[s][j].st
               /\ [kid[s][j] EXCEPT !.todo = t].ends = kid[s][j].ends
    BY <1>2 DEF Kid
  <2>4. CASE Exec(s, j)
    <3> DEFINE kk == [kid[s][j] EXCEPT !.st = "runs", !.todo = IF clist[s][j] = "ls" THEN Output ELSE 0,
                                       !.ends = {e \in @ : e[1] # s \/ e \in Std(s, j)}]
    <3>1. /\ kk.st = "runs" /\ kk.todo = IF clist[s][j] = "ls" THEN Output ELSE 0
          /\ kk.ends = {e \in kid[s][j].ends : e[1] # s \/ e \in Std(s, j)}
      BY <1>2 DEF Kid
    <3>2. k = kk
      BY <2>1, <2>4 DEF Exec
    <3> HIDE DEF k, kk
    <3> QED BY <2>4, <3>1, <3>2 DEF Exec
  <2> HIDE DEF k
  <2>5. CASE Write(s, j)
    BY <2>1, <2>2, <2>3, <2>5 DEF Write, AfterWrite, Exec
  <2>6. CASE Read(s, j)
    <3>1. kid[s][j].st = "runs" /\ ~Exec(s, j)
      BY <2>6 DEF Read, Exec
    <3>2. CASE KidGoes(s, j, [kid[s][j] EXCEPT !.todo = 1])
      <4>1. k = [kid[s][j] EXCEPT !.todo = 1]
        BY <2>1, <3>2
      <4> QED BY <2>3, <3>1, <4>1
    <3>3. CASE KidGoes(s, j, Ended(kid[s][j], FALSE))
      BY <2>1, <2>2, <3>1, <3>3
    <3> QED BY <2>6, <3>2, <3>3 DEF Read
  <2>7. CASE Quits(s, j)
    BY <2>1, <2>2, <2>7 DEF Quits, Exec
  <2> QED BY <2>4, <2>5, <2>6, <2>7 DEF KidStep
<1> HIDE DEF k
<1>10. Placed(s)'
  <2>1. \A i \in Slots : i > Num(s) => kid'[s][i].st = "none"
    <3>1. \A i \in Slots : i > Num(s) => i # j
      BY <1>1, <1>4
    <3> QED BY <1>7, <3>1 DEF Whole, Placed
  <2> QED BY <1>2, <1>3, <1>4, <2>1 DEF Whole, Placed
<1>11. ASSUME Manned(s) PROVE \A i \in 1..Num(s)' : Forked(s, i)'
  <2>1. \A i \in 1..Num(s) : Forked(s, i)
    BY <1>11 DEF Whole
  <2>2. k.st = "runs" => Std(s, j) \subseteq k.ends
    <3>1. CASE ~Exec(s, j)
      BY <1>4, <1>9, <2>1, <3>1 DEF Forked
    <3>2. CASE Exec(s, j)
      <4>1. \A i \in Slots : i < Num(s) => <<s, i, "r">> \in kid[s][j].ends /\ <<s, i, "w">> \in kid[s][j].ends
        BY <1>4, <1>9, <2>1, <3>2 DEF Forked
      <4>2. j > 1 => j - 1 \in Slots /\ j - 1 < Num(s)
        BY <1>1, <1>4 DEF Slots
      <4>3. Std(s, j) \subseteq kid[s][j].ends
        BY <4>1, <4>2 DEF Std
      <4> QED BY <1>9, <3>2, <4>3
    <3> QED BY <3>1, <3>2
  <2> QED BY <1>2, <1>4, <1>8, <1>9, <1>11, <2>1, <2>2, ForkedStep
<1>12. ASSUME Manned(s), Plain(s) PROVE Flows(s)'
  <2>1. /\ \A i \in 1..Num(s) : Drained(s, i) /\ Forked(s, i)
        /\ clist[s][1] = "ls" /\ \A i \in 2..Num(s) : clist[s][i] = "cat"
    BY <1>12 DEF Whole, Flows, Plain
  <2>2. PICK w \in [Slots -> Nat] : Carried(s, w)
    BY <1>12 DEF Whole, Flows
  <2>3. 1 \in 1..Num(s) /\ Num(s) \in 1..Num(s) /\ (j # 1 => j \in 2..Num(s) /\ j - 1 \in 1..Num(s))
    BY <1>1, <1>4
  <2>4. \A i \in 1..Num(s) : kid[s][i].todo \in Nat /\ w[i] \in Nat /\ pipe[s][i] \in Nat
    BY <1>1, <1>5, <2>2 DEF Kid
  (* No other child is touched by a step that only moves on. *)
  <2>5. ASSUME NEW u \in [Slots -> Nat], Carried(s, u)',
               k.st = "ended" => /\ k.todo = 0
                                 /\ j > 1 => kid[s][j - 1].st = "ended" /\ pipe'[s][j - 1] = 0,
               \A i \in 2..Num(s) : i # j => pipe'[s][i - 1] = pipe[s][i - 1] \/ kid[s][i].st # "ended"
        PROVE  Flows(s)'
    <3>1. ASSUME NEW i \in 1..Num(s) PROVE Drained(s, i)'
      <4>0. i \in Slots /\ i \in Nat /\ (i > 1 => i - 1 \in Slots /\ i - 1 # i /\ i \in 2..Num(s))
        BY <1>1, <1>5 DEF Slots
      <4>1. CASE i = j
        <5>1. i > 1 => kid'[s][i - 1] = kid[s][i - 1]
          BY <1>7, <4>0, <4>1
        <5> QED BY <2>5, <4>1, <5>1 DEF Drained, k
      <4>2. CASE i # j
        <5>1. kid'[s][i] = kid[s][i]
          BY <1>7, <4>0, <4>2
        <5>2. ASSUME kid[s][i].st = "ended", i > 1 PROVE kid'[s][i - 1].st = "ended" /\ pipe'[s][i - 1] = 0
          <6>1. kid[s][i - 1].st = "ended" /\ pipe[s][i - 1] = 0
            BY <2>1, <5>2 DEF Drained
          <6>2. i - 1 # j
            BY <1>2, <6>1
          <6> QED BY <1>7, <2>5, <4>0, <4>2, <5>2, <6>1, <6>2
        <5>3. kid[s][i].st = "ended" => kid[s][i].todo = 0
          BY <2>1 DEF Drained
        <5> QED BY <5>1, <5>2, <5>3 DEF Drained
      <4> QED BY <4>1, <4>2
    <3> QED BY <1>3, <2>5, <3>1 DEF Flows
  (* What counts for Carried is what each child has in hand. *)
  <2>6. ASSUME k.todo = kid[s][j].todo, k.st \in {"runs", "ended"}, kid[s][j].st = "runs", UNCHANGED <<pipe, shown>>
        PROVE  Carried(s, w)'
    <3>1. \A i \in 1..Num(s) : kid'[s][i].todo = kid[s][i].todo
      BY <1>5, <1>7, <2>6 DEF k
    <3>2. kid'[s][1].st \in {"none", "born"} <=> kid[s][1].st \in {"none", "born"}
      BY <1>5, <1>7, <2>3, <2>6 DEF k
    <3>3. \A i \in 2..Num(s) : i \in 1..Num(s)
      BY <1>1
    <3> QED BY <1>3, <2>2, <2>3, <2>6, <3>1, <3>2, <3>3 DEF Carried
  <2>7. \A b : Ended(kid[s][j], b).st = "ended" /\ Ended(kid[s][j], b).todo = kid[s][j].todo
    BY <1>2 DEF Ended, Kid
  <2>8. \A kk : KidGoes(s, j, kk) => k = kk
    BY <1>1 DEF KidGoes, k
  <2>9. CASE Exec(s, j)
    <3>1. kid[s][j].st = "born" /\ kid[s][j].todo = 0 /\ k.st = "runs" /\ UNCHANGED <<pipe, shown>>
      BY <1>4, <1>9, <2>1, <2>9 DEF Forked, Exec
    <3>2. k.todo = IF j = 1 THEN Output ELSE 0
      BY <1>9, <2>1, <2>3, <2>9
    <3>3. w[1] + kid'[s][1].todo = IF kid'[s][1].st \in {"none", "born"} THEN 0 ELSE Output
      <4>1. CASE j = 1
        <5>1. w[1] = 0
          BY <2>2, <2>3, <2>4, <3>1, <4>1 DEF Carried
        <5>2. kid'[s][1] = k
          BY <4>1 DEF k
        <5> QED BY <1>1, <3>1, <3>2, <4>1, <5>1, <5>2
      <4>2. CASE j # 1
        <5>1. kid'[s][1] = kid[s][1]
          BY <1>5, <1>7, <2>3, <4>2
        <5> QED BY <2>2, <5>1 DEF Carried
      <4> QED BY <4>1, <4>2
    <3>4. \A i \in 2..Num(s) : kid'[s][i].todo = kid[s][i].todo
      <4> TAKE i \in 2..Num(s)
      <4>1. i \in Slots /\ i # 1
        BY <1>1 DEF Slots
      <4>2. CASE i = j
        BY <3>1, <3>2, <4>1, <4>2 DEF k
      <4>3. CASE i # j
        BY <1>7, <4>1, <4>3
      <4> QED BY <4>2, <4>3
    <3>5. Carried(s, w)'
      BY <1>3, <2>2, <3>1, <3>3, <3>4 DEF Carried
    <3> QED BY <2>5, <3>1, <3>5
  <2>10. CASE Write(s, j)
    <3>1. kid[s][j].st = "runs" /\ kid[s][j].todo > 0
      BY <2>10 DEF Write
    <3>2. /\ KidGoes(s, j, [kid[s][j] EXCEPT !.todo = @ - 1])
          /\ \/ j = Num(s) /\ shown' = [shown EXCEPT ![s] = @ + 1] /\ UNCHANGED pipe
             \/ j < Num(s) /\ pipe' = [pipe EXCEPT ![s][j] = @ + 1] /\ UNCHANGED shown
      <4>1. clist[s][j] # "head"
        BY <2>1, <2>3
      <4>2. j < Num(s) => Held(<<s, j, "r">>)
        BY <1>4, <1>12, <3>1, Connected
      <4> QED BY <2>10, <4>1, <4>2 DEF Write, AfterWrite
    <3>3. k.st = "runs" /\ k.todo = kid[s][j].todo - 1
      <4>1. k = [kid[s][j] EXCEPT !.todo = @ - 1]
        BY <2>8, <3>2
      <4> QED BY <1>2, <3>1, <4>1 DEF Kid
    <3> DEFINE u == [w EXCEPT ![j] = @ + 1]
    <3>4. u \in [Slots -> Nat] /\ \A i \in Slots : u[i] = IF i = j THEN w[i] + 1 ELSE w[i]
      BY <2>4
    <3> HIDE DEF u
    <3>5. /\ \A i \in 1..Num(s) : pipe'[s][i] = IF i = j /\ j < Num(s) THEN pipe[s][i] + 1 ELSE pipe[s][i]
          /\ shown'[s] = IF j = Num(s) THEN shown[s] + 1 ELSE shown[s]
      <4>1. CASE j = Num(s)
        BY <1>1, <1>4, <3>2, <4>1
      <4>2. CASE j # Num(s)
        BY <1>1, <1>4, <1>5, <3>2, <4>2
      <4> QED BY <4>1, <4>2
    <3>6. \A i \in 1..Num(s) : kid'[s][i].todo = IF i = j THEN kid[s][i].todo - 1 ELSE kid[s][i].todo
      BY <1>5, <1>7, <3>3 DEF k
    <3>7. u[Num(s)] = shown'[s]
      <4>1. w[Num(s)] = shown[s] /\ Num(s) \in Slots
        BY <1>5, <2>2, <2>3 DEF Carried
      <4> QED BY <3>4, <3>5, <4>1
    <3>8. u[1] + kid'[s][1].todo = IF kid'[s][1].st \in {"none", "born"} THEN 0 ELSE Output
      <4>1. 1 \in Slots /\ w[1] \in Nat /\ kid[s][1].todo \in Nat
        BY <1>5, <2>3, <2>4
      <4>2. kid'[s][1].st \in {"none", "born"} <=> kid[s][1].st \in {"none", "born"}
        BY <1>7, <3>1, <3>3, <4>1 DEF k
      <4>3. u[1] + kid'[s][1].todo = w[1] + kid[s][1].todo
        BY <2>3, <3>4, <3>6, <4>1
      <4> QED BY <2>2, <4>2, <4>3 DEF Carried
    <3>9. ASSUME NEW i \in 2..Num(s) PROVE u[i - 1] = pipe'[s][i - 1] + kid'[s][i].todo + u[i]
      <4>1. i \in 1..Num(s) /\ i - 1 \in 1..Num(s) /\ i \in Slots /\ i - 1 \in Slots /\ i - 1 < Num(s)
        BY <1>1, <1>5
      <4>2. w[i - 1] = pipe[s][i - 1] + kid[s][i].todo + w[i]
        BY <2>2 DEF Carried
      <4>3. w[i] \in Nat /\ w[i - 1] \in Nat /\ pipe[s][i - 1] \in Nat /\ kid[s][i].todo \in Nat
        BY <2>4, <4>1
      <4>4. CASE i = j
        <5>1. i - 1 # j
          BY <1>4, <4>4
        <5>2. u[i] = w[i] + 1 /\ u[i - 1] = w[i - 1] /\ pipe'[s][i - 1] = pipe[s][i - 1]
              /\ kid'[s][i].todo = kid[s][i].todo - 1
          BY <3>4, <3>5, <3>6, <4>1, <4>4, <5>1
        <5> QED BY <4>2, <4>3, <5>2
      <4>5. CASE i - 1 = j
        <5>1. i # j /\ j < Num(s)
          BY <1>1, <4>5
        <5>2. u[i] = w[i] /\ u[i - 1] = w[i - 1] + 1 /\ pipe'[s][i - 1] = pipe[s][i - 1] + 1
              /\ kid'[s][i].todo = kid[s][i].todo
          BY <3>4, <3>5, <3>6, <4>1, <4>5, <5>1
        <5> QED BY <4>2, <4>3, <5>2
      <4>6. CASE i # j /\ i - 1 # j
        BY <3>4, <3>5, <3>6, <4>1, <4>2, <4>6
      <4> QED BY <4>4, <4>5, <4>6
    <3>10. \A i \in 2..Num(s) : i # j => pipe'[s][i - 1] = pipe[s][i - 1] \/ kid[s][i].st # "ended"
      <4> SUFFICES ASSUME NEW i \in 2..Num(s), i - 1 = j, kid[s][i].st = "ended" PROVE FALSE
        BY <1>1, <3>5
      <4>1. i \in 1..Num(s) /\ i > 1
        BY <1>1
      <4> QED BY <2>1, <3>1, <4>1 DEF Drained
    <3>11. Carried(s, u)'
      BY <1>3, <3>7, <3>8, <3>9 DEF Carried
    <3> QED BY <2>5, <3>3, <3>4, <3>10, <3>11
  <2>11. CASE Read(s, j)
    <3>1. kid[s][j].st = "runs" /\ kid[s][j].todo = 0 /\ j > 1 /\ UNCHANGED shown
      BY <2>11 DEF Read
    <3>2. j \in 2..Num(s) /\ j - 1 \in 1..Num(s) /\ j - 1 \in Slots
      BY <1>5, <2>3, <3>1
    <3>3. CASE /\ pipe[s][j - 1] > 0 /\ pipe' = [pipe EXCEPT ![s][j - 1] = @ - 1]
               /\ KidGoes(s, j, [kid[s][j] EXCEPT !.todo = 1])
      <4>1. k.st = "runs" /\ k.todo = 1
        <5>1. k = [kid[s][j] EXCEPT !.todo = 1]
          BY <2>8, <3>3
        <5> QED BY <1>2, <3>1, <5>1 DEF Kid
      <4>2. \A i \in 2..Num(s) : pipe'[s][i - 1] = IF i = j THEN pipe[s][i - 1] - 1 ELSE pipe[s][i - 1]
        <5> TAKE i \in 2..Num(s)
        <5>1. i - 1 \in Slots /\ (i - 1 = j - 1 <=> i = j)
          BY <1>1, <1>4 DEF Slots
        <5> QED BY <1>1, <3>2, <3>3, <5>1
      <4>3. \A i \in 1..Num(s) : kid'[s][i].todo = IF i = j THEN 1 ELSE kid[s][i].todo
        BY <1>5, <1>7, <4>1 DEF k
      <4>4. ASSUME NEW i \in 2..Num(s) PROVE w[i - 1] = pipe'[s][i - 1] + kid'[s][i].todo + w[i]
        <5>1. i \in 1..Num(s) /\ i - 1 \in 1..Num(s)
          BY <1>1
        <5>2. w[i - 1] = pipe[s][i - 1] + kid[s][i].todo + w[i]
          BY <2>2 DEF Carried
        <5>3. w[i] \in Nat /\ pipe[s][i - 1] \in Nat
          BY <2>4, <5>1
        <5>4. CASE i = j
          <6>1. pipe'[s][i - 1] = pipe[s][i - 1] - 1 /\ kid'[s][i].todo = 1 /\ kid[s][i].todo = 0
            BY <3>1, <4>2, <4>3, <5>1, <5>4
          <6> QED BY <5>2, <5>3, <6>1
        <5>5. CASE i # j
          <6>1. pipe'[s][i - 1] = pipe[s][i - 1] /\ kid'[s][i].todo = kid[s][i].todo
            BY <4>2, <4>3, <5>1, <5>5
          <6> QED BY <5>2, <6>1
        <5> QED BY <5>4, <5>5
      <4>5. kid'[s][1] = kid[s][1]
        BY <1>5, <1>7, <2>3, <3>1
      <4>6. Carried(s, w)'
        BY <1>3, <2>2, <3>1, <4>4, <4>5 DEF Carried
      <4> QED BY <2>5, <4>1, <4>2, <4>6
    <3>4. CASE pipe[s][j - 1] = 0 /\ ~Held(<<s, j - 1, "w">>) /\ KidGoes(s, j, Ended(kid[s][j], FALSE)) /\ UNCHANGED pipe
      <4>1. k.st = "ended" /\ k.todo = 0
        BY <2>7, <2>8, <3>1, <3>4
      <4>2. kid[s][j - 1].st = "ended"
        BY <1>4, <1>12, <3>1, <3>4, Connected
      <4>3. Carried(s, w)'
        BY <2>6, <3>1, <3>4, <4>1
      <4> QED BY <2>5, <3>4, <4>1, <4>2, <4>3
    <3> QED BY <2>11, <3>3, <3>4 DEF Read
  <2>12. CASE Quits(s, j)
    <3>1. kid[s][j].st = "runs" /\ kid[s][j].todo = 0 /\ UNCHANGED <<pipe, shown>> /\ clist[s][j] \in {"ls", "false"}
      BY <2>12 DEF Quits
    <3>2. k.st = "ended" /\ k.todo = 0
      BY <2>7, <2>8, <2>12, <3>1 DEF Quits
    <3>3. j = 1
      BY <2>1, <2>3, <3>1
    <3>4. Carried(s, w)'
      BY <2>6, <3>1, <3>2
    <3> QED BY <2>5, <3>1, <3>2, <3>3, <3>4
  <2> QED BY <2>9, <2>10, <2>11, <2>12 DEF KidStep
<1> QED BY <1>3, <1>10, <1>11, <1>12 DEF Whole

(* Inductive, with TypeOK. *)
AllWhole == DOMAIN clist = Calls /\ \A s \in Calls : Whole(s)

LEMMA WholeStep == TypeOK /\ AllWhole /\ [Next]_vars => AllWhole'
<1> SUFFICES ASSUME TypeOK, AllWhole, [Next]_vars PROVE AllWhole'
  OBVIOUS
<1>1. /\ hpc \in [Calls -> Places] /\ n \in [Calls -> Nat] /\ rc \in [Calls -> Codes]
      /\ kid \in [Calls -> [Slots -> Kid]] /\ pipe \in [Calls -> [Slots -> 0..Cap]] /\ shown \in [Calls -> Nat]
      /\ DOMAIN clist = Calls
  BY Parts DEF CallerTyped, AllWhole
<1>2. CASE UNCHANGED vars
  BY <1>1, <1>2, WholeElsewhere DEF vars, AllWhole
<1>3. ASSUME NEW t \in Calls, Call(t) \/ CallerStep(t) \/ PipeFails(t) \/ ForkFails(t) \/ ForkFailsOpen(t)
      PROVE  AllWhole'
  <2>1. DOMAIN clist' = Calls
    BY <1>1, <1>3 DEF CallerStep, Call, MakePipe, MeetsBuiltIn, GivesUp, Fork, Close, Wait, PipeFails,
                      ForkFails, ForkFailsOpen
  <2>2. ASSUME NEW s \in Calls \ {t} PROVE Whole(s)'
    <3>1. hpc'[s] = hpc[s] /\ n'[s] = n[s]
      BY <1>1, <1>3 DEF CallerStep, Call, MakePipe, MeetsBuiltIn, GivesUp, Fork, Close, Wait, PipeFails,
                        ForkFails, ForkFailsOpen, Moves, Returns
    <3>2. rc'[s] = rc[s] /\ clist'[s] = clist[s]
      BY <1>1, <1>3 DEF CallerStep, Call, MakePipe, MeetsBuiltIn, GivesUp, Fork, Close, Wait, PipeFails,
                        ForkFails, ForkFailsOpen, Returns
    <3>3. kid'[s] = kid[s] /\ pipe'[s] = pipe[s] /\ shown'[s] = shown[s]
      BY <1>1, <1>3 DEF CallerStep, Call, MakePipe, MeetsBuiltIn, GivesUp, Fork, Close, Wait, PipeFails,
                        ForkFails, ForkFailsOpen, KidGoes
    <3>4. \A e \in server : e[1] = s => e \in server'
      BY <1>3 DEF CallerStep, Call, MakePipe, MeetsBuiltIn, GivesUp, Fork, Close, Wait, PipeFails,
                  ForkFails, ForkFailsOpen, Own
    <3> QED BY <3>1, <3>2, <3>3, <3>4, WholeElsewhere DEF AllWhole
  <2>3. Whole(t)'
    BY <1>1, <1>3, WholeCaller DEF AllWhole
  <2> QED BY <2>1, <2>2, <2>3 DEF AllWhole
<1>4. ASSUME NEW t \in Calls, NEW j \in Slots, KidStep(t, j) PROVE AllWhole'
  <2>1. UNCHANGED <<clist, hpc, n, rc, server>>
    BY <1>4 DEF KidStep, Exec, Write, Read, Quits
  <2>2. ASSUME NEW s \in Calls \ {t} PROVE Whole(s)'
    <3>1. kid'[s] = kid[s]
      BY <1>1, <1>4 DEF KidStep, Exec, Write, Read, Quits, KidGoes
    <3>2. pipe'[s] = pipe[s] /\ shown'[s] = shown[s]
      BY <1>1, <1>4 DEF KidStep, Exec, Write, Read, Quits
    <3> QED BY <2>1, <3>1, <3>2, WholeElsewhere DEF AllWhole
  <2> QED BY <1>1, <1>4, <2>1, <2>2, WholeKid DEF AllWhole
<1> QED BY <1>2, <1>3, <1>4 DEF Next, RshExecutePipeline, ExecPipeline, ForkPipe, ForkPipeline

(* Nothing is left in hand or in a pipe when all children have ended. *)
LEMMA AllArrived ==
  ASSUME TypeOK, NEW s \in Calls, Whole(s), rc[s] = "OK", Plain(s)
  PROVE  shown[s] = Output
<1>1. Num(s) \in Nat /\ 1 \in 1..Num(s)
  <2>1. Num(s) \in Nat
    BY Parts, Fits
  <2>2. clist[s] \in Pipelines[s] /\ clist[s] # <<>>
    BY DEF Plain, TypeOK
  <2>3. Len(clist[s]) >= 1
    BY <2>2, PipelinesAssumption
  <2> QED BY <2>1, <2>3 DEF Num
<1>2. \A i \in 1..Num(s) : kid[s][i].st = "ended" /\ kid[s][i].todo = 0 /\ (i > 1 => pipe[s][i - 1] = 0)
  BY DEF Whole, Manned, Forked, Flows, Drained
<1>3. PICK w \in [Slots -> Nat] : Carried(s, w)
  BY DEF Whole, Manned, Flows
<1>4. ASSUME NEW i \in 2..Num(s) PROVE w[i - 1] = w[i]
  <2>1. i \in 1..Num(s) /\ i > 1 /\ i \in Slots
    <3>1. Num(s) <= CmdMax /\ CmdMax \in Nat
      BY Parts, Fits, SizeAssumption
    <3> QED BY <1>1, <3>1 DEF Slots
  <2>2. w[i] \in Nat /\ w[i - 1] = pipe[s][i - 1] + kid[s][i].todo + w[i]
    BY <1>3, <2>1 DEF Carried
  <2> QED BY <1>2, <2>1, <2>2
<1> DEFINE T == {i \in 1..Num(s) : w[i] # w[1]}
<1>5. T = {}
  <2>1. SUFFICES ASSUME T # {} PROVE FALSE
    OBVIOUS
  <2>2. PICK i \in T : \A l \in T : ~(l < i)
    <3>1. T \subseteq Nat
      BY <1>1
    <3> HIDE DEF T
    <3> QED BY <2>1, <3>1, LeastNumber
  <2>3. i \in 2..Num(s) /\ i - 1 \in 1..Num(s) /\ i - 1 < i
    BY <1>1, <2>2
  <2>4. w[i - 1] = w[1]
    BY <2>2, <2>3
  <2> QED BY <1>4, <2>2, <2>3, <2>4
<1>6. 1 \in Slots /\ Num(s) \in 1..Num(s)
  <2>1. Num(s) <= CmdMax /\ CmdMax \in Nat
    BY Parts, Fits, SizeAssumption
  <2> QED BY <1>1, <2>1 DEF Slots
<1>7. w[1] = Output
  <2>1. w[1] + 0 = Output /\ w[1] \in Nat
    BY <1>1, <1>2, <1>3, <1>6 DEF Carried
  <2> QED BY <2>1
<1>8. w[Num(s)] = w[1]
  BY <1>5, <1>6
<1> QED BY <1>3, <1>7, <1>8 DEF Carried

(* What every command of a pipeline has written, read and still in hand adds up, and a *)
(* pipe is never without a reader before its writer has ended, for any calls at the     *)
(* same time: the invariant behind AllShown.                                            *)
THEOREM NothingLeaks == Spec => []AllWhole
<1>1. Init => AllWhole
  <2> SUFFICES ASSUME Init PROVE AllWhole
    OBVIOUS
  <2>1. DOMAIN clist = Calls
    BY DEF Init
  <2>2. ASSUME NEW s \in Calls PROVE Whole(s)
    <3>1. hpc[s] = "idle" /\ rc[s] = "none" /\ shown[s] = 0
      BY DEF Init
    <3>2. \A i \in Slots : kid[s][i].st = "none" /\ kid[s][i].todo = 0 /\ pipe[s][i] = 0
      BY DEF Init, NoKid
    <3>3. ~Manned(s)
      BY <3>1 DEF Manned
    <3>4. Placed(s)
      BY <3>1, <3>2 DEF Placed
    <3> QED BY <3>3, <3>4 DEF Whole
  <2> QED BY <2>1, <2>2 DEF AllWhole
<1> QED BY <1>1, WholeStep, Typing, PTL DEF Spec

(* AllShown: when a call has succeeded, the whole output of its first program has      *)
(* reached the socket or the terminal (rsh_server.c:581-604), for any number of "cat"s, *)
(* any sizes, in every mode and whatever other sessions do.                             *)
THEOREM OutputComplete == Spec => []AllShown
<1>1. TypeOK /\ AllWhole => AllShown
  <2> SUFFICES ASSUME TypeOK, AllWhole, NEW s \in Calls, rc[s] = "OK", clist[s][1] = "ls",
                      \A i \in 2..Num(s) : clist[s][i] = "cat"
               PROVE  shown[s] = Output
    BY DEF AllShown
  <2>1. Whole(s)
    BY DEF AllWhole
  <2>2. clist[s] # <<>>
    BY <2>1 DEF Whole, Placed
  <2> QED BY <2>1, <2>2, AllArrived DEF Plain
<1> QED BY <1>1, NothingLeaks, Typing, PTL
=========================================================================
