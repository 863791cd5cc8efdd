-------------------------- MODULE RshSession_proofs --------------------------
(***************************************************************************)
(* Theorems about RshSession, for every set of clients and every bound.    *)
(***************************************************************************)
EXTENDS RshSession, TLAPS

USE DEF serverVars, handlerVars, childVars, clientVars, netVars

(***************************************************************************)
(* What the shared parts of the actions preserve.                          *)
(***************************************************************************)
LEMMA HangUpTyped ==
  ASSUME TypeOK, NEW S, NEW D, NEW queue \in Seq(Clients), NEW up, HangUp(S, D, queue, up)
  PROVE  /\ cs' \in [Clients -> EndStates]
         /\ inq' \in [Clients -> Seq(Request)]
         /\ held' \in [Clients -> SUBSET Clients]
         /\ backlog' \in Seq(Clients)
<1>1. cs' \in [Clients -> EndStates]
  BY DEF TypeOK, HangUp, EndStates
<1>2. inq' \in [Clients -> Seq(Request)]
  <2>1. inq \in [Clients -> Seq(Request)] /\ <<>> \in Seq(Request)
    BY DEF TypeOK
  <2> QED BY <2>1 DEF HangUp
<1>3. held' \in [Clients -> SUBSET Clients]
  BY DEF TypeOK, HangUp
<1>4. backlog' \in Seq(Clients)
  BY DEF HangUp
<1> QED BY <1>1, <1>2, <1>3, <1>4

LEMMA ProcessEndsTyped ==
  ASSUME TypeOK, NEW S, NEW queue \in Seq(Clients), ProcessEnds(S, queue)
  PROVE  /\ main' = "down" /\ backlog' \in Seq(Clients)
         /\ spc' \in [Clients -> HandlerStates]
         /\ cs' \in [Clients -> EndStates]
         /\ inq' \in [Clients -> Seq(Request)]
         /\ held' \in [Clients -> SUBSET Clients]
<1>1. main' = "down" /\ spc' \in [Clients -> HandlerStates]
  BY DEF TypeOK, ProcessEnds, HandlerStates
<1>2. HangUp(S, {}, queue, FALSE)
  BY DEF ProcessEnds
<1> QED BY <1>1, <1>2, HangUpTyped

LEMMA SendTyped ==
  ASSUME TypeOK, NEW c \in Clients, NEW k \in {"out", "eof"},
         Delivered(c, Item(c, k)) \/ Refused(c) \/ BrokenPipe(c)
  PROVE  /\ ss' \in [Clients -> EndStates]
         /\ outq' \in [Clients -> Seq(Response)]
<1>1. ss' \in [Clients -> EndStates]
  BY DEF TypeOK, Delivered, Refused, BrokenPipe, EndStates
<1>2. Item(c, k) \in Response
  BY DEF TypeOK, Item, Response
<1>3. outq' \in [Clients -> Seq(Response)]
  <2>1. outq \in [Clients -> Seq(Response)] /\ Append(outq[c], Item(c, k)) \in Seq(Response)
    BY <1>2 DEF TypeOK
  <2>2. outq' = outq \/ outq' = [outq EXCEPT ![c] = Append(@, Item(c, k))]
    BY DEF Delivered, Refused, BrokenPipe
  <2> QED BY <2>1, <2>2
<1> QED BY <1>1, <1>3

LEMMA ClientHangUpTyped ==
  ASSUME TypeOK, NEW c \in Clients, ClientHangUp(c)
  PROVE  /\ ss' \in [Clients -> EndStates] /\ cs' \in [Clients -> EndStates]
         /\ outq' \in [Clients -> Seq(Response)]
<1>1. outq \in [Clients -> Seq(Response)] /\ <<>> \in Seq(Response)
  BY DEF TypeOK
<1> QED BY <1>1 DEF TypeOK, ClientHangUp, EndStates

(***************************************************************************)
(* Each variable keeps its type (TypeOK), for any number of clients and    *)
(* lines, in both modes and with any command line.                         *)
(***************************************************************************)
LEMMA LinesKnown == Lines \subseteq KnownLines /\ "none" \notin KnownLines
  BY LinesAssumption DEF KnownLines, Commands

LEMMA UserTyped ==
  ASSUME TypeOK, NEW c \in Clients, UserStep(c)
  PROVE  TypeOK'
<1>1. CASE Connect(c)
  <2>1. backlog' \in Seq(Clients)
    BY <1>1 DEF TypeOK, Connect
  <2> QED BY <1>1, <2>1 DEF TypeOK, Connect, EndStates
<1>2. CASE ConnectRefused(c)
  BY <1>2 DEF TypeOK, ConnectRefused, ClientReturns
<1>3. CASE UserEnds(c)
  <2>1. ClientHangUp(c)
    BY <1>3 DEF UserEnds
  <2> QED BY <1>3, <2>1, ClientHangUpTyped DEF TypeOK, UserEnds, ClientReturns
<1>4. CASE Interrupt(c)
  <2>1. ClientHangUp(c)
    BY <1>4 DEF Interrupt
  <2> QED BY <1>4, <2>1, ClientHangUpTyped DEF TypeOK, Interrupt, ClientReturns
<1>5. ASSUME NEW l \in Lines, SendLine(c, l)
      PROVE  TypeOK'
  <2>1. CASE cs[c] = "reset"
    <3>1. /\ ClientHangUp(c) /\ ClientReturns(c, "ERR_RDSH_COMMUNICATION")
          /\ UNCHANGED <<serverVars, handlerVars, childVars, nsent, got, inq, faults>>
      BY <1>5, <2>1 DEF SendLine
    <3> QED BY <3>1, ClientHangUpTyped DEF TypeOK, ClientReturns
  <2>2. CASE cs[c] # "reset"
    <3>1. [id |-> nsent[c] + 1, line |-> l] \in Request
      BY LinesKnown DEF TypeOK, Request
    <3>2. inq' \in [Clients -> Seq(Request)]
      <4>1. inq \in [Clients -> Seq(Request)]
            /\ Append(inq[c], [id |-> nsent[c] + 1, line |-> l]) \in Seq(Request)
        BY <3>1 DEF TypeOK
      <4>2. inq' = inq \/ inq' = [inq EXCEPT ![c] = Append(@, [id |-> nsent[c] + 1, line |-> l])]
        BY <1>5, <2>2 DEF SendLine
      <4> QED BY <4>1, <4>2
    <3>3. /\ nsent' = [nsent EXCEPT ![c] = @ + 1] /\ cpc' = [cpc EXCEPT ![c] = "wait"]
          /\ UNCHANGED <<serverVars, handlerVars, childVars, crc, got, cs, ss, outq, faults>>
      BY <1>5, <2>2 DEF SendLine
    <3>4. nsent' \in [Clients -> Nat]
      BY <3>3 DEF TypeOK
    <3> QED BY <3>2, <3>3, <3>4 DEF TypeOK
  <2> QED BY <2>1, <2>2
<1> QED BY <1>1, <1>2, <1>3, <1>4, <1>5 DEF UserStep

LEMMA ClientTyped ==
  ASSUME TypeOK, NEW c \in Clients, ClientStep(c)
  PROVE  TypeOK'
<1>1. CASE RecvAnswer(c)
  <2>1. PICK n \in 1..Len(outq[c]) :
          /\ outq' = [outq EXCEPT ![c] = SubSeq(@, n + 1, Len(@))]
          /\ \/ /\ cpc' = [cpc EXCEPT ![c] = "prompt"]
                /\ got' = [got EXCEPT ![c] = outq[c][n].id]
             \/ UNCHANGED <<cpc, got>>
    BY <1>1 DEF RecvAnswer
  <2>2. outq[c] \in Seq(Response) /\ outq[c][n] \in Response /\ Len(outq[c]) \in Nat
    BY DEF TypeOK
  <2>3. SubSeq(outq[c], n + 1, Len(outq[c])) \in Seq(Response)
    BY <2>2
  <2>4. outq' \in [Clients -> Seq(Response)]
    BY <2>1, <2>3 DEF TypeOK
  <2>5. outq[c][n].id \in Nat
    BY <2>2 DEF Response
  <2>6. got' \in [Clients -> Nat] /\ cpc' \in [Clients -> {"start", "prompt", "wait", "done"}]
    BY <2>1, <2>5 DEF TypeOK
  <2> QED BY <1>1, <2>4, <2>6 DEF TypeOK, RecvAnswer
<1>2. CASE RecvEnd(c)
  <2>1. ClientHangUp(c)
    BY <1>2 DEF RecvEnd
  <2> QED BY <1>2, <2>1, ClientHangUpTyped DEF TypeOK, RecvEnd, ClientReturns
<1> QED BY <1>1, <1>2 DEF ClientStep

LEMMA HandlerTyped ==
  ASSUME TypeOK, NEW c \in Clients, HandlerStep(c)
  PROVE  TypeOK'
<1>1. CASE RecvLine(c)
  <2>1. PICK l \in KnownLines, id \in 1..MaxLines :
          /\ Arrives(c, id, l)
          /\ cur' = [cur EXCEPT ![c] = id]
          /\ \/ \E rc \in ReturnCodes : Says(c, rc)
             \/ StartPipeline(c, l)
             \/ ForkFails(c, l)
    BY <1>1 DEF RecvLine, ReturnCodes
  <2>2. UNCHANGED <<serverVars, clientVars, cs, ss, outq>>
    BY <1>1 DEF RecvLine
  <2>3. inq' \in [Clients -> Seq(Request)]
    <3>1. inq \in [Clients -> Seq(Request)] /\ inq[c] \in Seq(Request)
      BY DEF TypeOK
    <3>2. CASE inq' = [inq EXCEPT ![c] = Tail(@)] /\ inq[c] # <<>>
      BY <3>1, <3>2
    <3>3. ASSUME NEW s \in Splits, inq[c] # <<>>,
                 inq' = [inq EXCEPT ![c] = <<[id |-> id, line |-> s[3]]>> \o Tail(@)]
          PROVE  inq' \in [Clients -> Seq(Request)]
      <4>1. [id |-> id, line |-> s[3]] \in Request
        BY SplitsAssumption, BoundAssumption DEF Request
      <4>2. <<[id |-> id, line |-> s[3]]>> \o Tail(inq[c]) \in Seq(Request)
        BY <3>1, <3>3, <4>1
      <4> QED BY <3>1, <3>3, <4>2
    <3>4. ASSUME NEW n \in 2..Len(inq[c]),
                 inq' = [inq EXCEPT ![c] = SubSeq(@, n + 1, Len(@))]
          PROVE  inq' \in [Clients -> Seq(Request)]
      <4>1. SubSeq(inq[c], n + 1, Len(inq[c])) \in Seq(Request)
        BY <3>1
      <4> QED BY <3>1, <3>4, <4>1
    <3> QED BY <2>1, <3>2, <3>3, <3>4 DEF Arrives
  <2>4. cur' \in [Clients -> Nat]
    BY <2>1, BoundAssumption DEF TypeOK
  <2>5. CASE \E rc \in ReturnCodes : Says(c, rc)
    <3>1. PICK rc \in ReturnCodes : Says(c, rc)
      BY <2>5
    <3>2. spc' \in [Clients -> HandlerStates] /\ src' \in [Clients -> ReturnCodes]
      BY <3>1 DEF TypeOK, Says, HandlerStates, SendStates
    <3>3. UNCHANGED <<prog, kmsg, keof, bad, held, faults>>
      BY <3>1 DEF Says
    <3> QED BY <2>2, <2>3, <2>4, <3>2, <3>3 DEF TypeOK
  <2>6. CASE StartPipeline(c, l)
    <3>1. Program(l) \in KnownLines \cup {"none"} /\ Missing(l) \in Nat
      BY DEF Program, Missing, KnownLines, Commands
    <3> QED BY <2>2, <2>3, <2>4, <2>6, <3>1 DEF TypeOK, StartPipeline, HandlerStates
  <2>7. CASE ForkFails(c, l)
    <3>1. kmsg' \in [Clients -> Nat] /\ held' \in [Clients -> SUBSET Clients] /\ faults' \in Nat
      BY <2>7 DEF TypeOK, ForkFails, Fault
    <3>2. /\ spc' = [spc EXCEPT ![c] = "msg"] /\ src' = [src EXCEPT ![c] = "ERR_EXEC_CMD"]
          /\ bad' = [bad EXCEPT ![c] = FALSE] /\ UNCHANGED <<prog, keof>>
      BY <2>7 DEF ForkFails
    <3> QED BY <2>2, <2>3, <2>4, <3>1, <3>2
            DEF TypeOK, HandlerStates, SendStates, ReturnCodes
  <2> QED BY <2>1, <2>5, <2>6, <2>7
<1>2. CASE RecvNothing(c)
  BY <1>2 DEF TypeOK, RecvNothing, HandlerStates, ReturnCodes, EndStates
<1>3. CASE PipelineDone(c)
  BY <1>3 DEF TypeOK, PipelineDone, HandlerStates, SendStates, ReturnCodes
<1>4. CASE SendMsg(c)
  <2>1. Delivered(c, Item(c, "out")) \/ Refused(c)
    BY <1>4 DEF SendMsg
  <2>2. spc' \in [Clients -> HandlerStates]
    BY <1>4 DEF TypeOK, SendMsg, HandlerStates, SendStates
  <2> QED BY <1>4, <2>1, <2>2, SendTyped DEF TypeOK, SendMsg
<1>5. CASE SendMsgEof(c)
  <2>1. Delivered(c, Item(c, "eof")) \/ Refused(c)
    BY <1>5 DEF SendMsgEof
  <2>2. spc' \in [Clients -> HandlerStates]
    BY <1>5 DEF TypeOK, SendMsgEof, HandlerStates
  <2> QED BY <1>5, <2>1, <2>2, SendTyped DEF TypeOK, SendMsgEof
<1>6. CASE SendReply(c)
  <2>1. Delivered(c, Item(c, "eof")) \/ Refused(c)
    BY <1>6 DEF SendReply
  <2>2. /\ \E p \in {"recv", "close"} : spc' = [spc EXCEPT ![c] = p]
        /\ src' = src \/ src' = [src EXCEPT ![c] = "ERR_RDSH_COMMUNICATION"]
    BY <1>6 DEF SendReply
  <2>3. spc' \in [Clients -> HandlerStates] /\ src' \in [Clients -> ReturnCodes]
    <3>1. spc' \in [Clients -> HandlerStates]
      BY <2>2 DEF TypeOK, HandlerStates
    <3>2. src' \in [Clients -> ReturnCodes]
      <4>1. src \in [Clients -> ReturnCodes] /\ "ERR_RDSH_COMMUNICATION" \in ReturnCodes
        BY DEF TypeOK, ReturnCodes
      <4> QED BY <2>2, <4>1
    <3> QED BY <3>1, <3>2
  <2> QED BY <1>6, <2>1, <2>3, SendTyped DEF TypeOK, SendReply
<1>7. CASE SendKills(c)
  <2>1. ProcessEnds({d \in Clients : Active(d)}, backlog)
        /\ UNCHANGED <<src, cur, prog, kmsg, keof, bad, clientVars, faults, ss, outq>>
    BY <1>7 DEF SendKills, BrokenPipe
  <2>2. backlog \in Seq(Clients)
    BY DEF TypeOK
  <2> QED BY <2>1, <2>2, ProcessEndsTyped DEF TypeOK
<1>8. CASE CloseSession(c)
  <2>1. UNCHANGED <<src, cur, prog, kmsg, keof, bad, clientVars, ss, outq, faults>>
    BY <1>8 DEF CloseSession
  <2>0. backlog \in Seq(Clients)
    BY DEF TypeOK
  <2>2. CASE ProcessEnds({c}, backlog)
    BY <2>0, <2>1, <2>2, ProcessEndsTyped DEF TypeOK
  <2>3. CASE /\ HangUp({c}, {}, backlog, TRUE) /\ spc' = [spc EXCEPT ![c] = "closed"]
             /\ main' = (IF Threaded THEN main ELSE "accept")
    BY <2>0, <2>1, <2>3, HangUpTyped DEF TypeOK, HandlerStates
  <2> QED BY <1>8, <2>2, <2>3 DEF CloseSession
<1> QED BY <1>1, <1>2, <1>3, <1>4, <1>5, <1>6, <1>7, <1>8 DEF HandlerStep

LEMMA ChildTyped ==
  ASSUME TypeOK, NEW c \in Clients, ChildStep(c)
  PROVE  TypeOK'
<1>0. ASSUME NEW last, ChildLeaves(c, last)
      PROVE  /\ cs' \in [Clients -> EndStates] /\ inq' \in [Clients -> Seq(Request)]
             /\ held' \in [Clients -> SUBSET Clients] /\ backlog' \in Seq(Clients)
  <2>0. backlog \in Seq(Clients)
    BY DEF TypeOK
  <2>1. CASE last
    BY <1>0, <2>0, <2>1, HangUpTyped DEF ChildLeaves
  <2>2. CASE ~last
    BY <1>0, <2>2 DEF ChildLeaves, TypeOK
  <2> QED BY <2>1, <2>2
<1>1. CASE ProgramEnds(c)
  <2>1. /\ ss' \in [Clients -> EndStates] /\ outq' \in [Clients -> Seq(Response)]
    <3>1. \/ Delivered(c, Item(c, "out")) \/ Refused(c) \/ BrokenPipe(c)
          \/ UNCHANGED <<ss, outq>>
      BY <1>1 DEF ProgramEnds
    <3> QED BY <3>1, SendTyped DEF TypeOK
  <2>2. bad' \in [Clients -> BOOLEAN]
    <3>1. bad' = bad \/ \E b \in BOOLEAN : bad' = [bad EXCEPT ![c] = b]
      <4>1. (bad[c] \/ (prog[c] = "false")) \in BOOLEAN /\ \A b \in BOOLEAN : (bad[c] \/ b) \in BOOLEAN
        OBVIOUS
      <4> QED BY <1>1, <4>1 DEF ProgramEnds
    <3> QED BY <3>1 DEF TypeOK
  <2>3. ChildLeaves(c, kmsg[c] = 0 /\ keof[c] = 0) /\ prog' = [prog EXCEPT ![c] = "none"]
        /\ UNCHANGED <<main, handlerVars, kmsg, keof, clientVars, faults>>
    BY <1>1 DEF ProgramEnds
  <2> QED BY <1>0, <2>1, <2>2, <2>3 DEF TypeOK
<1>2. CASE ProgramReads(c)
  <2>1. Delivered(c, Item(c, "out")) \/ Refused(c)
    BY <1>2 DEF ProgramReads
  <2>2. inq' \in [Clients -> Seq(Request)]
    <3>1. inq \in [Clients -> Seq(Request)] /\ inq[c] \in Seq(Request) /\ inq[c] # <<>>
      BY <1>2 DEF TypeOK, ProgramReads
    <3>2. Tail(inq[c]) \in Seq(Request)
      BY <3>1
    <3> QED BY <1>2, <3>1, <3>2 DEF ProgramReads
  <2>3. UNCHANGED <<serverVars, handlerVars, childVars, clientVars, cs, faults>>
    BY <1>2 DEF ProgramReads
  <2> QED BY <2>1, <2>2, <2>3, SendTyped DEF TypeOK
<1>3. CASE ProgramReadsEnd(c)
  <2>1. bad' \in [Clients -> BOOLEAN]
    <3>1. (bad[c] \/ (ss[c] = "reset")) \in BOOLEAN
      OBVIOUS
    <3> QED BY <1>3, <3>1 DEF TypeOK, ProgramReadsEnd
  <2>2. ss' \in [Clients -> EndStates]
    BY <1>3 DEF TypeOK, ProgramReadsEnd, EndStates
  <2>3. ChildLeaves(c, kmsg[c] = 0 /\ keof[c] = 0) /\ prog' = [prog EXCEPT ![c] = "none"]
        /\ UNCHANGED <<main, handlerVars, kmsg, keof, clientVars, outq, faults>>
    BY <1>3 DEF ProgramReadsEnd
  <2> QED BY <1>0, <2>1, <2>2, <2>3 DEF TypeOK
<1>4. CASE ChildSendsMsg(c)
  <2>1. Delivered(c, Item(c, "out")) \/ Refused(c) \/ BrokenPipe(c)
    BY <1>4 DEF ChildSendsMsg
  <2>2. bad' \in [Clients -> BOOLEAN] /\ keof' \in [Clients -> Nat] /\ kmsg' \in [Clients -> Nat]
    <3>1. kmsg[c] \in Nat /\ kmsg[c] - 1 \in Nat /\ keof[c] + 1 \in Nat
      BY <1>4 DEF TypeOK, ChildSendsMsg
    <3>2. bad' = bad \/ bad' = [bad EXCEPT ![c] = TRUE]
      BY <1>4 DEF ChildSendsMsg
    <3>3. keof' = keof \/ keof' = [keof EXCEPT ![c] = keof[c] + 1]
      BY <1>4 DEF ChildSendsMsg
    <3>4. kmsg' = [kmsg EXCEPT ![c] = kmsg[c] - 1]
      BY <1>4 DEF ChildSendsMsg
    <3>5. bad' \in [Clients -> BOOLEAN]
      BY <3>2 DEF TypeOK
    <3> QED BY <3>1, <3>3, <3>4, <3>5 DEF TypeOK
  <2>3. \/ ChildLeaves(c, kmsg[c] = 1 /\ keof[c] = 0 /\ prog[c] = "none")
        \/ UNCHANGED <<backlog, cs, inq, held>>
    BY <1>4 DEF ChildSendsMsg
  <2>4. UNCHANGED <<main, handlerVars, prog, clientVars, faults>>
    BY <1>4 DEF ChildSendsMsg
  <2>5. /\ cs' \in [Clients -> EndStates] /\ inq' \in [Clients -> Seq(Request)]
        /\ held' \in [Clients -> SUBSET Clients] /\ backlog' \in Seq(Clients)
    BY <1>0, <2>3 DEF TypeOK
  <2> QED BY <2>1, <2>2, <2>4, <2>5, SendTyped DEF TypeOK
<1>5. CASE ChildSendsEof(c)
  <2>1. Delivered(c, Item(c, "eof")) \/ Refused(c) \/ BrokenPipe(c)
    BY <1>5 DEF ChildSendsEof
  <2>2. bad' \in [Clients -> BOOLEAN] /\ keof' \in [Clients -> Nat]
    <3>1. keof[c] \in Nat /\ keof[c] - 1 \in Nat
      BY <1>5 DEF TypeOK, ChildSendsEof
    <3>2. bad' = bad \/ bad' = [bad EXCEPT ![c] = TRUE]
      BY <1>5 DEF ChildSendsEof
    <3>3. keof' = [keof EXCEPT ![c] = keof[c] - 1]
      BY <1>5 DEF ChildSendsEof
    <3>4. bad' \in [Clients -> BOOLEAN]
      BY <3>2 DEF TypeOK
    <3> QED BY <3>1, <3>3, <3>4 DEF TypeOK
  <2>3. ChildLeaves(c, keof[c] = 1 /\ kmsg[c] = 0 /\ prog[c] = "none")
        /\ UNCHANGED <<main, handlerVars, prog, kmsg, clientVars, faults>>
    BY <1>5 DEF ChildSendsEof
  <2> QED BY <1>0, <2>1, <2>2, <2>3, SendTyped DEF TypeOK
<1> QED BY <1>1, <1>2, <1>3, <1>4, <1>5 DEF ChildStep

LEMMA ServerTyped ==
  ASSUME TypeOK, ServerStep
  PROVE  TypeOK'
<1>1. CASE Boot
  BY <1>1 DEF TypeOK, Boot, Fault
<1>2. CASE Accept
  <2>1. backlog \in Seq(Clients) /\ backlog # <<>> /\ backlog' = Tail(backlog)
    BY <1>2 DEF TypeOK, Accept
  <2>2. backlog' \in Seq(Clients)
    BY <2>1
  <2> QED BY <1>2, <2>2 DEF TypeOK, Accept, HandlerStates
<1>3. CASE AcceptFails
  <2>1. faults' \in Nat
    BY <1>3 DEF TypeOK, AcceptFails, Fault
  <2>2. /\ ProcessEnds({c \in Clients : Active(c)}, backlog)
        /\ UNCHANGED <<src, cur, prog, kmsg, keof, bad, clientVars, ss, outq>>
    BY <1>3 DEF AcceptFails
  <2>3. backlog \in Seq(Clients)
    BY DEF TypeOK
  <2> QED BY <2>1, <2>2, <2>3, ProcessEndsTyped DEF TypeOK
<1>4. CASE ThreadFails
  <2>1. faults' \in Nat
    BY <1>4 DEF TypeOK, ThreadFails, Fault
  <2>2. /\ ProcessEnds({c \in Clients : Active(c)} \cup {Head(backlog)}, Tail(backlog))
        /\ UNCHANGED <<src, cur, prog, kmsg, keof, bad, clientVars, ss, outq>>
    BY <1>4 DEF ThreadFails
  <2>3. Tail(backlog) \in Seq(Clients)
    BY <1>4 DEF TypeOK, ThreadFails
  <2> QED BY <2>1, <2>2, <2>3, ProcessEndsTyped DEF TypeOK
<1> QED BY <1>1, <1>2, <1>3, <1>4 DEF ServerStep

THEOREM Typing == Spec => []TypeOK
<1>1. Init => TypeOK
  <2>1. \A c \in Clients : <<>> \in Seq(Request) /\ <<>> \in Seq(Response) /\ <<>> \in Seq(Clients)
    OBVIOUS
  <2> QED BY <2>1 DEF Init, TypeOK, HandlerStates, ReturnCodes, EndStates
<1>2. TypeOK /\ [Next]_vars => TypeOK'
  <2>1. ASSUME TypeOK, UNCHANGED vars PROVE TypeOK'
    BY <2>1 DEF TypeOK, vars
  <2> QED BY <2>1, UserTyped, ClientTyped, HandlerTyped, ChildTyped, ServerTyped DEF Next
<1> QED BY <1>1, <1>2, PTL DEF Spec

-----------------------------------------------------------------------------
(***************************************************************************)
(* Request and response stay in step (InStep), for every set of clients,   *)
(* every number of lines and both modes, when no command line names a      *)
(* missing command and no line is cut by the stream (Paired).              *)
(***************************************************************************)
RestStates == {"none", "recv", "close", "closed"}

(***************************************************************************)
(* An exchange is not disturbed when its unread requests are dropped, as   *)
(* other sessions may do, or its handler goes to a state of rest.          *)
(***************************************************************************)
LEMMA ConversationFrame ==
  ASSUME NEW d \in Clients, Conversation(d),
         cpc'[d] = cpc[d], nsent'[d] = nsent[d], ss'[d] = ss[d], outq'[d] = outq[d],
         prog'[d] = prog[d], kmsg'[d] = kmsg[d], keof'[d] = keof[d], cur'[d] = cur[d],
         inq'[d] = inq[d] \/ inq'[d] = <<>>,
         spc'[d] = spc[d] \/ (spc'[d] \in {"recv", "close", "closed"} /\ cpc[d] # "start")
  PROVE  Conversation(d)'
<1>1. Idle(d)' <=> Idle(d)
  BY DEF Idle
<1>2. Resting(d) => Resting(d)'
  BY <1>1 DEF Resting
<1>. USE DEF RestStates
<1>3. \A i \in 1..Len(inq'[d]) : inq'[d][i].line \in Lines
  <2>1. CASE inq'[d] = inq[d]
    BY <2>1 DEF Conversation
  <2>2. CASE inq'[d] = <<>>
    BY <2>2
  <2> QED BY <2>1, <2>2
<1>4. CASE cpc[d] = "wait"
  <2>1. \A i \in 1..Len(outq'[d]) :
          /\ outq'[d][i].id = nsent'[d]
          /\ outq'[d][i].kind = "eof" => i = Len(outq'[d]) /\ Resting(d)'
    BY <1>2, <1>4 DEF Conversation
  <2>2. inq'[d] # <<>> =>
          /\ Idle(d)' /\ outq'[d] = <<>> /\ Len(inq'[d]) = 1 /\ inq'[d][1].id = nsent'[d]
          /\ spc'[d] \in RestStates
    BY <1>1, <1>4 DEF Conversation, RestStates
  <2>3. Resting(d)' \/ inq'[d] # <<>> \/ cur'[d] = nsent'[d]
    <3>1. CASE inq[d] # <<>> /\ inq'[d] = <<>>
      BY <1>1, <1>4, <3>1 DEF Conversation, Resting
    <3> QED BY <1>2, <1>4, <3>1 DEF Conversation
  <2>4. spc'[d] \in SendStates => Idle(d)'
    BY <1>1, <1>4 DEF Conversation, SendStates
  <2> QED BY <1>3, <1>4, <2>1, <2>2, <2>3, <2>4 DEF Conversation, RestStates
<1>5. CASE cpc[d] # "wait"
  BY <1>2, <1>3, <1>5 DEF Conversation
<1> QED BY <1>4, <1>5

LEMMA QueueFrame ==
  ASSUME TypeOK, QueueInv, backlog' = backlog \/ backlog' = <<>>,
         \A d \in Clients : cpc[d] # "start" => cpc'[d] # "start",
         \A d \in Clients : spc[d] = "none" => spc'[d] = "none"
  PROVE  QueueInv'
<1>1. \A i \in 1..Len(backlog) : backlog[i] \in Clients
  BY DEF TypeOK
<1>2. CASE backlog' = backlog
  BY <1>1, <1>2 DEF QueueInv
<1>3. CASE backlog' = <<>>
  BY <1>3 DEF QueueInv
<1> QED BY <1>2, <1>3

LEMMA HangUpFrame ==
  ASSUME NEW S, NEW D, NEW queue, NEW up, HangUp(S, D, queue, up)
  PROVE  /\ \A d \in Clients : inq'[d] = inq[d] \/ inq'[d] = <<>>
         /\ backlog' = queue \/ backlog' = <<>>
  BY DEF HangUp

(* A process that ends closes the sessions in S; none of them is in the queue. *)
LEMMA ProcessEndsStep ==
  ASSUME TypeOK, StepInv, NEW S, NEW queue \in Seq(Clients), ProcessEnds(S, queue),
         UNCHANGED <<cur, prog, kmsg, keof, clientVars, ss, outq>>,
         \A d \in Clients : d \in S => cpc[d] # "start",
         \A i \in 1..Len(queue) :
           queue[i] \notin S /\ cpc[queue[i]] # "start" /\ spc[queue[i]] = "none",
         \A i, j \in 1..Len(queue) : queue[i] = queue[j] => i = j
  PROVE  StepInv'
<1>0. /\ \A d \in Clients : inq'[d] = inq[d] \/ inq'[d] = <<>>
      /\ backlog' = queue \/ backlog' = <<>>
  BY HangUpFrame DEF ProcessEnds
<1>1. QueueInv'
  <2>1. CASE backlog' = queue
    <3>1. ASSUME NEW i \in 1..Len(queue)
          PROVE  cpc'[queue[i]] # "start" /\ spc'[queue[i]] = "none"
      <4>1. queue[i] \in Clients
        OBVIOUS
      <4> QED BY <4>1 DEF ProcessEnds
    <3> QED BY <2>1, <3>1 DEF QueueInv
  <2>2. CASE backlog' = <<>>
    BY <2>2 DEF QueueInv
  <2> QED BY <1>0, <2>1, <2>2
<1>2. ASSUME NEW d \in Clients PROVE Conversation(d)'
  <2>2. spc'[d] = spc[d] \/ (spc'[d] = "closed" /\ cpc[d] # "start")
    BY DEF ProcessEnds
  <2> QED BY <1>0, <2>2, ConversationFrame DEF StepInv
<1> QED BY <1>1, <1>2 DEF StepInv

LEMMA ServerInStep ==
  ASSUME TypeOK, StepInv, ServerStep
  PROVE  StepInv'
<1>0. \A d \in Clients : Active(d) => cpc[d] # "start"
  BY DEF StepInv, Conversation, Active
<1>1. CASE Boot
  <2>1. \A d \in Clients : Conversation(d)'
    BY <1>1, ConversationFrame DEF Boot, StepInv
  <2> QED BY <1>1, <2>1, QueueFrame DEF Boot, StepInv
<1>2. CASE Accept
  <2>0. PICK c \in Clients : c = Head(backlog)
    BY <1>2 DEF TypeOK, Accept
  <2>1. /\ backlog \in Seq(Clients) /\ backlog # <<>> /\ backlog' = Tail(backlog)
        /\ spc' = [spc EXCEPT ![c] = "recv"]
        /\ UNCHANGED <<src, cur, childVars, clientVars, netVars, faults>>
    BY <1>2, <2>0 DEF TypeOK, Accept
  <2>2. c \in Clients /\ c = backlog[1] /\ 1 \in 1..Len(backlog) /\ Len(backlog) \in Nat
    BY <2>0, <2>1
  <2>3. cpc[c] # "start" /\ spc[c] = "none"
    BY <2>2 DEF StepInv, QueueInv
  <2>4. Conversation(c)'
    <3>1. spc'[c] = "recv"
      BY <2>1, <2>2 DEF TypeOK
    <3> QED BY <2>1, <2>2, <2>3, <3>1, ConversationFrame DEF StepInv
  <2>5. ASSUME NEW d \in Clients, d # c PROVE Conversation(d)'
    BY <2>1, <2>5, ConversationFrame DEF TypeOK, StepInv
  <2>6. QueueInv'
    <3>1. \A i \in 1..Len(backlog') : /\ backlog'[i] = backlog[i+1] /\ i + 1 \in 1..Len(backlog)
                                      /\ backlog[i+1] \in Clients /\ i + 1 # 1
      BY <2>1
    <3>2. \A i \in 1..Len(backlog') : backlog'[i] # c
      BY <2>2, <3>1 DEF StepInv, QueueInv
    <3>3. ASSUME NEW i \in 1..Len(backlog')
          PROVE  cpc'[backlog'[i]] # "start" /\ spc'[backlog'[i]] = "none"
      <4>1. backlog'[i] \in Clients /\ backlog'[i] # c
        BY <3>1, <3>2
      <4>2. cpc[backlog'[i]] # "start" /\ spc[backlog'[i]] = "none"
        BY <3>1 DEF StepInv, QueueInv
      <4> QED BY <2>1, <4>1, <4>2 DEF TypeOK
    <3>4. \A i, j \in 1..Len(backlog') : backlog'[i] = backlog'[j] => i = j
      <4>1. \A i, j \in 1..Len(backlog') : backlog'[i] = backlog'[j] => i + 1 = j + 1
        BY <3>1 DEF StepInv, QueueInv
      <4>2. Len(backlog') \in Nat
        BY <2>1
      <4> QED BY <4>1, <4>2
    <3> QED BY <3>3, <3>4 DEF QueueInv
  <2> QED BY <2>4, <2>5, <2>6 DEF StepInv
<1>3. CASE AcceptFails
  <2>1. /\ ProcessEnds({c \in Clients : Active(c)}, backlog)
        /\ UNCHANGED <<src, cur, prog, kmsg, keof, bad, clientVars, ss, outq>>
    BY <1>3 DEF AcceptFails
  <2>2. PICK S : S = {c \in Clients : Active(c)}
    OBVIOUS
  <2>3. backlog \in Seq(Clients)
    BY DEF TypeOK
  <2>4. \A i \in 1..Len(backlog) :
          backlog[i] \notin S /\ cpc[backlog[i]] # "start" /\ spc[backlog[i]] = "none"
    BY <2>2 DEF StepInv, QueueInv, Active
  <2>5. \A i, j \in 1..Len(backlog) : backlog[i] = backlog[j] => i = j
    BY DEF StepInv, QueueInv
  <2> QED BY <1>0, <2>1, <2>2, <2>3, <2>4, <2>5, ProcessEndsStep
<1>4. CASE ThreadFails
  <2>1. Head(backlog) \in Clients /\ Head(backlog) = backlog[1] /\ 1 \in 1..Len(backlog)
    BY <1>4 DEF ThreadFails, TypeOK
  <2>2. cpc[Head(backlog)] # "start"
    BY <2>1 DEF StepInv, QueueInv
  <2>3. /\ ProcessEnds({c \in Clients : Active(c)} \cup {Head(backlog)}, Tail(backlog))
        /\ UNCHANGED <<src, cur, prog, kmsg, keof, bad, clientVars, ss, outq>>
    BY <1>4 DEF ThreadFails
  <2>4. PICK S : S = {c \in Clients : Active(c)} \cup {Head(backlog)}
    OBVIOUS
  <2>5. ProcessEnds(S, Tail(backlog)) /\ \A d \in Clients : d \in S => cpc[d] # "start"
    BY <1>0, <2>2, <2>3, <2>4
  <2>6. /\ Tail(backlog) \in Seq(Clients)
        /\ \A i \in 1..Len(Tail(backlog)) :
             Tail(backlog)[i] = backlog[i+1] /\ i + 1 \in 1..Len(backlog) /\ i + 1 # 1
    BY <1>4 DEF TypeOK, ThreadFails
  <2>7. ASSUME NEW i \in 1..Len(Tail(backlog))
        PROVE  /\ Tail(backlog)[i] \notin S
               /\ cpc[Tail(backlog)[i]] # "start" /\ spc[Tail(backlog)[i]] = "none"
    <3>1. backlog[i+1] # Head(backlog)
      BY <2>1, <2>6 DEF StepInv, QueueInv
    <3>2. cpc[backlog[i+1]] # "start" /\ spc[backlog[i+1]] = "none"
      BY <2>6 DEF StepInv, QueueInv
    <3> QED BY <2>4, <2>6, <3>1, <3>2 DEF Active
  <2>8. ASSUME NEW i \in 1..Len(Tail(backlog)), NEW j \in 1..Len(Tail(backlog)),
               Tail(backlog)[i] = Tail(backlog)[j]
        PROVE  i = j
    <3>1. i + 1 = j + 1
      BY <2>6, <2>8 DEF StepInv, QueueInv
    <3> QED BY <3>1
  <2> QED BY <2>3, <2>5, <2>6, <2>7, <2>8, ProcessEndsStep
<1> QED BY <1>1, <1>2, <1>3, <1>4 DEF ServerStep

(* A client that has returned leaves nothing to prove about its exchange. *)
LEMMA ClientGone ==
  ASSUME TypeOK, StepInv, NEW c \in Clients, NEW rc, ClientReturns(c, rc), ClientHangUp(c),
         cpc[c] # "start",
         UNCHANGED <<serverVars, handlerVars, childVars, nsent, got, inq, faults>>
  PROVE  StepInv'
<1>1. Conversation(c)'
  <2>1. cpc'[c] = "done" /\ kmsg'[c] = 0 /\ keof'[c] = 0
    BY DEF ClientReturns, TypeOK, StepInv, Conversation
  <2> QED BY <2>1 DEF StepInv, Conversation
<1>2. ASSUME NEW d \in Clients, d # c PROVE Conversation(d)'
  BY <1>2, ConversationFrame DEF StepInv, ClientReturns, ClientHangUp, TypeOK
<1>3. QueueInv'
  BY QueueFrame DEF StepInv, ClientReturns, TypeOK
<1> QED BY <1>1, <1>2, <1>3 DEF StepInv

LEMMA UserInStep ==
  ASSUME TypeOK, StepInv, NEW c \in Clients, UserStep(c)
  PROVE  StepInv'
<1>1. CASE Connect(c)
  <2>1. /\ cpc[c] = "start" /\ backlog' = Append(backlog, c)
        /\ cpc' = [cpc EXCEPT ![c] = "prompt"] /\ ss' = [ss EXCEPT ![c] = "est"]
        /\ UNCHANGED <<handlerVars, childVars, nsent, inq, outq>>
    BY <1>1 DEF Connect
  <2>2. Conversation(c)'
    BY <2>1 DEF TypeOK, StepInv, Conversation, Resting, Idle
  <2>3. ASSUME NEW d \in Clients, d # c PROVE Conversation(d)'
    BY <2>1, <2>3, ConversationFrame DEF StepInv, TypeOK
  <2>4. QueueInv'
    <3>1. /\ backlog \in Seq(Clients) /\ Len(backlog) \in Nat /\ Len(backlog') = Len(backlog) + 1
          /\ \A i \in 1..Len(backlog) : backlog'[i] = backlog[i] /\ backlog[i] \in Clients
          /\ backlog'[Len(backlog) + 1] = c
      BY <2>1 DEF TypeOK
    <3>2. spc[c] = "none" /\ \A i \in 1..Len(backlog) : backlog[i] # c
      BY <2>1 DEF StepInv, Conversation, QueueInv
    <3>3. \A i \in 1..Len(backlog') : i \in 1..Len(backlog) \/ i = Len(backlog) + 1
      BY <3>1
    <3>4. ASSUME NEW i \in 1..Len(backlog')
          PROVE  cpc'[backlog'[i]] # "start" /\ spc'[backlog'[i]] = "none"
      <4>1. CASE i \in 1..Len(backlog)
        BY <2>1, <3>1, <3>2, <4>1 DEF StepInv, QueueInv, TypeOK
      <4>2. CASE i = Len(backlog) + 1
        BY <2>1, <3>1, <3>2, <4>2 DEF TypeOK
      <4> QED BY <3>3, <4>1, <4>2
    <3>5. ASSUME NEW i \in 1..Len(backlog'), NEW j \in 1..Len(backlog'), backlog'[i] = backlog'[j]
          PROVE  i = j
      BY <3>1, <3>2, <3>3, <3>5 DEF StepInv, QueueInv
    <3> QED BY <3>4, <3>5 DEF QueueInv
  <2> QED BY <2>2, <2>3, <2>4 DEF StepInv
<1>2. CASE ConnectRefused(c)
  <2>1. Conversation(c)'
    BY <1>2 DEF ConnectRefused, ClientReturns, TypeOK, StepInv, Conversation
  <2>2. ASSUME NEW d \in Clients, d # c PROVE Conversation(d)'
    BY <1>2, <2>2, ConversationFrame DEF ConnectRefused, ClientReturns, StepInv, TypeOK
  <2>3. QueueInv'
    BY <1>2, QueueFrame DEF ConnectRefused, ClientReturns, StepInv, TypeOK
  <2> QED BY <2>1, <2>2, <2>3 DEF StepInv
<1>3. CASE UserEnds(c)
  BY <1>3, ClientGone DEF UserEnds
<1>4. CASE Interrupt(c)
  BY <1>4, ClientGone DEF Interrupt
<1>5. ASSUME NEW l \in Lines, SendLine(c, l)
      PROVE  StepInv'
  <2>0. cpc[c] = "prompt"
    BY <1>5 DEF SendLine
  <2>1. CASE cs[c] = "reset"
    <3>1. /\ ClientHangUp(c) /\ ClientReturns(c, "ERR_RDSH_COMMUNICATION")
          /\ UNCHANGED <<serverVars, handlerVars, childVars, nsent, got, inq, faults>>
      BY <1>5, <2>1 DEF SendLine
    <3> QED BY <2>0, <3>1, ClientGone
  <2>2. CASE cs[c] # "reset"
    <3> DEFINE r == [id |-> nsent[c] + 1, line |-> l]
    <3>1. /\ nsent' = [nsent EXCEPT ![c] = @ + 1] /\ cpc' = [cpc EXCEPT ![c] = "wait"]
          /\ inq' = inq \/ inq' = [inq EXCEPT ![c] = Append(@, r)]
          /\ UNCHANGED <<serverVars, handlerVars, childVars, crc, got, cs, ss, outq, faults>>
      BY <1>5, <2>2 DEF SendLine
    <3>2. Resting(c) /\ outq[c] = <<>> /\ ss[c] = "est" /\ kmsg[c] = 0 /\ keof[c] = 0
      BY <2>0 DEF StepInv, Conversation
    <3>3. inq'[c] = <<>> \/ inq'[c] = <<r>>
      BY <3>1, <3>2 DEF Resting, TypeOK
    <3>4. /\ cpc'[c] = "wait" /\ nsent'[c] = nsent[c] + 1 /\ nsent[c] \in Nat /\ outq'[c] = <<>>
          /\ Idle(c)' /\ spc'[c] \in RestStates /\ ss'[c] = "est"
          /\ kmsg'[c] = 0 /\ keof'[c] = 0
      BY <3>1, <3>2 DEF Resting, Idle, TypeOK, RestStates
    <3>5. Conversation(c)'
      <4>1. CASE inq'[c] = <<>>
        BY <3>4, <4>1 DEF Conversation, Resting, RestStates, SendStates
      <4>2. CASE inq'[c] = <<r>>
        <5>1. Len(inq'[c]) = 1 /\ inq'[c][1] = r /\ inq'[c] # <<>>
          BY <4>2
        <5>2. \A i \in 1..Len(inq'[c]) : inq'[c][i].line \in Lines
          BY <5>1
        <5> QED BY <3>4, <5>1, <5>2 DEF Conversation, Resting, RestStates, SendStates
      <4> QED BY <3>3, <4>1, <4>2
    <3>6. ASSUME NEW d \in Clients, d # c PROVE Conversation(d)'
      BY <3>1, <3>6, ConversationFrame DEF StepInv, TypeOK
    <3>7. QueueInv'
      BY <2>0, <3>1, QueueFrame DEF StepInv, TypeOK
    <3> QED BY <3>5, <3>6, <3>7 DEF StepInv
  <2> QED BY <2>1, <2>2
<1> QED BY <1>1, <1>2, <1>3, <1>4, <1>5 DEF UserStep

LEMMA ClientInStep ==
  ASSUME TypeOK, StepInv, NEW c \in Clients, ClientStep(c)
  PROVE  StepInv'
<1>1. CASE RecvAnswer(c)
  <2>1. PICK n \in 1..Len(outq[c]) :
          /\ outq' = [outq EXCEPT ![c] = SubSeq(@, n + 1, Len(@))]
          /\ IF outq[c][n].kind = "eof"
             THEN cpc' = [cpc EXCEPT ![c] = "prompt"]
             ELSE UNCHANGED <<cpc, got>>
    BY <1>1 DEF RecvAnswer
  <2>2. /\ cpc[c] = "wait" /\ outq[c] # <<>>
        /\ UNCHANGED <<serverVars, handlerVars, childVars, nsent, ss, inq>>
    BY <1>1 DEF RecvAnswer
  <2>3. outq[c] \in Seq(Response) /\ Len(outq[c]) \in Nat
    BY DEF TypeOK
  <2> DEFINE q == outq[c]
             r == SubSeq(q, n + 1, Len(q))
  <2>4. r \in Seq(Response) /\ Len(r) = Len(q) - n
        /\ \A i \in 1..Len(r) : r[i] = q[i + n] /\ i + n \in 1..Len(q)
    BY <2>3
  <2>5. outq'[c] = r
    BY <2>1 DEF TypeOK
  <2>6. Conversation(c)
    BY DEF StepInv
  <2>7. Idle(c)' = Idle(c) /\ Resting(c)' = Resting(c)
    BY <2>2 DEF Idle, Resting
  <2>8. Conversation(c)'
    <3>1. CASE q[n].kind = "eof"
      <4>1. n = Len(q) /\ Resting(c)
        BY <2>2, <2>6, <3>1 DEF Conversation
      <4>2. r = <<>>
        BY <2>3, <2>4, <4>1
      <4>3. cpc'[c] = "prompt" /\ ss'[c] = "est"
        BY <2>1, <2>2, <2>6, <3>1 DEF TypeOK, Conversation
      <4> QED BY <2>2, <2>5, <2>6, <2>7, <4>1, <4>2, <4>3 DEF Conversation
    <3>2. CASE q[n].kind # "eof"
      <4>1. cpc'[c] = "wait"
        BY <2>1, <2>2, <3>2
      <4>2. ASSUME NEW i \in 1..Len(r)
            PROVE  /\ r[i].id = nsent[c]
                   /\ r[i].kind = "eof" => i = Len(r) /\ Resting(c)
        <5>1. i + n \in 1..Len(q) /\ r[i] = q[i + n]
          BY <2>4
        <5>2. q[i + n].id = nsent[c] /\ (q[i + n].kind = "eof" => i + n = Len(q) /\ Resting(c))
          BY <2>2, <2>6, <5>1 DEF Conversation
        <5> QED BY <2>3, <2>4, <5>1, <5>2
      <4>3. inq[c] = <<>>
        BY <2>2, <2>6 DEF Conversation
      <4> HIDE DEF r
      <4> QED BY <2>2, <2>5, <2>6, <2>7, <4>1, <4>2, <4>3 DEF Conversation
    <3> QED BY <3>1, <3>2
  <2>9. ASSUME NEW d \in Clients, d # c PROVE Conversation(d)'
    <3>1. cpc'[d] = cpc[d] /\ outq'[d] = outq[d]
      BY <2>1, <2>9 DEF TypeOK
    <3> QED BY <2>2, <3>1, ConversationFrame DEF StepInv
  <2>10. QueueInv'
    <3>1. \A d \in Clients : cpc[d] # "start" => cpc'[d] # "start"
      BY <2>1 DEF TypeOK
    <3> QED BY <2>2, <3>1, QueueFrame DEF StepInv
  <2> QED BY <2>8, <2>9, <2>10 DEF StepInv
<1>2. CASE RecvEnd(c)
  <2>1. PICK rc : ClientReturns(c, rc) /\ ClientHangUp(c) /\ cpc[c] # "start"
    BY <1>2 DEF RecvEnd
  <2> QED BY <1>2, <2>1, ClientGone DEF RecvEnd
<1> QED BY <1>1, <1>2 DEF ClientStep

LEMMA PairedLines ==
  ASSUME Paired, NEW l \in Lines \cup {"false"}
  PROVE  Missing(l) = 0
  BY DEF Paired, Missing

(* The handler puts item k on the stream of a waiting client. *)
LEMMA SendInStep ==
  ASSUME TypeOK, StepInv, NEW c \in Clients, NEW k \in {"out", "eof"},
         Delivered(c, Item(c, k)) \/ Refused(c) \/ BrokenPipe(c),
         ~Resting(c), inq[c] = <<>>, cpc[c] \in {"prompt", "wait"}
  PROVE  /\ cpc[c] = "wait" /\ ss'[c] = "est"
         /\ Len(outq'[c]) = Len(outq[c]) + 1
         /\ \A i \in 1..Len(outq'[c]) : outq'[c][i].id = nsent[c]
         /\ \A i \in 1..Len(outq'[c]) :
              outq'[c][i].kind = "eof" => i = Len(outq'[c]) /\ k = "eof"
<1>1. cpc[c] = "wait" /\ ss[c] = "est" /\ cur[c] = nsent[c]
      /\ \A i \in 1..Len(outq[c]) : outq[c][i].id = nsent[c] /\ outq[c][i].kind # "eof"
  BY DEF StepInv, Conversation
<1>2. ss' = ss /\ outq' = [outq EXCEPT ![c] = Append(@, Item(c, k))]
  BY <1>1 DEF Delivered, Refused, BrokenPipe
<1>3. Item(c, k).id = nsent[c] /\ Item(c, k).kind = k
  BY <1>1 DEF Item
<1>4. outq[c] \in Seq(Response) /\ outq'[c] = Append(outq[c], Item(c, k))
  BY <1>2 DEF TypeOK
<1>5. /\ Len(outq'[c]) = Len(outq[c]) + 1 /\ outq'[c][Len(outq[c]) + 1] = Item(c, k)
      /\ \A i \in 1..Len(outq[c]) : outq'[c][i] = outq[c][i]
      /\ \A i \in 1..Len(outq'[c]) : i \in 1..Len(outq[c]) \/ i = Len(outq[c]) + 1
  BY <1>4
<1> QED BY <1>1, <1>2, <1>3, <1>5

LEMMA HandlerInStep ==
  ASSUME TypeOK, StepInv, Paired, NEW c \in Clients, HandlerStep(c)
  PROVE  StepInv'
<1> USE DEF RestStates
<1>0. /\ Conversation(c) /\ spc[c] \notin {"none", "closed"} /\ cpc[c] # "start"
  BY DEF StepInv, Conversation, HandlerStep, RecvLine, RecvNothing, PipelineDone, SendMsg,
         SendMsgEof, SendReply, SendKills, CloseSession, SendStates
(* Steps that touch the handler and the stream of c only. *)
<1>00. ASSUME UNCHANGED <<backlog, cpc, nsent, kmsg, keof>>,
              \A d \in Clients : d # c =>
                /\ spc'[d] = spc[d] /\ cur'[d] = cur[d] /\ prog'[d] = prog[d]
                /\ inq'[d] = inq[d] /\ outq'[d] = outq[d] /\ ss'[d] = ss[d],
              Conversation(c)'
       PROVE  StepInv'
  <2>1. ASSUME NEW d \in Clients, d # c PROVE Conversation(d)'
    BY <1>00, <2>1, ConversationFrame DEF StepInv
  <2>2. QueueInv'
    <3>1. \A d \in Clients : spc[d] = "none" => spc'[d] = "none"
      BY <1>0, <1>00
    <3> QED BY <1>00, <3>1, QueueFrame DEF StepInv
  <2> QED BY <1>00, <2>1, <2>2 DEF StepInv
<1>1. CASE RecvLine(c)
  <2>1. PICK l \in KnownLines, id \in 1..MaxLines :
          /\ Arrives(c, id, l)
          /\ cur' = [cur EXCEPT ![c] = id]
          /\ \/ \E rc \in ReturnCodes : Says(c, rc)
             \/ StartPipeline(c, l)
             \/ ForkFails(c, l)
    BY <1>1 DEF RecvLine, ReturnCodes
  <2>2. /\ spc[c] = "recv" /\ UNCHANGED <<serverVars, clientVars, cs, ss, outq>>
    BY <1>1 DEF RecvLine
  <2>3. inq \in [Clients -> Seq(Request)] /\ inq[c] \in Seq(Request) /\ Len(inq[c]) \in Nat
        /\ inq[c] # <<>> /\ 1 \in 1..Len(inq[c]) /\ Head(inq[c]) = inq[c][1]
    BY <2>1 DEF TypeOK, Arrives
  <2>4. \A i \in 1..Len(inq[c]) : inq[c][i].line \in Lines
    BY <1>0 DEF Conversation
  <2>5. Splits = {}
    BY DEF Paired
  <2>6. /\ l \in Lines \cup {"false"}
        /\ \A i \in 1..Len(inq'[c]) : inq'[c][i].line \in Lines
        /\ \A d \in Clients : d # c => inq'[d] = inq[d]
        /\ cpc[c] = "wait" => inq'[c] = <<>> /\ id = nsent[c]
    <3>1. CASE id = Head(inq[c]).id /\ l = Head(inq[c]).line
               /\ inq' = [inq EXCEPT ![c] = Tail(@)]
      <4>1. inq'[c] = Tail(inq[c]) /\ \A d \in Clients : d # c => inq'[d] = inq[d]
        BY <2>3, <3>1
      <4>2. \A i \in 1..Len(inq'[c]) : inq'[c][i] = inq[c][i+1] /\ i + 1 \in 1..Len(inq[c])
        BY <2>3, <4>1
      <4>3. cpc[c] = "wait" => inq'[c] = <<>> /\ id = nsent[c]
        BY <1>0, <2>3, <3>1, <4>1 DEF Conversation
      <4> QED BY <2>3, <2>4, <3>1, <4>1, <4>2, <4>3
    <3>2. ASSUME NEW n \in 2..Len(inq[c]),
                 id = inq[c][n].id,
                 l \in {inq[c][i].line : i \in 1..n} \cup {"false"},
                 inq' = [inq EXCEPT ![c] = SubSeq(@, n + 1, Len(@))]
          PROVE  /\ l \in Lines \cup {"false"}
                 /\ \A i \in 1..Len(inq'[c]) : inq'[c][i].line \in Lines
                 /\ \A d \in Clients : d # c => inq'[d] = inq[d]
                 /\ cpc[c] # "wait"
      <4>1. inq'[c] = SubSeq(inq[c], n + 1, Len(inq[c])) /\ \A d \in Clients : d # c => inq'[d] = inq[d]
        BY <2>3, <3>2
      <4>2. \A i \in 1..Len(inq'[c]) : inq'[c][i] = inq[c][i+n] /\ i + n \in 1..Len(inq[c])
        BY <2>3, <4>1
      <4>3. cpc[c] # "wait"
        BY <1>0, <2>3, <3>2 DEF Conversation
      <4>4. l \in Lines \cup {"false"}
        BY <2>3, <2>4, <3>2
      <4> QED BY <2>4, <4>1, <4>2, <4>3, <4>4
    <3> QED BY <2>1, <2>5, <3>1, <3>2 DEF Arrives
  <2>7. cpc[c] # "prompt" /\ (cpc[c] = "wait" => Idle(c) /\ outq[c] = <<>>)
    BY <1>0, <2>3 DEF Conversation, Resting
  <2>8. /\ UNCHANGED <<kmsg, keof>> \/ (kmsg' = [kmsg EXCEPT ![c] = 0] /\ keof' = keof)
        /\ \A d \in Clients : d # c => spc'[d] = spc[d] /\ prog'[d] = prog[d] /\ cur'[d] = cur[d]
        /\ spc'[c] \in {"msg", "exec"}
        /\ spc'[c] = "msg" => prog'[c] = prog[c]
    <3>1. Missing(l) = 0
      BY <2>6, PairedLines
    <3>2. CASE \E rc \in ReturnCodes : Says(c, rc)
      BY <2>1, <3>2 DEF Says, TypeOK
    <3>3. CASE StartPipeline(c, l)
      BY <2>1, <3>1, <3>3 DEF StartPipeline, TypeOK
    <3>4. CASE ForkFails(c, l)
      <4>1. 0..0 = {0}
        OBVIOUS
      <4>2. kmsg' = [kmsg EXCEPT ![c] = 0] /\ UNCHANGED <<prog, keof>>
            /\ spc' = [spc EXCEPT ![c] = "msg"]
        BY <3>1, <3>4, <4>1 DEF ForkFails
      <4> QED BY <2>1, <4>2 DEF TypeOK
    <3> QED BY <2>1, <3>2, <3>3, <3>4
  <2>9. UNCHANGED <<kmsg, keof>>
    BY <1>0, <2>8 DEF TypeOK, Conversation
  <2>10. Conversation(c)'
    <3>1. cpc'[c] = cpc[c] /\ nsent'[c] = nsent[c] /\ ss'[c] = ss[c] /\ outq'[c] = outq[c]
          /\ kmsg'[c] = 0 /\ keof'[c] = 0 /\ cur'[c] = id
      BY <1>0, <2>1, <2>2, <2>9 DEF Conversation, TypeOK
    <3>2. CASE cpc[c] = "wait"
      <4>1. outq'[c] = <<>> /\ inq'[c] = <<>> /\ cur'[c] = nsent'[c] /\ ss'[c] = "est"
        BY <1>0, <2>6, <2>7, <3>1, <3>2 DEF Conversation
      <4>2. spc'[c] \in SendStates => Idle(c)'
        BY <2>7, <2>8, <3>1, <3>2 DEF Idle, SendStates
      <4> QED BY <3>1, <3>2, <4>1, <4>2 DEF Conversation
    <3>3. CASE cpc[c] # "wait"
      BY <1>0, <2>6, <2>7, <3>1, <3>3 DEF Conversation
    <3> QED BY <3>2, <3>3
  <2> QED BY <1>00, <2>2, <2>6, <2>8, <2>9, <2>10
<1>2. CASE RecvNothing(c)
  <2>1. Conversation(c)'
    <3>1. cpc[c] \notin {"prompt", "wait"}
      BY <1>0, <1>2 DEF RecvNothing, Conversation
    <3> QED BY <1>0, <1>2, <3>1 DEF RecvNothing, Conversation
  <2> QED BY <1>2, <1>00, <2>1 DEF RecvNothing, TypeOK
<1>3. CASE PipelineDone(c)
  <2>1. \E p \in {"msg", "reply"} : spc' = [spc EXCEPT ![c] = p]
    BY <1>3 DEF PipelineDone
  <2>2. Idle(c) /\ spc[c] = "exec"
        /\ UNCHANGED <<serverVars, cur, childVars, clientVars, netVars, faults>>
    BY <1>3 DEF PipelineDone
  <2>3. Conversation(c)'
    BY <1>0, <2>1, <2>2 DEF TypeOK, Conversation, Resting, Idle
  <2> QED BY <1>00, <2>1, <2>2, <2>3 DEF TypeOK
<1>4. CASE SendMsg(c)
  <2>1. Delivered(c, Item(c, "out")) \/ Refused(c)
    BY <1>4 DEF SendMsg
  <2>2. spc[c] = "msg" /\ UNCHANGED <<serverVars, src, cur, childVars, clientVars, cs, inq, faults>>
        /\ \E p \in {"msgeof", "recv", "close"} : spc' = [spc EXCEPT ![c] = p]
    BY <1>4 DEF SendMsg
  <2>3. cpc[c] \in {"prompt", "wait"} => spc'[c] = "msgeof"
    BY <1>0, <1>4 DEF SendMsg, Refused, Conversation, TypeOK
  <2>4. Conversation(c)'
    <3>1. CASE cpc[c] \in {"prompt", "wait"}
      <4>1. ~Resting(c) /\ inq[c] = <<>> /\ Idle(c) /\ cpc[c] = "wait" /\ cur[c] = nsent[c]
        BY <1>0, <2>2, <3>1 DEF Conversation, Resting, SendStates
      <4>2. /\ ss'[c] = "est"
            /\ \A i \in 1..Len(outq'[c]) : outq'[c][i].id = nsent[c] /\ outq'[c][i].kind # "eof"
        BY <2>1, <4>1, SendInStep
      <4>3. Idle(c)'
        BY <2>2, <4>1 DEF Idle
      <4> QED BY <1>0, <2>2, <2>3, <4>1, <4>2, <4>3 DEF Conversation
    <3>2. CASE cpc[c] \notin {"prompt", "wait"}
      BY <1>0, <2>2, <3>2 DEF Conversation
    <3> QED BY <3>1, <3>2
  <2>5. \A d \in Clients : d # c => outq'[d] = outq[d] /\ ss'[d] = ss[d] /\ spc'[d] = spc[d]
    BY <2>1, <2>2 DEF Delivered, Refused, TypeOK
  <2> QED BY <1>00, <2>2, <2>4, <2>5
<1>5. ASSUME /\ Delivered(c, Item(c, "eof")) \/ Refused(c)
             /\ spc[c] \in SendStates
             /\ UNCHANGED <<serverVars, cur, childVars, clientVars, cs, inq, faults>>
             /\ \E p \in {"recv", "close"} : spc' = [spc EXCEPT ![c] = p]
      PROVE  StepInv'
  <2>1. Conversation(c)'
    <3>1. CASE cpc[c] \in {"prompt", "wait"}
      <4>1. ~Resting(c) /\ inq[c] = <<>> /\ Idle(c) /\ cpc[c] = "wait" /\ cur[c] = nsent[c]
        BY <1>0, <1>5, <3>1 DEF Conversation, Resting, SendStates
      <4>2. /\ ss'[c] = "est" /\ outq'[c] # <<>>
            /\ \A i \in 1..Len(outq'[c]) : /\ outq'[c][i].id = nsent[c]
                                           /\ outq'[c][i].kind = "eof" => i = Len(outq'[c])
        <5>1. \A i \in 1..Len(outq'[c]) : /\ outq'[c][i].id = nsent[c]
                                          /\ outq'[c][i].kind = "eof" => i = Len(outq'[c])
          BY <1>5, <4>1, SendInStep
        <5>2. ss'[c] = "est" /\ Len(outq'[c]) = Len(outq[c]) + 1
          BY <1>5, <4>1, SendInStep
        <5>3. outq[c] \in Seq(Response)
          BY DEF TypeOK
        <5> QED BY <5>1, <5>2, <5>3
      <4>3. Resting(c)'
        BY <1>5, <4>1 DEF Idle, Resting, TypeOK
      <4>4. spc'[c] \notin SendStates
        BY <1>5 DEF TypeOK, SendStates
      <4>5. /\ cpc'[c] = "wait" /\ nsent'[c] = nsent[c] /\ inq'[c] = <<>>
            /\ kmsg'[c] = 0 /\ keof'[c] = 0
        BY <1>0, <1>5, <4>1 DEF Conversation
      <4>6. \A i \in 1..Len(inq'[c]) : inq'[c][i].line \in Lines
        BY <4>5
      <4>7. /\ cpc'[c] # "start" /\ cpc'[c] # "prompt"
            /\ \A i \in 1..Len(outq'[c]) :
                 /\ outq'[c][i].id = nsent'[c]
                 /\ outq'[c][i].kind = "eof" => i = Len(outq'[c]) /\ Resting(c)'
        <5>1. cpc'[c] # "start" /\ cpc'[c] # "prompt"
          BY <4>5
        <5>2. ASSUME NEW i \in 1..Len(outq'[c])
              PROVE  /\ outq'[c][i].id = nsent'[c]
                     /\ outq'[c][i].kind = "eof" => i = Len(outq'[c]) /\ Resting(c)'
          <6>1. outq'[c][i].id = nsent[c] /\ (outq'[c][i].kind = "eof" => i = Len(outq'[c]))
            BY <4>2
          <6> QED BY <6>1, <4>3, <4>5
        <5> QED BY <5>1, <5>2
      <4> QED BY <4>2, <4>3, <4>4, <4>5, <4>6, <4>7 DEF Conversation
    <3>2. CASE cpc[c] \notin {"prompt", "wait"}
      BY <1>0, <1>5, <3>2 DEF Conversation
    <3> QED BY <3>1, <3>2
  <2>2. \A d \in Clients : d # c => outq'[d] = outq[d] /\ ss'[d] = ss[d] /\ spc'[d] = spc[d]
    BY <1>5 DEF Delivered, Refused, TypeOK
  <2> QED BY <1>00, <1>5, <2>1, <2>2
<1>6. CASE SendMsgEof(c)
  BY <1>5, <1>6 DEF SendMsgEof, SendStates
<1>7. CASE SendReply(c)
  BY <1>5, <1>7 DEF SendReply, SendStates
<1>01. /\ backlog \in Seq(Clients)
       /\ \A i \in 1..Len(backlog) :
            ~Active(backlog[i]) /\ cpc[backlog[i]] # "start" /\ spc[backlog[i]] = "none"
       /\ \A i, j \in 1..Len(backlog) : backlog[i] = backlog[j] => i = j
  BY DEF TypeOK, StepInv, QueueInv, Active
<1>8. CASE SendKills(c)
  <2>1. PICK S : S = {d \in Clients : Active(d)}
    OBVIOUS
  <2>2. /\ ProcessEnds(S, backlog) /\ UNCHANGED <<cur, prog, kmsg, keof, clientVars, ss, outq>>
        /\ \A d \in Clients : d \in S => cpc[d] # "start"
    BY <1>8, <2>1 DEF SendKills, BrokenPipe, Active, StepInv, Conversation
  <2>3. \A i \in 1..Len(backlog) :
          backlog[i] \notin S /\ cpc[backlog[i]] # "start" /\ spc[backlog[i]] = "none"
    BY <1>01, <2>1
  <2> QED BY <1>01, <2>2, <2>3, ProcessEndsStep
<1>9. CASE CloseSession(c)
  <2>1. UNCHANGED <<src, cur, prog, kmsg, keof, bad, clientVars, ss, outq, faults>>
    BY <1>9 DEF CloseSession
  <2>2. CASE ProcessEnds({c}, backlog)
    <3>1. \A i \in 1..Len(backlog) :
            backlog[i] \notin {c} /\ cpc[backlog[i]] # "start" /\ spc[backlog[i]] = "none"
      BY <1>9, <1>01 DEF CloseSession, Active
    <3> QED BY <1>0, <1>01, <2>1, <2>2, <3>1, ProcessEndsStep
  <2>3. CASE HangUp({c}, {}, backlog, TRUE) /\ spc' = [spc EXCEPT ![c] = "closed"]
    <3>1. ASSUME NEW d \in Clients PROVE Conversation(d)'
      <4>1. inq'[d] = inq[d] \/ inq'[d] = <<>>
        BY <2>3, HangUpFrame
      <4>2. spc'[d] = spc[d] \/ (spc'[d] = "closed" /\ cpc[d] # "start")
        BY <1>0, <2>3 DEF TypeOK
      <4> QED BY <2>1, <4>1, <4>2, ConversationFrame DEF StepInv
    <3>2. QueueInv'
      <4>1. backlog' = backlog \/ backlog' = <<>>
        BY <2>3, HangUpFrame
      <4>2. \A d \in Clients : spc[d] = "none" => spc'[d] = "none"
        BY <1>9, <2>3 DEF CloseSession, TypeOK
      <4> QED BY <2>1, <4>1, <4>2, QueueFrame DEF StepInv
    <3> QED BY <3>1, <3>2 DEF StepInv
  <2> QED BY <1>9, <2>2, <2>3 DEF CloseSession
<1> QED BY <1>1, <1>2, <1>3, <1>4, <1>6, <1>7, <1>8, <1>9 DEF HandlerStep

(***************************************************************************)
(* Children: with every command found only programs run, and they write    *)
(* nothing but text.                                                       *)
(***************************************************************************)
LEMMA ChildInStep ==
  ASSUME TypeOK, StepInv, NEW c \in Clients, ChildStep(c)
  PROVE  StepInv'
<1> USE DEF RestStates
<1>0. /\ Conversation(c) /\ kmsg[c] = 0 /\ keof[c] = 0 /\ prog[c] # "none" /\ ~Idle(c)
  BY DEF StepInv, Conversation, ChildStep, ProgramEnds, ProgramReads, ProgramReadsEnd,
         ChildSendsMsg, ChildSendsEof, Idle
<1>1. /\ cpc[c] \notin {"start", "prompt"} /\ ~Resting(c)
      /\ cpc[c] = "wait" => inq[c] = <<>> /\ cur[c] = nsent[c] /\ ss[c] = "est"
                            /\ spc[c] \notin SendStates
  BY <1>0 DEF Conversation, Resting
<1>2. ASSUME UNCHANGED <<main, handlerVars, kmsg, keof, clientVars, faults>>,
             backlog' = backlog \/ backlog' = <<>>,
             \A d \in Clients : inq'[d] = inq[d] \/ inq'[d] = <<>>,
             \A d \in Clients : d # c => /\ prog'[d] = prog[d] /\ ss'[d] = ss[d]
                                         /\ outq'[d] = outq[d],
             cpc[c] = "wait" =>
               /\ ss'[c] = "est"
               /\ \A i \in 1..Len(outq'[c]) : outq'[c][i].id = nsent[c] /\ outq'[c][i].kind # "eof"
      PROVE  StepInv'
  <2>1. Conversation(c)'
    <3>1. \A i \in 1..Len(inq'[c]) : inq'[c][i].line \in Lines
      <4>1. CASE inq'[c] = inq[c]
        BY <1>0, <4>1 DEF Conversation
      <4>2. CASE inq'[c] = <<>>
        BY <4>2
      <4> QED BY <1>2, <4>1, <4>2
    <3>2. CASE cpc[c] = "wait"
      <4>1. inq'[c] = <<>> /\ cur'[c] = nsent'[c] /\ spc'[c] \notin SendStates
        BY <1>1, <1>2, <3>2
      <4> QED BY <1>0, <1>2, <3>1, <3>2, <4>1 DEF Conversation
    <3>3. CASE cpc[c] # "wait"
      BY <1>0, <1>1, <1>2, <3>1, <3>3 DEF Conversation
    <3> QED BY <3>2, <3>3
  <2>2. ASSUME NEW d \in Clients, d # c PROVE Conversation(d)'
    BY <1>2, <2>2, ConversationFrame DEF StepInv
  <2>3. QueueInv'
    BY <1>2, QueueFrame DEF StepInv
  <2> QED BY <2>1, <2>2, <2>3 DEF StepInv
<1>3. ASSUME NEW last, ChildLeaves(c, last)
      PROVE  /\ \A d \in Clients : inq'[d] = inq[d] \/ inq'[d] = <<>>
             /\ backlog' = backlog \/ backlog' = <<>>
  BY <1>3, HangUpFrame DEF ChildLeaves
<1>4. ASSUME Delivered(c, Item(c, "out")) \/ Refused(c) \/ BrokenPipe(c)
      PROVE  /\ \A d \in Clients : d # c => ss'[d] = ss[d] /\ outq'[d] = outq[d]
             /\ cpc[c] = "wait" =>
                  /\ ss'[c] = "est"
                  /\ \A i \in 1..Len(outq'[c]) :
                       outq'[c][i].id = nsent[c] /\ outq'[c][i].kind # "eof"
  <2>1. \A d \in Clients : d # c => ss'[d] = ss[d] /\ outq'[d] = outq[d]
    BY <1>4 DEF Delivered, Refused, BrokenPipe, TypeOK
  <2>2. cpc[c] = "wait" =>
          /\ ss'[c] = "est"
          /\ \A i \in 1..Len(outq'[c]) :
               outq'[c][i].id = nsent[c] /\ outq'[c][i].kind # "eof"
    <3>1. SUFFICES ASSUME cpc[c] = "wait"
                   PROVE  /\ ss'[c] = "est"
                          /\ \A i \in 1..Len(outq'[c]) :
                               outq'[c][i].id = nsent[c] /\ outq'[c][i].kind # "eof"
      OBVIOUS
    <3>2. inq[c] = <<>> /\ ~Resting(c) /\ cpc[c] \in {"prompt", "wait"}
      BY <1>1, <3>1
    <3>3. /\ ss'[c] = "est"
          /\ \A i \in 1..Len(outq'[c]) : outq'[c][i].id = nsent[c]
          /\ \A i \in 1..Len(outq'[c]) :
               outq'[c][i].kind = "eof" => i = Len(outq'[c]) /\ "out" = "eof"
      BY <1>4, <3>2, SendInStep
    <3> QED BY <3>3
  <2> QED BY <2>1, <2>2
<1>5. cpc[c] = "wait" =>
        \A i \in 1..Len(outq[c]) : outq[c][i].id = nsent[c] /\ outq[c][i].kind # "eof"
  BY <1>0, <1>1 DEF Conversation
<1>6. CASE ProgramEnds(c)
  <2>1. /\ \/ Delivered(c, Item(c, "out")) \/ Refused(c) \/ BrokenPipe(c)
           \/ UNCHANGED <<ss, outq>>
        /\ ChildLeaves(c, kmsg[c] = 0 /\ keof[c] = 0) /\ prog' = [prog EXCEPT ![c] = "none"]
        /\ UNCHANGED <<main, handlerVars, kmsg, keof, clientVars, faults>>
    BY <1>6 DEF ProgramEnds
  <2>2. /\ \A d \in Clients : inq'[d] = inq[d] \/ inq'[d] = <<>>
        /\ backlog' = backlog \/ backlog' = <<>>
    BY <1>3, <2>1
  <2>3. \A d \in Clients : d # c => prog'[d] = prog[d]
    BY <2>1 DEF TypeOK
  <2>4. CASE UNCHANGED <<ss, outq>>
    BY <1>1, <1>2, <1>5, <2>1, <2>2, <2>3, <2>4
  <2>5. CASE Delivered(c, Item(c, "out")) \/ Refused(c) \/ BrokenPipe(c)
    BY <1>2, <1>4, <2>1, <2>2, <2>3, <2>5
  <2> QED BY <2>1, <2>4, <2>5
<1>7. CASE ProgramReads(c)
  <2>1. /\ inq[c] # <<>> /\ UNCHANGED <<serverVars, handlerVars, childVars, clientVars, cs, faults>>
        /\ Delivered(c, Item(c, "out")) \/ Refused(c)
        /\ inq' = [inq EXCEPT ![c] = Tail(@)]
    BY <1>7 DEF ProgramReads
  <2>2. cpc[c] # "wait"
    BY <1>1, <2>1
  <2>3. Conversation(c)'
    <3>1. inq[c] \in Seq(Request) /\ inq[c] # <<>> /\ inq'[c] = Tail(inq[c])
      BY <2>1 DEF TypeOK
    <3>2. \A i \in 1..Len(inq'[c]) : inq'[c][i] = inq[c][i+1] /\ i + 1 \in 1..Len(inq[c])
      BY <3>1
    <3>3. \A i \in 1..Len(inq'[c]) : inq'[c][i].line \in Lines
      BY <1>0, <3>2 DEF Conversation
    <3> QED BY <1>0, <1>1, <2>1, <2>2, <3>3 DEF Conversation
  <2>4. ASSUME NEW d \in Clients, d # c PROVE Conversation(d)'
    <3>1. inq'[d] = inq[d] /\ ss'[d] = ss[d] /\ outq'[d] = outq[d]
      BY <1>4, <2>1, <2>4 DEF TypeOK
    <3> QED BY <2>1, <3>1, ConversationFrame DEF StepInv
  <2>5. QueueInv'
    BY <2>1, QueueFrame DEF StepInv
  <2> QED BY <2>3, <2>4, <2>5 DEF StepInv
<1>8. CASE ProgramReadsEnd(c)
  <2>1. /\ ChildLeaves(c, kmsg[c] = 0 /\ keof[c] = 0) /\ prog' = [prog EXCEPT ![c] = "none"]
        /\ UNCHANGED <<main, handlerVars, kmsg, keof, clientVars, outq, faults>>
        /\ ss' = [ss EXCEPT ![c] = IF @ = "reset" THEN "dead" ELSE @]
        /\ ss[c] # "est"
    BY <1>8 DEF ProgramReadsEnd
  <2>2. /\ \A d \in Clients : inq'[d] = inq[d] \/ inq'[d] = <<>>
        /\ backlog' = backlog \/ backlog' = <<>>
    BY <1>3, <2>1
  <2>3. \A d \in Clients : d # c => prog'[d] = prog[d] /\ ss'[d] = ss[d]
    BY <2>1 DEF TypeOK
  <2> QED BY <1>1, <1>2, <2>1, <2>2, <2>3
<1>9. ~ChildSendsMsg(c) /\ ~ChildSendsEof(c)
  BY <1>0 DEF ChildSendsMsg, ChildSendsEof
<1> QED BY <1>6, <1>7, <1>8, <1>9 DEF ChildStep

(***************************************************************************)
(* The invariant behind InStep, and InStep itself.                         *)
(***************************************************************************)
THEOREM StepInvariant == ASSUME Paired PROVE Spec => []StepInv
<1>1. Init => StepInv
  BY DEF Init, StepInv, QueueInv, Conversation, Resting, Idle
<1>2. TypeOK /\ StepInv /\ [Next]_vars => StepInv'
  <2>1. ASSUME StepInv, UNCHANGED vars PROVE StepInv'
    BY <2>1 DEF StepInv, QueueInv, Conversation, Resting, Idle, vars
  <2> QED BY <2>1, UserInStep, ClientInStep, HandlerInStep, ChildInStep, ServerInStep DEF Next
<1> QED BY <1>1, <1>2, Typing, PTL DEF Spec

THEOREM ResponsesInStep == ASSUME Paired PROVE Spec => []InStep
<1>1. StepInv => InStep
  BY DEF StepInv, InStep, Conversation
<1> QED BY <1>1, StepInvariant, PTL

-----------------------------------------------------------------------------
(***************************************************************************)
(* The remote shell implements the request/answer service of RemoteShell,  *)
(* its safety part: every answer a client takes for the answer to its line *)
(* is that answer.  That every request ends is left to TLC.                *)
(***************************************************************************)
PhaseBar == [c \in Clients |-> Phase[cpc[c]]]

(* One client changes state, or nothing the service speaks of changes. *)
LEMMA PhaseMoves ==
  ASSUME TypeOK, NEW c \in Clients,
         NEW p \in {"start", "prompt", "wait", "done"}, cpc' = [cpc EXCEPT ![c] = p]
  PROVE  PhaseBar' = [PhaseBar EXCEPT ![c] = Phase[p]]
  BY DEF PhaseBar, TypeOK

LEMMA ServiceLeave ==
  ASSUME TypeOK, NEW c \in Clients, cpc[c] \in {"prompt", "wait"},
         cpc' = [cpc EXCEPT ![c] = "done"], UNCHANGED <<nsent, got>>
  PROVE  Service!Leave(c)
<1>1. PhaseBar' = [PhaseBar EXCEPT ![c] = "gone"]
  BY PhaseMoves DEF Phase
<1>2. PhaseBar[c] \in {"ready", "busy"}
  BY DEF PhaseBar, Phase
<1> QED BY <1>1, <1>2 DEF Service!Leave, PhaseBar

LEMMA UserServed ==
  ASSUME TypeOK, NEW c \in Clients, UserStep(c)
  PROVE  Service!Next
<1>1. CASE Connect(c) \/ ConnectRefused(c)
  <2>1. PICK p \in {"prompt", "done"} :
          cpc[c] = "start" /\ cpc' = [cpc EXCEPT ![c] = p] /\ UNCHANGED <<nsent, got>>
    BY <1>1 DEF Connect, ConnectRefused, ClientReturns
  <2>2. PhaseBar' = [PhaseBar EXCEPT ![c] = Phase[p]] /\ Phase[p] \in {"ready", "gone"}
    <3>1. PhaseBar' = [PhaseBar EXCEPT ![c] = Phase[p]]
      <4>1. p \in {"start", "prompt", "wait", "done"}
        OBVIOUS
      <4>2. cpc' = [cpc EXCEPT ![c] = p]
        BY <2>1
      <4> QED BY <4>1, <4>2, PhaseMoves
    <3>2. Phase[p] \in {"ready", "gone"}
      BY DEF Phase
    <3> QED BY <3>1, <3>2
  <2>3. PhaseBar[c] = "out"
    BY <2>1 DEF PhaseBar, Phase
  <2>4. Service!Join(c)
    BY <2>1, <2>2, <2>3 DEF Service!Join, PhaseBar
  <2> QED BY <2>4 DEF Service!Next
<1>2. CASE UserEnds(c) \/ Interrupt(c)
  <2>1. Service!Leave(c)
    BY <1>2, ServiceLeave DEF UserEnds, Interrupt, ClientReturns
  <2> QED BY <2>1 DEF Service!Next
<1>3. ASSUME NEW l \in Lines, SendLine(c, l) PROVE Service!Next
  <2>1. CASE cs[c] = "reset"
    <3>1. Service!Leave(c)
      BY <1>3, <2>1, ServiceLeave DEF SendLine, ClientReturns
    <3> QED BY <3>1 DEF Service!Next
  <2>2. CASE cs[c] # "reset"
    <3>1. /\ cpc[c] = "prompt" /\ cpc' = [cpc EXCEPT ![c] = "wait"]
          /\ nsent' = [nsent EXCEPT ![c] = @ + 1] /\ UNCHANGED got
      BY <1>3, <2>2 DEF SendLine
    <3>2. PhaseBar' = [PhaseBar EXCEPT ![c] = "busy"] /\ PhaseBar[c] = "ready"
      <4>1. PhaseBar' = [PhaseBar EXCEPT ![c] = Phase["wait"]] /\ Phase["wait"] = "busy"
        BY <3>1, PhaseMoves DEF Phase
      <4>2. PhaseBar[c] = "ready"
        BY <3>1 DEF Phase, PhaseBar
      <4> QED BY <4>1, <4>2
    <3>3. Service!Ask(c)
      BY <3>1, <3>2 DEF Service!Ask, PhaseBar
    <3> QED BY <3>3 DEF Service!Next
  <2> QED BY <2>1, <2>2
<1> QED BY <1>1, <1>2, <1>3 DEF UserStep

LEMMA ClientServed ==
  ASSUME TypeOK, InStep, NEW c \in Clients, ClientStep(c)
  PROVE  Service!Next \/ UNCHANGED Service!vars
<1>1. CASE RecvEnd(c)
  <2>1. Service!Leave(c)
    BY <1>1, ServiceLeave DEF RecvEnd, ClientReturns
  <2> QED BY <2>1 DEF Service!Next
<1>2. CASE RecvAnswer(c)
  <2>1. PICK n \in 1..Len(outq[c]) :
          IF outq[c][n].kind = "eof"
          THEN cpc' = [cpc EXCEPT ![c] = "prompt"] /\ got' = [got EXCEPT ![c] = outq[c][n].id]
          ELSE UNCHANGED <<cpc, got>>
    BY <1>2 DEF RecvAnswer
  <2>2. cpc[c] = "wait" /\ UNCHANGED nsent
    BY <1>2 DEF RecvAnswer
  <2>3. CASE outq[c][n].kind = "eof"
    <3>1. outq[c][n].id = nsent[c]
      BY <2>2 DEF InStep
    <3>2. PhaseBar' = [PhaseBar EXCEPT ![c] = "ready"] /\ PhaseBar[c] = "busy"
      <4>1. cpc' = [cpc EXCEPT ![c] = "prompt"]
        BY <2>1, <2>3
      <4>2. PhaseBar' = [PhaseBar EXCEPT ![c] = Phase["prompt"]] /\ Phase["prompt"] = "ready"
        BY <4>1, PhaseMoves DEF Phase
      <4>3. PhaseBar[c] = "busy"
        BY <2>2 DEF Phase, PhaseBar
      <4> QED BY <4>2, <4>3
    <3>3. Service!Answer(c)
      BY <2>1, <2>2, <2>3, <3>1, <3>2 DEF Service!Answer, PhaseBar
    <3> QED BY <3>3 DEF Service!Next
  <2>4. CASE outq[c][n].kind # "eof"
    BY <2>1, <2>2, <2>4 DEF Service!vars
  <2> QED BY <2>3, <2>4
<1> QED BY <1>1, <1>2 DEF ClientStep

(***************************************************************************)
(* Every behaviour of the remote shell is one of the service, when every   *)
(* command is found and no line is cut: the answer a client returns to its *)
(* prompt with is the answer to the line it sent (rsh_cli.c:128-144).      *)
(***************************************************************************)
THEOREM ServiceImplemented == ASSUME Paired PROVE Spec => Service!Spec
<1>1. Init => Service!Init
  BY DEF Init, Service!Init, Phase
<1>2. TypeOK /\ InStep /\ [Next]_vars => [Service!Next]_(Service!vars)
  <2>1. ASSUME UNCHANGED clientVars PROVE UNCHANGED Service!vars
    BY <2>1 DEF Service!vars, clientVars
  <2>2. ASSUME NEW c \in Clients, HandlerStep(c) \/ ChildStep(c) PROVE UNCHANGED clientVars
    BY <2>2 DEF HandlerStep, ChildStep, RecvLine, RecvNothing, PipelineDone, SendMsg,
       SendMsgEof, SendReply, SendKills, CloseSession, ProgramEnds, ProgramReads,
       ProgramReadsEnd, ChildSendsMsg, ChildSendsEof
  <2>3. ASSUME ServerStep PROVE UNCHANGED clientVars
    BY <2>3 DEF ServerStep, Boot, Accept, AcceptFails, ThreadFails
  <2>4. ASSUME UNCHANGED vars PROVE UNCHANGED clientVars
    BY <2>4 DEF vars
  <2> QED BY <2>1, <2>2, <2>3, <2>4, UserServed, ClientServed DEF Next
<1> QED BY <1>1, <1>2, Typing, ResponsesInStep, PTL DEF Spec, Service!Spec

-----------------------------------------------------------------------------
(***************************************************************************)
(* The single-threaded server, whatever the lines, the splits and the      *)
(* failures and whether users kill their clients.  One session is served   *)
(* at a time, so the children of a session have the socket of no other     *)
(* one: a session that is over for the server is over for its client when  *)
(* its own children have ended.                                            *)
(***************************************************************************)
OneSession ==
  /\ \A c \in Clients : Active(c) => main = "serve"
  /\ \A c, d \in Clients : Active(c) /\ Active(d) => c = d
  /\ \A c \in Clients : src[c] = "OK_EXIT" =>
       spc[c] \in {"msg", "msgeof", "close"} \/ (spc[c] = "closed" /\ main = "down")

(* The children of c have ended, and the handler goes back to recv() before any others start. *)
NoChild(c) == spc[c] \in {"none", "recv", "reply"} \/ (spc[c] \in {"msg", "msgeof"} /\ src[c] = "none")

(* The last thing on its way to the client ends a receive loop. *)
EofComes(c) == outq[c] # <<>> /\ outq[c][Len(outq[c])].kind = "eof"

Awaited(c) ==
  /\ held[c] \subseteq {c} /\ (~Idle(c) => c \in held[c])
  /\ NoChild(c) => Idle(c)
  /\ cpc[c] = "start" => spc[c] = "none"
  /\ cpc[c] \in {"prompt", "wait"} => ss[c] = "est"
  /\ spc[c] = "closed" /\ cs[c] = "est" => c \in held[c]
  /\ cpc[c] = "wait" /\ cs[c] = "est" =>
       /\ spc[c] = "none" => inq[c] # <<>>
       /\ spc[c] = "recv" => inq[c] # <<>> \/ EofComes(c)

SingleInv == QueueInv /\ OneSession /\ \A c \in Clients : Awaited(c)

(* What closing descriptors leaves of each connection.                      *)
LEMMA HangUpEnds ==
  ASSUME NEW S, NEW D, NEW queue, NEW up, HangUp(S, D, queue, up), NEW c \in Clients
  PROVE  /\ held'[c] = IF c \in D THEN {} ELSE held[c]
         /\ cs'[c] = cs[c] \/ cs'[c] \in {"fin", "reset"}
         /\ cs'[c] = "est" => /\ cs[c] = "est" /\ inq'[c] = inq[c]
                              /\ (c \in S \/ \E d \in D : c \in held[d])
                                 => (Active(c) /\ c \notin S)
                                    \/ \E d \in Clients \ D : c \in held[d]
         /\ cs'[c] # cs[c] => inq'[c] = <<>>
         /\ inq'[c] = inq[c] \/ inq'[c] = <<>>
         /\ cs'[c] # cs[c] =>
              \/ /\ c \in S \/ \E d \in D : c \in held[d]
                 /\ ~(Active(c) /\ c \notin S)
              \/ backlog' = <<>> /\ \E i \in 1..Len(queue) : queue[i] = c
         /\ backlog' = queue \/ backlog' = <<>>
  BY DEF HangUp

(* Every connection in the queue is still in the queue, and waits once.     *)
LEMMA QueueShorter ==
  ASSUME TypeOK, QueueInv, backlog # <<>>
  PROVE  /\ Tail(backlog) \in Seq(Clients) /\ Head(backlog) \in Clients
         /\ cpc[Head(backlog)] # "start" /\ spc[Head(backlog)] = "none"
         /\ \A i \in 1..Len(Tail(backlog)) :
              /\ Tail(backlog)[i] \in Clients /\ Tail(backlog)[i] # Head(backlog)
              /\ cpc[Tail(backlog)[i]] # "start" /\ spc[Tail(backlog)[i]] = "none"
              /\ \E j \in 1..Len(backlog) : backlog[j] = Tail(backlog)[i]
         /\ \A i, j \in 1..Len(Tail(backlog)) : Tail(backlog)[i] = Tail(backlog)[j] => i = j
<1>1. Head(backlog) \in Clients /\ Head(backlog) = backlog[1] /\ 1 \in 1..Len(backlog)
  BY DEF TypeOK
<1>2. /\ Tail(backlog) \in Seq(Clients)
      /\ \A i \in 1..Len(Tail(backlog)) :
           /\ Tail(backlog)[i] = backlog[i+1] /\ i + 1 \in 1..Len(backlog) /\ i + 1 # 1
           /\ backlog[i+1] \in Clients
  <2>1. backlog \in Seq(Clients) /\ Len(backlog) \in Nat
    BY DEF TypeOK
  <2>2. \A i \in 1..Len(backlog) : backlog[i] \in Clients
    BY <2>1
  <2>3. Tail(backlog) \in Seq(Clients) /\ Len(Tail(backlog)) = Len(backlog) - 1
        /\ \A i \in 1..Len(Tail(backlog)) : Tail(backlog)[i] = backlog[i+1]
    BY <2>1
  <2>4. \A i \in 1..Len(Tail(backlog)) : i + 1 \in 1..Len(backlog) /\ i + 1 # 1
    BY <2>1, <2>3
  <2> QED BY <2>2, <2>3, <2>4
<1>3. ASSUME NEW i \in 1..Len(Tail(backlog)), NEW j \in 1..Len(Tail(backlog)),
             Tail(backlog)[i] = Tail(backlog)[j]
      PROVE  i = j
  <2>1. i + 1 = j + 1
    BY <1>2, <1>3 DEF QueueInv
  <2> QED BY <2>1
<1>4. cpc[Head(backlog)] # "start" /\ spc[Head(backlog)] = "none"
  BY <1>1 DEF QueueInv
<1>5. ASSUME NEW i \in 1..Len(Tail(backlog))
      PROVE  /\ Tail(backlog)[i] \in Clients /\ Tail(backlog)[i] # Head(backlog)
             /\ cpc[Tail(backlog)[i]] # "start" /\ spc[Tail(backlog)[i]] = "none"
             /\ \E j \in 1..Len(backlog) : backlog[j] = Tail(backlog)[i]
  <2>1. Tail(backlog)[i] = backlog[i+1] /\ i + 1 \in 1..Len(backlog) /\ i + 1 # 1
        /\ backlog[i+1] \in Clients
    BY <1>2
  <2>2. backlog[i+1] # backlog[1]
    BY <1>1, <2>1 DEF QueueInv
  <2> QED BY <1>1, <2>1, <2>2 DEF QueueInv
<1> QED BY <1>1, <1>2, <1>3, <1>4, <1>5

(* A process that ends leaves an untouched queue or none.                   *)
LEMMA ProcessEndsQueue ==
  ASSUME TypeOK, QueueInv, NEW S, NEW queue \in Seq(Clients), ProcessEnds(S, queue),
         UNCHANGED cpc,
         \A i \in 1..Len(queue) :
           queue[i] \notin S /\ cpc[queue[i]] # "start" /\ spc[queue[i]] = "none",
         \A i, j \in 1..Len(queue) : queue[i] = queue[j] => i = j
  PROVE  QueueInv'
<1>1. backlog' = queue \/ backlog' = <<>>
  BY HangUpFrame DEF ProcessEnds
<1>2. CASE backlog' = queue
  <2>1. ASSUME NEW i \in 1..Len(queue)
        PROVE  cpc'[queue[i]] # "start" /\ spc'[queue[i]] = "none"
    <3>1. queue[i] \in Clients
      OBVIOUS
    <3> QED BY <3>1 DEF ProcessEnds
  <2> QED BY <1>2, <2>1 DEF QueueInv
<1>3. CASE backlog' = <<>>
  BY <1>3 DEF QueueInv
<1> QED BY <1>1, <1>2, <1>3

LEMMA QueueActive ==
  ASSUME TypeOK, QueueInv
  PROVE  /\ backlog \in Seq(Clients)
         /\ \A i \in 1..Len(backlog) :
              /\ backlog[i] \in Clients /\ ~Active(backlog[i])
              /\ backlog[i] \notin {c \in Clients : Active(c)}
              /\ cpc[backlog[i]] # "start" /\ spc[backlog[i]] = "none"
         /\ \A i, j \in 1..Len(backlog) : backlog[i] = backlog[j] => i = j
<1>1. backlog \in Seq(Clients)
  BY DEF TypeOK
<1>2. \A i \in 1..Len(backlog) : backlog[i] \in Clients
  BY <1>1
<1>3. \A i \in 1..Len(backlog) : spc[backlog[i]] = "none" /\ ~Active(backlog[i])
  BY DEF QueueInv, Active
<1> QED BY <1>1, <1>2, <1>3 DEF QueueInv

(***************************************************************************)
(* The accept queue holds each connection once, and only connections the   *)
(* server has no handler for yet, whatever the lines and the failures.     *)
(***************************************************************************)
LEMMA QueueStep ==
  ASSUME TypeOK, QueueInv, \A c \in Clients : cpc[c] = "start" => spc[c] = "none", [Next]_vars
  PROVE  QueueInv'
<1>1. ASSUME NEW c \in Clients, Connect(c) PROVE QueueInv'
  <2>1. /\ cpc[c] = "start" /\ backlog' = Append(backlog, c) /\ cpc' = [cpc EXCEPT ![c] = "prompt"]
        /\ UNCHANGED spc
    BY <1>1 DEF Connect
  <2>2. /\ backlog \in Seq(Clients) /\ Len(backlog) \in Nat /\ Len(backlog') = Len(backlog) + 1
        /\ \A i \in 1..Len(backlog) : backlog'[i] = backlog[i] /\ backlog[i] \in Clients
        /\ backlog'[Len(backlog) + 1] = c
    BY <2>1 DEF TypeOK
  <2>3. spc[c] = "none" /\ \A i \in 1..Len(backlog) : backlog[i] # c
    BY <2>1 DEF QueueInv
  <2>4. \A i \in 1..Len(backlog') : i \in 1..Len(backlog) \/ i = Len(backlog) + 1
    BY <2>2
  <2>5. ASSUME NEW i \in 1..Len(backlog')
        PROVE  cpc'[backlog'[i]] # "start" /\ spc'[backlog'[i]] = "none"
    <3>1. CASE i \in 1..Len(backlog)
      BY <2>1, <2>2, <2>3, <3>1 DEF QueueInv, TypeOK
    <3>2. CASE i = Len(backlog) + 1
      BY <2>1, <2>2, <2>3, <3>2 DEF TypeOK
    <3> QED BY <2>4, <3>1, <3>2
  <2>6. ASSUME NEW i \in 1..Len(backlog'), NEW j \in 1..Len(backlog'), backlog'[i] = backlog'[j]
        PROVE  i = j
    BY <2>2, <2>3, <2>4, <2>6 DEF QueueInv
  <2> QED BY <2>5, <2>6 DEF QueueInv
<1>2. ASSUME NEW c \in Clients, UserStep(c), ~Connect(c) PROVE QueueInv'
  <2>1. UNCHANGED <<backlog, spc>> /\ \A d \in Clients : cpc[d] # "start" => cpc'[d] # "start"
    BY <1>2 DEF UserStep, ConnectRefused, UserEnds, Interrupt, SendLine, ClientReturns, TypeOK
  <2> QED BY <2>1, QueueFrame
<1>3. ASSUME NEW c \in Clients, ClientStep(c) PROVE QueueInv'
  <2>1. UNCHANGED <<backlog, spc>> /\ \A d \in Clients : cpc[d] # "start" => cpc'[d] # "start"
    <3>1. CASE RecvAnswer(c)
      <4>1. UNCHANGED <<backlog, spc>> /\ (UNCHANGED cpc \/ cpc' = [cpc EXCEPT ![c] = "prompt"])
        BY <3>1 DEF RecvAnswer
      <4> QED BY <4>1 DEF TypeOK
    <3>2. CASE RecvEnd(c)
      BY <3>2 DEF RecvEnd, ClientReturns, TypeOK
    <3> QED BY <1>3, <3>1, <3>2 DEF ClientStep
  <2> QED BY <2>1, QueueFrame
<1>4. ASSUME NEW c \in Clients, ChildStep(c) PROVE QueueInv'
  <2>1. UNCHANGED <<cpc, spc>>
    BY <1>4 DEF ChildStep, ProgramEnds, ProgramReads, ProgramReadsEnd, ChildSendsMsg, ChildSendsEof
  <2>2. UNCHANGED backlog \/ \E last : ChildLeaves(c, last)
    BY <1>4 DEF ChildStep, ProgramEnds, ProgramReads, ProgramReadsEnd, ChildSendsMsg, ChildSendsEof
  <2>3. UNCHANGED backlog \/ backlog' = <<>>
    BY <2>2, HangUpFrame DEF ChildLeaves
  <2> QED BY <2>1, <2>3, QueueFrame
<1>5. ASSUME NEW c \in Clients, HandlerStep(c) PROVE QueueInv'
  <2>1. UNCHANGED cpc
    BY <1>5 DEF HandlerStep, RecvLine, RecvNothing, PipelineDone, SendMsg, SendMsgEof, SendReply,
                SendKills, CloseSession
  <2>2. CASE SendKills(c)
    BY <2>1, <2>2, QueueActive, ProcessEndsQueue DEF SendKills
  <2>3. CASE CloseSession(c)
    <3>1. CASE ProcessEnds({c}, backlog)
      <4>1. \A i \in 1..Len(backlog) : backlog[i] \notin {c}
        BY <2>3, QueueActive DEF CloseSession
      <4> QED BY <2>1, <3>1, <4>1, QueueActive, ProcessEndsQueue
    <3>2. CASE HangUp({c}, {}, backlog, TRUE) /\ spc' = [spc EXCEPT ![c] = "closed"]
      <4>1. backlog' = backlog \/ backlog' = <<>>
        BY <3>2, HangUpFrame
      <4>2. \A d \in Clients : spc[d] = "none" => spc'[d] = "none"
        BY <2>3, <3>2 DEF CloseSession, TypeOK
      <4> QED BY <2>1, <4>1, <4>2, QueueFrame
    <3> QED BY <2>3, <3>1, <3>2 DEF CloseSession
  <2>4. CASE ~SendKills(c) /\ ~CloseSession(c)
    <3>1. UNCHANGED backlog /\ \A d \in Clients : spc[d] = "none" => spc'[d] = "none"
      <4>1. CASE RecvLine(c)
        <5>1. /\ spc[c] = "recv" /\ UNCHANGED backlog
              /\ \E l \in KnownLines : (\E rc \in ReturnCodes : Says(c, rc)) \/ StartPipeline(c, l) \/ ForkFails(c, l)
          BY <4>1 DEF RecvLine, ReturnCodes
        <5>2. \E p \in HandlerStates : spc' = [spc EXCEPT ![c] = p]
          BY <5>1 DEF Says, StartPipeline, ForkFails, HandlerStates, SendStates
        <5> QED BY <5>1, <5>2 DEF TypeOK
      <4>2. CASE RecvNothing(c) \/ PipelineDone(c) \/ SendMsg(c) \/ SendMsgEof(c) \/ SendReply(c)
        BY <4>2 DEF RecvNothing, PipelineDone, SendMsg, SendMsgEof, SendReply, TypeOK
      <4> QED BY <1>5, <2>4, <4>1, <4>2 DEF HandlerStep
    <3> QED BY <2>1, <3>1, QueueFrame
  <2> QED BY <2>2, <2>3, <2>4
<1>6. CASE ServerStep
  <2>1. CASE Boot
    BY <2>1, QueueFrame DEF Boot
  <2>2. CASE Accept
    <3>1. /\ backlog # <<>> /\ backlog' = Tail(backlog) /\ UNCHANGED cpc
          /\ spc' = [spc EXCEPT ![Head(backlog)] = "recv"]
      BY <2>2 DEF Accept
    <3>2. ASSUME NEW i \in 1..Len(backlog')
          PROVE  cpc'[backlog'[i]] # "start" /\ spc'[backlog'[i]] = "none"
      BY <3>1, QueueShorter DEF TypeOK
    <3>3. \A i, j \in 1..Len(backlog') : backlog'[i] = backlog'[j] => i = j
      BY <3>1, QueueShorter
    <3> QED BY <3>2, <3>3 DEF QueueInv
  <2>3. CASE AcceptFails
    BY <2>3, QueueActive, ProcessEndsQueue DEF AcceptFails
  <2>4. CASE ThreadFails
    <3>1. PICK S : S = {c \in Clients : Active(c)} \cup {Head(backlog)}
      OBVIOUS
    <3>2. ProcessEnds(S, Tail(backlog)) /\ UNCHANGED cpc /\ backlog # <<>>
      BY <2>4, <3>1 DEF ThreadFails
    <3>3. \A i \in 1..Len(Tail(backlog)) : Tail(backlog)[i] \notin S
      BY <3>1, <3>2, QueueShorter DEF Active
    <3> QED BY <3>2, <3>3, QueueShorter, ProcessEndsQueue
  <2> QED BY <1>6, <2>1, <2>2, <2>3, <2>4 DEF ServerStep
<1>7. CASE UNCHANGED vars
  BY <1>7, QueueFrame DEF vars
<1> QED BY <1>1, <1>2, <1>3, <1>4, <1>5, <1>6, <1>7 DEF Next

(* At most one session is served, and the one that is told to stop the server ends it. *)
LEMMA OneSessionStep ==
  ASSUME ~Threaded, TypeOK, QueueInv, OneSession, [Next]_vars
  PROVE  OneSession'
<1>0. ASSUME UNCHANGED <<main, spc, src>> PROVE OneSession'
  BY <1>0 DEF OneSession, Active
<1>1. ASSUME NEW c \in Clients, UserStep(c) \/ ClientStep(c) \/ ChildStep(c)
      PROVE  UNCHANGED <<main, spc, src>>
  BY <1>1 DEF UserStep, Connect, ConnectRefused, UserEnds, Interrupt, SendLine, ClientStep,
     RecvAnswer, RecvEnd, ChildStep, ProgramEnds, ProgramReads, ProgramReadsEnd, ChildSendsMsg,
     ChildSendsEof
<1>2. ASSUME NEW c \in Clients, HandlerStep(c) PROVE OneSession'
  <2>1. /\ Active(c) /\ main = "serve" /\ \A d \in Clients : d # c => ~Active(d)
        /\ src[c] = "OK_EXIT" => spc[c] \in {"msg", "msgeof", "close"}
        /\ \A d \in Clients : d # c => src[d] # "OK_EXIT"
    <3>1. Active(c)
      BY <1>2 DEF HandlerStep, RecvLine, RecvNothing, PipelineDone, SendMsg, SendMsgEof, SendReply,
         SendKills, CloseSession, Active, SendStates
    <3> QED BY <3>1 DEF OneSession, Active
  <2>2. ASSUME main' = main,
               NEW p \in HandlerStates \ {"none", "closed"}, spc' = [spc EXCEPT ![c] = p],
               NEW rc, src' = [src EXCEPT ![c] = rc],
               rc = "OK_EXIT" => p \in {"msg", "msgeof", "close"}
        PROVE  OneSession'
    <3>1. \A d \in Clients : d # c => spc'[d] = spc[d] /\ src'[d] = src[d]
      BY <2>2 DEF TypeOK
    <3>2. spc'[c] = p /\ src'[c] = rc
      BY <2>2 DEF TypeOK
    <3> QED BY <2>1, <2>2, <3>1, <3>2 DEF OneSession, Active
  <2>3. src = [src EXCEPT ![c] = src[c]]
    BY DEF TypeOK
  <2>4. CASE RecvLine(c)
    <3>1. /\ main' = main
          /\ \E l \in KnownLines : \/ \E rc \in ReturnCodes : Says(c, rc)
                                   \/ StartPipeline(c, l) \/ ForkFails(c, l)
          /\ src[c] # "OK_EXIT"
      BY <2>1, <2>4 DEF RecvLine, ReturnCodes
    <3>2. PICK l \in KnownLines : \/ \E rc \in ReturnCodes : Says(c, rc)
                                  \/ StartPipeline(c, l) \/ ForkFails(c, l)
      BY <3>1
    <3>3. ASSUME NEW rc \in ReturnCodes, Says(c, rc) PROVE OneSession'
      BY <2>2, <3>1, <3>3 DEF Says, HandlerStates, SendStates
    <3>4. CASE StartPipeline(c, l)
      BY <2>2, <2>3, <3>1, <3>4 DEF StartPipeline, HandlerStates
    <3>5. CASE ForkFails(c, l)
      BY <2>2, <3>1, <3>5 DEF ForkFails, HandlerStates, SendStates
    <3> QED BY <3>2, <3>3, <3>4, <3>5
  <2>5. CASE RecvNothing(c)
    <3>1. main' = main /\ spc' = [spc EXCEPT ![c] = "close"]
          /\ src' = [src EXCEPT ![c] = IF ss[c] = "reset" THEN "ERR_RDSH_COMMUNICATION" ELSE "OK"]
      BY <2>5 DEF RecvNothing
    <3> QED BY <2>2, <3>1 DEF HandlerStates
  <2>6. CASE PipelineDone(c)
    <3>1. main' = main /\ spc[c] = "exec"
          /\ \/ spc' = [spc EXCEPT ![c] = "msg"] /\ src' = [src EXCEPT ![c] = "ERR_EXEC_CMD"]
             \/ spc' = [spc EXCEPT ![c] = "reply"] /\ src' = src
      BY <2>6 DEF PipelineDone
    <3>2. src[c] # "OK_EXIT"
      BY <2>1, <3>1
    <3> QED BY <2>2, <2>3, <3>1, <3>2 DEF HandlerStates, SendStates
  <2>7. CASE SendMsg(c)
    <3>1. main' = main /\ src' = src
          /\ \E p \in {"msgeof", "recv", "close"} : spc' = [spc EXCEPT ![c] = p]
                                                    /\ (p = "recv" => src[c] = "none")
      BY <2>7 DEF SendMsg
    <3> QED BY <2>2, <2>3, <3>1 DEF HandlerStates, SendStates
  <2>8. CASE SendMsgEof(c)
    <3>1. main' = main /\ src' = src
          /\ \E p \in {"recv", "close"} : spc' = [spc EXCEPT ![c] = p]
                                          /\ (p = "recv" => src[c] = "none")
      BY <2>8 DEF SendMsgEof
    <3> QED BY <2>2, <2>3, <3>1 DEF HandlerStates, SendStates
  <2>9. CASE SendReply(c)
    <3>1. main' = main /\ spc[c] = "reply"
          /\ \/ spc' = [spc EXCEPT ![c] = "recv"] /\ src' = src
             \/ spc' = [spc EXCEPT ![c] = "close"]
                /\ src' = [src EXCEPT ![c] = "ERR_RDSH_COMMUNICATION"]
      BY <2>9 DEF SendReply
    <3>2. src[c] # "OK_EXIT"
      BY <2>1, <3>1
    <3> QED BY <2>2, <2>3, <3>1, <3>2 DEF HandlerStates
  <2>10. CASE SendKills(c) \/ CloseSession(c)
    <3>1. /\ src' = src /\ main' \in {"down", "accept"} /\ spc'[c] = "closed"
          /\ \A d \in Clients : d # c => spc'[d] = spc[d]
          /\ main' = "accept" => src[c] # "OK_EXIT"
      BY <2>1, <2>10 DEF SendKills, CloseSession, ProcessEnds, TypeOK
    <3> QED BY <2>1, <3>1 DEF OneSession, Active
  <2> QED BY <1>2, <2>4, <2>5, <2>6, <2>7, <2>8, <2>9, <2>10 DEF HandlerStep
<1>3. CASE ServerStep
  <2>1. CASE Boot
    BY <2>1 DEF Boot, OneSession, Active
  <2>2. CASE Accept
    <3>1. Head(backlog) \in Clients /\ spc[Head(backlog)] = "none"
      BY <2>2, QueueShorter DEF Accept
    <3>2. \A d \in Clients : ~Active(d) /\ src[d] # "OK_EXIT"
      BY <2>2 DEF Accept, OneSession, Active
    <3>3. main' = "serve" /\ src' = src /\ spc' = [spc EXCEPT ![Head(backlog)] = "recv"]
      BY <2>2 DEF Accept
    <3> QED BY <3>1, <3>2, <3>3 DEF OneSession, Active, TypeOK
  <2>3. CASE AcceptFails
    <3>1. \A d \in Clients : ~Active(d) /\ src[d] # "OK_EXIT"
      BY <2>3 DEF AcceptFails, OneSession, Active
    <3>2. src' = src /\ \A d \in Clients : spc'[d] = spc[d]
      BY <2>3, <3>1 DEF AcceptFails, ProcessEnds
    <3> QED BY <3>1, <3>2 DEF OneSession, Active
  <2>4. ~ThreadFails
    BY DEF ThreadFails
  <2> QED BY <1>3, <2>1, <2>2, <2>3, <2>4 DEF ServerStep
<1>4. CASE UNCHANGED vars
  BY <1>0, <1>4 DEF vars
<1> QED BY <1>0, <1>1, <1>2, <1>3, <1>4 DEF Next

LEMMA AwaitedFrame ==
  ASSUME NEW d \in Clients, Awaited(d),
         held'[d] = held[d], prog'[d] = prog[d], kmsg'[d] = kmsg[d], keof'[d] = keof[d],
         spc'[d] = spc[d], src'[d] = src[d], cpc'[d] = cpc[d], ss'[d] = ss[d],
         outq'[d] = outq[d],
         cs'[d] = "est" => cs[d] = "est" /\ inq'[d] = inq[d]
  PROVE  Awaited(d)'
<1>1. (Idle(d)' <=> Idle(d)) /\ (NoChild(d)' <=> NoChild(d)) /\ (EofComes(d)' <=> EofComes(d))
  BY DEF Idle, NoChild, EofComes
<1> QED BY <1>1 DEF Awaited

(* The handlers in S are gone: a client one of them served sees the end, or the *)
(* children of its own session still hold its socket.                            *)
LEMMA ClosingAwaited ==
  ASSUME TypeOK, \A c \in Clients : Awaited(c),
         NEW S, NEW queue, NEW up, HangUp(S, {}, queue, up),
         \A d \in Clients : spc'[d] = IF d \in S THEN "closed" ELSE spc[d],
         \A d \in Clients : d \in S => cpc[d] # "start",
         UNCHANGED <<src, prog, kmsg, keof, cpc, ss, outq>>,
         NEW c \in Clients
  PROVE  Awaited(c)'
<1>1. /\ held'[c] = held[c] /\ (cs'[c] = "est" => cs[c] = "est" /\ inq'[c] = inq[c])
      /\ cs'[c] = "est" /\ c \in S => \E d \in Clients : c \in held[d]
  BY HangUpEnds
<1>2. CASE c \notin S
  BY <1>1, <1>2, AwaitedFrame
<1>3. CASE c \in S
  <2>1. spc'[c] = "closed" /\ cpc[c] # "start"
    BY <1>3
  <2>2. Idle(c)' <=> Idle(c)
    BY DEF Idle
  <2>3. ~NoChild(c)'
    BY <2>1 DEF NoChild
  <2>4. cs'[c] = "est" => c \in held'[c]
    BY <1>1, <1>3 DEF Awaited
  <2> QED BY <1>1, <2>1, <2>2, <2>3, <2>4 DEF Awaited
<1> QED BY <1>2, <1>3

(* A send reaches the stream of a client that is there. *)
LEMMA SendEnds ==
  ASSUME TypeOK, NEW c \in Clients, NEW k,
         Delivered(c, Item(c, k)) \/ Refused(c) \/ BrokenPipe(c)
  PROVE  /\ \A d \in Clients : d # c => ss'[d] = ss[d] /\ outq'[d] = outq[d]
         /\ ss[c] = "est" => ss'[c] = "est" /\ outq'[c] = Append(outq[c], Item(c, k))
  BY DEF Delivered, Refused, BrokenPipe, TypeOK

LEMMA UserAwaited ==
  ASSUME TypeOK, \A d \in Clients : Awaited(d), NEW c \in Clients, UserStep(c) \/ ClientStep(c),
         NEW d \in Clients
  PROVE  Awaited(d)'
<1>0. Awaited(c) /\ UNCHANGED <<spc, src, prog, kmsg, keof, held>>
  BY DEF UserStep, Connect, ConnectRefused, UserEnds, Interrupt, SendLine, ClientStep, RecvAnswer,
         RecvEnd
<1>1. ASSUME d # c PROVE Awaited(d)'
  <2>1. /\ cpc'[d] = cpc[d] /\ ss'[d] = ss[d] /\ outq'[d] = outq[d] /\ cs'[d] = cs[d]
        /\ inq'[d] = inq[d]
    <3>1. CASE RecvAnswer(c)
      BY <1>1, <3>1 DEF TypeOK, RecvAnswer
    <3>2. CASE Connect(c)
      BY <1>1, <3>2 DEF TypeOK, Connect
    <3>5. CASE ConnectRefused(c)
      BY <1>1, <3>5 DEF TypeOK, ConnectRefused, ClientReturns
    <3>3. CASE UserEnds(c) \/ Interrupt(c) \/ RecvEnd(c)
      <4>1. ClientHangUp(c) /\ (\E rc : ClientReturns(c, rc)) /\ UNCHANGED inq
        BY <3>3 DEF UserEnds, Interrupt, RecvEnd
      <4> QED BY <1>1, <4>1 DEF TypeOK, ClientReturns, ClientHangUp
    <3>4. ASSUME NEW l \in Lines, SendLine(c, l)
          PROVE  /\ cpc'[d] = cpc[d] /\ ss'[d] = ss[d] /\ outq'[d] = outq[d] /\ cs'[d] = cs[d]
                 /\ inq'[d] = inq[d]
      <4>1. CASE cs[c] = "reset"
        BY <1>1, <3>4, <4>1 DEF TypeOK, SendLine, ClientReturns, ClientHangUp
      <4>2. CASE cs[c] # "reset"
        BY <1>1, <3>4, <4>2 DEF TypeOK, SendLine
      <4> QED BY <4>1, <4>2
    <3> QED BY <3>1, <3>2, <3>3, <3>4, <3>5 DEF UserStep, ClientStep
  <2> QED BY <1>0, <1>1, <2>1, AwaitedFrame
<1>2. (Idle(c)' <=> Idle(c)) /\ (NoChild(c)' <=> NoChild(c))
  BY <1>0 DEF Idle, NoChild
<1>3. ASSUME cpc'[c] = "done", cs'[c] \in {cs[c], "closed"}, cs'[c] = "est" => cpc[c] = "start"
      PROVE  Awaited(c)'
  BY <1>0, <1>2, <1>3 DEF Awaited
<1>4. CASE Connect(c)
  <2>1. cpc[c] = "start" /\ cpc'[c] = "prompt" /\ ss'[c] = "est" /\ spc[c] = "none"
    BY <1>0, <1>4 DEF Connect, TypeOK, Awaited
  <2> QED BY <1>0, <1>1, <1>2, <2>1 DEF Awaited
<1>5. CASE ConnectRefused(c)
  BY <1>1, <1>3, <1>5 DEF ConnectRefused, ClientReturns, TypeOK
<1>6. CASE UserEnds(c) \/ Interrupt(c) \/ RecvEnd(c)
  BY <1>1, <1>3, <1>6 DEF UserEnds, Interrupt, RecvEnd, ClientReturns, ClientHangUp, TypeOK
<1>7. ASSUME NEW l \in Lines, SendLine(c, l) PROVE Awaited(d)'
  <2>1. CASE cs[c] = "reset"
    BY <1>1, <1>3, <1>7, <2>1 DEF SendLine, ClientReturns, ClientHangUp, TypeOK
  <2>2. CASE cs[c] # "reset"
    <3>1. /\ cpc[c] = "prompt" /\ cpc'[c] = "wait" /\ UNCHANGED <<cs, ss, outq>>
          /\ cs[c] = "est" => inq'[c] = Append(inq[c], [id |-> nsent[c] + 1, line |-> l])
      BY <1>7, <2>2 DEF SendLine, TypeOK
    <3>2. inq[c] \in Seq(Request)
      BY DEF TypeOK
    <3>3. cs[c] = "est" => inq'[c] # <<>>
      BY <3>1, <3>2
    <3>4. Awaited(c)'
      BY <1>0, <1>2, <3>1, <3>3 DEF Awaited
    <3> QED BY <1>1, <3>4
  <2> QED BY <2>1, <2>2
<1>8. CASE RecvAnswer(c)
  <2>1. PICK n \in 1..Len(outq[c]) :
          /\ outq' = [outq EXCEPT ![c] = SubSeq(@, n + 1, Len(@))]
          /\ IF outq[c][n].kind = "eof"
             THEN cpc' = [cpc EXCEPT ![c] = "prompt"] ELSE cpc' = cpc
    BY <1>8 DEF RecvAnswer
  <2>2. cpc[c] = "wait" /\ outq[c] # <<>> /\ UNCHANGED <<cs, ss, inq>>
    BY <1>8 DEF RecvAnswer
  <2>3. CASE outq[c][n].kind = "eof"
    <3>1. cpc'[c] = "prompt"
      BY <2>1, <2>3 DEF TypeOK
    <3>2. Awaited(c)'
      BY <1>0, <1>2, <2>2, <3>1 DEF Awaited
    <3> QED BY <1>1, <3>2
  <2>4. CASE outq[c][n].kind # "eof"
    <3>1. EofComes(c) => EofComes(c)'
      <4>1. SUFFICES ASSUME EofComes(c) PROVE EofComes(c)'
        OBVIOUS
      <4>2. outq[c] \in Seq(Response) /\ Len(outq[c]) \in Nat
        BY DEF TypeOK
      <4>3. outq'[c] = SubSeq(outq[c], n + 1, Len(outq[c]))
        BY <2>1 DEF TypeOK
      <4>4. n # Len(outq[c]) /\ outq[c][Len(outq[c])].kind = "eof"
        BY <2>4, <4>1 DEF EofComes
      <4>5. /\ Len(outq'[c]) = Len(outq[c]) - n /\ Len(outq[c]) - n \in 1..Len(outq[c])
            /\ outq'[c][Len(outq[c]) - n] = outq[c][Len(outq[c])]
        BY <4>2, <4>3, <4>4
      <4>6. outq'[c] # <<>>
        <5>1. Len(outq'[c]) # 0
          BY <4>2, <4>5
        <5> QED BY <5>1
      <4> QED BY <4>4, <4>5, <4>6 DEF EofComes
    <3>2. Awaited(c)'
      BY <1>0, <1>2, <2>1, <2>2, <2>4, <3>1 DEF Awaited
    <3> QED BY <1>1, <3>2
  <2> QED BY <2>3, <2>4
<1> QED BY <1>4, <1>5, <1>6, <1>7, <1>8 DEF UserStep, ClientStep

LEMMA HandlerAwaited ==
  ASSUME ~Threaded, TypeOK, QueueInv, OneSession, \A d \in Clients : Awaited(d),
         NEW c \in Clients, HandlerStep(c), NEW d \in Clients
  PROVE  Awaited(d)'
<1>0. Awaited(c) /\ spc[c] \notin {"none", "closed"} /\ cpc[c] # "start"
      /\ \A e \in Clients : e # c => ~Active(e)
  <2>1. spc[c] \notin {"none", "closed"}
    BY DEF HandlerStep, RecvLine, RecvNothing, PipelineDone, SendMsg, SendMsgEof, SendReply,
       SendKills, CloseSession, SendStates
  <2> QED BY <2>1 DEF Awaited, OneSession, Active
(* Steps that leave the connections of others alone. *)
<1>1. ASSUME \A e \in Clients : e # c =>
                /\ held'[e] = held[e] /\ prog'[e] = prog[e] /\ kmsg'[e] = kmsg[e]
                /\ spc'[e] = spc[e] /\ src'[e] = src[e] /\ ss'[e] = ss[e]
                /\ outq'[e] = outq[e] /\ inq'[e] = inq[e],
              UNCHANGED <<keof, cpc, cs>>, Awaited(c)'
      PROVE  Awaited(d)'
  BY <1>1, AwaitedFrame
(* Steps that start no child. *)
<1>2. ASSUME UNCHANGED <<held, prog, kmsg, keof, cpc, cs, inq>>,
             \A e \in Clients : e # c =>
                /\ spc'[e] = spc[e] /\ src'[e] = src[e] /\ ss'[e] = ss[e] /\ outq'[e] = outq[e],
             NoChild(c)' => Idle(c), spc'[c] \notin {"none", "closed"},
             ss[c] = "est" => ss'[c] = "est",
             spc'[c] = "recv" /\ ss[c] = "est" => EofComes(c)'
      PROVE  Awaited(d)'
  <2>1. Idle(c)' <=> Idle(c)
    BY <1>2 DEF Idle
  <2>2. Awaited(c)'
    BY <1>0, <1>2, <2>1 DEF Awaited
  <2> QED BY <1>1, <1>2, <2>2
<1>3. CASE RecvLine(c)
  <2>1. PICK l \in KnownLines, id \in 1..MaxLines :
          /\ Arrives(c, id, l)
          /\ \/ \E rc \in ReturnCodes : Says(c, rc)
             \/ StartPipeline(c, l)
             \/ ForkFails(c, l)
    BY <1>3 DEF RecvLine, ReturnCodes
  <2>2. spc[c] = "recv" /\ UNCHANGED <<cpc, cs, ss, outq>> /\ Idle(c)
        /\ \A e \in Clients : e # c => inq'[e] = inq[e]
    <3>1. \E q : inq' = [inq EXCEPT ![c] = q]
      BY <2>1 DEF Arrives
    <3> QED BY <1>0, <1>3, <3>1 DEF RecvLine, Awaited, NoChild, TypeOK
  <2>3. CASE \E rc \in ReturnCodes : Says(c, rc)
    <3>1. UNCHANGED <<held, prog, kmsg, keof>> /\ spc'[c] = "msg"
          /\ \A e \in Clients : e # c => spc'[e] = spc[e] /\ src'[e] = src[e]
      BY <2>3 DEF Says, TypeOK
    <3>2. Idle(c)' <=> Idle(c)
      BY <3>1 DEF Idle
    <3>3. Awaited(c)'
      BY <1>0, <2>2, <3>1, <3>2 DEF Awaited
    <3> QED BY <1>1, <2>2, <3>1, <3>3
  <2>4. CASE StartPipeline(c, l)
    <3>1. /\ spc'[c] = "exec" /\ held'[c] = {e \in Clients : Active(e)} /\ UNCHANGED keof
          /\ \A e \in Clients : e # c => /\ held'[e] = held[e] /\ prog'[e] = prog[e]
                                         /\ kmsg'[e] = kmsg[e] /\ spc'[e] = spc[e]
                                         /\ src'[e] = src[e]
      BY <2>4 DEF StartPipeline, TypeOK
    <3>2. held'[c] = {c}
      BY <1>0, <3>1 DEF Active
    <3>3. ~NoChild(c)'
      BY <3>1 DEF NoChild
    <3>4. Awaited(c)'
      BY <1>0, <2>2, <3>1, <3>2, <3>3 DEF Awaited
    <3> QED BY <1>1, <2>2, <3>1, <3>4
  <2>5. CASE ForkFails(c, l)
    <3>1. PICK k \in 0..Missing(l) :
            /\ kmsg' = [kmsg EXCEPT ![c] = k]
            /\ held' = [held EXCEPT ![c] = IF k = 0 THEN {} ELSE {e \in Clients : Active(e)}]
      BY <2>5 DEF ForkFails
    <3>2. /\ spc'[c] = "msg" /\ src'[c] = "ERR_EXEC_CMD" /\ UNCHANGED <<keof, prog>>
          /\ \A e \in Clients : e # c => spc'[e] = spc[e] /\ src'[e] = src[e]
      BY <2>5 DEF ForkFails, TypeOK
    <3>3. /\ held'[c] = (IF k = 0 THEN {} ELSE {c}) /\ kmsg'[c] = k
          /\ \A e \in Clients : e # c => held'[e] = held[e] /\ kmsg'[e] = kmsg[e]
      BY <1>0, <3>1 DEF TypeOK, Active
    <3>4. ~NoChild(c)'
      BY <3>2 DEF NoChild
    <3>5. k = 0 => Idle(c)'
      BY <2>2, <3>2, <3>3 DEF Idle
    <3>6. Awaited(c)'
      BY <1>0, <2>2, <3>2, <3>3, <3>4, <3>5 DEF Awaited
    <3> QED BY <1>1, <2>2, <3>2, <3>3, <3>6
  <2> QED BY <2>1, <2>3, <2>4, <2>5
<1>4. CASE RecvNothing(c)
  <2>1. /\ spc'[c] = "close" /\ ss[c] # "est" /\ UNCHANGED <<held, prog, kmsg, keof, cpc, cs, inq>>
        /\ \A e \in Clients : e # c =>
             /\ spc'[e] = spc[e] /\ src'[e] = src[e] /\ ss'[e] = ss[e] /\ outq'[e] = outq[e]
    BY <1>4 DEF RecvNothing, TypeOK
  <2>2. ~NoChild(c)'
    BY <2>1 DEF NoChild
  <2> QED BY <1>2, <2>1, <2>2
<1>5. CASE PipelineDone(c)
  <2>1. /\ spc'[c] \in {"msg", "reply"} /\ Idle(c)
        /\ UNCHANGED <<held, prog, kmsg, keof, cpc, cs, ss, outq, inq>>
        /\ \A e \in Clients : e # c => spc'[e] = spc[e] /\ src'[e] = src[e]
    BY <1>5 DEF PipelineDone, TypeOK
  <2> QED BY <1>2, <2>1
<1>6. CASE SendMsg(c)
  <2>1. Delivered(c, Item(c, "out")) \/ Refused(c)
    BY <1>6 DEF SendMsg
  <2>2. /\ UNCHANGED <<src, held, prog, kmsg, keof, cpc, cs, inq>> /\ spc[c] = "msg"
        /\ \A e \in Clients : e # c => spc'[e] = spc[e]
        /\ \/ spc'[c] = "msgeof"
           \/ Refused(c) /\ spc'[c] = IF src[c] = "none" THEN "recv" ELSE "close"
    BY <1>6 DEF SendMsg, TypeOK
  <2>3. /\ \A e \in Clients : e # c => ss'[e] = ss[e] /\ outq'[e] = outq[e]
        /\ ss[c] = "est" => ss'[c] = "est"
    BY <2>1, SendEnds
  <2>4. Refused(c) => ss[c] # "est"
    BY DEF Refused
  <2>5. NoChild(c)' => Idle(c)
    BY <1>0, <2>2 DEF NoChild, Awaited
  <2> QED BY <1>2, <2>2, <2>3, <2>4, <2>5
(* The EOF that ends an exchange. *)
<1>7. ASSUME Delivered(c, Item(c, "eof")) \/ Refused(c) PROVE ss[c] = "est" => EofComes(c)'
  <2>1. SUFFICES ASSUME ss[c] = "est" PROVE EofComes(c)'
    OBVIOUS
  <2>2. outq'[c] = Append(outq[c], Item(c, "eof")) /\ outq[c] \in Seq(Response)
    BY <1>7, <2>1, SendEnds DEF TypeOK
  <2>3. outq'[c] # <<>> /\ outq'[c][Len(outq'[c])] = Item(c, "eof")
    BY <2>2
  <2> QED BY <2>3 DEF EofComes, Item
<1>8. CASE SendMsgEof(c)
  <2>1. Delivered(c, Item(c, "eof")) \/ Refused(c)
    BY <1>8 DEF SendMsgEof
  <2>2. /\ UNCHANGED <<src, held, prog, kmsg, keof, cpc, cs, inq>> /\ spc[c] = "msgeof"
        /\ \A e \in Clients : e # c => spc'[e] = spc[e]
        /\ spc'[c] = IF src[c] = "none" THEN "recv" ELSE "close"
    BY <1>8 DEF SendMsgEof, TypeOK
  <2>3. /\ \A e \in Clients : e # c => ss'[e] = ss[e] /\ outq'[e] = outq[e]
        /\ ss[c] = "est" => ss'[c] = "est"
    BY <2>1, SendEnds
  <2>5. NoChild(c)' => Idle(c)
    BY <1>0, <2>2 DEF NoChild, Awaited
  <2> QED BY <1>2, <1>7, <2>1, <2>2, <2>3, <2>5
<1>9. CASE SendReply(c)
  <2>1. Delivered(c, Item(c, "eof")) \/ Refused(c)
    BY <1>9 DEF SendReply
  <2>2. /\ UNCHANGED <<held, prog, kmsg, keof, cpc, cs, inq>> /\ spc[c] = "reply"
        /\ \A e \in Clients : e # c => spc'[e] = spc[e] /\ src'[e] = src[e]
        /\ spc'[c] \in {"recv", "close"}
    BY <1>9 DEF SendReply, TypeOK
  <2>3. /\ \A e \in Clients : e # c => ss'[e] = ss[e] /\ outq'[e] = outq[e]
        /\ ss[c] = "est" => ss'[c] = "est"
    BY <2>1, SendEnds
  <2>5. Idle(c)
    BY <1>0, <2>2 DEF NoChild, Awaited
  <2> QED BY <1>2, <1>7, <2>1, <2>2, <2>3, <2>5
<1>10. \A e \in Clients : e \in {f \in Clients : Active(f)} => cpc[e] # "start"
  BY DEF Active, Awaited
<1>11. CASE SendKills(c)
  <2>1. PICK S : S = {f \in Clients : Active(f)}
    OBVIOUS
  <2>2. /\ HangUp(S, {}, backlog, FALSE)
        /\ \A e \in Clients : spc'[e] = IF e \in S THEN "closed" ELSE spc[e]
        /\ UNCHANGED <<src, prog, kmsg, keof, cpc, ss, outq>>
    BY <1>11, <2>1 DEF SendKills, ProcessEnds, BrokenPipe
  <2> QED BY <1>10, <2>1, <2>2, ClosingAwaited
<1>12. CASE CloseSession(c)
  <2>1. PICK S : S = {c}
    OBVIOUS
  <2>2. /\ \E up : HangUp(S, {}, backlog, up)
        /\ \A e \in Clients : spc'[e] = IF e \in S THEN "closed" ELSE spc[e]
        /\ UNCHANGED <<src, prog, kmsg, keof, cpc, ss, outq>>
    BY <1>12, <2>1 DEF CloseSession, ProcessEnds, TypeOK
  <2>3. \A e \in Clients : e \in S => cpc[e] # "start"
    BY <1>0, <2>1
  <2> QED BY <2>2, <2>3, ClosingAwaited
<1> QED BY <1>3, <1>4, <1>5, <1>6, <1>8, <1>9, <1>11, <1>12 DEF HandlerStep

LEMMA ChildAwaited ==
  ASSUME TypeOK, \A d \in Clients : Awaited(d), NEW c \in Clients, ChildStep(c), NEW d \in Clients
  PROVE  Awaited(d)'
<1>0. Awaited(c) /\ ~Idle(c) /\ ~NoChild(c) /\ c \in held[c] /\ held[c] = {c}
      /\ UNCHANGED <<main, spc, src, cpc>>
  <2>1. ~Idle(c)
    BY DEF ChildStep, ProgramEnds, ProgramReads, ProgramReadsEnd, ChildSendsMsg, ChildSendsEof,
           Idle, TypeOK
  <2>2. UNCHANGED <<main, spc, src, cpc>>
    BY DEF ChildStep, ProgramEnds, ProgramReads, ProgramReadsEnd, ChildSendsMsg, ChildSendsEof
  <2> QED BY <2>1, <2>2 DEF Awaited
<1>1. \A e \in Clients : e # c => /\ prog'[e] = prog[e] /\ kmsg'[e] = kmsg[e] /\ keof'[e] = keof[e]
  BY DEF ChildStep, ProgramEnds, ProgramReads, ProgramReadsEnd, ChildSendsMsg, ChildSendsEof,
         TypeOK
<1>2. /\ \A e \in Clients : e # c => ss'[e] = ss[e] /\ outq'[e] = outq[e]
      /\ ss[c] = "est" => ss'[c] = "est"
  <2>1. CASE \E k \in {"out", "eof"} : Delivered(c, Item(c, k)) \/ Refused(c) \/ BrokenPipe(c)
    BY <2>1, SendEnds
  <2>2. CASE UNCHANGED <<ss, outq>>
    BY <2>2
  <2>3. CASE ProgramReadsEnd(c)
    BY <2>3 DEF ProgramReadsEnd, TypeOK
  <2> QED BY <2>1, <2>2, <2>3 DEF ChildStep, ProgramEnds, ProgramReads, ChildSendsMsg, ChildSendsEof
<1>3. \/ Idle(c)' /\ HangUp({}, {c}, backlog, main # "down")
      \/ /\ UNCHANGED <<cs, held>> /\ \A e \in Clients : e # c => inq'[e] = inq[e]
  <2>1. CASE ProgramEnds(c)
    <3>1. ChildLeaves(c, kmsg[c] = 0 /\ keof[c] = 0) /\ prog'[c] = "none" /\ UNCHANGED <<kmsg, keof>>
      BY <2>1 DEF ProgramEnds, TypeOK
    <3> QED BY <3>1 DEF ChildLeaves, Idle
  <2>2. CASE ProgramReads(c)
    BY <2>2 DEF ProgramReads, TypeOK
  <2>3. CASE ProgramReadsEnd(c)
    <3>1. ChildLeaves(c, kmsg[c] = 0 /\ keof[c] = 0) /\ prog'[c] = "none" /\ UNCHANGED <<kmsg, keof>>
      BY <2>3 DEF ProgramReadsEnd, TypeOK
    <3> QED BY <3>1 DEF ChildLeaves, Idle
  <2>4. CASE ChildSendsMsg(c)
    <3>1. /\ kmsg[c] \in Nat /\ kmsg'[c] = kmsg[c] - 1 /\ UNCHANGED prog
          /\ \/ UNCHANGED <<backlog, cs, inq, held>>
             \/ ChildLeaves(c, kmsg[c] = 1 /\ keof[c] = 0 /\ prog[c] = "none") /\ UNCHANGED keof
      BY <2>4 DEF ChildSendsMsg, TypeOK
    <3> QED BY <3>1 DEF ChildLeaves, Idle
  <2>5. CASE ChildSendsEof(c)
    <3>1. /\ keof[c] \in Nat /\ keof'[c] = keof[c] - 1 /\ UNCHANGED <<prog, kmsg>>
          /\ ChildLeaves(c, keof[c] = 1 /\ kmsg[c] = 0 /\ prog[c] = "none")
      BY <2>5 DEF ChildSendsEof, TypeOK
    <3> QED BY <3>1 DEF ChildLeaves, Idle
  <2> QED BY <2>1, <2>2, <2>3, <2>4, <2>5 DEF ChildStep
<1>4. ~NoChild(c)'
  BY <1>0 DEF NoChild
<1>5. CASE UNCHANGED <<cs, held>> /\ \A e \in Clients : e # c => inq'[e] = inq[e]
  <2>1. Awaited(c)'
    <3>1. spc[c] \notin {"none", "recv"}
      BY <1>0 DEF NoChild
    <3> QED BY <1>0, <1>2, <1>4, <1>5, <3>1 DEF Awaited
  <2> QED BY <1>0, <1>1, <1>2, <1>5, <2>1, AwaitedFrame
<1>6. CASE Idle(c)' /\ HangUp({}, {c}, backlog, main # "down")
  <2>1. \A e \in Clients : e # c => /\ held'[e] = held[e]
                                    /\ cs'[e] = "est" => cs[e] = "est" /\ inq'[e] = inq[e]
    BY <1>6, HangUpEnds
  <2>2. held'[c] = {} /\ (cs'[c] = "est" => cs[c] = "est")
        /\ (cs'[c] = "est" => Active(c) \/ \E e \in Clients \ {c} : c \in held[e])
    BY <1>0, <1>6, HangUpEnds
  <2>3. \A e \in Clients \ {c} : c \notin held[e]
    BY DEF Awaited
  <2>4. Awaited(c)'
    <3>1. spc[c] \notin {"none", "recv"}
      BY <1>0 DEF NoChild
    <3> QED BY <1>0, <1>2, <1>4, <1>6, <2>2, <2>3, <3>1 DEF Awaited, Active
  <2> QED BY <1>0, <1>1, <1>2, <2>1, <2>4, AwaitedFrame
<1> QED BY <1>3, <1>5, <1>6

LEMMA ServerAwaited ==
  ASSUME ~Threaded, TypeOK, QueueInv, \A d \in Clients : Awaited(d), ServerStep, NEW d \in Clients
  PROVE  Awaited(d)'
<1>1. CASE Boot
  BY <1>1, AwaitedFrame DEF Boot
<1>2. CASE Accept
  <2>1. PICK c \in Clients : /\ spc' = [spc EXCEPT ![c] = "recv"]
                             /\ spc[c] = "none" /\ cpc[c] # "start"
    BY <1>2, QueueShorter DEF Accept
  <2>2. UNCHANGED <<src, childVars, clientVars, netVars>>
    BY <1>2 DEF Accept
  <2>3. CASE d # c
    BY <2>1, <2>2, <2>3, AwaitedFrame DEF TypeOK
  <2>4. CASE d = c
    <3>1. spc'[c] = "recv" /\ (Idle(c)' <=> Idle(c)) /\ Idle(c)
      BY <2>1, <2>2 DEF TypeOK, Idle, Awaited, NoChild
    <3> QED BY <2>1, <2>2, <2>4, <3>1 DEF Awaited
  <2> QED BY <2>3, <2>4
<1>3. CASE AcceptFails
  <2>1. PICK S : S = {f \in Clients : Active(f)}
    OBVIOUS
  <2>2. /\ HangUp(S, {}, backlog, FALSE)
        /\ \A e \in Clients : spc'[e] = IF e \in S THEN "closed" ELSE spc[e]
        /\ UNCHANGED <<src, prog, kmsg, keof, cpc, ss, outq>>
    BY <1>3, <2>1 DEF AcceptFails, ProcessEnds
  <2>3. \A e \in Clients : e \in S => cpc[e] # "start"
    BY <2>1 DEF Active, Awaited
  <2> QED BY <2>2, <2>3, ClosingAwaited
<1>4. ~ThreadFails
  BY DEF ThreadFails
<1> QED BY <1>1, <1>2, <1>3, <1>4 DEF ServerStep

(***************************************************************************)
(* In the server started without -x: one session at a time, which is the   *)
(* accept loop's; the socket of a client is held by its own handler and    *)
(* children only; and a client that waits has its line or its answer under *)
(* way. The invariant behind the next two theorems.                        *)
(***************************************************************************)
THEOREM SingleInvariant == ASSUME ~Threaded PROVE Spec => []SingleInv
<1>1. Init => SingleInv
  BY DEF Init, SingleInv, QueueInv, OneSession, Awaited, Active, Idle
<1>2. TypeOK /\ SingleInv /\ [Next]_vars => SingleInv'
  <2>1. SUFFICES ASSUME TypeOK, SingleInv, [Next]_vars PROVE SingleInv'
    OBVIOUS
  <2>2. QueueInv'
    BY <2>1, QueueStep DEF SingleInv, Awaited
  <2>3. OneSession'
    BY <2>1, OneSessionStep DEF SingleInv
  <2>4. ASSUME NEW d \in Clients PROVE Awaited(d)'
    <3>1. CASE UNCHANGED vars
      BY <2>1, <3>1, AwaitedFrame DEF vars, SingleInv
    <3> QED BY <2>1, <3>1, UserAwaited, HandlerAwaited, ChildAwaited, ServerAwaited
            DEF Next, SingleInv
  <2> QED BY <2>2, <2>3, <2>4 DEF SingleInv
<1> QED BY <1>1, <1>2, Typing, PTL DEF Spec

(***************************************************************************)
(* WaitIsAnswered: a client of the single-threaded server never waits for  *)
(* an answer that nothing can send any more (rsh_cli.c:128-144), except    *)
(* that its own program keeps the connection.                              *)
(***************************************************************************)
THEOREM SingleWaits == ASSUME ~Threaded PROVE Spec => []WaitIsAnswered
<1>1. TypeOK /\ SingleInv => WaitIsAnswered
  <2>1. SUFFICES ASSUME TypeOK, SingleInv, NEW c \in Clients, cpc[c] = "wait", outq[c] = <<>>,
                        cs[c] = "est"
                 PROVE  \/ inq[c] # <<>> /\ spc[c] # "closed"
                        \/ spc[c] \in SendStates \cup {"close"} \/ (spc[c] = "exec" /\ Idle(c))
                        \/ \E d \in Clients : c \in held[d] /\ (prog[d] \in {"cat", "sleep"} => d = c)
    BY DEF WaitIsAnswered
  <2>2. Awaited(c) /\ ~EofComes(c) /\ spc[c] \in HandlerStates
    BY <2>1 DEF SingleInv, EofComes, TypeOK
  <2>3. CASE spc[c] \in {"none", "recv"}
    BY <2>1, <2>2, <2>3 DEF Awaited
  <2>4. CASE spc[c] \in {"exec", "closed"}
    BY <2>1, <2>2, <2>4 DEF Awaited
  <2> QED BY <2>2, <2>3, <2>4 DEF HandlerStates
<1> QED BY <1>1, SingleInvariant, Typing, PTL

(***************************************************************************)
(* StopStops: the session that received stop-server, once closed, leaves   *)
(* the server down (process_cli_requests, rsh_server.c:272-278).           *)
(***************************************************************************)
THEOREM StopIsObeyed == ASSUME ~Threaded PROVE Spec => []StopStops
<1>1. SingleInv => StopStops
  BY DEF SingleInv, OneSession, StopStops
<1> QED BY <1>1, SingleInvariant, PTL

-----------------------------------------------------------------------------
(***************************************************************************)
(* What takes the server down, in both modes, when commands and lines are  *)
(* as Paired says: it sends only to clients that wait or were killed.      *)
(***************************************************************************)
Served(c) ==
  /\ spc[c] \in SendStates \cup {"exec"} => cpc[c] = "wait" \/ crc[c] = "killed"
  /\ cpc[c] = "done" => inq[c] = <<>> \/ crc[c] = "killed"
  /\ cs[c] \in {"fin", "reset"} =>
       /\ spc[c] \in {"none", "closed"} /\ inq[c] = <<>>
       /\ \A i \in 1..Len(backlog) : backlog[i] # c
  /\ \A d \in Clients : c \in held[d] => spc[c] # "none"

UpInv == \A c \in Clients : Served(c)

(* A connection that no process holds any more belongs to no session in progress. *)
LEMMA HangUpServed ==
  ASSUME TypeOK, QueueInv, \A c \in Clients : Served(c),
         NEW S, NEW D \in SUBSET Clients, NEW queue, NEW up, HangUp(S, D, queue, up),
         \A i \in 1..Len(queue) : /\ queue[i] \notin S /\ spc[queue[i]] = "none"
                                  /\ \E j \in 1..Len(backlog) : backlog[j] = queue[i],
         \A d \in Clients : spc'[d] = IF d \in S THEN "closed" ELSE spc[d],
         UNCHANGED <<cpc, crc>>, NEW c \in Clients
  PROVE  Served(c)'
<1>1. /\ \A d \in Clients : held'[d] \subseteq held[d]
      /\ cs'[c] = cs[c] \/ cs'[c] \in {"fin", "reset"}
      /\ cs'[c] # cs[c] => inq'[c] = <<>>
      /\ inq'[c] = inq[c] \/ inq'[c] = <<>>
      /\ cs'[c] # cs[c] =>
           \/ (c \in S \/ \E d \in D : c \in held[d]) /\ ~(Active(c) /\ c \notin S)
           \/ backlog' = <<>> /\ \E i \in 1..Len(queue) : queue[i] = c
      /\ backlog' = queue \/ backlog' = <<>>
  <2>1. \A d \in Clients : held'[d] \subseteq held[d]
    BY HangUpEnds
  <2> QED BY <2>1, HangUpEnds
<1>2. Served(c)
  OBVIOUS
<1>3. \A d \in Clients : c \in held'[d] => spc'[c] # "none"
  BY <1>1, <1>2 DEF Served
<1>4. ASSUME cs'[c] \in {"fin", "reset"}
      PROVE  /\ spc'[c] \in {"none", "closed"} /\ inq'[c] = <<>>
             /\ \A i \in 1..Len(backlog') : backlog'[i] # c
  <2>1. CASE cs'[c] = cs[c]
    <3>1. /\ spc[c] \in {"none", "closed"} /\ inq[c] = <<>>
          /\ \A i \in 1..Len(backlog) : backlog[i] # c
      BY <1>2, <1>4, <2>1 DEF Served
    <3>2. \A i \in 1..Len(queue) : queue[i] # c
      BY <3>1
    <3>3. CASE backlog' = queue
      BY <1>1, <3>1, <3>2, <3>3
    <3>4. CASE backlog' = <<>>
      BY <1>1, <3>1, <3>4
    <3> QED BY <1>1, <3>3, <3>4
  <2>2. CASE cs'[c] # cs[c]
    <3>1. inq'[c] = <<>>
      BY <1>1, <2>2
    <3>2. CASE (c \in S \/ \E d \in D : c \in held[d]) /\ ~(Active(c) /\ c \notin S)
      <4>1. spc'[c] \in {"none", "closed"}
        BY <3>2 DEF Active
      <4>2. \A i \in 1..Len(queue) : queue[i] # c
        BY <1>2, <3>2 DEF Served
      <4>3. CASE backlog' = queue
        BY <3>1, <4>1, <4>2, <4>3
      <4>4. CASE backlog' = <<>>
        BY <3>1, <4>1, <4>4
      <4> QED BY <1>1, <4>3, <4>4
    <3>3. CASE backlog' = <<>> /\ \E i \in 1..Len(queue) : queue[i] = c
      <4>1. spc'[c] = "none"
        BY <3>3
      <4> QED BY <3>1, <3>3, <4>1
    <3> QED BY <1>1, <2>2, <3>2, <3>3
  <2> QED BY <2>1, <2>2
<1>5. /\ spc'[c] \in SendStates \cup {"exec"} => cpc'[c] = "wait" \/ crc'[c] = "killed"
      /\ cpc'[c] = "done" => inq'[c] = <<>> \/ crc'[c] = "killed"
  BY <1>1, <1>2 DEF Served, SendStates
<1> QED BY <1>3, <1>4, <1>5 DEF Served

LEMMA ServedFrame ==
  ASSUME NEW d \in Clients, Served(d), cpc'[d] = cpc[d], crc'[d] = crc[d],
         spc'[d] = spc[d], cs'[d] = cs[d],
         inq'[d] = inq[d],
         \A i \in 1..Len(backlog') : backlog'[i] = d => \E j \in 1..Len(backlog) : backlog[j] = d,
         \A e \in Clients : d \in held'[e] => d \in held[e] \/ spc[d] # "none"
  PROVE  Served(d)'
  BY DEF Served

LEMMA UserServedStep ==
  ASSUME TypeOK, StepInv, \A d \in Clients : Served(d),
         NEW c \in Clients, UserStep(c) \/ ClientStep(c), NEW d \in Clients
  PROVE  Served(d)'
<1>0. Served(c) /\ Conversation(c) /\ UNCHANGED <<spc, held>>
  BY DEF StepInv, UserStep, Connect, ConnectRefused, UserEnds, Interrupt, SendLine, ClientStep,
         RecvAnswer, RecvEnd
<1>1. ASSUME UNCHANGED backlog, d # c PROVE Served(d)'
  <2>1. /\ cpc'[d] = cpc[d] /\ crc'[d] = crc[d]
        /\ cs'[d] = cs[d] /\ inq'[d] = inq[d]
    <3>1. CASE RecvAnswer(c)
      BY <1>1, <3>1 DEF TypeOK, RecvAnswer
    <3>2. CASE Connect(c)
      BY <1>1, <3>2 DEF TypeOK, Connect
    <3>5. CASE ConnectRefused(c)
      BY <1>1, <3>5 DEF TypeOK, ConnectRefused, ClientReturns
    <3>3. CASE UserEnds(c) \/ Interrupt(c) \/ RecvEnd(c)
      <4>1. ClientHangUp(c) /\ (\E rc : ClientReturns(c, rc)) /\ UNCHANGED inq
        BY <3>3 DEF UserEnds, Interrupt, RecvEnd
      <4> QED BY <1>1, <4>1 DEF TypeOK, ClientReturns, ClientHangUp
    <3>4. ASSUME NEW l \in Lines, SendLine(c, l)
          PROVE  /\ cpc'[d] = cpc[d] /\ crc'[d] = crc[d]
                 /\ cs'[d] = cs[d] /\ inq'[d] = inq[d]
      <4>1. CASE cs[c] = "reset"
        BY <1>1, <3>4, <4>1 DEF TypeOK, SendLine, ClientReturns, ClientHangUp
      <4>2. CASE cs[c] # "reset"
        BY <1>1, <3>4, <4>2 DEF TypeOK, SendLine
      <4> QED BY <4>1, <4>2
    <3> QED BY <3>1, <3>2, <3>3, <3>4, <3>5 DEF UserStep, ClientStep
  <2> QED BY <1>0, <1>1, <2>1, ServedFrame
(* The client goes when the server has nothing of it to work on. *)
<1>2. ASSUME cpc'[c] = "done", cs'[c] \in {"none", "closed"}, UNCHANGED <<backlog, inq>>,
             spc[c] \in {"none", "recv", "close", "closed"}, inq[c] = <<>>
      PROVE  Served(c)'
  BY <1>0, <1>2 DEF Served, SendStates
<1>3. CASE Connect(c)
  <2>1. /\ backlog' = Append(backlog, c) /\ cpc[c] = "start" /\ cpc' = [cpc EXCEPT ![c] = "prompt"]
        /\ cs' = [cs EXCEPT ![c] = "est"] /\ UNCHANGED <<held, inq, crc>>
    BY <1>3 DEF Connect
  <2>2. CASE d = c
    <3>1. spc[c] = "none" /\ cpc'[c] = "prompt" /\ cs'[c] = "est"
      BY <1>0, <2>1 DEF Conversation, TypeOK
    <3> QED BY <1>0, <2>2, <3>1 DEF Served, SendStates
  <2>3. CASE d # c
    <3>1. \A i \in 1..Len(backlog') : backlog'[i] = d => \E j \in 1..Len(backlog) : backlog[j] = d
      <4>1. backlog \in Seq(Clients)
        BY DEF TypeOK
      <4>2. \A i \in 1..Len(backlog') : (i \in 1..Len(backlog) /\ backlog'[i] = backlog[i]) \/ backlog'[i] = c
        BY <2>1, <4>1
      <4> QED BY <2>3, <4>2
    <3>2. cpc'[d] = cpc[d] /\ cs'[d] = cs[d]
      BY <2>1, <2>3 DEF TypeOK
    <3> QED BY <1>0, <2>1, <3>1, <3>2, ServedFrame
  <2> QED BY <2>2, <2>3
<1>4. CASE ConnectRefused(c)
  <2>1. /\ cpc[c] = "start" /\ cpc'[c] = "done" /\ UNCHANGED <<backlog, inq, cs>>
    BY <1>4 DEF ConnectRefused, ClientReturns, TypeOK
  <2>2. inq[c] = <<>> /\ spc[c] = "none"
    BY <1>0, <2>1 DEF Conversation, Resting
  <2>3. Served(c)'
    BY <1>0, <2>1, <2>2 DEF Served, SendStates
  <2> QED BY <1>1, <2>1, <2>3
<1>5. CASE UserEnds(c)
  <2>1. cpc[c] = "prompt" /\ cpc'[c] = "done" /\ cs'[c] = "closed" /\ UNCHANGED <<backlog, inq>>
    BY <1>5 DEF UserEnds, ClientReturns, ClientHangUp, TypeOK
  <2>2. inq[c] = <<>> /\ spc[c] \in {"none", "recv", "close", "closed"}
    BY <1>0, <2>1 DEF Conversation, Resting
  <2> QED BY <1>1, <1>2, <2>1, <2>2
<1>6. CASE RecvEnd(c)
  <2>1. /\ cs[c] \in {"fin", "reset"} /\ cpc'[c] = "done" /\ cs'[c] = "closed"
        /\ UNCHANGED <<backlog, inq>>
    BY <1>6 DEF RecvEnd, ClientReturns, ClientHangUp, TypeOK
  <2>2. inq[c] = <<>> /\ spc[c] \in {"none", "closed"}
    BY <1>0, <2>1 DEF Served
  <2> QED BY <1>1, <1>2, <2>1, <2>2
<1>7. ASSUME NEW l \in Lines, SendLine(c, l) PROVE Served(d)'
  <2>1. UNCHANGED backlog /\ cpc[c] = "prompt"
    BY <1>7 DEF SendLine
  <2>2. inq[c] = <<>> /\ spc[c] \in {"none", "recv", "close", "closed"}
    BY <1>0, <2>1 DEF Conversation, Resting
  <2>3. CASE cs[c] = "reset"
    <3>1. cpc'[c] = "done" /\ cs'[c] = "closed" /\ UNCHANGED inq
      BY <1>7, <2>3 DEF SendLine, ClientReturns, ClientHangUp, TypeOK
    <3> QED BY <1>1, <1>2, <2>1, <2>2, <3>1
  <2>4. CASE cs[c] # "reset"
    <3>1. cpc'[c] = "wait" /\ UNCHANGED cs /\ (cs[c] # "est" => inq'[c] = inq[c])
      BY <1>7, <2>4 DEF SendLine, TypeOK
    <3>2. Served(c)'
      BY <1>0, <2>1, <3>1 DEF Served
    <3> QED BY <1>1, <2>1, <3>2
  <2> QED BY <2>3, <2>4
<1>8. CASE RecvAnswer(c)
  <2>1. PICK n \in 1..Len(outq[c]) :
          IF outq[c][n].kind = "eof" THEN cpc' = [cpc EXCEPT ![c] = "prompt"] ELSE cpc' = cpc
    BY <1>8 DEF RecvAnswer
  <2>2. cpc[c] = "wait" /\ UNCHANGED <<backlog, cs, inq>>
    BY <1>8 DEF RecvAnswer
  <2>3. CASE outq[c][n].kind = "eof"
    <3>1. cpc'[c] = "prompt" /\ Resting(c)
      BY <1>0, <2>1, <2>2, <2>3 DEF Conversation, TypeOK
    <3>2. Served(c)'
      BY <1>0, <2>2, <3>1 DEF Served, Resting, SendStates
    <3> QED BY <1>1, <2>2, <3>2
  <2>4. CASE outq[c][n].kind # "eof"
    <3>1. Served(c)'
      BY <1>0, <2>1, <2>2, <2>4 DEF Served
    <3> QED BY <1>1, <2>2, <3>1
  <2> QED BY <2>3, <2>4
<1>9. CASE Interrupt(c)
  <2>1. crc'[c] = "killed" /\ cs'[c] = "closed" /\ UNCHANGED <<backlog, inq>>
    BY <1>9 DEF Interrupt, ClientReturns, ClientHangUp, TypeOK
  <2>2. Served(c)'
    BY <1>0, <2>1 DEF Served
  <2> QED BY <1>1, <2>1, <2>2
<1> QED BY <1>3, <1>4, <1>5, <1>6, <1>7, <1>8, <1>9 DEF UserStep, ClientStep

(* A send() of the server that finds its client gone finds a killed one. *)
LEMMA KilledFirst ==
  ASSUME StepInv, UpInv, NEW c \in Clients, SigPipe(c)
  PROVE  crc[c] = "killed"
  BY DEF SigPipe, StepInv, Conversation, UpInv, Served

LEMMA HandlerServedStep ==
  ASSUME TypeOK, StepInv, \A d \in Clients : Served(d),
         NEW c \in Clients, HandlerStep(c), NEW d \in Clients
  PROVE  Served(d)'
<1>0. Served(c) /\ Conversation(c) /\ spc[c] \notin {"none", "closed"}
  <2>1. spc[c] \notin {"none", "closed"}
    BY DEF HandlerStep, RecvLine, RecvNothing, PipelineDone, SendMsg, SendMsgEof, SendReply,
       SendKills, CloseSession, SendStates
  <2> QED BY <2>1 DEF StepInv
<1>1. ASSUME UNCHANGED <<backlog, cpc, crc, cs>>,
             \A e \in Clients : e # c => spc'[e] = spc[e] /\ inq'[e] = inq[e] /\ held'[e] = held[e],
             spc'[c] # "none", spc'[c] \in SendStates \cup {"exec"} => cpc[c] = "wait" \/ crc[c] = "killed",
             cpc[c] = "done" => inq'[c] = <<>> \/ crc[c] = "killed",
             held'[c] \in {held[c], {}, {e \in Clients : Active(e)}}
      PROVE  Served(d)'
  <2>1. CASE d = c
    BY <1>0, <1>1, <2>1 DEF Served
  <2>2. CASE d # c
    <3>1. \A e \in Clients : d \in held'[e] => d \in held[e] \/ spc[d] # "none"
      BY <1>1 DEF Active
    <3> QED BY <1>1, <2>2, <3>1, ServedFrame
  <2> QED BY <2>1, <2>2
<1>2. CASE RecvLine(c)
  <2>1. PICK l \in KnownLines, id \in 1..MaxLines :
          /\ Arrives(c, id, l)
          /\ \/ \E rc \in ReturnCodes : Says(c, rc)
             \/ StartPipeline(c, l)
             \/ ForkFails(c, l)
    BY <1>2 DEF RecvLine, ReturnCodes
  <2>2. UNCHANGED <<backlog, cpc, crc, cs>>
    BY <1>2 DEF RecvLine
  <2>3. inq[c] # <<>> /\ \A e \in Clients : e # c => inq'[e] = inq[e]
    BY <2>1 DEF Arrives, TypeOK
  <2>4. cpc[c] = "wait" \/ crc[c] = "killed"
    BY <1>0, <2>3 DEF Conversation, Resting, Served, TypeOK
  <2>5. /\ spc'[c] # "none" /\ held'[c] \in {held[c], {}, {e \in Clients : Active(e)}}
        /\ \A e \in Clients : e # c => spc'[e] = spc[e] /\ held'[e] = held[e]
    <3>1. CASE \E rc \in ReturnCodes : Says(c, rc)
      BY <3>1 DEF Says, TypeOK
    <3>2. CASE StartPipeline(c, l)
      BY <3>2 DEF StartPipeline, TypeOK
    <3>3. CASE ForkFails(c, l)
      <4>1. PICK k : held' = [held EXCEPT ![c] = IF k = 0 THEN {} ELSE {e \in Clients : Active(e)}]
        BY <3>3 DEF ForkFails
      <4>2. spc' = [spc EXCEPT ![c] = "msg"]
        BY <3>3 DEF ForkFails
      <4> QED BY <4>1, <4>2 DEF TypeOK
    <3> QED BY <2>1, <3>1, <3>2, <3>3
  <2> QED BY <1>1, <2>2, <2>3, <2>4, <2>5
<1>3. CASE RecvNothing(c) \/ PipelineDone(c) \/ SendMsg(c) \/ SendMsgEof(c) \/ SendReply(c)
  <2>1. /\ UNCHANGED <<backlog, cpc, crc, cs, inq, held>>
        /\ \E p \in HandlerStates : /\ spc' = [spc EXCEPT ![c] = p] /\ p # "none"
                                    /\ p \in SendStates \cup {"exec"} => spc[c] \in SendStates \cup {"exec"}
    BY <1>3 DEF RecvNothing, PipelineDone, SendMsg, SendMsgEof, SendReply, HandlerStates, SendStates
  <2>2. /\ spc'[c] # "none" /\ \A e \in Clients : e # c => spc'[e] = spc[e]
        /\ spc'[c] \in SendStates \cup {"exec"} => spc[c] \in SendStates \cup {"exec"}
    BY <2>1 DEF TypeOK
  <2> QED BY <1>0, <1>1, <2>1, <2>2 DEF Served
<1>4. CASE CloseSession(c)
  <2>1. PICK S : S = {c}
    OBVIOUS
  <2>2. PICK D \in SUBSET Clients : D = {}
    OBVIOUS
  <2>3. /\ \E up : HangUp(S, D, backlog, up) /\ UNCHANGED <<cpc, crc>>
        /\ \A e \in Clients : spc'[e] = IF e \in S THEN "closed" ELSE spc[e]
    BY <1>4, <2>1, <2>2 DEF CloseSession, ProcessEnds, TypeOK
  <2>4. \A i \in 1..Len(backlog) : backlog[i] \notin S /\ spc[backlog[i]] = "none"
    BY <1>0, <2>1 DEF StepInv, QueueInv
  <2> QED BY <2>3, <2>4, HangUpServed DEF StepInv
<1>5. CASE SendKills(c)
  <2>1. PICK S : S = {e \in Clients : Active(e)}
    OBVIOUS
  <2>2. PICK D \in SUBSET Clients : D = {}
    OBVIOUS
  <2>3. /\ HangUp(S, D, backlog, FALSE) /\ UNCHANGED <<cpc, crc>>
        /\ \A e \in Clients : spc'[e] = IF e \in S THEN "closed" ELSE spc[e]
    BY <1>5, <2>1, <2>2 DEF SendKills, ProcessEnds
  <2>4. \A i \in 1..Len(backlog) : backlog[i] \notin S /\ spc[backlog[i]] = "none"
    BY <2>1 DEF StepInv, QueueInv, Active
  <2> QED BY <2>3, <2>4, HangUpServed DEF StepInv
<1> QED BY <1>2, <1>3, <1>4, <1>5 DEF HandlerStep

LEMMA ChildServedStep ==
  ASSUME TypeOK, StepInv, \A d \in Clients : Served(d), NEW c \in Clients, ChildStep(c), NEW d \in Clients
  PROVE  Served(d)'
<1>1. UNCHANGED <<cpc, crc, spc>>
  BY DEF ChildStep, ProgramEnds, ProgramReads, ProgramReadsEnd, ChildSendsMsg, ChildSendsEof
<1>2. CASE UNCHANGED <<backlog, cs, inq, held>>
  BY <1>1, <1>2, ServedFrame
<1>3. CASE HangUp({}, {c}, backlog, main # "down")
  <2>1. \A i \in 1..Len(backlog) : spc[backlog[i]] = "none"
    BY DEF StepInv, QueueInv
  <2>2. PICK S : S = {}
    OBVIOUS
  <2>3. PICK D \in SUBSET Clients : D = {c}
    OBVIOUS
  <2>4. HangUp(S, D, backlog, main # "down")
    BY <1>3, <2>2, <2>3
  <2> QED BY <1>1, <2>1, <2>2, <2>4, HangUpServed DEF StepInv
<1>4. CASE ProgramReads(c)
  <2>1. /\ inq[c] # <<>> /\ UNCHANGED <<backlog, cs, held>>
        /\ \A e \in Clients : e # c => inq'[e] = inq[e]
    BY <1>4 DEF ProgramReads, TypeOK
  <2>2. CASE d = c
    BY <1>1, <2>1, <2>2 DEF Served
  <2>3. CASE d # c
    BY <1>1, <2>1, <2>3, ServedFrame
  <2> QED BY <2>2, <2>3
<1>5. ProgramReads(c) \/ \E last : ChildLeaves(c, last) \/ UNCHANGED <<backlog, cs, inq, held>>
  BY DEF ChildStep, ProgramEnds, ProgramReadsEnd, ChildSendsMsg, ChildSendsEof
<1> QED BY <1>2, <1>3, <1>4, <1>5 DEF ChildLeaves

LEMMA ServerServedStep ==
  ASSUME TypeOK, StepInv, \A d \in Clients : Served(d), ServerStep, NEW d \in Clients
  PROVE  Served(d)'
<1>1. CASE Boot
  BY <1>1, ServedFrame DEF Boot
<1>2. CASE Accept
  <2>1. /\ UNCHANGED <<cpc, crc, cs, inq, held>> /\ backlog # <<>> /\ backlog' = Tail(backlog)
        /\ spc' = [spc EXCEPT ![Head(backlog)] = "recv"]
    BY <1>2 DEF Accept
  <2>2. PICK c \in Clients : c = Head(backlog)
    BY <2>1, QueueShorter DEF StepInv
  <2>3. CASE d = c
    <3>1. spc'[c] = "recv" /\ \E i \in 1..Len(backlog) : backlog[i] = c
      <4>1. backlog \in Seq(Clients) /\ 1 \in 1..Len(backlog) /\ c = backlog[1]
        BY <2>1, <2>2 DEF TypeOK
      <4> QED BY <2>1, <2>2, <4>1 DEF TypeOK
    <3>2. cs[c] \notin {"fin", "reset"}
      BY <3>1 DEF Served
    <3> QED BY <2>1, <2>3, <3>1, <3>2 DEF Served, SendStates
  <2>4. CASE d # c
    <3>1. \A i \in 1..Len(backlog') : \E j \in 1..Len(backlog) : backlog[j] = backlog'[i]
      BY <2>1, QueueShorter DEF StepInv
    <3> QED BY <2>1, <2>2, <2>4, <3>1, ServedFrame DEF TypeOK
  <2> QED BY <2>3, <2>4
<1>3. CASE AcceptFails
  <2>1. PICK S : S = {f \in Clients : Active(f)}
    OBVIOUS
  <2>2. PICK D \in SUBSET Clients : D = {}
    OBVIOUS
  <2>3. /\ HangUp(S, D, backlog, FALSE) /\ UNCHANGED <<cpc, crc>>
        /\ \A e \in Clients : spc'[e] = IF e \in S THEN "closed" ELSE spc[e]
    BY <1>3, <2>1, <2>2 DEF AcceptFails, ProcessEnds
  <2>4. \A i \in 1..Len(backlog) : backlog[i] \notin S /\ spc[backlog[i]] = "none"
    BY <2>1 DEF StepInv, QueueInv, Active
  <2> QED BY <2>3, <2>4, HangUpServed DEF StepInv
<1>4. CASE ThreadFails
  <2>1. PICK S : S = {f \in Clients : Active(f)} \cup {Head(backlog)}
    OBVIOUS
  <2>2. PICK D \in SUBSET Clients : D = {}
    OBVIOUS
  <2>3. /\ HangUp(S, D, Tail(backlog), FALSE) /\ UNCHANGED <<cpc, crc>> /\ backlog # <<>>
        /\ \A e \in Clients : spc'[e] = IF e \in S THEN "closed" ELSE spc[e]
    BY <1>4, <2>1, <2>2 DEF ThreadFails, ProcessEnds
  <2>4. \A i \in 1..Len(Tail(backlog)) :
          /\ Tail(backlog)[i] \notin S /\ spc[Tail(backlog)[i]] = "none"
          /\ \E j \in 1..Len(backlog) : backlog[j] = Tail(backlog)[i]
    BY <2>1, <2>3, QueueShorter DEF StepInv, Active
  <2> QED BY <2>3, <2>4, HangUpServed DEF StepInv
<1> QED BY <1>1, <1>2, <1>3, <1>4 DEF ServerStep

(***************************************************************************)
(* In both modes, when requests and responses are in step: the server      *)
(* sends to a client that is waiting for it or was killed while it did,    *)
(* and a connection that has ended is no handler's.  The invariant behind  *)
(* StaysUp.                                                                *)
(***************************************************************************)
THEOREM UpInvariant == ASSUME Paired PROVE Spec => []UpInv
<1>1. Init => UpInv
  BY DEF Init, UpInv, Served, SendStates
<1>2. TypeOK /\ StepInv /\ UpInv /\ [Next]_vars => UpInv'
  <2>1. SUFFICES ASSUME TypeOK, StepInv, UpInv, [Next]_vars, NEW d \in Clients PROVE Served(d)'
    BY DEF UpInv
  <2>2. CASE UNCHANGED vars
    BY <2>1, <2>2, ServedFrame DEF vars, UpInv
  <2> QED BY <2>1, <2>2, UserServedStep, HandlerServedStep, ChildServedStep, ServerServedStep
          DEF Next, UpInv
<1> QED BY <1>1, <1>2, Typing, StepInvariant, PTL DEF Spec

(***************************************************************************)
(* ServerStaysUp: the server goes down by a failing call of boot_server()  *)
(* or of the accept loop, by stop-server, or by a send() to a client that  *)
(* was killed while it waited, and in no other way: nobody else leaves     *)
(* while an answer is on its way (rsh_server.c:84-88).                     *)
(***************************************************************************)
THEOREM StaysUp == ASSUME Paired PROVE Spec => ServerStaysUp
<1> DEFINE Ends == \/ faults' > faults /\ main \in {"boot", "accept"}
                   \/ ~Threaded /\ \E c \in Clients : spc[c] = "close" /\ src[c] = "OK_EXIT"
                   \/ \E c \in Clients : SigPipe(c) /\ crc[c] = "killed"
<1>1. TypeOK /\ StepInv /\ UpInv /\ [Next]_vars => [main # "down" /\ main' = "down" => Ends]_vars
  <2>1. SUFFICES ASSUME TypeOK, StepInv, UpInv, Next, main # "down", main' = "down" PROVE Ends
    OBVIOUS
  <2>2. CASE ServerStep
    BY <2>1, <2>2 DEF ServerStep, Boot, Accept, AcceptFails, ThreadFails, Fault, TypeOK
  <2>3. ASSUME NEW c \in Clients, HandlerStep(c) PROVE Ends
    <3>1. CASE SendKills(c)
      BY <2>1, <3>1, KilledFirst DEF SendKills, BrokenPipe, SigPipe
    <3>2. CASE CloseSession(c)
      BY <2>1, <3>2 DEF CloseSession
    <3> QED BY <2>1, <2>3, <3>1, <3>2
            DEF HandlerStep, RecvLine, RecvNothing, PipelineDone, SendMsg, SendMsgEof, SendReply
  <2>4. ASSUME NEW c \in Clients, UserStep(c) \/ ClientStep(c) \/ ChildStep(c) PROVE main' = main
    BY <2>4 DEF UserStep, Connect, ConnectRefused, UserEnds, Interrupt, SendLine, ClientStep,
       RecvAnswer, RecvEnd, ChildStep, ProgramEnds, ProgramReads, ProgramReadsEnd, ChildSendsMsg,
       ChildSendsEof
  <2> QED BY <2>1, <2>2, <2>3, <2>4 DEF Next
<1> QED BY <1>1, UpInvariant, Typing, StepInvariant, PTL DEF Spec, ServerStaysUp
=============================================================================
