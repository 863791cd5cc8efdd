----------------------------- MODULE RshSession -----------------------------
(***************************************************************************)
(* The remote shell of assignments/6-RShell/starter: the client loop of    *)
(* rsh_cli.c, the accept loops and the per-connection request loop of      *)
(* rsh_server.c, and the stream connection between them.                   *)
(*                                                                         *)
(* A typed command line is one member of Lines; only what the program does *)
(* with it is kept:                                                        *)
(*   "ls", "false"    programs that end with status 0, with status 1       *)
(*   "sleep"          a program that may never end and leaves the socket   *)
(*                    alone until it does (sleep, tail -f)                 *)
(*   "cat"            a program that reads its standard input (the socket) *)
(*   "nosuch"         a command that execvp() does not find                *)
(*   "nosuch2"        a pipeline of two such commands                      *)
(*   "nosuchls"       a pipeline of such a command and, last, of ls        *)
(*   "blank"          a line build_cmd_list() rejects                      *)
(*   "toolong"        a line that fills the receive buffer                 *)
(*   "exit", "stop-server"   the two built-in commands the server obeys    *)
(* A response is a sequence of items: "out" for text, "eof" for the byte   *)
(* RDSH_EOF_CHAR.  Every item carries the number of the line it answers;   *)
(* the program keeps no such number, it exists to state properties.        *)
(***************************************************************************)
EXTENDS Naturals, Sequences, FiniteSets

CONSTANTS
  Clients,     \* the client processes; each runs exec_remote_cmd_loop() once
  Threaded,    \* TRUE: the server was started with -x
  Lines,       \* the command lines the users type
  Splits,      \* <<l, a, b>>: the stream may deliver line l as two pieces a and b
  MaxLines,    \* bound: lines a user types before ending the input
  MaxFaults,   \* bound: failing accept(), pthread_create(), fork() or bind() calls
  Interrupts   \* TRUE: a user may kill a client with ^C

Commands == {"ls", "false", "sleep", "cat", "nosuch", "nosuch2", "nosuchls"}
KnownLines == Commands \cup {"blank", "toolong", "exit", "stop-server"}

ASSUME ClientsAssumption == IsFiniteSet(Clients)
ASSUME LinesAssumption == Lines \subseteq KnownLines
ASSUME SplitsAssumption == Splits \subseteq (Lines \X KnownLines \X KnownLines)
ASSUME SwitchAssumption == Threaded \in BOOLEAN /\ Interrupts \in BOOLEAN
ASSUME BoundAssumption == MaxLines \in Nat /\ MaxFaults \in Nat

VARIABLES
  main,     \* the server's main thread: "boot", "accept", "serve" or "down"
  backlog,  \* connections completed by the kernel and not yet accepted
  spc,      \* spc[c]: where the handler of c's connection is
  src,      \* src[c]: what exec_client_requests() returns for c
  cur,      \* cur[c]: the number of the line the handler works on
  prog,     \* prog[c]: the program running for c, "none" or the line that started it
  kmsg,     \* kmsg[c]: children whose execvp() failed, about to send the message
  keof,     \* keof[c]: such children, about to send the EOF character
  bad,      \* bad[c]: a child of the current pipeline ended with status # 0
  held,     \* held[c]: connections whose socket the children started for c inherited
  cpc,      \* cpc[c]: the client: "start", "prompt", "wait" or "done"
  crc,      \* crc[c]: what exec_remote_cmd_loop() returned
  nsent,    \* nsent[c]: lines sent so far
  got,      \* got[c]: the line answered by the EOF that last ended a receive loop
  cs, ss,   \* the client's and the server's end of c's connection
  inq,      \* bytes from client to server: a sequence of [id, line]
  outq,     \* bytes from server to client: a sequence of [kind, id]
  faults    \* system call failures so far

serverVars == <<main, backlog>>
handlerVars == <<spc, src, cur>>
childVars == <<prog, kmsg, keof, bad, held>>
clientVars == <<cpc, crc, nsent, got>>
netVars == <<cs, ss, inq, outq>>
vars == <<serverVars, handlerVars, childVars, clientVars, netVars, faults>>

(***************************************************************************)
(* What the server makes of a line.                                        *)
(***************************************************************************)
Unparsable(l) == l = "blank"
Missing(l) == CASE l \in {"nosuch", "nosuchls"} -> 1 [] l = "nosuch2" -> 2 [] OTHER -> 0
Program(l) == CASE l \in {"ls", "false", "sleep", "cat"} -> l [] l = "nosuchls" -> "ls"
              [] OTHER -> "none"

SendStates == {"msg", "msgeof", "reply"}
HandlerStates == {"none", "recv", "exec", "close", "closed"} \cup SendStates
ReturnCodes == {"none", "OK", "OK_EXIT", "ERR_RDSH_COMMUNICATION", "ERR_EXEC_CMD"}

Request == [id : Nat, line : KnownLines]
Response == [kind : {"out", "eof"}, id : Nat]

(* The handler of c still has the accepted socket open. *)
Active(c) == spc[c] \notin {"none", "closed"}
(* Every child forked for c has ended. *)
Idle(c) == prog[c] = "none" /\ kmsg[c] = 0 /\ keof[c] = 0
(* Some process holds the listening socket: the server or, when it has ended, a  *)
(* child it started.                                                            *)
Listening == main \in {"accept", "serve"}
             \/ (main = "down" /\ \E d \in Clients : held[d] # {})

-----------------------------------------------------------------------------
(***************************************************************************)
(* The connection, a TCP stream.  An end is "est" until the other side     *)
(* closes; then "fin" if that side had read everything, else "reset".  A   *)
(* send to "fin" seems to work and makes the end "dead"; a send to "reset" *)
(* or a recv from it reports the error once; a send to "dead" raises       *)
(* SIGPIPE, which nothing in the program handles.                          *)
(***************************************************************************)
EndStates == {"none", "est", "fin", "reset", "dead", "closed"}

(* send() by a process of the server, seen to succeed. *)
Delivered(c, item) ==
  \/ ss[c] = "est" /\ outq' = [outq EXCEPT ![c] = Append(@, item)] /\ UNCHANGED ss
  \/ ss[c] = "fin" /\ ss' \in {ss, [ss EXCEPT ![c] = "dead"]} /\ UNCHANGED outq
(* send() that returns -1. *)
Refused(c) == ss[c] = "reset" /\ ss' = [ss EXCEPT ![c] = "dead"] /\ UNCHANGED outq
(* send() that kills the sending process. *)
BrokenPipe(c) == ss[c] = "dead" /\ UNCHANGED <<ss, outq>>

(* The handlers in S and the children started for D give up their descriptors;  *)
(* up: the server process lives on.  What nobody at the server holds any more is  *)
(* closed: a connection and, if it is the listening socket, its queue, which the  *)
(* kernel resets.                                                                 *)
HangUp(S, D, queue, up) ==
  LET kept(c) == (Active(c) /\ c \notin S) \/ \E d \in Clients \ D : c \in held[d]
      lost == {c \in Clients : (c \in S \/ \E d \in D : c \in held[d]) /\ ~kept(c)}
      listening == up \/ \E d \in Clients \ D : held[d] # {}
      dropped == {c \in Clients : ~listening /\ \E i \in 1..Len(queue) : queue[i] = c}
  IN /\ cs' = [c \in Clients |-> IF cs[c] = "est" /\ c \in lost \cup dropped
                                 THEN IF c \in lost /\ inq[c] = <<>> THEN "fin" ELSE "reset"
                                 ELSE cs[c]]
     /\ inq' = [c \in Clients |-> IF c \in lost \cup dropped THEN <<>> ELSE inq[c]]
     /\ held' = [d \in Clients |-> IF d \in D THEN {} ELSE held[d]]
     /\ backlog' = IF listening THEN queue ELSE <<>>

(* The client's end is closed, by close() or by the death of the process. *)
ClientHangUp(c) ==
  /\ ss' = [ss EXCEPT ![c] = IF @ # "est" THEN @
                             ELSE IF outq[c] = <<>> THEN "fin" ELSE "reset"]
  /\ cs' = [cs EXCEPT ![c] = "closed"]
  /\ outq' = [outq EXCEPT ![c] = <<>>]
-----------------------------------------------------------------------------
(***************************************************************************)
(* The client, exec_remote_cmd_loop().                                     *)
(***************************************************************************)
ClientReturns(c, rc) == cpc' = [cpc EXCEPT ![c] = "done"] /\ crc' = [crc EXCEPT ![c] = rc]

(* start_client(): the kernel completes the connection before any accept(). *)
Connect(c) ==
  /\ cpc[c] = "start" /\ Listening
  /\ backlog' = Append(backlog, c)
  /\ cpc' = [cpc EXCEPT ![c] = "prompt"]
  /\ cs' = [cs EXCEPT ![c] = "est"] /\ ss' = [ss EXCEPT ![c] = "est"]
  /\ UNCHANGED <<main, handlerVars, childVars, crc, nsent, got, inq, outq, faults>>

ConnectRefused(c) ==
  /\ cpc[c] = "start" /\ ~Listening
  /\ ClientReturns(c, "ERR_RDSH_CLIENT")
  /\ UNCHANGED <<serverVars, handlerVars, childVars, nsent, got, netVars, faults>>

(* fgets() and send(): a line goes out without its terminating null byte. *)
SendLine(c, l) ==
  /\ cpc[c] = "prompt" /\ nsent[c] < MaxLines
  /\ \/ /\ cs[c] # "reset"
        /\ nsent' = [nsent EXCEPT ![c] = @ + 1]
        /\ cpc' = [cpc EXCEPT ![c] = "wait"]
        /\ inq' = IF cs[c] = "est"
                  THEN [inq EXCEPT ![c] = Append(@, [id |-> nsent[c] + 1, line |-> l])]
                  ELSE inq
        /\ UNCHANGED <<crc, cs, ss, outq>>
     \/ /\ cs[c] = "reset"
        /\ ClientReturns(c, "ERR_RDSH_COMMUNICATION")
        /\ ClientHangUp(c)
        /\ UNCHANGED <<nsent, inq>>
  /\ UNCHANGED <<serverVars, handlerVars, childVars, got, faults>>

(* recv(): any non-empty prefix of the bytes on the way; the receive loop ends *)
(* when the last byte of that prefix is the EOF character.                     *)
RecvAnswer(c) ==
  /\ cpc[c] = "wait" /\ outq[c] # <<>>
  /\ \E n \in 1..Len(outq[c]) :
       /\ outq' = [outq EXCEPT ![c] = SubSeq(@, n + 1, Len(@))]
       /\ IF outq[c][n].kind = "eof"
          THEN /\ cpc' = [cpc EXCEPT ![c] = "prompt"]
               /\ got' = [got EXCEPT ![c] = outq[c][n].id]
          ELSE UNCHANGED <<cpc, got>>
  /\ UNCHANGED <<serverVars, handlerVars, childVars, crc, nsent, cs, ss, inq, faults>>

(* recv() returns 0 or -1: nothing is left to read and the server has closed. *)
RecvEnd(c) ==
  /\ cpc[c] = "wait" /\ outq[c] = <<>> /\ cs[c] \in {"fin", "reset"}
  /\ ClientReturns(c, IF cs[c] = "fin" THEN "OK" ELSE "ERR_RDSH_COMMUNICATION")
  /\ ClientHangUp(c)
  /\ UNCHANGED <<serverVars, handlerVars, childVars, nsent, got, inq, faults>>

(* fgets() returns NULL: the user ended the input. *)
UserEnds(c) ==
  /\ cpc[c] = "prompt"
  /\ ClientReturns(c, "OK")
  /\ ClientHangUp(c)
  /\ UNCHANGED <<serverVars, handlerVars, childVars, nsent, got, inq, faults>>

(* The user kills the client; the kernel closes its socket. *)
Interrupt(c) ==
  /\ Interrupts /\ cpc[c] = "wait"
  /\ ClientReturns(c, "killed")
  /\ ClientHangUp(c)
  /\ UNCHANGED <<serverVars, handlerVars, childVars, nsent, got, inq, faults>>

-----------------------------------------------------------------------------
(***************************************************************************)
(* The server process.                                                     *)
(***************************************************************************)
(* The process ends and with it the handlers in S; children live on. *)
ProcessEnds(S, queue) ==
  /\ main' = "down"
  /\ spc' = [c \in Clients |-> IF c \in S THEN "closed" ELSE spc[c]]
  /\ HangUp(S, {}, queue, FALSE)

Fault == faults < MaxFaults /\ faults' = faults + 1

(* boot_server(): socket(), bind(), listen(). *)
Boot ==
  /\ main = "boot"
  /\ \/ main' = "accept" /\ UNCHANGED faults
     \/ main' = "down" /\ Fault
  /\ UNCHANGED <<backlog, handlerVars, childVars, clientVars, netVars>>

(* One round of process_cli_requests() or process_cli_requests_threaded(). *)
Accept ==
  /\ main = "accept" /\ backlog # <<>>
  /\ backlog' = Tail(backlog)
  /\ spc' = [spc EXCEPT ![Head(backlog)] = "recv"]
  /\ main' = IF Threaded THEN "accept" ELSE "serve"
  /\ UNCHANGED <<src, cur, childVars, clientVars, netVars, faults>>

(* accept() fails: either loop returns and main() ends. *)
AcceptFails ==
  /\ main = "accept" /\ Fault
  /\ ProcessEnds({c \in Clients : Active(c)}, backlog)
  /\ UNCHANGED <<src, cur, prog, kmsg, keof, bad, clientVars, ss, outq>>

(* pthread_create() fails: the threaded loop returns, which ends every session. *)
ThreadFails ==
  /\ Threaded /\ main = "accept" /\ backlog # <<>> /\ Fault
  /\ ProcessEnds({c \in Clients : Active(c)} \cup {Head(backlog)}, Tail(backlog))
  /\ UNCHANGED <<src, cur, prog, kmsg, keof, bad, clientVars, ss, outq>>
-----------------------------------------------------------------------------
(***************************************************************************)
(* The handler, exec_client_requests() and the close() that follows it.    *)
(***************************************************************************)
Item(c, kind) == [kind |-> kind, id |-> cur[c]]

(* recv() hands over line l, sent as number id: a whole line, a piece of one, or *)
(* several lines that were waiting, which the parser takes for one command with  *)
(* the later words as arguments.                                                 *)
Arrives(c, id, l) ==
  /\ inq[c] # <<>>
  /\ \/ /\ id = Head(inq[c]).id /\ l = Head(inq[c]).line
        /\ inq' = [inq EXCEPT ![c] = Tail(@)]
     \/ \E s \in Splits :
          /\ s[1] = Head(inq[c]).line /\ l = s[2] /\ id = Head(inq[c]).id
          /\ inq' = [inq EXCEPT ![c] = <<[id |-> id, line |-> s[3]]>> \o Tail(@)]
     \/ \E n \in 2..Len(inq[c]) :
          /\ id = inq[c][n].id
          /\ l \in {inq[c][i].line : i \in 1..n} \cup {"false"}
          /\ inq' = [inq EXCEPT ![c] = SubSeq(@, n + 1, Len(@))]

(* Mutant: the parser's own error code is returned instead of the server's. *)
SaysRawCode(c, rc) ==
  /\ spc' = [spc EXCEPT ![c] = "msg"]
  /\ src' = [src EXCEPT ![c] = IF rc = "ERR_RDSH_COMMUNICATION" THEN "WARN_NO_CMDS" ELSE rc]
  /\ UNCHANGED <<prog, kmsg, keof, bad, held, faults>>

(* The handler will send an error or a farewell, then return rc ("none": go on). *)
Says(c, rc) ==
  /\ spc' = [spc EXCEPT ![c] = "msg"]
  /\ src' = [src EXCEPT ![c] = rc]
  /\ UNCHANGED <<prog, kmsg, keof, bad, held, faults>>

(* rsh_execute_pipeline() forks one child per command; each inherits the server's *)
(* descriptors, the sockets of all sessions among them.                           *)
StartPipeline(c, l) ==
  /\ spc' = [spc EXCEPT ![c] = "exec"]
  /\ prog' = [prog EXCEPT ![c] = Program(l)]
  /\ kmsg' = [kmsg EXCEPT ![c] = Missing(l)]
  /\ bad' = [bad EXCEPT ![c] = FALSE]
  /\ held' = [held EXCEPT ![c] = {d \in Clients : Active(d)}]
  /\ UNCHANGED <<src, keof, faults>>

(* pipe() or fork() fails: the function returns at once, whatever already runs. *)
ForkFails(c, l) ==
  /\ Fault
  /\ \E k \in 0..Missing(l) :
       /\ k = 0 \/ k < Missing(l) \/ Program(l) # "none"
       /\ kmsg' = [kmsg EXCEPT ![c] = k]
       /\ held' = [held EXCEPT ![c] = IF k = 0 THEN {} ELSE {d \in Clients : Active(d)}]
  /\ spc' = [spc EXCEPT ![c] = "msg"]
  /\ src' = [src EXCEPT ![c] = "ERR_EXEC_CMD"]
  /\ bad' = [bad EXCEPT ![c] = FALSE]
  /\ UNCHANGED <<prog, keof>>

(* The part of the loop between recv() and the first send() or fork(). *)
RecvLine(c) ==
  /\ spc[c] = "recv"
  /\ \E l \in KnownLines, id \in 1..MaxLines :
       /\ Arrives(c, id, l)
       /\ cur' = [cur EXCEPT ![c] = id]
       /\ \/ l = "toolong" /\ Says(c, "none")
          \/ Unparsable(l) /\ Says(c, "ERR_RDSH_COMMUNICATION")
          \/ l = "exit" /\ Says(c, "OK")
          \/ l = "stop-server" /\ Says(c, "OK_EXIT")
          \/ l \in Commands /\ (StartPipeline(c, l) \/ ForkFails(c, l))
  /\ UNCHANGED <<serverVars, clientVars, cs, ss, outq>>

(* Mutant: a disconnect is reported to the client that has gone. *)
RecvNothingReports(c) ==
  /\ spc[c] = "recv" /\ inq[c] = <<>> /\ ss[c] \in {"fin", "reset", "dead"}
  /\ spc' = [spc EXCEPT ![c] = "msg"]
  /\ src' = [src EXCEPT ![c] = "ERR_RDSH_COMMUNICATION"]
  /\ UNCHANGED <<serverVars, cur, childVars, clientVars, netVars, faults>>

(* Mutant: only a negative result of recv() ends the loop. *)
RecvNothingContinues(c) ==
  /\ spc[c] = "recv" /\ inq[c] = <<>> /\ ss[c] = "reset"
  /\ spc' = [spc EXCEPT ![c] = "close"]
  /\ src' = [src EXCEPT ![c] = "ERR_RDSH_COMMUNICATION"]
  /\ ss' = [ss EXCEPT ![c] = "dead"]
  /\ UNCHANGED <<serverVars, cur, childVars, clientVars, cs, inq, outq, faults>>

(* recv() returns 0 or -1. *)
RecvNothing(c) ==
  /\ spc[c] = "recv" /\ inq[c] = <<>> /\ ss[c] \in {"fin", "reset", "dead"}
  /\ spc' = [spc EXCEPT ![c] = "close"]
  /\ src' = [src EXCEPT ![c] = IF ss[c] = "reset" THEN "ERR_RDSH_COMMUNICATION" ELSE "OK"]
  /\ ss' = [ss EXCEPT ![c] = IF @ = "reset" THEN "dead" ELSE @]
  /\ UNCHANGED <<serverVars, cur, childVars, clientVars, cs, inq, outq, faults>>

(* Mutant: a failed pipeline is not reported, the loop goes on. *)
PipelineDoneSilently(c) ==
  /\ spc[c] = "exec" /\ Idle(c)
  /\ spc' = [spc EXCEPT ![c] = IF bad[c] THEN "recv" ELSE "reply"]
  /\ UNCHANGED <<serverVars, src, cur, childVars, clientVars, netVars, faults>>

(* Mutant: the pipeline's children are not waited for. *)
PipelineDoneEarly(c) ==
  /\ spc[c] = "exec"
  /\ spc' = [spc EXCEPT ![c] = "reply"]
  /\ UNCHANGED <<serverVars, src, cur, childVars, clientVars, netVars, faults>>

(* waitpid() has returned for every child. *)
PipelineDone(c) ==
  /\ spc[c] = "exec" /\ Idle(c)
  /\ \/ /\ bad[c]
        /\ spc' = [spc EXCEPT ![c] = "msg"]
        /\ src' = [src EXCEPT ![c] = "ERR_EXEC_CMD"]
     \/ /\ ~bad[c]
        /\ spc' = [spc EXCEPT ![c] = "reply"]
        /\ UNCHANGED src
  /\ UNCHANGED <<serverVars, cur, childVars, clientVars, netVars, faults>>

(* The first send() of send_message_string(); if it fails the second is skipped. *)
SendMsg(c) ==
  /\ spc[c] = "msg"
  /\ \/ Delivered(c, Item(c, "out")) /\ spc' = [spc EXCEPT ![c] = "msgeof"]
     \/ Refused(c) /\ spc' = [spc EXCEPT ![c] = IF src[c] = "none" THEN "recv" ELSE "close"]
  /\ UNCHANGED <<serverVars, src, cur, childVars, clientVars, cs, inq, faults>>

(* Mutant: the return after a failed pipeline is missing, a second EOF follows. *)
SendMsgEofFallsThrough(c) ==
  /\ spc[c] = "msgeof"
  /\ Delivered(c, Item(c, "eof")) \/ Refused(c)
  /\ spc' = [spc EXCEPT ![c] = IF src[c] = "none" THEN "recv"
                               ELSE IF src[c] = "ERR_EXEC_CMD" THEN "reply" ELSE "close"]
  /\ UNCHANGED <<serverVars, src, cur, childVars, clientVars, cs, inq, faults>>

(* Its send_message_eof(): the result is ignored. *)
SendMsgEof(c) ==
  /\ spc[c] = "msgeof"
  /\ Delivered(c, Item(c, "eof")) \/ Refused(c)
  /\ spc' = [spc EXCEPT ![c] = IF src[c] = "none" THEN "recv" ELSE "close"]
  /\ UNCHANGED <<serverVars, src, cur, childVars, clientVars, cs, inq, faults>>

(* Mutant: no EOF after a pipeline that succeeded. *)
SendReplyForgets(c) ==
  /\ spc[c] = "reply"
  /\ spc' = [spc EXCEPT ![c] = "recv"]
  /\ UNCHANGED <<serverVars, src, cur, childVars, clientVars, netVars, faults>>

(* send_message_eof() after a pipeline that succeeded. *)
SendReply(c) ==
  /\ spc[c] = "reply"
  /\ \/ /\ Delivered(c, Item(c, "eof"))
        /\ spc' = [spc EXCEPT ![c] = "recv"]
        /\ UNCHANGED src
     \/ /\ Refused(c)
        /\ spc' = [spc EXCEPT ![c] = "close"]
        /\ src' = [src EXCEPT ![c] = "ERR_RDSH_COMMUNICATION"]
  /\ UNCHANGED <<serverVars, cur, childVars, clientVars, cs, inq, faults>>

(* A send() of the server process itself raises SIGPIPE and ends the process. *)
SendKills(c) ==
  /\ spc[c] \in SendStates /\ BrokenPipe(c)
  /\ ProcessEnds({d \in Clients : Active(d)}, backlog)
  /\ UNCHANGED <<src, cur, prog, kmsg, keof, bad, clientVars, faults>>

(* Mutant: the accept loop ignores the return code. *)
CloseSessionAlways(c) ==
  /\ spc[c] = "close"
  /\ HangUp({c}, {}, backlog, TRUE)
  /\ spc' = [spc EXCEPT ![c] = "closed"]
  /\ main' = IF Threaded THEN main ELSE "accept"
  /\ UNCHANGED <<src, cur, prog, kmsg, keof, bad, clientVars, ss, outq, faults>>

(* close(cli_socket); the single-threaded loop then accepts again or, after *)
(* OK_EXIT, stops the server; a threaded server ignores the return code.    *)
CloseSession(c) ==
  /\ spc[c] = "close"
  /\ IF Threaded \/ src[c] # "OK_EXIT"
     THEN /\ HangUp({c}, {}, backlog, TRUE)
          /\ spc' = [spc EXCEPT ![c] = "closed"]
          /\ main' = IF Threaded THEN main ELSE "accept"
     ELSE ProcessEnds({c}, backlog)
  /\ UNCHANGED <<src, cur, prog, kmsg, keof, bad, clientVars, ss, outq, faults>>

-----------------------------------------------------------------------------
(***************************************************************************)
(* The children of rsh_execute_pipeline().                                 *)
(***************************************************************************)
(* The last child of c gives up the descriptors it inherited. *)
ChildLeaves(c, last) ==
  IF last THEN HangUp({}, {c}, backlog, main # "down")
          ELSE UNCHANGED <<backlog, cs, inq, held>>

(* A program writes its output, if any, and ends.  Killed by SIGPIPE it leaves a *)
(* wait status whose WEXITSTATUS is 0; refused, it may end with either status.   *)
ProgramEnds(c) ==
  /\ prog[c] \in {"ls", "false", "sleep"}
  /\ prog' = [prog EXCEPT ![c] = "none"]
  /\ \/ /\ Delivered(c, Item(c, "out")) \/ UNCHANGED <<ss, outq>>
        /\ bad' = [bad EXCEPT ![c] = @ \/ (prog[c] = "false")]
     \/ Refused(c) /\ \E b \in BOOLEAN : bad' = [bad EXCEPT ![c] = @ \/ b]
     \/ BrokenPipe(c) /\ UNCHANGED bad
  /\ ChildLeaves(c, kmsg[c] = 0 /\ keof[c] = 0)
  /\ UNCHANGED <<main, handlerVars, kmsg, keof, clientVars, faults>>

(* A program that reads the socket takes the bytes meant for the handler. *)
ProgramReads(c) ==
  /\ prog[c] = "cat" /\ inq[c] # <<>>
  /\ inq' = [inq EXCEPT ![c] = Tail(@)]
  /\ Delivered(c, Item(c, "out")) \/ Refused(c)
  /\ UNCHANGED <<serverVars, handlerVars, childVars, clientVars, cs, faults>>

(* It ends when the client is gone. *)
ProgramReadsEnd(c) ==
  /\ prog[c] = "cat"
  /\ ss[c] = "dead" \/ (inq[c] = <<>> /\ ss[c] \in {"fin", "reset"})
  /\ prog' = [prog EXCEPT ![c] = "none"]
  /\ bad' = [bad EXCEPT ![c] = @ \/ (ss[c] = "reset")]
  /\ ss' = [ss EXCEPT ![c] = IF @ = "reset" THEN "dead" ELSE @]
  /\ ChildLeaves(c, kmsg[c] = 0 /\ keof[c] = 0)
  /\ UNCHANGED <<main, handlerVars, kmsg, keof, clientVars, outq, faults>>

(* A child whose execvp() failed sends "command not found" ... *)
ChildSendsMsg(c) ==
  /\ kmsg[c] > 0
  /\ kmsg' = [kmsg EXCEPT ![c] = @ - 1]
  /\ \/ /\ Delivered(c, Item(c, "out"))
        /\ keof' = [keof EXCEPT ![c] = @ + 1]
        /\ UNCHANGED <<backlog, bad, cs, inq, held>>
     \/ /\ \/ Refused(c) /\ bad' = [bad EXCEPT ![c] = TRUE]
           \/ BrokenPipe(c) /\ UNCHANGED bad
        /\ ChildLeaves(c, kmsg[c] = 1 /\ keof[c] = 0 /\ prog[c] = "none")
        /\ UNCHANGED keof
  /\ UNCHANGED <<main, handlerVars, prog, clientVars, faults>>

(* ... and an EOF character of its own, then exits with ERR_EXEC_CMD. *)
ChildSendsEof(c) ==
  /\ keof[c] > 0
  /\ keof' = [keof EXCEPT ![c] = @ - 1]
  /\ \/ (Delivered(c, Item(c, "eof")) \/ Refused(c)) /\ bad' = [bad EXCEPT ![c] = TRUE]
     \/ BrokenPipe(c) /\ UNCHANGED bad
  /\ ChildLeaves(c, keof[c] = 1 /\ kmsg[c] = 0 /\ prog[c] = "none")
  /\ UNCHANGED <<main, handlerVars, prog, kmsg, clientVars, faults>>

-----------------------------------------------------------------------------
Init ==
  /\ main = "boot" /\ backlog = <<>>
  /\ spc = [c \in Clients |-> "none"] /\ src = [c \in Clients |-> "none"]
  /\ cur = [c \in Clients |-> 0]
  /\ prog = [c \in Clients |-> "none"] /\ bad = [c \in Clients |-> FALSE]
  /\ kmsg = [c \in Clients |-> 0] /\ keof = [c \in Clients |-> 0]
  /\ held = [c \in Clients |-> {}]
  /\ cpc = [c \in Clients |-> "start"] /\ crc = [c \in Clients |-> "none"]
  /\ nsent = [c \in Clients |-> 0] /\ got = [c \in Clients |-> 0]
  /\ cs = [c \in Clients |-> "none"] /\ ss = [c \in Clients |-> "none"]
  /\ inq = [c \in Clients |-> <<>>] /\ outq = [c \in Clients |-> <<>>]
  /\ faults = 0

(* Steps the user decides on. *)
UserStep(c) ==
  \/ Connect(c) \/ ConnectRefused(c) \/ UserEnds(c) \/ Interrupt(c)
  \/ \E l \in Lines : SendLine(c, l)

(* Steps of the client program, of the handler and of the children of c. *)
ClientStep(c) == RecvAnswer(c) \/ RecvEnd(c)
HandlerStep(c) ==
  \/ RecvLine(c) \/ RecvNothing(c) \/ PipelineDone(c)
  \/ SendMsg(c) \/ SendMsgEof(c) \/ SendReply(c) \/ SendKills(c) \/ CloseSession(c)
ChildStep(c) ==
  \/ ProgramEnds(c) \/ ProgramReads(c) \/ ProgramReadsEnd(c)
  \/ ChildSendsMsg(c) \/ ChildSendsEof(c)
ServerStep == Boot \/ Accept \/ AcceptFails \/ ThreadFails

Next ==
  \/ ServerStep
  \/ \E c \in Clients : UserStep(c) \/ ClientStep(c) \/ HandlerStep(c) \/ ChildStep(c)

Spec == Init /\ [][Next]_vars

(* The scheduler runs every ready thread and process; nobody makes the user *)
(* type, connect or leave, no system call has to fail, and "sleep" need not *)
(* end: waitpid() has no time limit (rsh_server.c:583).                     *)
Fairness ==
  /\ WF_vars(Boot) /\ WF_vars(Accept)
  /\ \A c \in Clients :
       /\ WF_vars(ClientStep(c)) /\ WF_vars(HandlerStep(c))
       /\ WF_vars(prog[c] # "sleep" /\ ChildStep(c))

FairSpec == Spec /\ Fairness
-----------------------------------------------------------------------------
(***************************************************************************)
(* Properties.                                                             *)
(***************************************************************************)
(* The variables keep their types: exactly one typing invariant for the module. *)
TypeOK ==
  /\ main \in {"boot", "accept", "serve", "down"}
  /\ backlog \in Seq(Clients)
  /\ spc \in [Clients -> HandlerStates] /\ src \in [Clients -> ReturnCodes]
  /\ cur \in [Clients -> Nat]
  /\ prog \in [Clients -> KnownLines \cup {"none"}]
  /\ kmsg \in [Clients -> Nat] /\ keof \in [Clients -> Nat]
  /\ bad \in [Clients -> BOOLEAN]
  /\ held \in [Clients -> SUBSET Clients]
  /\ cpc \in [Clients -> {"start", "prompt", "wait", "done"}]
  /\ crc \in [Clients -> {"none", "OK", "ERR_RDSH_CLIENT", "ERR_RDSH_COMMUNICATION",
                          "killed"}]
  /\ nsent \in [Clients -> Nat] /\ got \in [Clients -> Nat]
  /\ cs \in [Clients -> EndStates] /\ ss \in [Clients -> EndStates]
  /\ inq \in [Clients -> Seq(Request)]
  /\ outq \in [Clients -> Seq(Response)]
  /\ faults \in Nat

(* Request and response stay in step: at the prompt nothing of an earlier answer *)
(* is still on its way, and all a waiting client can read answers the line it    *)
(* sent last.  This is what makes "the last byte is EOF" (rsh_cli.c:142) a sound *)
(* end-of-answer test.                                                           *)
InStep ==
  \A c \in Clients :
    /\ cpc[c] = "prompt" => outq[c] = <<>>
    /\ cpc[c] = "wait" => \A i \in 1..Len(outq[c]) : outq[c][i].id = nsent[c]

(* Why, when every command can be executed and no line is cut (Paired): the line,  *)
(* the handler's work, the output and the EOF of one exchange follow each other,  *)
(* and the EOF comes last.  Inductive, together with TypeOK.                      *)
Paired == Lines \cap {"nosuch", "nosuch2", "nosuchls"} = {} /\ Splits = {}
Resting(c) == Idle(c) /\ inq[c] = <<>> /\ spc[c] \in {"none", "recv", "close", "closed"}
Conversation(c) ==
  /\ kmsg[c] = 0 /\ keof[c] = 0
  /\ \A i \in 1..Len(inq[c]) : inq[c][i].line \in Lines
  /\ cpc[c] = "start" => Resting(c) /\ outq[c] = <<>> /\ spc[c] = "none"
  /\ cpc[c] = "prompt" => Resting(c) /\ outq[c] = <<>>
  /\ cpc[c] \in {"prompt", "wait"} => ss[c] = "est"
  /\ cpc[c] = "wait" =>
       /\ \A i \in 1..Len(outq[c]) :
            /\ outq[c][i].id = nsent[c]
            /\ outq[c][i].kind = "eof" => i = Len(outq[c]) /\ Resting(c)
       /\ inq[c] # <<>> =>
            /\ Idle(c) /\ outq[c] = <<>> /\ Len(inq[c]) = 1 /\ inq[c][1].id = nsent[c]
            /\ spc[c] \in {"none", "recv", "close", "closed"}
       /\ Resting(c) \/ inq[c] # <<>> \/ cur[c] = nsent[c]
       /\ spc[c] \in SendStates => Idle(c)
QueueInv ==
  /\ \A i \in 1..Len(backlog) : cpc[backlog[i]] # "start" /\ spc[backlog[i]] = "none"
  /\ \A i, j \in 1..Len(backlog) : backlog[i] = backlog[j] => i = j
StepInv == QueueInv /\ \A c \in Clients : Conversation(c)

(* A client waits in recv() only when something can still wake it: bytes it has  *)
(* not read, a handler with work for it, bytes for the accept queue or a running *)
(* program to take, children still at work, or a closed connection.  A handler   *)
(* back in recv() with nothing to read while its client waits for an answer      *)
(* would leave both waiting for ever (rsh_cli.c:128-144).  Only the client's own *)
(* program may hold it up for good: one that reads the socket, like cat, or that *)
(* never ends.                                                                   *)
WaitIsAnswered ==
  \A c \in Clients : cpc[c] = "wait" =>
    \/ outq[c] # <<>> \/ (inq[c] # <<>> /\ spc[c] # "closed") \/ cs[c] # "est"
    \/ spc[c] \in SendStates \cup {"close"} \/ (spc[c] = "exec" /\ Idle(c))
    \/ \E d \in Clients : c \in held[d] /\ (prog[d] \in {"cat", "sleep"} => d = c)

(* A session whose client has gone ends, so that the next client can be served:  *)
(* the handler notices (exec_client_requests, rsh_server.c:343-353), and so do   *)
(* children that read the socket or send to it.  The one exception is a program  *)
(* that never ends: the handler waits for it without a time limit                *)
(* (rsh_server.c:583) and cannot look at the connection.                         *)
SessionEnds ==
  \A c \in Clients : (cpc[c] = "done" /\ Active(c)) ~> (~Active(c) \/ prog[c] = "sleep")

(* Three things take the server down: the failure, at that moment, of a call of  *)
(* boot_server() or of the accept loop; without -x the end of a session that     *)
(* received stop-server (rsh_server.c:84-88); and SIGPIPE, when an answer is     *)
(* sent to a client killed while it waited.  A failing fork(), a client that     *)
(* leaves at its prompt and a closed connection never do.  This is for commands  *)
(* that are found: the client of one that is not is back at its prompt with an   *)
(* EOF still to come, and takes the server down, too, when it leaves.            *)
SigPipe(c) == spc[c] \in SendStates /\ ss[c] = "dead"
ServerStaysUp ==
  [][main # "down" /\ main' = "down" =>
       \/ faults' > faults /\ main \in {"boot", "accept"}
       \/ ~Threaded /\ \E c \in Clients : spc[c] = "close" /\ src[c] = "OK_EXIT"
       \/ \E c \in Clients : SigPipe(c) /\ crc[c] = "killed"]_vars

(* Once the session that received stop-server is over, the server is down        *)
(* (process_cli_requests, rsh_server.c:272-278).                                 *)
StopStops ==
  \A c \in Clients : spc[c] = "closed" /\ src[c] = "OK_EXIT" => main = "down"

(* Seen from the clients the remote shell is a request/answer service, and every *)
(* request ends in its own answer or in the end of the session.                  *)
Phase == [start |-> "out", prompt |-> "ready", wait |-> "busy", done |-> "gone"]
Service == INSTANCE RemoteShell WITH
             phase <- [c \in Clients |-> Phase[cpc[c]]], asked <- nsent, answered <- got
ImplementsService == Service!FairSpec
=============================================================================
