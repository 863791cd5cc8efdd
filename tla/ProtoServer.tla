----------------------------- MODULE ProtoServer -----------------------------
(***************************************************************************)
(* The client and server programs of demos/sockets, one request and one    *)
(* answer per connection:                                                  *)
(*   "echo"    server-echo.c and client-echo.c, plain text                 *)
(*   "proto"   server-proto.c and client-proto.c, a header with a length   *)
(*   "thread"  server-proto-thread.c and client-proto.c: a thread for each *)
(*             connection, which is given the address of the variable the  *)
(*             accept loop keeps its socket in                             *)
(* Of a message only the client it comes from, or whose request it         *)
(* answers, is of interest; 0 stands for a message that came from nobody.  *)
(*                                                                         *)
(* A descriptor is a number, and accept() takes the lowest free one; the   *)
(* connection of client c is called c.  A thread that waits in recv() has  *)
(* hold of the connection whatever happens to the number meanwhile.        *)
(***************************************************************************)
EXTENDS Integers, FiniteSets, Sequences

CONSTANTS
  Clients,     \* 1..n: each connects once
  Kinds,       \* the programs that are run
  MaxFaults    \* bound: calls that fail

ASSUME ClientsAssumption == IsFiniteSet(Clients) /\ 1 \in Clients /\ Clients \subseteq Nat \ {0}
ASSUME KindsAssumption == Kinds \subseteq {"echo", "proto", "thread"}
ASSUME FaultsAssumption == MaxFaults \in Nat

VARIABLES
  kind,         \* the program; stays as it is
  server,       \* "starts", "up", "exited", "killed"
  data_socket,  \* the accept loop's variable
  fd,           \* fd[f]: the connection with the number f in the server, 0 for none
  pc,           \* pc[h]: where handler h is; a single-threaded server has handler 1
  sock,         \* sock[h]: its descriptor
  on,           \* on[h]: the connection it waits on in recv()
  req,          \* req[h]: whose request it has received
  client,       \* client[c]: "idle", "connected", "waiting", "done", "failed", "gone"
  accepted,     \* the connections accept() has returned
  inbox,        \* inbox[c]: what the server has not read: "none", "request", "rest"
  answers,      \* answers[c]: what has been sent to the client
  raced,        \* data_socket was overwritten before a thread had read it
  faults        \* failed calls so far

vars == <<kind, server, data_socket, fd, pc, sock, on, req, client, accepted, inbox, answers, raced, faults>>
handlers == <<pc, sock, on, req>>
network == <<client, accepted, inbox, answers>>

Fds == Clients
Active(h) == pc[h] \notin {"none", "done"}
Held(c) == (\E f \in Fds : fd[f] = c) \/ \E h \in Clients : pc[h] = "recv" /\ on[h] = c
Closed(c) == server \in {"exited", "killed"} \/ (c \in accepted /\ ~Held(c))
Present(c) == client[c] \in {"connected", "waiting"}

-----------------------------------------------------------------------------
(***************************************************************************)
(* The servers.                                                            *)
(***************************************************************************)
Fault == faults < MaxFaults /\ faults' = faults + 1
Goes(h, step) == pc' = [pc EXCEPT ![h] = step] /\ UNCHANGED kind

(* socket(), bind() and listen(), of which each may fail. *)
Boots ==
  /\ server = "starts"
  /\ \/ server' = "up" /\ UNCHANGED faults
     \/ server' = "exited" /\ Fault
  /\ UNCHANGED <<kind, data_socket, fd, raced>> /\ UNCHANGED handlers /\ UNCHANGED network

(* accept() of a connection, which gets the number f. *)
Accepts(f) ==
  /\ server = "up"
  /\ fd[f] = 0 /\ \A g \in Fds : g < f => fd[g] # 0
  /\ \E c \in Clients :
       /\ Present(c) \/ client[c] = "gone"
       /\ c \notin accepted /\ accepted' = accepted \cup {c}
       /\ fd' = [fd EXCEPT ![f] = c]
  /\ data_socket' = f
  /\ UNCHANGED <<kind, server, client, inbox, answers>>

(* The single-threaded loop takes the next connection after it has closed the last. *)
Accept(f) ==
  /\ kind # "thread" /\ ~Active(1) /\ Accepts(f)
  /\ pc' = [pc EXCEPT ![1] = "call"] /\ sock' = [sock EXCEPT ![1] = f]
  /\ UNCHANGED <<on, req, raced, faults>>

(* A new thread, or none: the error pthread_create() returns is positive, where the *)
(* loop looks for a negative one.                                                   *)
AcceptThread(f) ==
  /\ kind = "thread" /\ Accepts(f)
  /\ raced' = (raced \/ \E h \in Clients : pc[h] = "read")
  /\ \/ /\ \E h \in Clients :
             /\ pc[h] = "none" /\ \A g \in Clients : g < h => pc[g] # "none"
             /\ pc' = [pc EXCEPT ![h] = "read"]
        /\ UNCHANGED faults
     \/ Fault /\ UNCHANGED pc
  /\ UNCHANGED <<sock, on, req>>

AcceptFails ==
  /\ server = "up" /\ (kind = "thread" \/ ~Active(1)) /\ Fault
  /\ server' = "exited"
  /\ UNCHANGED <<kind, data_socket, fd, raced>> /\ UNCHANGED handlers /\ UNCHANGED network

(* The thread reads what data_socket is by now. *)
ReadSocket(h) ==
  /\ server = "up" /\ pc[h] = "read"
  /\ sock' = [sock EXCEPT ![h] = data_socket]
  /\ Goes(h, "call")
  /\ UNCHANGED <<server, data_socket, fd, on, req, raced, faults>> /\ UNCHANGED network

(* recv() is called; with a number that is not open it fails, and exit() ends all threads. *)
CallRecv(h) ==
  /\ server = "up" /\ pc[h] = "call"
  /\ \/ /\ fd[sock[h]] # 0
        /\ on' = [on EXCEPT ![h] = fd[sock[h]]]
        /\ Goes(h, "recv") /\ UNCHANGED server
     \/ /\ fd[sock[h]] = 0
        /\ server' = "exited"
        /\ UNCHANGED <<kind, pc, on>>
  /\ UNCHANGED <<data_socket, fd, sock, req, raced, faults>> /\ UNCHANGED network

(* Mutant: the threads share the buffer they receive into. *)
ReceivesShared(h) ==
  LET c == on[h] IN
  /\ server = "up" /\ pc[h] = "recv"
  /\ inbox[c] # "none" /\ inbox' = [inbox EXCEPT ![c] = "none"]
  /\ req' = [g \in Clients |-> c]
  /\ Goes(h, "send")
  /\ UNCHANGED <<server, data_socket, fd, sock, on, client, accepted, answers, raced, faults>>

(* Mutant: recv() waits until its buffer is full or the connection ends. *)
ReceivesAll(h) ==
  LET c == on[h] IN
  /\ server = "up" /\ pc[h] = "recv" /\ client[c] \in {"done", "failed", "gone"}
  /\ inbox' = [inbox EXCEPT ![c] = "none"]
  /\ req' = [req EXCEPT ![h] = c]
  /\ Goes(h, "send")
  /\ UNCHANGED <<server, data_socket, fd, sock, on, client, accepted, answers, raced, faults>>

(* It returns the request or, if TCP has cut it, its beginning; or nothing, when the *)
(* client has gone.  The simulated work follows.                                     *)
Receives(h) ==
  LET c == on[h] IN
  /\ server = "up" /\ pc[h] = "recv"
  /\ \/ /\ inbox[c] # "none"
        /\ \E rest \in {r \in {"none", "rest"} : inbox[c] = "request" \/ r = "none"} :
             /\ inbox' = [inbox EXCEPT ![c] = rest]
             /\ req' = [req EXCEPT ![h] = c]
     \/ /\ inbox[c] = "none" /\ client[c] \in {"done", "failed", "gone"}
        /\ req' = [req EXCEPT ![h] = 0] /\ UNCHANGED inbox
  /\ Goes(h, "send")
  /\ UNCHANGED <<server, data_socket, fd, sock, on, client, accepted, answers, raced, faults>>

(* recv() fails, the connection having been reset: the whole server ends. *)
RecvFails(h) ==
  /\ server = "up" /\ pc[h] = "recv" /\ Fault
  /\ server' = "exited"
  /\ UNCHANGED <<kind, data_socket, fd, raced>> /\ UNCHANGED handlers /\ UNCHANGED network

(* Mutant: header and text are sent by a send() each. *)
SendsApart(h) ==
  LET c == fd[sock[h]] IN
  /\ server = "up" /\ pc[h] = "send" /\ c # 0
  /\ IF Present(c) \/ client[c] = "done"
     THEN /\ answers' = [answers EXCEPT ![c] = @ \o <<req[h]>>]
          /\ Goes(h, "close") /\ UNCHANGED server
     ELSE server' = "killed" /\ UNCHANGED <<kind, pc, answers>>
  /\ UNCHANGED <<data_socket, fd, sock, on, req, client, accepted, inbox, raced, faults>>

(* send() by number: to whoever has it now.  Nobody looks at the result, but an answer *)
(* to a client that has gone and has refused one already raises SIGPIPE.               *)
Sends(h) ==
  LET c == fd[sock[h]] IN
  /\ server = "up" /\ pc[h] = "send"
  /\ \/ /\ IF c = 0 THEN TRUE ELSE Present(c) \/ Len(answers[c]) < 2
        /\ answers' = IF c = 0 THEN answers ELSE [answers EXCEPT ![c] = Append(@, req[h])]
        /\ Goes(h, "close") /\ UNCHANGED server
     \/ /\ IF c = 0 THEN FALSE ELSE ~Present(c) /\ answers[c] # <<>>
        /\ server' = "killed"
        /\ UNCHANGED <<kind, pc, answers>>
  /\ UNCHANGED <<data_socket, fd, sock, on, req, client, accepted, inbox, raced, faults>>

(* Mutant: close() is missing. *)
ClosesNot(h) ==
  /\ server = "up" /\ pc[h] = "close"
  /\ Goes(h, "done")
  /\ UNCHANGED <<server, data_socket, fd, sock, on, req, raced, faults>> /\ UNCHANGED network

Closes(h) ==
  /\ server = "up" /\ pc[h] = "close"
  /\ fd' = [fd EXCEPT ![sock[h]] = 0]
  /\ Goes(h, "done")
  /\ UNCHANGED <<server, data_socket, sock, on, req, raced, faults>> /\ UNCHANGED network

HandlerStep(h) == CallRecv(h) \/ Receives(h) \/ Sends(h) \/ Closes(h)

EchoServer == kind = "echo" /\ (Boots \/ (\E f \in Fds : Accept(f)) \/ HandlerStep(1))
ProtoLoop == kind = "proto" /\ (Boots \/ (\E f \in Fds : Accept(f)) \/ HandlerStep(1))
ThreadLoop == kind = "thread" /\ (Boots \/ \E f \in Fds : AcceptThread(f))
Thread(h) == kind = "thread" /\ (ReadSocket(h) \/ HandlerStep(h))

-----------------------------------------------------------------------------
(***************************************************************************)
(* The clients.                                                            *)
(***************************************************************************)
Becomes(c, state) ==
  /\ client' = [client EXCEPT ![c] = state]
  /\ UNCHANGED <<kind, server, data_socket, fd, raced, accepted, answers, faults>> /\ UNCHANGED handlers

(* connect(), refused when nobody listens. *)
Connect(c) ==
  /\ client[c] = "idle" /\ server # "starts"
  /\ Becomes(c, IF server = "up" THEN "connected" ELSE "failed")
  /\ UNCHANGED inbox

SendRequest(c) ==
  /\ client[c] = "connected"
  /\ inbox' = [inbox EXCEPT ![c] = "request"]
  /\ Becomes(c, "waiting")

(* One recv(): the answer; the end of the connection; or an error, when it was closed *)
(* with something of the request unread.                                              *)
RecvAnswer(c) ==
  /\ client[c] = "waiting"
  /\ \/ answers[c] # <<>> /\ Becomes(c, "done")
     \/ Closed(c) /\ answers[c] = <<>> /\ Becomes(c, "done")
     \/ Closed(c) /\ inbox[c] # "none" /\ Becomes(c, "failed")
  /\ UNCHANGED inbox

EchoClient(c) == kind = "echo" /\ (Connect(c) \/ SendRequest(c) \/ RecvAnswer(c))
ProtoClient(c) == kind # "echo" /\ (Connect(c) \/ SendRequest(c) \/ RecvAnswer(c))

(* The client process is killed. *)
Killed(c) ==
  /\ Present(c) /\ Becomes(c, "gone") /\ UNCHANGED inbox

-----------------------------------------------------------------------------
Init ==
  /\ kind \in Kinds /\ server = "starts" /\ data_socket = 0
  /\ fd = [f \in Fds |-> 0]
  /\ pc = [h \in Clients |-> "none"] /\ sock = [h \in Clients |-> 0] /\ on = [h \in Clients |-> 0]
  /\ req = [h \in Clients |-> 0]
  /\ client = [c \in Clients |-> "idle"] /\ accepted = {}
  /\ inbox = [c \in Clients |-> "none"] /\ answers = [c \in Clients |-> <<>>]
  /\ raced = FALSE /\ faults = 0

ServerStep == EchoServer \/ ProtoLoop \/ ThreadLoop
ClientStep(c) == EchoClient(c) \/ ProtoClient(c)

Next ==
  \/ ServerStep \/ AcceptFails
  \/ \E i \in Clients : Thread(i) \/ RecvFails(i) \/ ClientStep(i) \/ Killed(i)

Spec == Init /\ [][Next]_vars

(* The processes and threads that can go on are scheduled. *)
FairSpec ==
  Spec /\ WF_vars(ServerStep) /\ \A i \in Clients : WF_vars(Thread(i)) /\ WF_vars(ClientStep(i))

-----------------------------------------------------------------------------
(* As long as no thread has read another connection's number, every client is sent   *)
(* one answer at most, and that to its own request (server-proto-thread.c:59-60).    *)
OwnAnswer ==
  ~raced => \A c \in Clients : /\ Len(answers[c]) <= 1
                               /\ \A i \in DOMAIN answers[c] :
                                    answers[c][i] = c \/ (answers[c][i] = 0 /\ ~Present(c))

(* The same holds of descriptors: each is some handler's and no two handlers have     *)
(* the same one, so that none stays open and none is closed twice.                    *)
OneHandlerEach ==
  ~raced /\ faults = 0 /\ server = "up" =>
    \A f \in Fds :
      LET its == {h \in Clients : Active(h) /\ (IF pc[h] = "read" THEN data_socket ELSE sock[h]) = f}
      IN Cardinality(its) = IF fd[f] = 0 THEN 0 ELSE 1

(* Only that race, or a call that fails, takes the server down.                       *)
StaysUp == ~raced /\ faults = 0 => server \in {"starts", "up"}

(* Its connection has been accepted and no thread created for it.                    *)
NoThread(c) ==
  /\ kind = "thread" /\ faults > 0
  /\ \E f \in Fds :
       fd[f] = c /\ \A h \in Clients : Active(h) => (IF pc[h] = "read" THEN data_socket ELSE sock[h]) # f

(* A client that waits gets something to read, or the end of the connection, whatever *)
(* calls fail: only that race, or its own pthread_create(), can keep it waiting        *)
(* (server-proto-thread.c:113).                                                        *)
Answered == \A c \in Clients : client[c] = "waiting" ~> (client[c] # "waiting" \/ raced \/ NoThread(c))
=============================================================================
