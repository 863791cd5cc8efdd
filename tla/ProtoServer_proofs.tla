------------------------- MODULE ProtoServer_proofs -------------------------
(***************************************************************************)
(* Theorems about ProtoServer, for every number of clients and of calls    *)
(* that fail: as long as no thread has missed its own socket, descriptors, *)
(* handlers and connections belong together one to one.                    *)
(***************************************************************************)
EXTENDS ProtoServer, FiniteSetTheorems, TLAPS

Numbers == Clients \cup {0}
Places == {"none", "read", "call", "recv", "send", "close", "done"}
States == {"idle", "connected", "waiting", "done", "failed", "gone"}

Typed ==
  /\ fd \in [Clients -> Numbers] /\ sock \in [Clients -> Numbers]
  /\ on \in [Clients -> Numbers] /\ req \in [Clients -> Numbers]
  /\ pc \in [Clients -> Places] /\ client \in [Clients -> States]
  /\ answers \in [Clients -> Seq(Numbers)]
  /\ data_socket \in Numbers /\ faults \in Nat
  /\ \A h \in Clients :
       /\ pc[h] \in {"call", "recv", "send", "close"} => sock[h] \in Clients
       /\ pc[h] = "read" => data_socket \in Clients

(* The number handler h has, or is going to read. *)
Its(h) == IF pc[h] = "read" THEN data_socket ELSE sock[h]
Left(c) == client[c] \in {"done", "failed", "gone"}

(* A handler at work has an open number, and one of its own. *)
OwnNumbers ==
  /\ \A h \in Clients : Active(h) => fd[Its(h)] # 0
  /\ \A g, h \in Clients : Active(g) /\ Active(h) /\ Its(g) = Its(h) => g = h
  /\ kind # "thread" => \A h \in Clients : h # 1 => pc[h] = "none"
  /\ faults = 0 => \A f \in Fds : fd[f] # 0 => \E h \in Clients : Active(h) /\ Its(h) = f

(* An open number stands for an accepted connection, no two for the same. *)
OwnConnections ==
  /\ \A f \in Fds : fd[f] # 0 => fd[f] \in accepted
  /\ \A f, g \in Fds : fd[f] # 0 /\ fd[f] = fd[g] => f = g

(* What a handler has in hand is its connection's, and what was sent is the client's own. *)
Hands(h) ==
  /\ pc[h] = "recv" => on[h] = fd[sock[h]]
  /\ pc[h] = "send" => req[h] = fd[sock[h]] \/ (req[h] = 0 /\ Left(fd[sock[h]]))
  /\ pc[h] \in {"read", "call", "recv", "send"} => answers[fd[Its(h)]] = <<>>
Sent(c) ==
  /\ c \notin accepted => answers[c] = <<>>
  /\ answers[c] \in {<<>>, <<c>>} \/ (answers[c] = <<0>> /\ Left(c))
OwnMessages == \A c \in Clients : Hands(c) /\ Sent(c)

Owned == ~raced => OwnNumbers /\ OwnConnections /\ OwnMessages

-----------------------------------------------------------------------------
LEMMA Zero == 0 \notin Clients /\ 1 \in Clients /\ Clients \subseteq Int
BY ClientsAssumption

(* A handler's own step that leaves the descriptors alone. *)
LEMMA TypedHandler ==
  ASSUME Typed, NEW h \in Clients, NEW step \in Places, Goes(h, step), step # "read",
         step \in {"call", "recv", "send", "close"} => sock'[h] \in Clients,
         sock' \in [Clients -> Numbers], \A g \in Clients : g # h => sock'[g] = sock[g],
         fd' \in [Clients -> Numbers], on' \in [Clients -> Numbers], req' \in [Clients -> Numbers],
         answers' \in [Clients -> Seq(Numbers)],
         UNCHANGED <<data_socket, client, faults>>
  PROVE  Typed'
<1>1. pc' \in [Clients -> Places] /\ pc'[h] = step /\ \A g \in Clients : g # h => pc'[g] = pc[g]
  BY DEF Goes, Typed
<1> QED BY <1>1 DEF Typed

LEMMA TypedAccept ==
  ASSUME Typed, NEW f \in Clients, Accept(f) \/ AcceptThread(f)
  PROVE  Typed'
<1>1. fd' \in [Clients -> Numbers] /\ data_socket' = f /\ UNCHANGED <<on, req, client, answers>>
  <2>1. Accepts(f) /\ UNCHANGED <<on, req>>
    BY DEF Accept, AcceptThread
  <2>2. fd' \in [Clients -> Numbers]
    <3>1. PICK c \in Clients : fd' = [fd EXCEPT ![f] = c]
      BY <2>1 DEF Accepts
    <3> QED BY <3>1 DEF Typed, Numbers
  <2> QED BY <2>1, <2>2 DEF Accepts
<1>2. CASE Accept(f)
  <2>1. pc' \in [Clients -> Places] /\ sock' \in [Clients -> Numbers]
    BY <1>2, Zero DEF Accept, Typed, Places, Numbers
  <2>2. \A h \in Clients : /\ pc'[h] = "read" => pc[h] = "read"
                           /\ h # 1 => pc'[h] = pc[h] /\ sock'[h] = sock[h]
                           /\ h = 1 => sock'[h] = f
    BY <1>2, Zero DEF Accept, Typed
  <2> QED BY <1>1, <1>2, <2>1, <2>2 DEF Accept, Typed, Numbers
<1>3. CASE AcceptThread(f)
  <2>1. pc' \in [Clients -> Places] /\ \A h \in Clients : pc'[h] = pc[h] \/ pc'[h] = "read"
    BY <1>3 DEF AcceptThread, Typed, Places
  <2>2. sock' = sock /\ faults' \in Nat
    BY <1>3 DEF AcceptThread, Fault, Typed
  <2> QED BY <1>1, <2>1, <2>2 DEF Typed, Numbers
<1> QED BY <1>2, <1>3

LEMMA TypedStep == Typed /\ [Next]_vars => Typed'
<1> SUFFICES ASSUME Typed, [Next]_vars PROVE Typed'
  OBVIOUS
<1>1. ASSUME UNCHANGED handlers, UNCHANGED network, UNCHANGED <<data_socket, fd>>, faults' \in Nat
      PROVE  Typed'
  BY <1>1 DEF Typed, handlers, network
<1>2. CASE Boots \/ AcceptFails \/ \E h \in Clients : RecvFails(h)
  BY <1>1, <1>2 DEF Boots, AcceptFails, RecvFails, Fault, Typed
<1>3. ASSUME NEW h \in Clients, ReadSocket(h) PROVE Typed'
  <2>1. "call" \in Places /\ data_socket \in Clients
    BY <1>3 DEF ReadSocket, Typed, Places
  <2>2. sock' \in [Clients -> Numbers] /\ sock'[h] = data_socket
        /\ \A g \in Clients : g # h => sock'[g] = sock[g]
    BY <1>3, <2>1 DEF ReadSocket, Typed, Numbers
  <2>3. /\ Goes(h, "call") /\ UNCHANGED <<data_socket, client, faults>>
        /\ fd' \in [Clients -> Numbers] /\ on' \in [Clients -> Numbers]
        /\ req' \in [Clients -> Numbers] /\ answers' \in [Clients -> Seq(Numbers)]
    BY <1>3 DEF ReadSocket, network, Typed
  <2> QED BY <2>1, <2>2, <2>3, TypedHandler
<1>4. ASSUME NEW h \in Clients, HandlerStep(h) PROVE Typed'
  <2>1. {"recv", "send", "close", "done"} \subseteq Places
    BY DEF Places
  <2>2. CASE CallRecv(h)
    <3>1. CASE server' = "exited"
      BY <2>2, <3>1, <1>1 DEF CallRecv, handlers, network, Typed
    <3>2. CASE server' # "exited"
      <4>1. sock[h] \in Clients /\ on' = [on EXCEPT ![h] = fd[sock[h]]]
        BY <2>2, <3>2 DEF CallRecv, Typed
      <4>2. on' \in [Clients -> Numbers]
        BY <4>1 DEF Typed
      <4> QED BY <2>1, <2>2, <3>2, <4>1, <4>2, TypedHandler DEF CallRecv, network, Typed
    <3> QED BY <3>1, <3>2
  <2>3. CASE Receives(h)
    <3>1. req' \in [Clients -> Numbers]
      BY <2>3, Zero DEF Receives, Typed, Numbers
    <3> QED BY <2>1, <2>3, <3>1, TypedHandler DEF Receives, Typed
  <2>4. CASE Sends(h)
    <3>1. CASE server' = "killed"
      BY <2>4, <3>1 DEF Sends, Typed
    <3>2. CASE server' # "killed"
      <4>1. answers' \in [Clients -> Seq(Numbers)]
        <5>1. req[h] \in Numbers /\ \A c \in Clients : Append(answers[c], req[h]) \in Seq(Numbers)
          BY DEF Typed
        <5>2. PICK c : answers' = IF c = 0 THEN answers ELSE [answers EXCEPT ![c] = Append(answers[c], req[h])]
          BY <2>4, <3>2 DEF Sends
        <5> QED BY <5>1, <5>2 DEF Typed
      <4> QED BY <2>1, <2>4, <3>2, <4>1, TypedHandler DEF Sends, Typed
    <3> QED BY <3>1, <3>2
  <2>5. CASE Closes(h)
    <3>1. fd' \in [Clients -> Numbers]
      BY <2>5 DEF Closes, Typed, Numbers
    <3> QED BY <2>1, <2>5, <3>1, TypedHandler DEF Closes, network, Typed
  <2> QED BY <1>4, <2>2, <2>3, <2>4, <2>5 DEF HandlerStep
<1>5. ASSUME NEW c \in Clients, ClientStep(c) \/ Killed(c) PROVE Typed'
  <2>1. ASSUME NEW state \in States, Becomes(c, state) PROVE Typed'
    <3>1. client' \in [Clients -> States]
      BY <2>1 DEF Becomes, Typed
    <3> QED BY <2>1, <3>1 DEF Becomes, handlers, Typed
  <2> QED BY <1>5, <2>1 DEF ClientStep, EchoClient, ProtoClient, Connect, SendRequest, RecvAnswer, Killed, States
<1>6. CASE ServerStep
  BY <1>2, <1>4, <1>6, TypedAccept, Zero DEF ServerStep, EchoServer, ProtoLoop, ThreadLoop, Fds
<1>7. CASE UNCHANGED vars
  BY <1>7 DEF vars, Typed
<1> QED BY <1>2, <1>3, <1>4, <1>5, <1>6, <1>7 DEF Next, Thread

-----------------------------------------------------------------------------
Owns == OwnNumbers /\ OwnConnections /\ OwnMessages

(* A handler at work has an open number, which stands for a connection. *)
LEMMA AtWork ==
  ASSUME Typed, Owns, NEW h \in Clients, Active(h)
  PROVE  Its(h) \in Clients /\ fd[Its(h)] \in Clients /\ fd[Its(h)] # 0 /\ fd[Its(h)] \in accepted
<1>1. pc[h] \in {"read", "call", "recv", "send", "close"}
  BY DEF Active, Typed, Places
<1>2. Its(h) \in Clients
  BY <1>1 DEF Its, Typed
<1> QED BY <1>2 DEF Owns, OwnNumbers, OwnConnections, Fds, Typed, Numbers

(* Descriptors, handlers and answers stay; a client that has left stays away. *)
LEMMA Stays ==
  ASSUME Typed, Owns, UNCHANGED handlers, UNCHANGED <<kind, data_socket, fd, accepted, answers>>,
         faults' = 0 => faults = 0, \A c \in Clients : Left(c) => Left(c)'
  PROVE  Owns'
<1>1. \A h \in Clients : Its(h)' = Its(h) /\ (Active(h)' <=> Active(h))
  BY DEF handlers, Its, Active
<1>2. OwnNumbers' /\ OwnConnections'
  BY <1>1 DEF Owns, OwnNumbers, OwnConnections, handlers
<1>3. ASSUME NEW h \in Clients, pc[h] = "send" PROVE fd[sock[h]] \in Clients
  <2>1. Active(h) /\ Its(h) = sock[h]
    BY <1>3 DEF Active, Its
  <2> QED BY <2>1, AtWork
<1>4. OwnMessages'
  BY <1>1, <1>3 DEF Owns, OwnMessages, Hands, Sent, handlers
<1> QED BY <1>2, <1>4 DEF Owns

(* A new connection c under the free number f, with a handler h of its own or none. *)
LEMMA NewConnection ==
  ASSUME Typed, Owns, NEW f \in Clients, NEW c \in Clients, fd[f] = 0, c \notin accepted,
         fd' = [fd EXCEPT ![f] = c], accepted' = accepted \cup {c}, data_socket' = f,
         UNCHANGED <<kind, client, answers, on, req>>
  PROVE  /\ fd'[f] = c /\ c # 0 /\ \A g \in Clients : g # f => fd'[g] = fd[g]
         /\ OwnConnections'
         /\ \A h \in Clients : Active(h) => Its(h) # f /\ fd'[Its(h)] = fd[Its(h)]
         /\ \A d \in Clients : Sent(d)'
         /\ answers'[c] = <<>>
<1>1. fd'[f] = c /\ c # 0 /\ \A g \in Clients : g # f => fd'[g] = fd[g]
  BY Zero DEF Typed
<1>2. \A g \in Clients : fd[g] # 0 => fd[g] \in accepted /\ fd[g] # c
  BY DEF Owns, OwnConnections, Fds
<1>3. OwnConnections'
  BY <1>1, <1>2 DEF Owns, OwnConnections, Fds
<1>4. \A h \in Clients : Active(h) => Its(h) # f /\ fd'[Its(h)] = fd[Its(h)]
  BY <1>1, AtWork
<1>5. \A d \in Clients : Sent(d)'
  BY DEF Owns, OwnMessages, Hands, Sent, Left
<1>6. answers'[c] = <<>>
  BY DEF Owns, OwnMessages, Hands, Sent
<1> QED BY <1>1, <1>3, <1>4, <1>5, <1>6

(* The handlers that go on working keep what they have in hand. *)
LEMMA HandsKept ==
  ASSUME Typed, Owns, UNCHANGED <<on, req, sock, client, answers>>,
         \A g \in Clients : Active(g) => fd'[Its(g)] = fd[Its(g)],
         \A g \in Clients :
           \/ pc'[g] = pc[g] /\ (Active(g) => Its(g)' = Its(g))
           \/ pc'[g] \notin {"recv", "send"} /\ answers'[fd'[Its(g)']] = <<>>,
         \A d \in Clients : Sent(d)'
  PROVE  OwnMessages'
<1>1. ASSUME NEW g \in Clients, pc'[g] = pc[g], Active(g) => Its(g)' = Its(g)
      PROVE  Hands(g)'
  <2>1. CASE ~Active(g)
    BY <1>1, <2>1 DEF Active, Hands
  <2>2. CASE Active(g)
    <3>1. fd'[Its(g)'] = fd[Its(g)] /\ (pc[g] # "read" => Its(g) = sock[g])
      BY <1>1, <2>2 DEF Its
    <3> QED BY <1>1, <2>2, <3>1 DEF Owns, OwnMessages, Hands, Sent, Left
  <2> QED BY <2>1, <2>2
<1> QED BY <1>1 DEF OwnMessages, Hands, Sent

LEMMA OwnsAccept ==
  ASSUME Typed, Owns, NEW f \in Clients, Accept(f)
  PROVE Owns'
<1>1. /\ kind # "thread" /\ 1 \in Clients /\ \A h \in Clients : ~Active(h)
      /\ UNCHANGED <<kind, on, req, faults, client, answers>>
      /\ pc' = [pc EXCEPT ![1] = "call"] /\ sock' = [sock EXCEPT ![1] = f]
  BY Zero DEF Accept, Accepts, Owns, OwnNumbers, Active
<1>2. PICK c \in Clients : fd[f] = 0 /\ c \notin accepted /\ fd' = [fd EXCEPT ![f] = c]
                          /\ accepted' = accepted \cup {c} /\ data_socket' = f
  BY DEF Accept, Accepts
<1>3. /\ fd'[f] = c /\ c # 0 /\ \A g \in Clients : g # f => fd'[g] = fd[g]
      /\ OwnConnections' /\ answers'[c] = <<>>
      /\ \A d \in Clients : Sent(d)'
  BY <1>1, <1>2, NewConnection
<1>4. pc'[1] = "call" /\ sock'[1] = f /\ \A h \in Clients : h # 1 => pc'[h] = pc[h]
  BY <1>1 DEF Typed
<1>5. \A h \in Clients : pc[h] \in {"none", "done"}
  BY <1>1 DEF Active
<1>6. Its(1)' = f /\ Active(1)' /\ \A h \in Clients : h # 1 => ~Active(h)'
  BY <1>4, <1>5 DEF Its, Active
<1>7. faults' = 0 => \A g \in Clients : fd[g] = 0
  BY <1>1 DEF Owns, OwnNumbers, Fds
<1>8. kind' # "thread" => \A h \in Clients : h # 1 => pc'[h] = "none"
  BY <1>1, <1>4 DEF Owns, OwnNumbers
<1>9. OwnNumbers'
  BY <1>1, <1>3, <1>6, <1>7, <1>8 DEF OwnNumbers, Fds
<1>10. OwnMessages'
  <2>1. ASSUME NEW h \in Clients
        PROVE  /\ pc'[h] \notin {"recv", "send"}
               /\ pc'[h] \in {"read", "call"} => h = 1
    BY <1>4, <1>5
  <2> QED BY <1>3, <1>4, <2>1 DEF OwnMessages, Hands, Sent, Its, Left
<1> QED BY <1>3, <1>9, <1>10 DEF Owns

LEMMA OwnsAcceptThread ==
  ASSUME Typed, Owns, NEW f \in Clients, AcceptThread(f), ~raced'
  PROVE Owns'
<1>1. /\ kind = "thread" /\ \A h \in Clients : pc[h] # "read"
      /\ UNCHANGED <<kind, on, req, sock, client, answers>>
  BY DEF AcceptThread, Accepts
<1>2. PICK c \in Clients : fd[f] = 0 /\ c \notin accepted /\ fd' = [fd EXCEPT ![f] = c]
                          /\ accepted' = accepted \cup {c} /\ data_socket' = f
  BY DEF AcceptThread, Accepts
<1>3. /\ fd'[f] = c /\ c # 0 /\ \A g \in Clients : g # f => fd'[g] = fd[g]
      /\ OwnConnections' /\ answers'[c] = <<>>
      /\ \A d \in Clients : Sent(d)'
      /\ \A h \in Clients : Active(h) => Its(h) # f /\ fd'[Its(h)] = fd[Its(h)]
  BY <1>1, <1>2, NewConnection
<1>4. CASE Fault /\ UNCHANGED pc
  <2>1. \A h \in Clients : Its(h)' = Its(h) /\ (Active(h)' <=> Active(h))
    BY <1>1, <1>4 DEF Its, Active
  <2>2. faults' # 0
    BY <1>4 DEF Fault, Typed
  <2>3. OwnNumbers'
    BY <1>1, <1>3, <2>1, <2>2, AtWork DEF Owns, OwnNumbers
  <2>4. OwnMessages'
    BY <1>1, <1>3, <1>4, <2>1, HandsKept
  <2> QED BY <1>3, <2>3, <2>4 DEF Owns
<1>5. CASE UNCHANGED faults /\ \E h \in Clients : pc[h] = "none" /\ pc' = [pc EXCEPT ![h] = "read"]
  <2>1. PICK h \in Clients : pc[h] = "none" /\ pc' = [pc EXCEPT ![h] = "read"]
    BY <1>5
  <2>2. pc'[h] = "read" /\ \A g \in Clients : g # h => pc'[g] = pc[g]
    BY <2>1 DEF Typed
  <2>3. Its(h)' = f /\ Active(h)' /\ \A g \in Clients : g # h => Its(g)' = Its(g) /\ (Active(g)' <=> Active(g))
    BY <1>1, <1>2, <2>2 DEF Its, Active
  <2>4. faults' = 0 => \A g \in Clients : fd'[g] # 0 => \E i \in Clients : Active(i)' /\ Its(i)' = g
    <3>1. SUFFICES ASSUME faults' = 0, NEW g \in Clients, fd'[g] # 0
                   PROVE  \E i \in Clients : Active(i)' /\ Its(i)' = g
      OBVIOUS
    <3>2. CASE g = f
      BY <2>3, <3>2
    <3>3. CASE g # f
      <4>1. PICK i \in Clients : Active(i) /\ Its(i) = g
        BY <1>3, <1>5, <3>1, <3>3 DEF Owns, OwnNumbers, Fds
      <4>2. i # h
        BY <2>1, <4>1 DEF Active
      <4> QED BY <2>3, <4>1, <4>2
    <3> QED BY <3>2, <3>3
  <2>5. OwnNumbers'
    BY <1>1, <1>3, <2>3, <2>4, AtWork DEF Owns, OwnNumbers, Fds
  <2>6. OwnMessages'
    <3>1. pc'[h] \notin {"recv", "send"} /\ answers'[fd'[Its(h)']] = <<>>
      BY <1>3, <2>2, <2>3
    <3> QED BY <1>1, <1>3, <2>2, <2>3, <3>1, HandsKept
  <2> QED BY <1>3, <2>5, <2>6 DEF Owns
<1> QED BY <1>4, <1>5 DEF AcceptThread

(* A handler goes on with the number it has. *)
LEMMA WorksOn ==
  ASSUME Typed, Owns, NEW h \in Clients, Active(h),
         NEW step \in {"call", "recv", "send", "close"}, Goes(h, step),
         sock'[h] = Its(h), \A g \in Clients : g # h => sock'[g] = sock[g],
         UNCHANGED <<data_socket, fd, accepted, faults>>
  PROVE  /\ OwnNumbers' /\ OwnConnections'
         /\ pc'[h] = step /\ \A g \in Clients : g # h => pc'[g] = pc[g]
         /\ \A g \in Clients : Its(g)' = Its(g)
<1>1. pc'[h] = step /\ (\A g \in Clients : g # h => pc'[g] = pc[g]) /\ kind' = kind
  BY DEF Goes, Typed
<1>2. \A g \in Clients : Its(g)' = Its(g) /\ (Active(g)' <=> Active(g))
  BY <1>1 DEF Its, Active
<1>3. kind' # "thread" => \A g \in Clients : g # 1 => pc'[g] = "none"
  BY <1>1 DEF Owns, OwnNumbers, Active
<1>4. OwnNumbers'
  BY <1>2, <1>3 DEF Owns, OwnNumbers
<1>5. OwnConnections'
  BY DEF Owns, OwnConnections
<1> QED BY <1>1, <1>2, <1>4, <1>5

LEMMA OwnsRead ==
  ASSUME Typed, Owns, NEW h \in Clients, ReadSocket(h)
  PROVE Owns'
<1>1. pc[h] = "read" /\ Goes(h, "call") /\ sock' = [sock EXCEPT ![h] = data_socket]
      /\ UNCHANGED <<fd, on, req, client, accepted, answers, data_socket, faults>>
  BY DEF ReadSocket, network
<1>2. Active(h) /\ Its(h) = data_socket
  BY <1>1 DEF Active, Its
<1>3. sock'[h] = Its(h) /\ \A g \in Clients : g # h => sock'[g] = sock[g]
  BY <1>1, <1>2 DEF Typed
<1>4. /\ OwnNumbers' /\ OwnConnections'
      /\ pc'[h] = "call" /\ \A g \in Clients : g # h => pc'[g] = pc[g]
      /\ \A g \in Clients : Its(g)' = Its(g)
  BY <1>1, <1>2, <1>3, WorksOn
<1>5. OwnMessages'
  BY <1>1, <1>3, <1>4 DEF Owns, OwnMessages, Hands, Sent, Left
<1> QED BY <1>4, <1>5 DEF Owns

LEMMA OwnsCallRecv ==
  ASSUME Typed, Owns, NEW h \in Clients, CallRecv(h)
  PROVE Owns' /\ server' = server
<1>1. pc[h] = "call" /\ UNCHANGED <<fd, sock, req, client, accepted, answers, data_socket, faults>>
  BY DEF CallRecv, network
<1>2. Active(h) /\ Its(h) = sock[h]
  BY <1>1 DEF Active, Its
<1>3. fd[sock[h]] # 0
  BY <1>2, AtWork
<1>4. on' = [on EXCEPT ![h] = fd[sock[h]]] /\ Goes(h, "recv") /\ server' = server
  BY <1>3 DEF CallRecv
<1>5. /\ OwnNumbers' /\ OwnConnections'
      /\ pc'[h] = "recv" /\ \A g \in Clients : g # h => pc'[g] = pc[g]
      /\ \A g \in Clients : Its(g)' = Its(g)
  BY <1>1, <1>2, <1>4, WorksOn
<1>6. on'[h] = fd[sock[h]] /\ \A g \in Clients : g # h => on'[g] = on[g]
  BY <1>4 DEF Typed
<1>7. OwnMessages'
  BY <1>1, <1>5, <1>6 DEF Owns, OwnMessages, Hands, Sent, Left
<1> QED BY <1>4, <1>5, <1>7 DEF Owns

LEMMA OwnsReceives ==
  ASSUME Typed, Owns, NEW h \in Clients, Receives(h)
  PROVE Owns'
<1>1. /\ pc[h] = "recv" /\ Goes(h, "send")
      /\ UNCHANGED <<fd, sock, on, client, accepted, answers, data_socket, faults>>
  BY DEF Receives
<1>2. Active(h) /\ Its(h) = sock[h] /\ on[h] = fd[sock[h]]
  BY <1>1 DEF Active, Its, Owns, OwnMessages, Hands, Sent
<1>3. req' = [req EXCEPT ![h] = on[h]] \/ (req' = [req EXCEPT ![h] = 0] /\ Left(on[h]))
  BY DEF Receives, Left
<1>4. /\ OwnNumbers' /\ OwnConnections'
      /\ pc'[h] = "send" /\ \A g \in Clients : g # h => pc'[g] = pc[g]
      /\ \A g \in Clients : Its(g)' = Its(g)
  BY <1>1, <1>2, WorksOn
<1>5. /\ req'[h] = fd[sock[h]] \/ (req'[h] = 0 /\ Left(fd[sock[h]]))
      /\ \A g \in Clients : g # h => req'[g] = req[g]
  BY <1>2, <1>3 DEF Typed
<1>6. OwnMessages'
  BY <1>1, <1>4, <1>5 DEF Owns, OwnMessages, Hands, Sent, Left
<1> QED BY <1>4, <1>6 DEF Owns

LEMMA OwnsSends ==
  ASSUME Typed, Owns, NEW h \in Clients, Sends(h)
  PROVE Owns' /\ server' = server
<1> DEFINE c == fd[sock[h]]
<1>1. pc[h] = "send" /\ UNCHANGED <<fd, sock, on, req, client, accepted, data_socket, faults>>
  BY DEF Sends
<1>2. Active(h) /\ Its(h) = sock[h]
  BY <1>1 DEF Active, Its
<1>3. c \in Clients /\ c # 0 /\ c \in accepted
  BY <1>2, AtWork
<1>4. answers[c] = <<>> /\ (req[h] = c \/ (req[h] = 0 /\ Left(c)))
  BY <1>1, <1>2 DEF Owns, OwnMessages, Hands, Sent
<1>5. answers' = [answers EXCEPT ![c] = Append(answers[c], req[h])] /\ Goes(h, "close") /\ server' = server
  BY <1>3, <1>4 DEF Sends
<1>6. /\ OwnNumbers' /\ OwnConnections'
      /\ pc'[h] = "close" /\ \A g \in Clients : g # h => pc'[g] = pc[g]
      /\ \A g \in Clients : Its(g)' = Its(g)
  BY <1>1, <1>2, <1>5, WorksOn
<1>7. answers'[c] = <<req[h]>> /\ \A d \in Clients : d # c => answers'[d] = answers[d]
  BY <1>3, <1>4, <1>5 DEF Typed
<1>8. ASSUME NEW g \in Clients, g # h, Active(g) PROVE fd[Its(g)] \in Clients /\ fd[Its(g)] # c
  <2>1. Its(g) # Its(h) /\ Its(g) \in Fds /\ Its(h) \in Fds /\ fd[Its(g)] \in Clients /\ fd[Its(g)] # 0
    BY <1>2, <1>8, AtWork DEF Owns, OwnNumbers, Fds
  <2> QED BY <1>2, <2>1 DEF Owns, OwnConnections
<1>9. ASSUME NEW g \in Clients
      PROVE  Hands(g)'
  <2>1. CASE g = h
    BY <1>6, <2>1 DEF Hands
  <2>2. CASE g # h
    <3>1. pc'[g] \in {"read", "call", "recv", "send"} => answers'[fd'[Its(g)']] = <<>>
      <4>1. ASSUME pc'[g] \in {"read", "call", "recv", "send"} PROVE answers'[fd'[Its(g)']] = <<>>
        <5>1. Active(g) /\ pc[g] \in {"read", "call", "recv", "send"}
          BY <1>6, <2>2, <4>1 DEF Active
        <5>2. answers'[fd[Its(g)]] = answers[fd[Its(g)]]
          BY <1>7, <1>8, <2>2, <5>1
        <5> QED BY <1>1, <1>6, <5>1, <5>2 DEF Owns, OwnMessages, Hands, Sent
      <4> QED BY <4>1
    <3> QED BY <1>1, <1>6, <2>2, <3>1 DEF Owns, OwnMessages, Hands, Sent, Left
  <2> QED BY <2>1, <2>2
<1>10. ASSUME NEW d \in Clients
       PROVE  Sent(d)'
  <2>1. CASE d = c
    BY <1>1, <1>3, <1>4, <1>7, <2>1 DEF Left, Sent
  <2>2. CASE d # c
    BY <1>1, <1>7, <2>2 DEF Owns, OwnMessages, Hands, Sent, Left
  <2> QED BY <2>1, <2>2
<1>11. OwnMessages'
  BY <1>9, <1>10 DEF OwnMessages, Hands, Sent
<1> QED BY <1>5, <1>6, <1>11 DEF Owns

LEMMA OwnsCloses ==
  ASSUME Typed, Owns, NEW h \in Clients, Closes(h)
  PROVE Owns'
<1>1. /\ pc[h] = "close" /\ Goes(h, "done") /\ fd' = [fd EXCEPT ![sock[h]] = 0]
      /\ UNCHANGED <<sock, on, req, client, accepted, answers, data_socket, faults>>
  BY DEF Closes, network
<1>2. Active(h) /\ Its(h) = sock[h] /\ sock[h] \in Clients
  BY <1>1 DEF Active, Its, Typed
<1>3. /\ fd'[sock[h]] = 0 /\ \A f \in Clients : f # sock[h] => fd'[f] = fd[f]
      /\ pc'[h] = "done" /\ \A g \in Clients : g # h => pc'[g] = pc[g]
      /\ kind' = kind
  BY <1>1, <1>2 DEF Typed, Goes
<1>4. /\ ~Active(h)' /\ \A g \in Clients : g # h => Its(g)' = Its(g) /\ (Active(g)' <=> Active(g))
      /\ Its(h)' = sock[h]
  BY <1>1, <1>3 DEF Its, Active
<1>5. \A g \in Clients : g # h /\ Active(g) => Its(g) \in Clients /\ Its(g) # sock[h] /\ fd'[Its(g)] = fd[Its(g)]
  BY <1>2, <1>3, AtWork DEF Owns, OwnNumbers
<1>6. OwnNumbers'
  <2>1. faults' = 0 => \A f \in Fds : fd'[f] # 0 => \E g \in Clients : Active(g)' /\ Its(g)' = f
    <3>1. SUFFICES ASSUME faults' = 0, NEW f \in Fds, fd'[f] # 0 PROVE \E g \in Clients : Active(g)' /\ Its(g)' = f
      OBVIOUS
    <3>2. f # sock[h] /\ fd[f] # 0
      BY <1>3, <3>1 DEF Fds
    <3>3. PICK g \in Clients : Active(g) /\ Its(g) = f
      BY <1>1, <3>1, <3>2 DEF Owns, OwnNumbers
    <3> QED BY <1>2, <1>4, <3>2, <3>3
  <2>2. kind' # "thread" => \A g \in Clients : g # 1 => pc'[g] = "none"
    BY <1>1, <1>3 DEF Owns, OwnNumbers
  <2>3. \A g \in Clients : Active(g)' => fd'[Its(g)'] # 0
    BY <1>4, <1>5, AtWork
  <2>4. \A g, i \in Clients : Active(g)' /\ Active(i)' /\ Its(g)' = Its(i)' => g = i
    BY <1>4 DEF Owns, OwnNumbers
  <2> QED BY <2>1, <2>2, <2>3, <2>4 DEF OwnNumbers
<1>7. OwnConnections'
  BY <1>1, <1>3 DEF Owns, OwnConnections, Fds
<1>8. \A d \in Clients : Sent(d)'
  BY <1>1 DEF Owns, OwnMessages, Hands, Sent, Left
<1>9. ASSUME NEW g \in Clients
      PROVE  Hands(g)'
  <2>1. CASE g = h \/ ~Active(g)
    BY <1>3, <2>1 DEF Active, Hands
  <2>2. CASE g # h /\ Active(g)
    <3>1. /\ fd'[Its(g)'] = fd[Its(g)]
          /\ pc[g] # "read" => Its(g) = sock[g] /\ fd'[sock[g]] = fd[sock[g]]
      BY <1>4, <1>5, <2>2 DEF Its
    <3> QED BY <1>1, <1>3, <2>2, <3>1 DEF Owns, OwnMessages, Hands, Sent, Left
  <2> QED BY <2>1, <2>2
<1>10. OwnMessages'
  BY <1>8, <1>9 DEF OwnMessages, Hands, Sent
<1> QED BY <1>6, <1>7, <1>10 DEF Owns

-----------------------------------------------------------------------------
(* What takes the server down takes a fault; the other steps keep what belongs together. *)
LEMMA OwnsStep ==
  ASSUME Typed, Owns, Next, ~raced'
  PROVE  Owns' /\ (faults' = 0 /\ server \in {"starts", "up"} => server' \in {"starts", "up"})
<1>1. CASE Boots \/ AcceptFails \/ \E h \in Clients : RecvFails(h)
  <2>1. /\ UNCHANGED handlers /\ UNCHANGED network /\ UNCHANGED <<kind, data_socket, fd>>
        /\ faults' = 0 => faults = 0
    BY <1>1 DEF Boots, AcceptFails, RecvFails, Fault, Typed
  <2>2. Owns'
    BY <2>1, Stays DEF network, Left
  <2>3. faults' = 0 => server' \in {"starts", "up"}
    BY <1>1 DEF Boots, AcceptFails, RecvFails, Fault, Typed
  <2> QED BY <2>2, <2>3
<1>2. ASSUME NEW f \in Clients, Accept(f) \/ AcceptThread(f)
      PROVE  Owns' /\ server' = server
  BY <1>2, OwnsAccept, OwnsAcceptThread DEF Accept, AcceptThread, Accepts
<1>3. ASSUME NEW h \in Clients, ReadSocket(h) \/ HandlerStep(h)
      PROVE  Owns' /\ server' = server
  BY <1>3, OwnsRead, OwnsCallRecv, OwnsReceives, OwnsSends, OwnsCloses
     DEF HandlerStep, ReadSocket, Receives, Closes
<1>4. ASSUME NEW c \in Clients, ClientStep(c) \/ Killed(c)
      PROVE  Owns' /\ server' = server
  <2>1. PICK state \in States : Becomes(c, state) /\ client[c] \notin {"done", "failed", "gone"}
    BY <1>4 DEF ClientStep, EchoClient, ProtoClient, Connect, SendRequest, RecvAnswer, Killed, States, Present
  <2>2. \A d \in Clients : Left(d) => Left(d)'
    BY <2>1 DEF Becomes, Left, Typed
  <2>3. Owns'
    BY <2>1, <2>2, Stays DEF Becomes
  <2> QED BY <2>1, <2>3 DEF Becomes
<1>5. CASE ServerStep
  BY <1>1, <1>2, <1>3, <1>5, Zero DEF ServerStep, EchoServer, ProtoLoop, ThreadLoop, Fds
<1> QED BY <1>1, <1>3, <1>4, <1>5 DEF Next, Thread

LEMMA RacedStays == Typed /\ [Next]_vars /\ ~raced' => ~raced /\ (faults' = 0 => faults = 0)
<1> SUFFICES ASSUME Typed, [Next]_vars PROVE (raced => raced') /\ (faults' = 0 => faults = 0)
  OBVIOUS
<1>1. \A f : AcceptThread(f) => (raced => raced') /\ (faults' = 0 => faults = 0)
  <2>1. \A f : AcceptThread(f) => (raced => raced')
    BY Zenon DEF AcceptThread
  <2>2. \A f : AcceptThread(f) => (faults' = 0 => faults = 0)
    BY SMT DEF AcceptThread, Fault, Typed
  <2> QED BY <2>1, <2>2
<1>2. CASE Boots \/ AcceptFails \/ \E h \in Clients : RecvFails(h)
  BY <1>2 DEF Boots, AcceptFails, RecvFails, Fault, Typed
<1>3. ASSUME (\E f : Accept(f)) \/ (\E h : ReadSocket(h) \/ HandlerStep(h))
      PROVE  UNCHANGED <<raced, faults>>
  BY <1>3 DEF Accept, ReadSocket, HandlerStep, CallRecv, Receives, Sends, Closes
<1>4. ASSUME NEW c \in Clients, ClientStep(c) \/ Killed(c)
      PROVE  UNCHANGED <<raced, faults>>
  BY <1>4 DEF ClientStep, EchoClient, ProtoClient, Connect, SendRequest, RecvAnswer, Killed, Becomes
<1>5. CASE ServerStep
  BY <1>1, <1>2, <1>3, <1>5 DEF ServerStep, EchoServer, ProtoLoop, ThreadLoop
<1>6. CASE UNCHANGED vars
  BY <1>6 DEF vars
<1> QED BY <1>2, <1>3, <1>4, <1>5, <1>6 DEF Next, Thread

Safe == Owned /\ StaysUp

LEMMA SafeStep == Typed /\ Safe /\ [Next]_vars => Safe'
<1> SUFFICES ASSUME Typed, Safe, [Next]_vars, ~raced'
             PROVE  Owns' /\ (faults' = 0 => server' \in {"starts", "up"})
  BY DEF Safe, Owned, StaysUp, Owns
<1>1. ~raced /\ (faults' = 0 => faults = 0)
  BY RacedStays
<1>2. Owns /\ (faults = 0 => server \in {"starts", "up"})
  BY <1>1 DEF Safe, Owned, StaysUp, Owns
<1>3. CASE Next
  BY <1>1, <1>2, <1>3, OwnsStep
<1>4. CASE UNCHANGED vars
  <2>1. Owns'
    BY <1>2, <1>4, Stays DEF vars, handlers, Left
  <2> QED BY <1>1, <1>2, <1>4, <2>1 DEF vars
<1> QED BY <1>3, <1>4

LEMMA SafeInit == Init => Typed /\ Safe
<1> SUFFICES ASSUME Init PROVE Typed /\ Owns /\ StaysUp
  BY DEF Safe, Owned, Owns
<1>1. Typed
  BY DEF Init, Typed, Fds, Numbers, Places, States
<1>2. OwnNumbers /\ OwnConnections
  BY DEF Init, OwnNumbers, OwnConnections, Active, Fds
<1>3. OwnMessages
  BY DEF Init, OwnMessages, Hands, Sent
<1> QED BY <1>1, <1>2, <1>3 DEF Init, Owns, StaysUp

LEMMA SafeAlways == Spec => [](Typed /\ Safe)
<1> QED BY SafeInit, TypedStep, SafeStep, PTL DEF Spec

(* For any number of clients: only a thread that missed its own socket, or a call     *)
(* that fails, ends the server.                                                       *)
THEOREM OnlyRaceEndsServer == Spec => []StaysUp
<1>1. Typed /\ Safe => StaysUp
  BY DEF Safe
<1> QED BY <1>1, SafeAlways, PTL

(* For any number of clients, and whatever fails: as long as no thread has missed its *)
(* own socket, a client is sent the answer to its own request, once.                  *)
THEOREM AnswersOwn == Spec => []OwnAnswer
<1>1. Typed /\ Safe => OwnAnswer
  <2> SUFFICES ASSUME Typed, Owns, NEW c \in Clients
               PROVE  /\ Len(answers[c]) <= 1
                      /\ \A i \in DOMAIN answers[c] :
                           answers[c][i] = c \/ (answers[c][i] = 0 /\ ~Present(c))
    BY DEF Safe, Owned, Owns, OwnAnswer
  <2>1. Left(c) => ~Present(c)
    BY DEF Left, Present
  <2>2. CASE answers[c] = <<>>
    BY <2>2
  <2>3. CASE answers[c] = <<c>>
    BY <2>3
  <2>4. CASE answers[c] = <<0>> /\ Left(c)
    BY <2>1, <2>4
  <2> QED BY <2>2, <2>3, <2>4 DEF Owns, OwnMessages, Hands, Sent
<1> QED BY <1>1, SafeAlways, PTL

(* For any number of clients: while nothing fails, every open descriptor is one       *)
(* handler's, and none is lost or closed twice.                                       *)
THEOREM OneHandlerAlways == Spec => []OneHandlerEach
<1>1. Typed /\ Safe => OneHandlerEach
  <2> DEFINE Has(f) == {h \in Clients : Active(h) /\ (IF pc[h] = "read" THEN data_socket ELSE sock[h]) = f}
  <2> SUFFICES ASSUME Typed, Owns, faults = 0, NEW f \in Fds
               PROVE  Cardinality(Has(f)) = IF fd[f] = 0 THEN 0 ELSE 1
    BY DEF Safe, Owned, Owns, OneHandlerEach
  <2>1. Has(f) = {h \in Clients : Active(h) /\ Its(h) = f}
    BY DEF Its
  <2> HIDE DEF Has
  <2>2. CASE fd[f] = 0
    <3>1. Has(f) = {}
      BY <2>1, <2>2 DEF Owns, OwnNumbers
    <3>2. Cardinality(Has(f)) = 0
      BY <3>1, FS_EmptySet
    <3> QED BY <2>2, <3>2
  <2>3. CASE fd[f] # 0
    <3>1. PICK h \in Clients : Active(h) /\ Its(h) = f
      BY <2>3 DEF Owns, OwnNumbers
    <3>2. Has(f) = {h}
      BY <2>1, <3>1 DEF Owns, OwnNumbers
    <3>3. Cardinality(Has(f)) = 1
      BY <3>2, FS_Singleton
    <3> QED BY <2>3, <3>3
  <2> QED BY <2>2, <2>3
<1> QED BY <1>1, SafeAlways, PTL
=============================================================================
