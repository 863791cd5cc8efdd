----------------------------- MODULE RemoteShell ----------------------------
(***************************************************************************)
(* What the remote shell promises its users: a client joins, asks one line *)
(* at a time, and each line it asks is followed by the answer to that very *)
(* line or by the end of the session.                                      *)
(***************************************************************************)
EXTENDS Naturals

CONSTANT Clients

VARIABLES
  phase,    \* phase[c]: "out", "ready", "busy" or "gone"
  asked,    \* asked[c]: the number of lines c has asked
  answered  \* answered[c]: the line whose answer c received last

vars == <<phase, asked, answered>>

Init ==
  /\ phase = [c \in Clients |-> "out"]
  /\ asked = [c \in Clients |-> 0] /\ answered = [c \in Clients |-> 0]

Join(c) ==
  /\ phase[c] = "out"
  /\ \E p \in {"ready", "gone"} : phase' = [phase EXCEPT ![c] = p]
  /\ UNCHANGED <<asked, answered>>

Ask(c) ==
  /\ phase[c] = "ready"
  /\ phase' = [phase EXCEPT ![c] = "busy"]
  /\ asked' = [asked EXCEPT ![c] = @ + 1]
  /\ UNCHANGED answered

Answer(c) ==
  /\ phase[c] = "busy"
  /\ phase' = [phase EXCEPT ![c] = "ready"]
  /\ answered' = [answered EXCEPT ![c] = asked[c]]
  /\ UNCHANGED asked

Leave(c) ==
  /\ phase[c] \in {"ready", "busy"}
  /\ phase' = [phase EXCEPT ![c] = "gone"]
  /\ UNCHANGED <<asked, answered>>

Next == \E c \in Clients : Join(c) \/ Ask(c) \/ Answer(c) \/ Leave(c)

(* A request does not stay unanswered for ever. *)
Served(c) == phase[c] = "busy" /\ (Answer(c) \/ Leave(c))

Spec == Init /\ [][Next]_vars
FairSpec == Spec /\ \A c \in Clients : WF_vars(Served(c))
=============================================================================
