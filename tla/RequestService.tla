--------------------------- MODULE RequestService ---------------------------
(***************************************************************************)
(* What the load balancer promises each downstream request, with no pool,  *)
(* tiers, cooldowns or passes: it is served by at most one provider at a   *)
(* time, never by a banned one, answered at most once, moved to no other   *)
(* provider once an answer has begun, and left without an answer only when *)
(* its client is gone.                                                     *)
(***************************************************************************)
CONSTANTS Requests, ProviderIDs, Answers, NoAnswer, NoProvider

VARIABLES
  phase,    \* new, open or closed
  answer,   \* what the client was sent
  serving,  \* the provider working on the request
  gone,     \* the client went away
  banned    \* the providers that must not be used again

vars == <<phase, answer, serving, gone, banned>>

Init ==
  /\ phase = [r \in Requests |-> "new"]
  /\ answer = [r \in Requests |-> NoAnswer]
  /\ serving = [r \in Requests |-> NoProvider]
  /\ gone = [r \in Requests |-> FALSE]
  /\ banned \in SUBSET ProviderIDs

Set(f, r, v) == f' = [f EXCEPT ![r] = v]

Admit(r) ==
  /\ phase[r] = "new"
  /\ Set(phase, r, "open")
  /\ UNCHANGED <<answer, serving, gone, banned>>

Refuse(r) ==
  /\ phase[r] = "new"
  /\ Set(phase, r, "closed")
  /\ \E a \in Answers : Set(answer, r, a)
  /\ UNCHANGED <<serving, gone, banned>>

Take(r) ==
  /\ phase[r] = "open" /\ answer[r] = NoAnswer /\ serving[r] = NoProvider
  /\ \E p \in ProviderIDs \ banned : Set(serving, r, p)
  /\ UNCHANGED <<phase, answer, gone, banned>>

(* The provider's answer begins to flow to the client.                     *)
Relay(r) ==
  /\ phase[r] = "open" /\ answer[r] = NoAnswer /\ serving[r] # NoProvider
  /\ \E a \in Answers : Set(answer, r, a)
  /\ UNCHANGED <<phase, serving, gone, banned>>

GiveBack(r) ==
  /\ serving[r] # NoProvider
  /\ Set(serving, r, NoProvider)
  /\ \/ UNCHANGED phase
     \/ (answer[r] # NoAnswer \/ gone[r]) /\ Set(phase, r, "closed")
  /\ UNCHANGED <<answer, gone, banned>>

(* Closed with the answer begun, with an answer of its own, or, its client *)
(* gone, with none.                                                        *)
Close(r) ==
  /\ phase[r] = "open" /\ serving[r] = NoProvider
  /\ \/ (answer[r] # NoAnswer \/ gone[r]) /\ UNCHANGED answer
     \/ answer[r] = NoAnswer /\ \E a \in Answers : Set(answer, r, a)
  /\ Set(phase, r, "closed")
  /\ UNCHANGED <<serving, gone, banned>>

Leave(r) ==
  /\ phase[r] = "open" /\ ~gone[r]
  /\ Set(gone, r, TRUE)
  /\ UNCHANGED <<phase, answer, serving, banned>>

Ban(p) ==
  /\ banned' = banned \cup {p}
  /\ UNCHANGED <<phase, answer, serving, gone>>

Next ==
  \/ \E r \in Requests :
       Admit(r) \/ Refuse(r) \/ Take(r) \/ Relay(r) \/ GiveBack(r) \/ Close(r) \/ Leave(r)
  \/ \E p \in ProviderIDs : Ban(p)

Spec == Init /\ [][Next]_vars
=============================================================================
