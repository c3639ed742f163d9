---------------------------- MODULE LoadBalancer ----------------------------
(***************************************************************************)
(* cmd/load-balancer: request handlers (handleAPIRequest) and the provider *)
(* refresh (refreshProviderState) running concurrently over one            *)
(* ProviderPool, with clients that give up, upstreams that answer in every *)
(* way the handler tells apart, cooldowns that expire and operators that   *)
(* prune.  Between two methods of the pool a handler holds no lock, so     *)
(* every method call is a step of its own, in the order of the code.       *)
(***************************************************************************)
EXTENDS ProviderPool, Sequences

CONSTANTS
  Requests,      \* the requests served, one handler goroutine each
  Attempts,      \* -attempts: passes over the candidates
  Delayed,       \* whether -delay is positive
  ConfigFiles,   \* the contents the config file may take
  NoRef          \* no provider acquired yet

ASSUME LoadBalancerAssumption ==
  /\ IsFiniteSet(Requests)
  /\ Attempts \in Nat \ {0}
  /\ Delayed \in BOOLEAN
  /\ ConfigFiles \subseteq ConfigFile
  /\ NoRef \notin Ref \cup ProviderIDs

VARIABLES
  pc,          \* where each handler is
  model,       \* the model the request names
  ordered,     \* orderedCandidates: the refs to try, lower tiers first
  tried,       \* the refs acquired in this pass
  pass,        \* passes completed
  attempt,     \* providers acquired so far, all passes
  provider,    \* the ref acquired last
  holding,     \* its release function has not run yet
  outcome,     \* what came of the attempt in progress
  lastHTTP,    \* an upstream error response is kept for the client
  reply,       \* what the client has been sent
  cancelled,   \* the request's context is done
  refresh      \* the refresh that holds refreshMu

loopVars == <<model, ordered, tried, pass, attempt, lastHTTP>>
attemptVars == <<provider, holding, outcome>>
requestVars == <<pc, loopVars, attemptVars, reply, cancelled>>
vars == <<poolVars, requestVars, refresh>>

Outcomes == {"none", "cancelled", "transport", "marker", "readError",
             "status", "copyError", "copied"}

Replies == {"none", "rejected", "relayed", "upstreamError", "badGateway"}

Controls == {"idle", "acquire", "passEnd", "delay", "post", "body",
             "errorBody", "block", "record", "release", "recordLate",
             "recordSuccess", "done"}

Target == [ref : Ref, connection : Connections]

Refresh == [pc : {"idle", "targets", "loop", "fetch", "mark"},
            targets : SUBSET Target, current : SUBSET Target, cancelled : BOOLEAN]

NoRefresh == [pc |-> "idle", targets |-> {}, current |-> {}, cancelled |-> FALSE]

Init ==
  /\ PoolInit
  /\ pc = [r \in Requests |-> "idle"]
  /\ model \in [Requests -> Models]
  /\ ordered = [r \in Requests |-> <<>>]
  /\ tried = [r \in Requests |-> {}]
  /\ pass = [r \in Requests |-> 0]
  /\ attempt = [r \in Requests |-> 0]
  /\ provider = [r \in Requests |-> NoRef]
  /\ holding = [r \in Requests |-> FALSE]
  /\ outcome = [r \in Requests |-> "none"]
  /\ lastHTTP = [r \in Requests |-> FALSE]
  /\ reply = [r \in Requests |-> "none"]
  /\ cancelled = [r \in Requests |-> FALSE]
  /\ refresh = NoRefresh

-----------------------------------------------------------------------------
(* Helpers of the handler.                                                 *)

Goto(r, label) == pc' = [pc EXCEPT ![r] = label]

Finish(r, answer) ==
  /\ Goto(r, "done")
  /\ reply' = [reply EXCEPT ![r] = answer]

(* orderedCandidates: ascending tiers, shuffled within a tier.             *)
Orderings(refs) ==
  {s \in Bijection(1 .. Cardinality(refs), refs) :
     \A i, j \in DOMAIN s : i < j => s[i].tier <= s[j].tier}

Candidates(r) == Range(ordered[r])

Open(r) == {i \in DOMAIN ordered[r] :
              ordered[r][i] \notin tried[r] /\ Available(ordered[r][i])}

Idle(ref) == providers[ref.id].busy = 0

(* Mutant: an idle candidate of a higher tier before a busy one.           *)
ChoiceAcrossTiers(r, i) ==
  LET idle == {k \in Open(r) : Idle(ordered[r][k])}
      eligible == IF idle # {} THEN idle ELSE Open(r)
  IN  i \in eligible /\ \A j \in eligible : i <= j

(* The candidate acquire settles on: of the lowest tier that has one open, *)
(* the first idle one, and the first one when none of them is idle.        *)
Choice(r, i) ==
  LET lowest == {k \in Open(r) : \A j \in Open(r) :
                   ordered[r][k].tier <= ordered[r][j].tier}
      idle == {k \in lowest : Idle(ordered[r][k])}
      eligible == IF idle # {} THEN idle ELSE lowest
  IN  i \in eligible /\ \A j \in eligible : i <= j

-----------------------------------------------------------------------------
(* The handler: arrival.                                                   *)

(* Unauthorised, unreadable or model-less requests never reach the pool.   *)
Reject(r) ==
  /\ pc[r] = "idle"
  /\ Finish(r, "rejected")
  /\ UNCHANGED <<poolVars, loopVars, attemptVars, cancelled, refresh>>

Arrive(r) ==
  /\ pc[r] = "idle"
  /\ LET refs == modelProviders[model[r]] IN
       IF refs = {}
         THEN Finish(r, "rejected") /\ UNCHANGED ordered
         ELSE /\ \E s \in Orderings(refs) : ordered' = [ordered EXCEPT ![r] = s]
              /\ Goto(r, "acquire")
              /\ UNCHANGED reply
  /\ UNCHANGED <<poolVars, model, tried, pass, attempt, lastHTTP, attemptVars,
                 cancelled, refresh>>

(* The client goes away: the request's context is cancelled.               *)
Cancel(r) ==
  /\ pc[r] \notin {"idle", "done"}
  /\ ~cancelled[r]
  /\ cancelled' = [cancelled EXCEPT ![r] = TRUE]
  /\ UNCHANGED <<poolVars, pc, loopVars, attemptVars, reply, refresh>>

-----------------------------------------------------------------------------
(* The handler: the loop over candidates and passes.                       *)

Acquire(r) ==
  /\ pc[r] = "acquire"
  /\ Cardinality(tried[r]) < Len(ordered[r])
  /\ \E i \in Open(r) :
       LET ref == RefOf(ordered[r][i].id) IN
       /\ Choice(r, i)
       /\ Occupy(ref)
       /\ tried' = [tried EXCEPT ![r] = @ \cup {ref}]
       /\ provider' = [provider EXCEPT ![r] = ref]
  /\ holding' = [holding EXCEPT ![r] = TRUE]
  /\ attempt' = [attempt EXCEPT ![r] = @ + 1]
  /\ Goto(r, "post")
  /\ UNCHANGED <<model, ordered, pass, lastHTTP, outcome, reply, cancelled, refresh>>

(* Mutant: the handler waits for a candidate to become available.          *)
LeavePassWhenAllTried(r) ==
  /\ pc[r] = "acquire"
  /\ Cardinality(tried[r]) = Len(ordered[r])
  /\ Goto(r, "passEnd")
  /\ UNCHANGED <<poolVars, loopVars, attemptVars, reply, cancelled, refresh>>

(* Every candidate was tried, or acquire finds none outside cooldown.      *)
LeavePass(r) ==
  /\ pc[r] = "acquire"
  /\ Cardinality(tried[r]) = Len(ordered[r]) \/ Open(r) = {}
  /\ Goto(r, "passEnd")
  /\ UNCHANGED <<poolVars, loopVars, attemptVars, reply, cancelled, refresh>>

(* Mutant: one pass too many.                                              *)
EndPassLate(r) ==
  /\ pc[r] = "passEnd"
  /\ IF HasUnblocked(Candidates(r)) /\ pass[r] < Attempts
       THEN /\ pass' = [pass EXCEPT ![r] = @ + 1]
            /\ tried' = [tried EXCEPT ![r] = {}]
            /\ Goto(r, IF Delayed THEN "delay" ELSE "acquire")
            /\ UNCHANGED reply
       ELSE /\ Finish(r, IF lastHTTP[r] THEN "upstreamError" ELSE "badGateway")
            /\ UNCHANGED <<pass, tried>>
  /\ UNCHANGED <<poolVars, model, ordered, attempt, lastHTTP, attemptVars,
                 cancelled, refresh>>

(* The next pass, or the answer when no pass is left or worth it.          *)
EndPass(r) ==
  /\ pc[r] = "passEnd"
  /\ IF HasUnblocked(Candidates(r)) /\ pass[r] + 1 < Attempts
       THEN /\ pass' = [pass EXCEPT ![r] = @ + 1]
            /\ tried' = [tried EXCEPT ![r] = {}]
            /\ Goto(r, IF Delayed THEN "delay" ELSE "acquire")
            /\ UNCHANGED reply
       ELSE /\ Finish(r, IF lastHTTP[r] THEN "upstreamError" ELSE "badGateway")
            /\ UNCHANGED <<pass, tried>>
  /\ UNCHANGED <<poolVars, model, ordered, attempt, lastHTTP, attemptVars,
                 cancelled, refresh>>

DelayOver(r) ==
  /\ pc[r] = "delay"
  /\ Goto(r, "acquire")
  /\ UNCHANGED <<poolVars, loopVars, attemptVars, reply, cancelled, refresh>>

DelayCancelled(r) ==
  /\ pc[r] = "delay" /\ cancelled[r]
  /\ Goto(r, "done")
  /\ UNCHANGED <<poolVars, loopVars, attemptVars, reply, cancelled, refresh>>

-----------------------------------------------------------------------------
(* The handler: what the upstream does with the attempt.                   *)

Conclude(r, result, next) ==
  /\ outcome' = [outcome EXCEPT ![r] = result]
  /\ Goto(r, next)
  /\ UNCHANGED <<poolVars, model, ordered, tried, pass, attempt, provider,
                 holding, cancelled, refresh>>

(* Mutant: the path of a cancelled request returns without the release.    *)
PostFailsUnreleased(r) ==
  /\ pc[r] = "post"
  /\ IF cancelled[r] THEN Conclude(r, "cancelled", "done")
                     ELSE Conclude(r, "transport", "record")
  /\ UNCHANGED <<lastHTTP, reply>>

(* client.Do returned an error; a cancelled request is not the provider's  *)
(* failure.                                                                *)
PostFails(r) ==
  /\ pc[r] = "post"
  /\ IF cancelled[r] THEN Conclude(r, "cancelled", "release")
                     ELSE Conclude(r, "transport", "record")
  /\ UNCHANGED <<lastHTTP, reply>>

(* Headers arrive: with the marker, with a 2xx status, or with another.    *)
PostAnswers(r) ==
  /\ pc[r] = "post"
  /\ \/ Conclude(r, "marker", "block")
     \/ Conclude(r, "none", "body")
     \/ Conclude(r, "none", "errorBody")
  /\ UNCHANGED <<lastHTTP, reply>>

(* The first write of a streamed 2xx body sends status and headers.        *)
CommitStream(r) ==
  /\ pc[r] = "body" /\ reply[r] = "none"
  /\ reply' = [reply EXCEPT ![r] = "relayed"]
  /\ UNCHANGED <<poolVars, pc, loopVars, attemptVars, cancelled, refresh>>

(* A body cut short is relayed as far as it came, streamed or buffered.    *)
BodyEnds(r) ==
  /\ pc[r] = "body"
  /\ \/ Conclude(r, "marker", "block") /\ UNCHANGED reply
     \/ /\ \/ Conclude(r, "copyError", "release")
           \/ Conclude(r, "copied", "release")
        /\ reply' = [reply EXCEPT ![r] = "relayed"]
  /\ UNCHANGED lastHTTP

ErrorBodyEnds(r) ==
  /\ pc[r] = "errorBody"
  /\ \/ Conclude(r, "marker", "block") /\ UNCHANGED lastHTTP
     \/ Conclude(r, "readError", "record") /\ UNCHANGED lastHTTP
     \/ /\ Conclude(r, "status", "record")
        /\ lastHTTP' = [lastHTTP EXCEPT ![r] = TRUE]
  /\ UNCHANGED reply

-----------------------------------------------------------------------------
(* The handler: what the attempt's outcome does to the pool.               *)

BlockMarked(r) ==
  /\ pc[r] = "block"
  /\ BlockProvider(provider[r])
  /\ Goto(r, "release")
  /\ UNCHANGED <<loopVars, attemptVars, reply, cancelled, refresh>>

(* Failures of an answer still unread are recorded before the release.     *)
RecordFailure(r) ==
  /\ pc[r] = "record"
  /\ RecordProviderFailure(provider[r])
  /\ Goto(r, "release")
  /\ UNCHANGED <<loopVars, attemptVars, reply, cancelled, refresh>>

(* Mutants: a marked answer is always retried; it never is.                *)
AfterReleaseRetrying(r) ==
  CASE outcome[r] = "cancelled" -> "done"
    [] outcome[r] = "copyError" -> IF cancelled[r] THEN "done" ELSE "recordLate"
    [] outcome[r] = "copied" -> "recordSuccess"
    [] OTHER -> "acquire"

AfterReleaseGivingUp(r) ==
  CASE outcome[r] \in {"cancelled", "marker"} -> "done"
    [] outcome[r] = "copyError" -> IF cancelled[r] THEN "done" ELSE "recordLate"
    [] outcome[r] = "copied" -> "recordSuccess"
    [] OTHER -> "acquire"

AfterRelease(r) ==
  CASE outcome[r] = "cancelled" -> "done"
    [] outcome[r] = "marker" -> IF reply[r] = "none" THEN "acquire" ELSE "done"
    [] outcome[r] = "copyError" -> IF cancelled[r] THEN "done" ELSE "recordLate"
    [] outcome[r] = "copied" -> "recordSuccess"
    [] OTHER -> "acquire"

Release(r) ==
  /\ pc[r] = "release"
  /\ IF holding[r] THEN ReleaseProvider(provider[r]) ELSE UNCHANGED poolVars
  /\ holding' = [holding EXCEPT ![r] = FALSE]
  /\ outcome' = [outcome EXCEPT ![r] = "none"]
  /\ Goto(r, AfterRelease(r))
  /\ UNCHANGED <<loopVars, provider, reply, cancelled, refresh>>

(* A 2xx body's result is recorded after the release.                      *)
RecordLate(r) ==
  /\ \/ pc[r] = "recordLate" /\ RecordProviderFailure(provider[r])
     \/ pc[r] = "recordSuccess" /\ RecordProviderSuccess(provider[r])
  /\ Goto(r, "done")
  /\ UNCHANGED <<loopVars, attemptVars, reply, cancelled, refresh>>

Handler(r) ==
  \/ Acquire(r) \/ LeavePass(r) \/ EndPass(r) \/ DelayOver(r) \/ DelayCancelled(r)
  \/ PostFails(r) \/ PostAnswers(r) \/ BodyEnds(r) \/ ErrorBodyEnds(r)
  \/ BlockMarked(r) \/ RecordFailure(r) \/ Release(r) \/ RecordLate(r)

-----------------------------------------------------------------------------
(* The refresh: the background loop's or a POST /refresh's, whoever holds  *)
(* refreshMu.  A config file that cannot be read or is invalid ends it     *)
(* before it changes anything.                                             *)

StartRefresh ==
  /\ refresh.pc = "idle"
  /\ \E cfg \in ConfigFiles : Reconcile(cfg)
  /\ refresh' = [NoRefresh EXCEPT !.pc = "targets"]
  /\ UNCHANGED requestVars

TakeTargets ==
  /\ refresh.pc = "targets"
  /\ refresh' = [refresh EXCEPT
       !.pc = "loop",
       !.targets = {[ref |-> RefOf(id), connection |-> providers[id].connection] :
                      id \in {i \in DOMAIN providers : ~Blocked(i)}}]
  /\ UNCHANGED <<poolVars, requestVars>>

(* Mutant: a target stays on the list after its fetch.                     *)
NextTargetAgain ==
  /\ refresh.pc = "loop"
  /\ IF refresh.cancelled \/ refresh.targets = {}
       THEN refresh' = NoRefresh
       ELSE \E t \in refresh.targets :
              refresh' = [refresh EXCEPT !.pc = "fetch", !.current = {t}]
  /\ UNCHANGED <<poolVars, requestVars>>

NextTarget ==
  /\ refresh.pc = "loop"
  /\ IF refresh.cancelled \/ refresh.targets = {}
       THEN refresh' = NoRefresh
       ELSE \E t \in refresh.targets :
              refresh' = [refresh EXCEPT !.pc = "fetch", !.current = {t},
                                         !.targets = @ \ {t}]
  /\ UNCHANGED <<poolVars, requestVars>>

(* The /models answer carries a list, the marker, or an error.             *)
FetchSucceeds ==
  /\ refresh.pc = "fetch"
  /\ \E t \in refresh.current : \E models \in Serves[t.connection] :
       ReplaceProviderModels(t.ref, models)
  /\ refresh' = [refresh EXCEPT !.pc = "loop", !.current = {}]
  /\ UNCHANGED requestVars

FetchMarked ==
  /\ refresh.pc = "fetch"
  /\ \E t \in refresh.current : BlockProvider(t.ref)
  /\ refresh' = [refresh EXCEPT !.pc = "mark"]
  /\ UNCHANGED requestVars

(* A fetch that failed, a cancelled one included, empties the list.        *)
FetchFails ==
  /\ refresh.pc \in {"fetch", "mark"}
  /\ \E t \in refresh.current : MarkProviderModelsUnavailable(t.ref)
  /\ refresh' = [refresh EXCEPT !.pc = "loop", !.current = {}]
  /\ UNCHANGED requestVars

(* The proxy closes, or the client of the POST /refresh goes away.         *)
CancelRefresh ==
  /\ refresh.pc # "idle" /\ ~refresh.cancelled
  /\ refresh' = [refresh EXCEPT !.cancelled = TRUE]
  /\ UNCHANGED <<poolVars, requestVars>>

Refresher == TakeTargets \/ NextTarget \/ FetchSucceeds \/ FetchMarked \/ FetchFails

Prune == PruneProviderFailures /\ UNCHANGED <<requestVars, refresh>>

Tick == Elapse /\ UNCHANGED <<requestVars, refresh>>

-----------------------------------------------------------------------------
Next ==
  \/ \E r \in Requests :
       Reject(r) \/ Arrive(r) \/ Cancel(r) \/ CommitStream(r) \/ Handler(r)
  \/ StartRefresh \/ CancelRefresh \/ Refresher
  \/ Prune \/ Tick

Spec == Init /\ [][Next]_vars

(* What a handler does without its client: an EndPass that answers and the *)
(* copying of a body write to it, and no write has a deadline.             *)
Unaided(r) ==
  \/ Acquire(r) \/ LeavePass(r) \/ DelayOver(r) \/ DelayCancelled(r)
  \/ EndPass(r) /\ pc'[r] # "done"
  \/ PostFails(r) \/ PostAnswers(r) \/ ErrorBodyEnds(r)
  \/ BlockMarked(r) \/ RecordFailure(r) \/ Release(r) \/ RecordLate(r)

ToClient(r) == BodyEnds(r) \/ (EndPass(r) /\ pc'[r] = "done")

(* Goroutines run, and every call to an upstream returns: the client's     *)
(* timeout bounds a request and its body, the refresh timeout a fetch.     *)
Fairness ==
  /\ \A r \in Requests : WF_vars(Unaided(r))
  /\ WF_vars(Refresher)

FairSpec == Spec /\ Fairness
-----------------------------------------------------------------------------
RequestTypeOK ==
  /\ pc \in [Requests -> Controls]
  /\ model \in [Requests -> Models]
  /\ ordered \in [Requests -> Seq(Ref)]
  /\ tried \in [Requests -> SUBSET Ref]
  /\ pass \in [Requests -> Nat]
  /\ attempt \in [Requests -> Nat]
  /\ provider \in [Requests -> Ref \cup {NoRef}]
  /\ holding \in [Requests -> BOOLEAN]
  /\ outcome \in [Requests -> Outcomes]
  /\ lastHTTP \in [Requests -> BOOLEAN]
  /\ reply \in [Requests -> Replies]
  /\ cancelled \in [Requests -> BOOLEAN]

(* Every variable has its type.                                            *)
TypeOK == PoolTypeOK /\ RequestTypeOK /\ refresh \in Refresh

Holders(id) ==
  {r \in Requests : holding[r] /\ provider[r].id = id /\ Live(provider[r])}

(* A provider's busy count is the number of handlers that acquired this    *)
(* very shell and have not released it, whatever reconciliations replaced  *)
(* the shell under a handler in between (releaseFunc, indexForRefLocked).  *)
BusyMatchesHolders ==
  \A id \in DOMAIN providers : providers[id].busy = Cardinality(Holders(id))

InFlight == {"post", "body", "errorBody", "block", "record", "release"}

(* No path out of handleAPIRequest's loop forgets its provider: a handler  *)
(* holds one exactly from acquire to release.                              *)
HeldExactlyInFlight == \A r \in Requests : holding[r] <=> pc[r] \in InFlight

(* However providers are replaced, blocked or cooled under it, a request   *)
(* acquires at most Attempts times its candidates, each once in a pass.    *)
RetryBudget ==
  \A r \in Requests :
    /\ pass[r] < Attempts
    /\ tried[r] \subseteq Candidates(r)
    /\ attempt[r] <= pass[r] * Len(ordered[r]) + Cardinality(tried[r])

(* The handler returns without an answer only when its client has gone.    *)
NoSilentDrop ==
  \A r \in Requests : pc[r] = "done" /\ reply[r] = "none" => cancelled[r]

Acquires(r) == attempt'[r] # attempt[r]

(* Once the client has been sent anything, the request is neither tried on *)
(* another provider nor answered again.                                    *)
NoRetryAfterReply ==
  [][\A r \in Requests : reply[r] # "none" => ~Acquires(r) /\ reply'[r] = reply[r]]_vars

(* A block is for the life of the process: through prune, refresh, removal *)
(* and return of the ID, no request acquires the provider again.           *)
BlockedStaysOut ==
  [][/\ blockedProviderIDs \subseteq blockedProviderIDs'
     /\ \A r \in Requests : Acquires(r) => provider'[r].id \notin blockedProviderIDs]_vars

(* acquire never passes over an untried, available candidate of a lower    *)
(* tier, nor an idle one of the same tier for a busy one, in the tiers of  *)
(* the present config and not of the one the candidates were taken from.   *)
TierDiscipline ==
  [][\A r \in Requests : Acquires(r) =>
       LET chosen == providers[provider'[r].id] IN
       \A ref \in Candidates(r) \ tried[r] : Available(ref) =>
         /\ chosen.tier <= providers[ref.id].tier
         /\ chosen.tier = providers[ref.id].tier /\ Idle(ref) => chosen.busy = 0]_vars

(* A ref whose shell was replaced or removed never names one again, though *)
(* its provider ID returns: what keeps a late release, result or retry     *)
(* from a successor with the same ID (nextProviderGeneration).             *)
DeadRefsStayDead ==
  [][\A r \in Requests : \A ref \in Candidates(r) : ~Live(ref) => ~Live(ref)']_vars

(* A provider's failure count grows only by a request that the very shell  *)
(* served: never by one served before its connection changed.              *)
FailuresChargedToServer ==
  [][\A id \in DOMAIN providers \cap DOMAIN providers' :
       providers'[id].consecutiveFailures > providers[id].consecutiveFailures =>
         \E r \in Requests : /\ pc[r] \in {"record", "recordLate"} /\ pc'[r] # pc[r]
                             /\ provider[r] = RefOf(id)]_vars

(* What the README says of the defaults: the third consecutive failure of  *)
(* a provider's requests puts it into cooldown.                            *)
DocumentedCooldown ==
  [][\A id \in DOMAIN providers \cap DOMAIN providers' :
       /\ providers'[id].consecutiveFailures = 3
       /\ providers[id].consecutiveFailures = 2
       => providers'[id].coolingLeft > 0]_vars

(* What the README says of routing: a request is only forwarded to a       *)
(* provider that advertises its model, and a provider whose refresh failed *)
(* is skipped until a later one succeeds.                                  *)
DocumentedRouting ==
  [][\A r \in Requests :
       Acquires(r) => model[r] \in providers[provider'[r].id].models]_vars

(* Every request is finished if its own client reads what it is sent, or   *)
(* goes away, so that no write waits for ever; what other clients do is    *)
(* all the same, and so are blocks, cooldowns and reloads.                 *)
RequestsFinish ==
  \A r \in Requests : WF_vars(ToClient(r)) => (pc[r] # "idle" ~> pc[r] = "done")

(* Every refresh gives up refreshMu.                                       *)
RefreshFinishes == refresh.pc # "idle" ~> refresh.pc = "idle"

Service == INSTANCE RequestService WITH
  Answers <- Replies \ {"none"},
  NoAnswer <- "none",
  NoProvider <- NoRef,
  phase <- [r \in Requests |-> CASE pc[r] = "idle" -> "new"
                                 [] pc[r] = "done" -> "closed"
                                 [] OTHER -> "open"],
  answer <- reply,
  serving <- [r \in Requests |-> IF holding[r] THEN provider[r].id ELSE NoRef],
  gone <- cancelled,
  banned <- blockedProviderIDs

(* The handlers over the pool keep the service's promise to every request. *)
ImplementsService == Service!Spec
=============================================================================
