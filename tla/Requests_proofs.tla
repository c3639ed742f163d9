---------------------------- MODULE Requests_proofs ----------------------------
(***************************************************************************)
(* What the load balancer promises every request: when it is answered, how *)
(* often it is tried, and on which providers, whatever the other requests, *)
(* the refresh and the operators do to the pool in between.                *)
(***************************************************************************)
EXTENDS LoadBalancer_proofs

StepOf(r) == Reject(r) \/ Arrive(r) \/ Cancel(r) \/ CommitStream(r) \/ Handler(r)

PoolStep == StartRefresh \/ CancelRefresh \/ Refresher \/ Prune \/ Tick

(* The answer begins only where a body is relayed, and from there no path  *)
(* leads back to the candidates; a handler that ends without one saw its   *)
(* client leave.                                                           *)
Path(r) ==
  /\ reply[r] # "none" =>
       pc[r] \in {"body", "block", "release", "recordLate", "recordSuccess", "done"}
  /\ reply[r] # "none" /\ pc[r] # "done" => reply[r] = "relayed"
  /\ pc[r] = "block" => outcome[r] = "marker"
  /\ pc[r] = "record" => outcome[r] \in {"transport", "readError", "status"}
  /\ pc[r] = "release" /\ reply[r] # "none" => outcome[r] \in {"marker", "copyError", "copied"}
  /\ pc[r] = "release" /\ outcome[r] \in {"copyError", "copied"} => reply[r] # "none"
  /\ pc[r] \in {"recordLate", "recordSuccess"} => reply[r] # "none"
  /\ pc[r] = "release" /\ outcome[r] = "cancelled" => cancelled[r]
  /\ pc[r] = "done" => reply[r] # "none" \/ cancelled[r]

Paths == \A r \in Requests : Path(r)

Untouched(q) ==
  /\ pc'[q] = pc[q] /\ ordered'[q] = ordered[q] /\ tried'[q] = tried[q]
  /\ pass'[q] = pass[q] /\ attempt'[q] = attempt[q] /\ provider'[q] = provider[q]
  /\ holding'[q] = holding[q] /\ outcome'[q] = outcome[q]
  /\ reply'[q] = reply[q] /\ cancelled'[q] = cancelled[q]

(* Handlers share nothing but the pool.                                    *)
LEMMA OthersUntouched ==
  ASSUME IInv, NEW r \in Requests, StepOf(r), NEW q \in Requests, q # r
  PROVE  Untouched(q)
<1> USE DEF IInv, RequestTypeOK, Untouched, Goto, Finish, loopVars, attemptVars
<1>1. CASE Reject(r) \/ Cancel(r) \/ CommitStream(r) \/ LeavePass(r) \/ DelayOver(r)
           \/ DelayCancelled(r) \/ BlockMarked(r) \/ RecordFailure(r) \/ Release(r)
           \/ RecordLate(r)
  BY <1>1 DEF Reject, Cancel, CommitStream, LeavePass, DelayOver, DelayCancelled,
              BlockMarked, RecordFailure, Release, RecordLate
<1>2. CASE PostFails(r) \/ PostAnswers(r) \/ BodyEnds(r) \/ ErrorBodyEnds(r)
  <2>1. \E result \in Outcomes, next \in InFlight : Conclude(r, result, next)
    BY <1>2 DEF PostFails, PostAnswers, BodyEnds, ErrorBodyEnds, Outcomes, InFlight
  <2>2. reply'[q] = reply[q]
    BY <1>2 DEF PostFails, PostAnswers, BodyEnds, ErrorBodyEnds
  <2> QED
    BY <2>1, <2>2 DEF Conclude
<1>3. CASE Arrive(r)
  <2>1. ordered'[q] = ordered[q]
    BY <1>3 DEF Arrive
  <2>2. pc'[q] = pc[q] /\ reply'[q] = reply[q]
    BY <1>3 DEF Arrive
  <2> QED
    BY <1>3, <2>1, <2>2 DEF Arrive
<1>4. CASE EndPass(r)
  BY <1>4 DEF EndPass
<1>5. CASE Acquire(r)
  <2>1. tried'[q] = tried[q] /\ provider'[q] = provider[q]
    BY <1>5 DEF Acquire
  <2> QED
    BY <1>5, <2>1 DEF Acquire
<1> QED
  BY <1>1, <1>2, <1>3, <1>4, <1>5 DEF StepOf, Handler

LEMMA PoolStepUntouched ==
  ASSUME PoolStep \/ UNCHANGED vars, NEW q \in Requests
  PROVE  Untouched(q) /\ UNCHANGED requestVars
<1>1. UNCHANGED requestVars
  BY DEF PoolStep, StartRefresh, CancelRefresh, Refresher, TakeTargets, NextTarget,
         FetchSucceeds, FetchMarked, FetchFails, Prune, Tick, vars
<1> QED
  BY <1>1 DEF requestVars, loopVars, attemptVars, Untouched

-----------------------------------------------------------------------------
(* The paths through the handler.                                          *)
LEMMA OwnPath ==
  ASSUME IInv, NEW r \in Requests, StepOf(r), Path(r)
  PROVE  Path(r)'
<1> USE DEF IInv, RequestTypeOK, Goto, Finish, loopVars, attemptVars
<1>1. CASE Reject(r) \/ Cancel(r) \/ CommitStream(r)
  BY <1>1 DEF Path, Reject, Cancel, CommitStream
<1>2. CASE Arrive(r)
  <2>1. /\ pc[r] = "idle"
        /\ \/ pc'[r] = "done" /\ reply'[r] = "rejected"
           \/ pc'[r] = "acquire" /\ reply'[r] = reply[r]
        /\ outcome'[r] = outcome[r] /\ cancelled'[r] = cancelled[r]
    BY <1>2 DEF Arrive
  <2> QED
    BY <2>1 DEF Path
<1>3. CASE LeavePass(r) \/ DelayOver(r) \/ DelayCancelled(r)
  BY <1>3 DEF Path, LeavePass, DelayOver, DelayCancelled
<1>4. CASE EndPass(r)
  <2>1. /\ pc[r] = "passEnd"
        /\ \/ pc'[r] \in {"delay", "acquire"} /\ reply'[r] = reply[r]
           \/ pc'[r] = "done" /\ reply'[r] \in {"upstreamError", "badGateway"}
        /\ outcome'[r] = outcome[r] /\ cancelled'[r] = cancelled[r]
    BY <1>4 DEF EndPass
  <2> QED
    BY <2>1 DEF Path
<1>5. CASE Acquire(r)
  BY <1>5 DEF Path, Acquire
<1>6. CASE PostFails(r) \/ PostAnswers(r)
  BY <1>6 DEF Path, PostFails, PostAnswers, Conclude
<1>7. CASE BodyEnds(r) \/ ErrorBodyEnds(r)
  BY <1>7 DEF Path, BodyEnds, ErrorBodyEnds, Conclude
<1>8. CASE BlockMarked(r) \/ RecordFailure(r) \/ RecordLate(r)
  <2>1. /\ \/ pc[r] \in {"block", "record"} /\ pc'[r] = "release"
           \/ pc[r] \in {"recordLate", "recordSuccess"} /\ pc'[r] = "done"
        /\ UNCHANGED <<outcome, reply, cancelled>>
    BY <1>8 DEF BlockMarked, RecordFailure, RecordLate
  <2>2. pc[r] = "record" => outcome[r] \in {"transport", "readError", "status"}
    BY DEF Path
  <2> QED
    BY <2>1, <2>2 DEF Path
<1>9. CASE Release(r)
  <2>1. /\ pc[r] = "release" /\ pc'[r] = AfterRelease(r)
        /\ reply'[r] = reply[r] /\ cancelled'[r] = cancelled[r]
    BY <1>9 DEF Release
  <2>2. CASE outcome[r] \in {"cancelled", "marker"}
    BY <2>1, <2>2 DEF Path, AfterRelease
  <2>3. CASE outcome[r] \in {"copyError", "copied"}
    BY <2>1, <2>3 DEF Path, AfterRelease
  <2>4. CASE outcome[r] \notin {"cancelled", "marker", "copyError", "copied"}
    BY <2>1, <2>4 DEF Path, AfterRelease
  <2> QED
    BY <2>2, <2>3, <2>4
<1> QED
  BY <1>1, <1>2, <1>3, <1>4, <1>5, <1>6, <1>7, <1>8, <1>9 DEF StepOf, Handler

LEMMA PathsKept ==
  ASSUME IInv, Paths, [Next]_vars
  PROVE  Paths'
<1> SUFFICES ASSUME NEW q \in Requests
             PROVE  Path(q)'
  BY DEF Paths
<1>1. Path(q)
  BY DEF Paths
<1>2. CASE Untouched(q)
  BY <1>1, <1>2 DEF Path, Untouched
<1>3. CASE StepOf(q)
  BY <1>1, <1>3, OwnPath
<1>4. CASE \E r \in Requests \ {q} : StepOf(r)
  BY <1>2, <1>4, OthersUntouched
<1>5. CASE PoolStep \/ UNCHANGED vars
  BY <1>2, <1>5, PoolStepUntouched
<1> QED
  BY <1>3, <1>4, <1>5 DEF Next, StepOf, PoolStep

(* A handler's place and its answer always fit (handleAPIRequest).         *)
THEOREM PathsInvariant == Spec => []Paths
<1>1. Init => Paths
  BY DEF Init, Paths, Path
<1>2. IInv /\ Paths /\ [Next]_vars => Paths'
  BY PathsKept
<1> QED
  BY <1>1, <1>2, Invariance, PTL DEF Spec

(* The handler returns without an answer only when its client has gone.    *)
THEOREM EveryRequestAnswered == Spec => []NoSilentDrop
<1>1. Paths => NoSilentDrop
  BY DEF Paths, Path, NoSilentDrop
<1> QED
  BY <1>1, PathsInvariant, PTL

(* A step of its handler neither tries an answered request on another      *)
(* provider nor answers it again.                                          *)
LEMMA OwnReplyFinal ==
  ASSUME IInv, NEW r \in Requests, StepOf(r), Path(r), reply[r] # "none"
  PROVE  attempt'[r] = attempt[r] /\ reply'[r] = reply[r]
<1> USE DEF IInv, RequestTypeOK, Goto, Finish, loopVars, attemptVars
<1>1. pc[r] \in {"body", "block", "release", "recordLate", "recordSuccess", "done"}
  BY DEF Path
<1>2. pc[r] # "done" => reply[r] = "relayed"
  BY DEF Path
<1>3. CASE Cancel(r) \/ CommitStream(r) \/ BlockMarked(r) \/ Release(r) \/ RecordLate(r)
  BY <1>3 DEF Cancel, CommitStream, BlockMarked, Release, RecordLate
<1>4. CASE BodyEnds(r)
  BY <1>2, <1>4 DEF BodyEnds, Conclude
<1>5. CASE \/ Reject(r) \/ Arrive(r) \/ Acquire(r) \/ LeavePass(r) \/ EndPass(r)
           \/ DelayOver(r) \/ DelayCancelled(r) \/ PostFails(r) \/ PostAnswers(r)
           \/ ErrorBodyEnds(r) \/ RecordFailure(r)
  BY <1>1, <1>5 DEF Reject, Arrive, Acquire, LeavePass, EndPass, DelayOver, DelayCancelled,
                    PostFails, PostAnswers, ErrorBodyEnds, RecordFailure
<1> QED
  BY <1>3, <1>4, <1>5 DEF StepOf, Handler

(* Once the client has been sent anything, the request is neither tried on *)
(* another provider nor answered again.                                    *)
THEOREM AnswerIsFinal == Spec => NoRetryAfterReply
<1>1. IInv /\ Paths /\ [Next]_vars =>
        [\A r \in Requests : reply[r] # "none" => ~Acquires(r) /\ reply'[r] = reply[r]]_vars
  <2> SUFFICES ASSUME IInv, Paths, [Next]_vars, NEW q \in Requests, reply[q] # "none"
               PROVE  attempt'[q] = attempt[q] /\ reply'[q] = reply[q]
    BY DEF Acquires
  <2>1. CASE StepOf(q)
    BY <2>1, OwnReplyFinal DEF Paths
  <2>2. CASE \E r \in Requests \ {q} : StepOf(r)
    BY <2>2, OthersUntouched DEF Untouched
  <2>3. CASE PoolStep \/ UNCHANGED vars
    BY <2>3, PoolStepUntouched DEF Untouched
  <2> QED
    BY <2>1, <2>2, <2>3 DEF Next, StepOf, PoolStep
<1> QED
  BY <1>1, Invariance, PathsInvariant, PTL DEF Spec, NoRetryAfterReply

-----------------------------------------------------------------------------
(* The refs a handler keeps over its whole life.                           *)

(* The refs of a number handed out which, where they are still live, say   *)
(* what the table says.                                                    *)
HonestRefs ==
  {ref \in Ref : /\ ref.generation < nextProviderGeneration
                 /\ Live(ref) => ref = RefOf(ref.id)}

Known(r) ==
  /\ \A i \in DOMAIN ordered[r] : ordered[r][i] \in HonestRefs
  /\ pc[r] \in InFlight \cup {"recordLate", "recordSuccess"} => provider[r] \in HonestRefs

(* What any step does to the table's shells.                               *)
KeptOrFresh ==
  /\ nextProviderGeneration <= nextProviderGeneration'
  /\ \A id \in DOMAIN providers' :
       \/ /\ id \in DOMAIN providers
          /\ providers'[id].generation = providers[id].generation
          /\ providers'[id].tier = providers[id].tier
       \/ providers'[id].generation >= nextProviderGeneration

(* A ref whose shell is still there is the one the table gives.            *)
LEMMA RefOfHonest ==
  ASSUME IInv, NEW id \in DOMAIN providers
  PROVE  RefOf(id) \in HonestRefs /\ Live(RefOf(id)) /\ RefOf(id).id = id
BY DEF HonestRefs, RefOf, RefIn, Ref, Live, IInv, PoolInv, PoolTypeOK, Provider, GenerationsUnique

LEMMA SameShellsKept ==
  ASSUME IInv, SameShells
  PROVE  KeptOrFresh
BY DEF SameShells, KeptOrFresh, IInv, PoolInv, PoolTypeOK

LEMMA UnchangedKept ==
  ASSUME IInv, UNCHANGED poolVars
  PROVE  KeptOrFresh
BY DEF poolVars, KeptOrFresh, IInv, PoolInv, PoolTypeOK

LEMMA NextKept ==
  ASSUME IInv, [Next]_vars
  PROVE  KeptOrFresh
<1>1. CASE UNCHANGED vars
  BY <1>1, UnchangedKept DEF vars
<1>2. ASSUME NEW r \in Requests, StepOf(r)
      PROVE  KeptOrFresh
  <2>1. CASE \/ Reject(r) \/ Arrive(r) \/ Cancel(r) \/ CommitStream(r) \/ LeavePass(r)
             \/ EndPass(r) \/ DelayOver(r) \/ DelayCancelled(r) \/ PostFails(r)
             \/ PostAnswers(r) \/ BodyEnds(r) \/ ErrorBodyEnds(r)
    <3>1. UNCHANGED poolVars
      BY <2>1 DEF Reject, Arrive, Cancel, CommitStream, LeavePass, EndPass, DelayOver,
                  DelayCancelled, PostFails, PostAnswers, BodyEnds, ErrorBodyEnds, Conclude
    <3> QED
      BY <3>1, UnchangedKept
  <2>2. CASE Acquire(r)
    <3>1. PICK i \in Open(r) : Occupy(RefOf(ordered[r][i].id))
      BY <2>2 DEF Acquire
    <3>2. ordered[r][i].id \in DOMAIN providers
      BY <3>1 DEF Open, Available, Live
    <3>3. Live(RefOf(ordered[r][i].id))
      BY <3>2, RefOfHonest
    <3>4. SameShells
      BY <3>1, <3>3, OccupyInv DEF IInv
    <3> QED
      BY <3>4, SameShellsKept
  <2>3. CASE Release(r)
    <3>1. CASE holding[r]
      <4>1. SameShells
        BY <2>3, <3>1, ReleaseProviderInv DEF Release, IInv
      <4> QED
        BY <4>1, SameShellsKept
    <3>2. CASE ~holding[r]
      BY <2>3, <3>2, UnchangedKept DEF Release
    <3> QED
      BY <3>1, <3>2
  <2>4. CASE BlockMarked(r)
    <3>1. provider[r] \in Ref
      BY <2>4 DEF BlockMarked, IInv, HeldExactlyInFlight, HeldRefs, InFlight
    <3>2. SameShells
      BY <2>4, <3>1, BlockProviderInv DEF BlockMarked, IInv
    <3> QED
      BY <3>2, SameShellsKept
  <2>5. CASE RecordFailure(r) \/ RecordLate(r)
    <3>1. SameShells
      BY <2>5, RecordProviderFailureInv, RecordProviderSuccessInv
         DEF RecordFailure, RecordLate, IInv
    <3> QED
      BY <3>1, SameShellsKept
  <2> QED
    BY <1>2, <2>1, <2>2, <2>3, <2>4, <2>5 DEF StepOf, Handler
<1>3. CASE StartRefresh
  <2>1. PICK cfg \in ConfigFiles : Reconcile(cfg)
    BY <1>3 DEF StartRefresh
  <2>2. ShellsKeptOrFresh
    BY <2>1, ReconcileInv, LoadBalancerAssumption DEF IInv
  <2> QED
    BY <2>2 DEF ShellsKeptOrFresh, KeptOrFresh
<1>4. CASE CancelRefresh \/ TakeTargets \/ NextTarget
  BY <1>4, UnchangedKept DEF CancelRefresh, TakeTargets, NextTarget
<1>5. CASE FetchSucceeds \/ FetchFails
  <2>1. \A t \in refresh.current : Serves[t.connection] \subseteq SUBSET Models
    BY PoolAssumption DEF IInv, Refresh, Target
  <2>2. \E t \in refresh.current, models \in SUBSET Models : ReplaceProviderModels(t.ref, models)
    BY <1>5, <2>1 DEF FetchSucceeds, FetchFails, MarkProviderModelsUnavailable
  <2>3. SameShells
    BY <2>2, ReplaceProviderModelsInv DEF IInv
  <2> QED
    BY <2>3, SameShellsKept
<1>6. CASE FetchMarked
  <2>1. PICK t \in refresh.current : BlockProvider(t.ref)
    BY <1>6 DEF FetchMarked
  <2>2. t.ref \in Ref
    BY DEF IInv, Refresh, Target
  <2>3. SameShells
    BY <2>1, <2>2, BlockProviderInv DEF IInv
  <2> QED
    BY <2>3, SameShellsKept
<1>7. CASE Prune \/ Tick
  <2>1. SameShells
    BY <1>7, PruneInv, ElapseInv DEF Prune, Tick, IInv
  <2> QED
    BY <2>1, SameShellsKept
<1> QED
  BY <1>1, <1>2, <1>3, <1>4, <1>5, <1>6, <1>7 DEF Next, StepOf, Refresher

LEMMA HonestKept ==
  ASSUME IInv, IInv', KeptOrFresh
  PROVE  HonestRefs \subseteq HonestRefs'
<1> SUFFICES ASSUME NEW ref \in HonestRefs
             PROVE  ref \in HonestRefs'
  OBVIOUS
<1>1. /\ ref \in Ref /\ ref.generation \in Nat
      /\ nextProviderGeneration \in Nat /\ nextProviderGeneration' \in Nat
      /\ nextProviderGeneration <= nextProviderGeneration'
      /\ ref.generation < nextProviderGeneration
  BY DEF HonestRefs, Ref, IInv, PoolInv, PoolTypeOK, KeptOrFresh
<1>2. ASSUME Live(ref)'
      PROVE  ref = RefOf(ref.id)'
  <2>1. /\ ref.id \in DOMAIN providers'
        /\ providers'[ref.id].generation = ref.generation
    BY <1>2 DEF Live
  <2>2. /\ ref.id \in DOMAIN providers
        /\ providers'[ref.id].generation = providers[ref.id].generation
        /\ providers'[ref.id].tier = providers[ref.id].tier
    BY <1>1, <2>1 DEF KeptOrFresh
  <2>3. ref = RefOf(ref.id)
    BY <2>1, <2>2 DEF Live, HonestRefs
  <2> QED
    BY <2>2, <2>3 DEF RefOf, RefIn
<1> QED
  BY <1>1, <1>2 DEF HonestRefs

(* acquire hands out the very candidate it looked at, of the shell the     *)
(* table has under its ID.                                                 *)
LEMMA AcquireChoice ==
  ASSUME IInv, NEW r \in Requests, Known(r), Acquire(r)
  PROVE  \E i \in Open(r) :
           /\ Choice(r, i)
           /\ ordered[r][i] = RefOf(ordered[r][i].id)
           /\ ordered[r][i].id \in DOMAIN providers
           /\ ~Blocked(ordered[r][i].id)
           /\ provider' = [provider EXCEPT ![r] = ordered[r][i]]
           /\ tried' = [tried EXCEPT ![r] = @ \cup {ordered[r][i]}]
<1>1. PICK i \in Open(r) :
         /\ Choice(r, i)
         /\ provider' = [provider EXCEPT ![r] = RefOf(ordered[r][i].id)]
         /\ tried' = [tried EXCEPT ![r] = @ \cup {RefOf(ordered[r][i].id)}]
  BY DEF Acquire
<1>2. i \in DOMAIN ordered[r] /\ Available(ordered[r][i])
  BY DEF Open
<1>3. /\ ordered[r][i] = RefOf(ordered[r][i].id)
      /\ ordered[r][i].id \in DOMAIN providers
      /\ ~Blocked(ordered[r][i].id)
  BY <1>2 DEF Available, Live, Known, HonestRefs
<1> QED
  BY <1>1, <1>3

(* Only acquire starts an attempt.                                         *)
LEMMA OnlyAcquire ==
  ASSUME IInv, [Next]_vars, NEW q \in Requests, Acquires(q)
  PROVE  Acquire(q)
<1> USE DEF Acquires
<1>1. CASE StepOf(q) /\ ~Acquire(q)
  <2>1. UNCHANGED attempt
    BY <1>1 DEF StepOf, Handler, Reject, Arrive, Cancel, CommitStream, LeavePass, EndPass,
                DelayOver, DelayCancelled, PostFails, PostAnswers, BodyEnds, ErrorBodyEnds,
                Conclude, BlockMarked, RecordFailure, Release, RecordLate, loopVars
  <2> QED
    BY <2>1
<1>2. CASE \E r \in Requests \ {q} : StepOf(r)
  BY <1>2, OthersUntouched DEF Untouched
<1>3. CASE PoolStep \/ UNCHANGED vars
  BY <1>3, PoolStepUntouched DEF Untouched
<1> QED
  BY <1>1, <1>2, <1>3 DEF Next, StepOf, PoolStep

(* What the candidates are taken from.                                     *)
LEMMA ArriveHonest ==
  ASSUME IInv, NEW r \in Requests, Arrive(r), NEW i \in DOMAIN ordered'[r],
         \A j \in DOMAIN ordered[r] : ordered[r][j] \in HonestRefs
  PROVE  ordered'[r][i] \in HonestRefs
<1>1. CASE modelProviders[model[r]] = {}
  BY <1>1 DEF Arrive
<1>2. CASE modelProviders[model[r]] # {}
  <2>1. PICK s \in Orderings(modelProviders[model[r]]) : ordered' = [ordered EXCEPT ![r] = s]
    BY <1>2 DEF Arrive
  <2>2. s = ordered'[r] /\ model[r] \in Models
    BY <2>1 DEF IInv, RequestTypeOK
  <2>3. s[i] \in modelProviders[model[r]]
    BY <2>2 DEF Orderings, Bijection, Injection
  <2>4. modelProviders[model[r]] = {RefIn(providers, id) : id \in
           {k \in DOMAIN providers : model[r] \in providers[k].models}}
    BY <2>2 DEF IInv, PoolInv, IndexConsistent, IndexOf
  <2>5. PICK id \in DOMAIN providers : s[i] = RefOf(id)
    BY <2>3, <2>4 DEF RefOf
  <2> QED
    BY <2>2, <2>5, RefOfHonest
<1> QED
  BY <1>1, <1>2

LEMMA OwnKnown ==
  ASSUME IInv, NEW r \in Requests, StepOf(r), Known(r)
  PROVE  /\ \A i \in DOMAIN ordered'[r] : ordered'[r][i] \in HonestRefs
         /\ pc'[r] \in InFlight \cup {"recordLate", "recordSuccess"} => provider'[r] \in HonestRefs
<1> USE DEF IInv, RequestTypeOK, Goto, Finish, loopVars, attemptVars
<1>1. CASE Arrive(r)
  <2>1. pc'[r] \in {"acquire", "done"}
    BY <1>1 DEF Arrive
  <2>2. \A i \in DOMAIN ordered'[r] : ordered'[r][i] \in HonestRefs
    BY <1>1, ArriveHonest DEF Known
  <2> QED
    BY <2>1, <2>2 DEF InFlight
<1>2. CASE Acquire(r)
  <2>1. PICK i \in Open(r) : provider' = [provider EXCEPT ![r] = ordered[r][i]]
    BY <1>2, AcquireChoice
  <2>2. ordered' = ordered /\ i \in DOMAIN ordered[r] /\ provider'[r] = ordered[r][i]
    BY <1>2, <2>1 DEF Acquire, Open
  <2> QED
    BY <2>2 DEF Known
<1>3. CASE ~Arrive(r) /\ ~Acquire(r)
  <2>1. ordered' = ordered /\ provider' = provider
    BY <1>3 DEF StepOf, Handler, Reject, Cancel, CommitStream, LeavePass, EndPass,
                DelayOver, DelayCancelled, PostFails, PostAnswers, BodyEnds, ErrorBodyEnds,
                Conclude, BlockMarked, RecordFailure, Release, RecordLate
  <2>2. pc'[r] \in InFlight \cup {"recordLate", "recordSuccess"} =>
          pc[r] \in InFlight \cup {"recordLate", "recordSuccess"}
    <3>1. CASE Reject(r) \/ Cancel(r) \/ CommitStream(r) \/ LeavePass(r) \/ EndPass(r)
               \/ DelayOver(r) \/ DelayCancelled(r)
      BY <3>1 DEF Reject, Cancel, CommitStream, LeavePass, EndPass, DelayOver,
                  DelayCancelled, InFlight
    <3>2. CASE PostFails(r) \/ PostAnswers(r) \/ BodyEnds(r) \/ ErrorBodyEnds(r)
               \/ BlockMarked(r) \/ RecordFailure(r) \/ Release(r) \/ RecordLate(r)
      BY <3>2 DEF PostFails, PostAnswers, BodyEnds, ErrorBodyEnds, BlockMarked,
                  RecordFailure, Release, RecordLate, InFlight
    <3> QED
      BY <1>3, <3>1, <3>2 DEF StepOf, Handler
  <2> QED
    BY <2>1, <2>2 DEF Known
<1> QED
  BY <1>1, <1>2, <1>3

LEMMA KnownKept ==
  ASSUME IInv, IInv', \A r \in Requests : Known(r), [Next]_vars, NEW q \in Requests
  PROVE  Known(q)'
<1>1. Known(q)
  OBVIOUS
<1>2. /\ \A i \in DOMAIN ordered'[q] : ordered'[q][i] \in HonestRefs
      /\ pc'[q] \in InFlight \cup {"recordLate", "recordSuccess"} => provider'[q] \in HonestRefs
  <2>1. CASE StepOf(q)
    BY <1>1, <2>1, OwnKnown
  <2>2. CASE Untouched(q)
    BY <1>1, <2>2 DEF Known, Untouched
  <2>3. CASE \E r \in Requests \ {q} : StepOf(r)
    BY <2>2, <2>3, OthersUntouched
  <2>4. CASE PoolStep \/ UNCHANGED vars
    BY <2>2, <2>4, PoolStepUntouched
  <2> QED
    BY <2>1, <2>3, <2>4 DEF Next, StepOf, PoolStep
<1>3. KeptOrFresh
  BY NextKept
<1>4. \A i \in DOMAIN ordered'[q] : ordered'[q][i] \in HonestRefs'
  BY <1>2, <1>3, HonestKept
<1>5. pc'[q] \in InFlight \cup {"recordLate", "recordSuccess"} => provider'[q] \in HonestRefs'
  BY <1>2, <1>3, HonestKept
<1> QED
  BY <1>4, <1>5 DEF Known

AllKnown == \A r \in Requests : Known(r)

(* Every ref a handler keeps was handed out, so none it has is renewed     *)
(* (acquire, reconcile).                                                   *)
THEOREM KnownInvariant == Spec => []AllKnown
<1>1. Init => AllKnown
  BY DEF Init, AllKnown, Known, InFlight
<1>2. IInv /\ IInv' /\ AllKnown /\ [Next]_vars => AllKnown'
  BY KnownKept DEF AllKnown
<1> QED
  BY <1>1, <1>2, Invariance, PTL DEF Spec

(* A ref whose shell was replaced or removed never names one again, though *)
(* its provider ID returns (nextProviderGeneration).                       *)
THEOREM DeadRefsNeverReturn == Spec => DeadRefsStayDead
<1>1. IInv /\ IInv' /\ AllKnown /\ [Next]_vars =>
        [\A r \in Requests : \A ref \in Candidates(r) : ~Live(ref) => ~Live(ref)']_vars
  <2> SUFFICES ASSUME IInv, IInv', AllKnown, [Next]_vars, NEW r \in Requests,
                      NEW ref \in Candidates(r), ~Live(ref), Live(ref)'
               PROVE  FALSE
    OBVIOUS
  <2>1. ref \in Ref /\ ref.generation < nextProviderGeneration
    BY DEF Candidates, Range, AllKnown, Known, HonestRefs
  <2>2. /\ ref.id \in DOMAIN providers'
        /\ providers'[ref.id].generation = ref.generation
    BY DEF Live
  <2>3. providers'[ref.id].generation >= nextProviderGeneration
    BY <2>2, NextKept DEF KeptOrFresh, Live
  <2> QED
    BY <2>1, <2>2, <2>3 DEF Ref, IInv, PoolInv, PoolTypeOK
<1> QED
  BY <1>1, Invariance, KnownInvariant, PTL DEF Spec, DeadRefsStayDead

-----------------------------------------------------------------------------
(* Whom acquire may choose.                                                *)
LEMMA BlocksGrow ==
  ASSUME IInv, [Next]_vars
  PROVE  blockedProviderIDs \subseteq blockedProviderIDs'
<1>1. ASSUME NEW r \in Requests, StepOf(r)
      PROVE  blockedProviderIDs \subseteq blockedProviderIDs'
  BY <1>1 DEF StepOf, Handler, Reject, Arrive, Cancel, CommitStream, LeavePass, EndPass,
              DelayOver, DelayCancelled, PostFails, PostAnswers, BodyEnds, ErrorBodyEnds,
              Conclude, Acquire, BlockMarked, RecordFailure, Release, RecordLate, poolVars,
              Occupy, ReleaseProvider, BlockProvider, RecordProviderFailure,
              RecordProviderSuccess, Update
<1>2. CASE StartRefresh
  BY <1>2 DEF StartRefresh, Reconcile, Publish
<1>3. CASE CancelRefresh \/ TakeTargets \/ NextTarget \/ Prune \/ Tick \/ UNCHANGED vars
  BY <1>3 DEF CancelRefresh, TakeTargets, NextTarget, Prune, Tick, PruneProviderFailures,
              Elapse, vars, poolVars
<1>4. CASE FetchSucceeds \/ FetchMarked \/ FetchFails
  BY <1>4 DEF FetchSucceeds, FetchMarked, FetchFails, MarkProviderModelsUnavailable,
              ReplaceProviderModels, Publish, BlockProvider
<1> QED
  BY <1>1, <1>2, <1>3, <1>4 DEF Next, StepOf, Refresher

(* A block is for the life of the process: through prune, refresh, removal *)
(* and return of the ID, no request acquires the provider again.           *)
THEOREM BlocksAreForLife == Spec => BlockedStaysOut
<1>1. IInv /\ AllKnown /\ [Next]_vars =>
        [/\ blockedProviderIDs \subseteq blockedProviderIDs'
         /\ \A r \in Requests : Acquires(r) => provider'[r].id \notin blockedProviderIDs]_vars
  <2> SUFFICES ASSUME IInv, AllKnown, [Next]_vars, NEW r \in Requests, Acquires(r)
               PROVE  provider'[r].id \notin blockedProviderIDs
    BY BlocksGrow
  <2>1. PICK i \in Open(r) : /\ ~Blocked(ordered[r][i].id)
                             /\ provider' = [provider EXCEPT ![r] = ordered[r][i]]
    BY OnlyAcquire, AcquireChoice DEF AllKnown
  <2> QED
    BY <2>1 DEF IInv, RequestTypeOK, Blocked
<1> QED
  BY <1>1, Invariance, KnownInvariant, PTL DEF Spec, BlockedStaysOut

(* acquire never passes over an untried, available candidate of a lower    *)
(* tier, nor an idle one of the same tier for a busy one.                  *)
THEOREM LowestTierFirst == Spec => TierDiscipline
<1>1. IInv /\ AllKnown /\ [Next]_vars =>
        [\A r \in Requests : Acquires(r) =>
           LET chosen == providers[provider'[r].id] IN
           \A ref \in Candidates(r) \ tried[r] : Available(ref) =>
             /\ chosen.tier <= providers[ref.id].tier
             /\ chosen.tier = providers[ref.id].tier /\ Idle(ref) => chosen.busy = 0]_vars
  <2> SUFFICES ASSUME IInv, AllKnown, [Next]_vars, NEW r \in Requests, Acquires(r),
                      NEW ref \in Candidates(r) \ tried[r], Available(ref)
               PROVE  /\ providers[provider'[r].id].tier <= providers[ref.id].tier
                      /\ providers[provider'[r].id].tier = providers[ref.id].tier /\ Idle(ref)
                           => providers[provider'[r].id].busy = 0
    OBVIOUS
  <2>1. PICK i \in Open(r) : /\ Choice(r, i)
                             /\ ordered[r][i] = RefOf(ordered[r][i].id)
                             /\ provider' = [provider EXCEPT ![r] = ordered[r][i]]
    BY OnlyAcquire, AcquireChoice DEF AllKnown
  <2>2. provider'[r] = ordered[r][i]
    BY <2>1 DEF IInv, RequestTypeOK
  <2>3. PICK k \in DOMAIN ordered[r] : ref = ordered[r][k]
    BY DEF Candidates, Range
  <2>4. k \in Open(r)
    BY <2>3 DEF Open
  <2>5. ref = RefOf(ref.id)
    BY <2>3 DEF AllKnown, Known, HonestRefs, Available
  <2>6. /\ ordered[r][i].tier = providers[provider'[r].id].tier
        /\ ordered[r][k].tier = providers[ref.id].tier
    BY <2>1, <2>2, <2>3, <2>5 DEF RefOf, RefIn
  <2> DEFINE lowest == {x \in Open(r) : \A j \in Open(r) :
                          ordered[r][x].tier <= ordered[r][j].tier}
             idle == {x \in lowest : Idle(ordered[r][x])}
  <2>7. i \in IF idle # {} THEN idle ELSE lowest
    BY <2>1 DEF Choice
  <2>8. i \in lowest
    BY <2>7
  <2>9. ordered[r][i].tier <= ordered[r][k].tier
    BY <2>4, <2>8
  <2>10. CASE ordered[r][i].tier = ordered[r][k].tier /\ Idle(ref)
    <3>1. k \in lowest
      BY <2>4, <2>8, <2>10
    <3>2. k \in idle
      BY <2>3, <2>10, <3>1
    <3>3. Idle(ordered[r][i])
      BY <2>7, <3>2
    <3> QED
      BY <2>2, <2>6, <2>9, <3>3 DEF Idle
  <2> QED
    BY <2>6, <2>9, <2>10
<1> QED
  BY <1>1, Invariance, KnownInvariant, PTL DEF Spec, TierDiscipline

-----------------------------------------------------------------------------
(* Whom failures are charged to.                                           *)
Charged(id) ==
  /\ id \in DOMAIN providers \cap DOMAIN providers'
  /\ providers'[id].consecutiveFailures > providers[id].consecutiveFailures

LEMMA UpdateOne ==
  ASSUME PoolInv, NEW ref, NEW record, Update(ref, record), NEW id \in DOMAIN providers
  PROVE  \/ providers'[id] = providers[id]
         \/ Live(ref) /\ id = ref.id /\ providers'[id] = record
BY DEF Update, PoolInv, PoolTypeOK, Live

LEMMA BlockCounts ==
  ASSUME NEW record \in Provider
  PROVE  [record EXCEPT !.blocked = TRUE, !.coolingLeft = 0].consecutiveFailures
           = record.consecutiveFailures
<1>1. PICK b \in BOOLEAN : b = TRUE
  OBVIOUS
<1>2. [record EXCEPT !.blocked = b, !.coolingLeft = 0].consecutiveFailures
        = record.consecutiveFailures
  BY DEF Provider
<1> QED
  BY <1>1, <1>2

LEMMA FailureCounts ==
  ASSUME PoolInv, NEW id \in DOMAIN providers
  PROVE  providers[id] \in Provider /\ providers[id].consecutiveFailures \in Nat
BY DEF PoolInv, PoolTypeOK, Provider

(* The steps of a handler that record no failure charge none.              *)
LEMMA UncountedStep ==
  ASSUME IInv, NEW r \in Requests, StepOf(r), ~RecordFailure(r),
         ~(RecordLate(r) /\ pc[r] = "recordLate"), NEW id
  PROVE  ~Charged(id)
<1> SUFFICES ASSUME Charged(id)
             PROVE  FALSE
  OBVIOUS
<1>1. /\ id \in DOMAIN providers /\ providers[id] \in Provider
      /\ providers[id].consecutiveFailures \in Nat
      /\ providers'[id].consecutiveFailures > providers[id].consecutiveFailures
  BY FailureCounts DEF Charged, IInv
<1>2. CASE UNCHANGED poolVars
  BY <1>1, <1>2 DEF poolVars
<1>3. CASE Acquire(r)
  <2>1. PICK ref : Update(ref, [providers[ref.id] EXCEPT !.busy = @ + 1])
    BY <1>3 DEF Acquire, Occupy
  <2>2. id = ref.id /\ providers'[id] = [providers[id] EXCEPT !.busy = @ + 1]
    BY <1>1, <2>1, UpdateOne DEF IInv
  <2> QED
    BY <1>1, <2>2 DEF Provider
<1>4. CASE Release(r) /\ holding[r]
  <2>1. PICK ref : ref = provider[r]
    OBVIOUS
  <2>2. Update(ref, [providers[ref.id] EXCEPT !.busy = IF @ > 0 THEN @ - 1 ELSE 0])
    BY <1>4, <2>1 DEF Release, ReleaseProvider
  <2>3. /\ id = ref.id
        /\ providers'[id] = [providers[id] EXCEPT !.busy = IF @ > 0 THEN @ - 1 ELSE 0]
    BY <1>1, <2>2, UpdateOne DEF IInv
  <2> QED
    BY <1>1, <2>3 DEF Provider
<1>5. CASE BlockMarked(r)
  <2>1. \/ providers'[id] = providers[id]
        \/ providers'[id] = [providers[id] EXCEPT !.blocked = TRUE, !.coolingLeft = 0]
    BY <1>1, <1>5 DEF BlockMarked, BlockProvider, IInv, PoolInv, PoolTypeOK
  <2>b. providers'[id].consecutiveFailures = providers[id].consecutiveFailures
    <3>1. CASE providers'[id] = providers[id]
      BY <3>1
    <3>2. CASE providers'[id] = [providers[id] EXCEPT !.blocked = TRUE, !.coolingLeft = 0]
      BY <1>1, <3>2, BlockCounts, Zenon
    <3> QED
      BY <2>1, <3>1, <3>2
  <2> QED
    BY <1>1, <2>b
<1>6. CASE RecordLate(r) /\ pc[r] = "recordSuccess"
  <2>1. PICK ref : ref = provider[r]
    OBVIOUS
  <2>2. Update(ref, [providers[ref.id] EXCEPT !.consecutiveFailures = 0, !.coolingLeft = 0])
    BY <1>6, <2>1 DEF RecordLate, RecordProviderSuccess
  <2>3. \/ providers'[id] = providers[id]
        \/ providers'[id] = [providers[id] EXCEPT !.consecutiveFailures = 0, !.coolingLeft = 0]
    BY <1>1, <2>2 DEF Update, IInv, PoolInv, PoolTypeOK, Live
  <2>4. \/ providers'[id] = providers[id]
        \/ providers'[id].consecutiveFailures = 0
    BY <1>1, <2>3 DEF Provider
  <2> QED
    BY <1>1, <2>4
<1>7. CASE \/ Reject(r) \/ Arrive(r) \/ Cancel(r) \/ CommitStream(r) \/ LeavePass(r)
           \/ EndPass(r) \/ DelayOver(r) \/ DelayCancelled(r) \/ PostFails(r)
           \/ PostAnswers(r) \/ BodyEnds(r) \/ ErrorBodyEnds(r)
           \/ Release(r) /\ ~holding[r]
  BY <1>2, <1>7 DEF Reject, Arrive, Cancel, CommitStream, LeavePass, EndPass, DelayOver,
                    DelayCancelled, PostFails, PostAnswers, BodyEnds, ErrorBodyEnds, Conclude,
                    Release
<1>8. RecordLate(r) => pc[r] \in {"recordLate", "recordSuccess"}
  BY DEF RecordLate
<1> QED
  BY <1>3, <1>4, <1>5, <1>6, <1>7, <1>8 DEF StepOf, Handler

(* The refresh, the operators and the clock charge nobody.                 *)
LEMMA PoolStepUncounted ==
  ASSUME IInv, PoolStep \/ UNCHANGED vars, NEW id
  PROVE  ~Charged(id)
<1> SUFFICES ASSUME Charged(id)
             PROVE  FALSE
  OBVIOUS
<1>1. /\ id \in DOMAIN providers /\ id \in DOMAIN providers'
      /\ providers[id] \in Provider /\ providers[id].consecutiveFailures \in Nat
      /\ providers'[id].consecutiveFailures > providers[id].consecutiveFailures
  BY FailureCounts DEF Charged, IInv
<1>2. CASE CancelRefresh \/ TakeTargets \/ NextTarget \/ UNCHANGED vars
  <2>1. UNCHANGED poolVars
    BY <1>2 DEF CancelRefresh, TakeTargets, NextTarget, vars
  <2> QED
    BY <1>1, <2>1 DEF poolVars
<1>3. CASE StartRefresh
  <2>1. PICK cfg \in ConfigFiles : Reconcile(cfg)
    BY <1>3 DEF StartRefresh
  <2>2. ShellsKeptOrFresh
    BY <2>1, ReconcileInv, LoadBalancerAssumption DEF IInv
  <2> QED
    BY <1>1, <2>2 DEF ShellsKeptOrFresh
<1>4. CASE FetchMarked
  <2>1. PICK ref : BlockProvider(ref)
    BY <1>4 DEF FetchMarked
  <2>2. \/ providers'[id] = providers[id]
        \/ providers'[id] = [providers[id] EXCEPT !.blocked = TRUE, !.coolingLeft = 0]
    BY <1>1, <2>1 DEF BlockProvider, IInv, PoolInv, PoolTypeOK
  <2>b. providers'[id].consecutiveFailures = providers[id].consecutiveFailures
    <3>1. CASE providers'[id] = providers[id]
      BY <3>1
    <3>2. CASE providers'[id] = [providers[id] EXCEPT !.blocked = TRUE, !.coolingLeft = 0]
      BY <1>1, <3>2, BlockCounts, Zenon
    <3> QED
      BY <2>2, <3>1, <3>2
  <2> QED
    BY <1>1, <2>b
<1>5. CASE FetchSucceeds \/ FetchFails
  <2>1. \A t \in refresh.current : Serves[t.connection] \subseteq SUBSET Models
    BY PoolAssumption DEF IInv, Refresh, Target
  <2>a. PICK t \in refresh.current :
          \E models \in SUBSET Models : ReplaceProviderModels(t.ref, models)
    BY <1>5, <2>1 DEF FetchSucceeds, FetchFails, MarkProviderModelsUnavailable
  <2>b. PICK ref : ref = t.ref
    OBVIOUS
  <2>2. PICK models \in SUBSET Models : ReplaceProviderModels(ref, models)
    BY <2>a, <2>b
  <2>3. CASE ~Live(ref)
    BY <1>1, <2>2, <2>3 DEF ReplaceProviderModels
  <2>4. CASE Live(ref)
    <3> DEFINE ps == [providers EXCEPT ![ref.id].models = models]
    <3>1. Publish(ps) /\ DOMAIN ps = DOMAIN providers
      BY <2>2, <2>4 DEF ReplaceProviderModels
    <3>2. providers'[id] = [ps[id] EXCEPT !.blocked = @ \/ id \in blockedProviderIDs]
      BY <1>1, <3>1 DEF Publish
    <3>3. ps[id] = providers[id] \/ ps[id] = [providers[id] EXCEPT !.models = models]
      BY <1>1 DEF IInv, PoolInv, PoolTypeOK
    <3>4. /\ "consecutiveFailures" \in DOMAIN ps[id]
          /\ ps[id].consecutiveFailures = providers[id].consecutiveFailures
      BY <1>1, <3>3 DEF Provider
    <3> HIDE DEF ps
    <3>5. providers'[id].consecutiveFailures = ps[id].consecutiveFailures
      BY <3>2, <3>4
    <3> QED
      BY <1>1, <3>4, <3>5
  <2> QED
    BY <2>3, <2>4
<1>6. CASE Prune
  <2>1. providers'[id] = [providers[id] EXCEPT !.consecutiveFailures = 0, !.coolingLeft = 0]
    BY <1>1, <1>6 DEF Prune, PruneProviderFailures
  <2> QED
    BY <1>1, <2>1 DEF Provider
<1>7. CASE Tick
  BY <1>1, <1>7 DEF Tick, Elapse, Provider
<1> QED
  BY <1>2, <1>3, <1>4, <1>5, <1>6, <1>7 DEF PoolStep, Refresher

(* A provider's failure count grows only by a request that the very shell  *)
(* served: never by one served before its connection changed.              *)
THEOREM OnlyTheServerIsCharged == Spec => FailuresChargedToServer
<1>1. IInv /\ AllKnown /\ [Next]_vars =>
        [\A id \in DOMAIN providers \cap DOMAIN providers' :
           providers'[id].consecutiveFailures > providers[id].consecutiveFailures =>
             \E r \in Requests : /\ pc[r] \in {"record", "recordLate"} /\ pc'[r] # pc[r]
                                 /\ provider[r] = RefOf(id)]_vars
  <2> SUFFICES ASSUME IInv, AllKnown, [Next]_vars, NEW id, Charged(id)
               PROVE  \E r \in Requests : /\ pc[r] \in {"record", "recordLate"}
                                          /\ pc'[r] # pc[r] /\ provider[r] = RefOf(id)
    BY DEF Charged
  <2>a. PICK r \in Requests : StepOf(r)
    BY PoolStepUncounted DEF Next, StepOf, PoolStep
  <2>1. RecordFailure(r) \/ (RecordLate(r) /\ pc[r] = "recordLate")
    BY <2>a, UncountedStep
  <2>2. /\ pc[r] \in {"record", "recordLate"} /\ pc'[r] \in {"release", "done"}
        /\ RecordProviderFailure(provider[r])
    BY <2>1 DEF RecordFailure, RecordLate, Goto, IInv, RequestTypeOK
  <2>3. Live(provider[r]) /\ id = provider[r].id
    <3>1. id \in DOMAIN providers
      BY DEF Charged
    <3>2. \/ providers'[id] = providers[id]
          \/ Live(provider[r]) /\ id = provider[r].id
      BY <2>2, <3>1 DEF RecordProviderFailure, Update, IInv, PoolInv, PoolTypeOK, Live
    <3>3. providers'[id] # providers[id]
      BY <3>1, FailureCounts DEF Charged, IInv
    <3> QED
      BY <3>2, <3>3
  <2>4. provider[r] \in HonestRefs
    BY <2>2 DEF AllKnown, Known, InFlight
  <2> QED
    BY <2>2, <2>3, <2>4 DEF HonestRefs
<1> QED
  BY <1>1, Invariance, KnownInvariant, PTL DEF Spec, FailuresChargedToServer

-----------------------------------------------------------------------------
(* How often a request is tried.                                           *)
Budget(r) ==
  /\ pass[r] < Attempts
  /\ tried[r] \subseteq Candidates(r)
  /\ attempt[r] <= pass[r] * Len(ordered[r]) + Cardinality(tried[r])
  /\ pc[r] = "idle" => tried[r] = {} /\ pass[r] = 0 /\ attempt[r] = 0

Budgets == \A r \in Requests : Budget(r)

LEMMA CandidatesFinite ==
  ASSUME IInv, NEW r \in Requests, NEW T \in SUBSET Candidates(r)
  PROVE  /\ IsFiniteSet(T) /\ Cardinality(T) \in Nat
         /\ Len(ordered[r]) \in Nat
         /\ Cardinality(T) <= Len(ordered[r])
<1> DEFINE n == Len(ordered[r])
<1>1. n \in Nat /\ DOMAIN ordered[r] = 1 .. n /\ ordered[r] = [i \in 1 .. n |-> ordered[r][i]]
  BY LenProperties DEF IInv, RequestTypeOK
<1>2. ordered[r] \in Surjection(1 .. n, Candidates(r))
  BY <1>1 DEF Surjection, Candidates, Range
<1>3. IsFiniteSet(1 .. n) /\ Cardinality(1 .. n) = n
  BY <1>1, FS_Interval
<1>4. IsFiniteSet(Candidates(r)) /\ Cardinality(Candidates(r)) <= n
  BY <1>2, <1>3, FS_Surjection
<1>5. /\ IsFiniteSet(T) /\ Cardinality(T) \in Nat /\ Cardinality(Candidates(r)) \in Nat
      /\ Cardinality(T) <= Cardinality(Candidates(r))
  BY <1>4, FS_Subset, FS_CardinalityType
<1> QED
  BY <1>1, <1>4, <1>5

LEMMA OwnBudget ==
  ASSUME IInv, NEW r \in Requests, StepOf(r), Known(r), Budget(r)
  PROVE  Budget(r)'
<1> USE DEF IInv, RequestTypeOK, Goto, Finish, loopVars, attemptVars
<1>1. CASE Arrive(r)
  <2>1. /\ pc[r] = "idle" /\ pc'[r] \in {"acquire", "done"}
        /\ tried'[r] = {} /\ pass'[r] = 0 /\ attempt'[r] = 0
    BY <1>1 DEF Arrive, Budget
  <2>2. ordered' \in [Requests -> Seq(Ref)]
    BY <1>1, ArriveType
  <2>3. Len(ordered'[r]) \in Nat
    BY <2>2, LenProperties
  <2>4. 0 * Len(ordered'[r]) = 0 /\ 0 < Attempts
    BY <2>3, LoadBalancerAssumption
  <2> QED
    BY <2>1, <2>4, FS_EmptySet DEF Budget
<1>2. CASE Acquire(r)
  <2>1. PICK i \in Open(r) : tried' = [tried EXCEPT ![r] = @ \cup {ordered[r][i]}]
    BY <1>2, AcquireChoice
  <2> DEFINE ref == ordered[r][i]
  <2>2. i \in DOMAIN ordered[r] /\ ref \notin tried[r] /\ ref \in Candidates(r)
    BY DEF Open, Candidates, Range
  <2>3. /\ tried'[r] = tried[r] \cup {ref} /\ pass'[r] = pass[r]
        /\ attempt'[r] = attempt[r] + 1 /\ ordered' = ordered /\ pc'[r] = "post"
    BY <1>2, <2>1 DEF Acquire
  <2>4. IsFiniteSet(tried[r]) /\ Cardinality(tried[r]) \in Nat /\ Len(ordered[r]) \in Nat
    BY CandidatesFinite DEF Budget
  <2>5. Cardinality(tried'[r]) = Cardinality(tried[r]) + 1
    BY <2>2, <2>3, <2>4, FS_AddElement
  <2>6. pass[r] * Len(ordered[r]) \in Nat
    BY <2>4
  <2>7. attempt'[r] <= pass'[r] * Len(ordered'[r]) + Cardinality(tried'[r])
    BY <2>3, <2>4, <2>5, <2>6 DEF Budget
  <2> QED
    BY <2>2, <2>3, <2>7 DEF Budget, Candidates
<1>3. CASE EndPass(r)
  <2>1. CASE HasUnblocked(Candidates(r)) /\ pass[r] + 1 < Attempts
    <3>1. /\ pass'[r] = pass[r] + 1 /\ tried'[r] = {} /\ ordered' = ordered
          /\ attempt' = attempt /\ pc'[r] # "idle"
      BY <1>3, <2>1 DEF EndPass
    <3>2. /\ Cardinality(tried[r]) \in Nat /\ Len(ordered[r]) \in Nat
          /\ Cardinality(tried[r]) <= Len(ordered[r])
      BY CandidatesFinite DEF Budget
    <3>3. /\ (pass[r] + 1) * Len(ordered[r]) = pass[r] * Len(ordered[r]) + Len(ordered[r])
          /\ pass[r] * Len(ordered[r]) \in Nat
      BY <3>2
    <3>4. attempt'[r] <= pass'[r] * Len(ordered'[r]) + 0
      BY <3>1, <3>2, <3>3 DEF Budget
    <3> QED
      BY <2>1, <3>1, <3>4, FS_EmptySet DEF Budget
  <2>2. CASE ~(HasUnblocked(Candidates(r)) /\ pass[r] + 1 < Attempts)
    <3>1. UNCHANGED <<pass, tried, ordered, attempt>> /\ pc'[r] = "done"
      BY <1>3, <2>2 DEF EndPass
    <3> QED
      BY <3>1 DEF Budget, Candidates
  <2> QED
    BY <2>1, <2>2
<1>4. CASE ~Arrive(r) /\ ~Acquire(r) /\ ~EndPass(r)
  <2>1. UNCHANGED <<pass, tried, ordered, attempt>>
    BY <1>4 DEF StepOf, Handler, Reject, Cancel, CommitStream, LeavePass, DelayOver,
                DelayCancelled, PostFails, PostAnswers, BodyEnds, ErrorBodyEnds, Conclude,
                BlockMarked, RecordFailure, Release, RecordLate
  <2>2. pc'[r] # "idle"
    <3>1. CASE Reject(r) \/ Cancel(r) \/ CommitStream(r) \/ LeavePass(r)
               \/ DelayOver(r) \/ DelayCancelled(r) \/ BlockMarked(r) \/ RecordFailure(r)
               \/ RecordLate(r)
      BY <3>1 DEF Reject, Cancel, CommitStream, LeavePass, DelayOver, DelayCancelled,
                  BlockMarked, RecordFailure, RecordLate
    <3>2. CASE PostFails(r) \/ PostAnswers(r) \/ BodyEnds(r) \/ ErrorBodyEnds(r)
      BY <3>2 DEF PostFails, PostAnswers, BodyEnds, ErrorBodyEnds, Conclude
    <3>3. CASE Release(r)
      BY <3>3 DEF Release, AfterRelease
    <3> QED
      BY <1>4, <3>1, <3>2, <3>3 DEF StepOf, Handler
  <2> QED
    BY <2>1, <2>2 DEF Budget, Candidates
<1> QED
  BY <1>1, <1>2, <1>3, <1>4

(* Passes and the providers tried in one stay within what the handler may  *)
(* have (handleAPIRequest's two loops).                                    *)
THEOREM BudgetInvariant == Spec => []Budgets
<1>1. Init => Budgets
  <2> SUFFICES ASSUME Init, NEW r \in Requests
               PROVE  Budget(r)
    BY DEF Budgets
  <2>1. /\ ordered[r] = <<>> /\ tried[r] = {} /\ pass[r] = 0 /\ attempt[r] = 0
    BY DEF Init
  <2>2. Len(<<>>) = 0 /\ Cardinality({}) = 0 /\ 0 < Attempts
    BY FS_EmptySet, LoadBalancerAssumption
  <2> QED
    BY <2>1, <2>2 DEF Budget
<1>2. IInv /\ AllKnown /\ Budgets /\ [Next]_vars => Budgets'
  <2> SUFFICES ASSUME IInv, AllKnown, Budgets, [Next]_vars, NEW q \in Requests
               PROVE  Budget(q)'
    BY DEF Budgets
  <2>1. CASE StepOf(q)
    BY <2>1, OwnBudget DEF AllKnown, Budgets
  <2>2. CASE Untouched(q)
    BY <2>2 DEF Budgets, Budget, Candidates, Untouched
  <2>3. CASE \E r \in Requests \ {q} : StepOf(r)
    BY <2>2, <2>3, OthersUntouched
  <2>4. CASE PoolStep \/ UNCHANGED vars
    BY <2>2, <2>4, PoolStepUntouched
  <2> QED
    BY <2>1, <2>3, <2>4 DEF Next, StepOf, PoolStep
<1> QED
  BY <1>1, <1>2, Invariance, KnownInvariant, PTL DEF Spec

(* However providers are replaced, blocked or cooled under it, a request   *)
(* acquires at most Attempts times its candidates, each once in a pass.    *)
THEOREM RetriesBounded == Spec => []RetryBudget
<1>1. Budgets => RetryBudget
  BY DEF Budgets, Budget, RetryBudget
<1> QED
  BY <1>1, BudgetInvariant, PTL
-----------------------------------------------------------------------------
(* The handlers over the pool implement RequestService: every step of the  *)
(* load balancer is a step of the service or leaves it as it is.           *)

(* What the service sees of the handlers.                                  *)
Phase(r) == CASE pc[r] = "idle" -> "new"
              [] pc[r] = "done" -> "closed"
              [] OTHER -> "open"

ServedBy(r) == IF holding[r] THEN provider[r].id ELSE NoRef

Phases == [r \in Requests |-> Phase(r)]

Servings == [r \in Requests |-> ServedBy(r)]

-----------------------------------------------------------------------------
(* The service's actions, of what it sees.                                 *)
LEMMA AsAdmit ==
  ASSUME NEW r \in Requests, Phases[r] = "new",
         Phases' = [Phases EXCEPT ![r] = "open"],
         Servings' = Servings, UNCHANGED <<reply, cancelled, blockedProviderIDs>>
  PROVE  Service!Next
BY DEF Service!Next, Service!Admit, Service!Set, Phases, Phase, Servings, ServedBy

LEMMA AsRefuse ==
  ASSUME NEW r \in Requests, Phases[r] = "new", NEW answer \in Replies \ {"none"},
         Phases' = [Phases EXCEPT ![r] = "closed"],
         reply' = [reply EXCEPT ![r] = answer],
         Servings' = Servings, UNCHANGED <<cancelled, blockedProviderIDs>>
  PROVE  Service!Next
BY DEF Service!Next, Service!Refuse, Service!Set, Phases, Phase, Servings, ServedBy

LEMMA AsTake ==
  ASSUME NEW r \in Requests, Phases[r] = "open", reply[r] = "none", Servings[r] = NoRef,
         NEW id \in ProviderIDs \ blockedProviderIDs,
         Servings' = [Servings EXCEPT ![r] = id],
         Phases' = Phases, UNCHANGED <<reply, cancelled, blockedProviderIDs>>
  PROVE  Service!Next
BY DEF Service!Next, Service!Take, Service!Set, Phases, Phase, Servings, ServedBy

LEMMA AsRelay ==
  ASSUME NEW r \in Requests, Phases[r] = "open", reply[r] = "none", Servings[r] # NoRef,
         NEW answer \in Replies \ {"none"},
         reply' = [reply EXCEPT ![r] = answer],
         Phases' = Phases, Servings' = Servings, UNCHANGED <<cancelled, blockedProviderIDs>>
  PROVE  Service!Next
BY DEF Service!Next, Service!Relay, Service!Set, Phases, Phase, Servings, ServedBy

LEMMA AsGiveBack ==
  ASSUME NEW r \in Requests, Servings[r] # NoRef,
         Servings' = [Servings EXCEPT ![r] = NoRef],
         \/ Phases' = Phases
         \/ (reply[r] # "none" \/ cancelled[r]) /\ Phases' = [Phases EXCEPT ![r] = "closed"],
         UNCHANGED <<reply, cancelled, blockedProviderIDs>>
  PROVE  Service!Next
BY DEF Service!Next, Service!GiveBack, Service!Set, Phases, Phase, Servings, ServedBy

LEMMA AsClose ==
  ASSUME NEW r \in Requests, Phases[r] = "open", Servings[r] = NoRef,
         \/ (reply[r] # "none" \/ cancelled[r]) /\ reply' = reply
         \/ /\ reply[r] = "none"
            /\ \E answer \in Replies \ {"none"} : reply' = [reply EXCEPT ![r] = answer],
         Phases' = [Phases EXCEPT ![r] = "closed"],
         Servings' = Servings, UNCHANGED <<cancelled, blockedProviderIDs>>
  PROVE  Service!Next
BY DEF Service!Next, Service!Close, Service!Set, Phases, Phase, Servings, ServedBy

LEMMA AsLeave ==
  ASSUME NEW r \in Requests, Phases[r] = "open", ~cancelled[r],
         cancelled' = [cancelled EXCEPT ![r] = TRUE],
         Phases' = Phases, Servings' = Servings, UNCHANGED <<reply, blockedProviderIDs>>
  PROVE  Service!Next
BY DEF Service!Next, Service!Leave, Service!Set, Phases, Phase, Servings, ServedBy

LEMMA AsBan ==
  ASSUME NEW id \in ProviderIDs, blockedProviderIDs' = blockedProviderIDs \cup {id},
         Phases' = Phases, Servings' = Servings, UNCHANGED <<reply, cancelled>>
  PROVE  Service!Next
BY DEF Service!Next, Service!Ban, Phases, Phase, Servings, ServedBy

LEMMA AsNothing ==
  ASSUME Phases' = Phases, Servings' = Servings,
         UNCHANGED <<reply, cancelled, blockedProviderIDs>>
  PROVE  UNCHANGED Service!vars
BY DEF Service!vars, Phases, Phase, Servings, ServedBy

-----------------------------------------------------------------------------
(* What the service sees of the steps.                                     *)

(* A handler's step changes what is seen of its own request only.          *)
LEMMA OwnView ==
  ASSUME IInv, NEW r \in Requests, StepOf(r)
  PROVE  /\ Phases' = [Phases EXCEPT ![r] = Phase(r)']
         /\ Servings' = [Servings EXCEPT ![r] = ServedBy(r)']
         /\ Phase(r)' = Phase(r) => Phases' = Phases
         /\ ServedBy(r)' = ServedBy(r) => Servings' = Servings
<1>1. \A q \in Requests \ {r} : Phase(q)' = Phase(q) /\ ServedBy(q)' = ServedBy(q)
  BY OthersUntouched DEF Untouched, Phase, ServedBy
<1> QED
  BY <1>1 DEF Phases, Servings

(* A handler serves where it is in flight, and by a provider that exists.  *)
LEMMA ServingInFlight ==
  ASSUME IInv, NEW r \in Requests
  PROVE  /\ pc[r] \in InFlight => Servings[r] \in ProviderIDs /\ Servings[r] # NoRef
         /\ pc[r] \notin InFlight => Servings[r] = NoRef
         /\ Phases[r] = Phase(r) /\ Servings[r] = ServedBy(r)
BY LoadBalancerAssumption
   DEF IInv, HeldExactlyInFlight, HeldRefs, Ref, Servings, ServedBy, Phases

(* Only a block adds to the blocked IDs.                                   *)
LEMMA PublishNoBan ==
  ASSUME NEW ps, Publish(ps), \A id \in DOMAIN ps : ps[id].blocked => id \in blockedProviderIDs
  PROVE  blockedProviderIDs' = blockedProviderIDs
BY DEF Publish

LEMMA PoolStepView ==
  ASSUME IInv, PoolStep \/ UNCHANGED vars
  PROVE  Service!Next \/ UNCHANGED Service!vars
<1>1. UNCHANGED requestVars
  BY PoolStepUntouched DEF PoolStep, StartRefresh, CancelRefresh, Refresher, TakeTargets,
     NextTarget, FetchSucceeds, FetchMarked, FetchFails, Prune, Tick, vars
<1>2. Phases' = Phases /\ Servings' = Servings /\ UNCHANGED <<reply, cancelled>>
  BY <1>1 DEF requestVars, attemptVars, Phases, Phase, Servings, ServedBy
<1>3. CASE FetchMarked
  <2>1. PICK t \in refresh.current : BlockProvider(t.ref)
    BY <1>3 DEF FetchMarked
  <2>2. t.ref.id \in ProviderIDs
    BY DEF IInv, Refresh, Target, Ref
  <2> QED
    BY <1>2, <2>1, <2>2, AsBan DEF BlockProvider
<1>4. CASE blockedProviderIDs' = blockedProviderIDs
  BY <1>2, <1>4, AsNothing
<1>5. CASE StartRefresh
  <2>1. PICK cfg \in ConfigFiles : Reconcile(cfg)
    BY <1>5 DEF StartRefresh
  <2> DEFINE kept == {id \in DOMAIN cfg \cap DOMAIN providers :
                        SameConnection(providers[id], cfg[id])}
             banned == blockedProviderIDs \cup {id \in DOMAIN providers : providers[id].blocked}
             table(gen) == [id \in DOMAIN cfg |->
                              IF id \in kept
                                THEN [providers[id] EXCEPT !.blocked = id \in banned]
                                ELSE Shell(cfg[id], gen[id], id \in banned)]
  <2>2. PICK gen : Publish(table(gen))
    BY <2>1 DEF Reconcile
  <2>3. banned = blockedProviderIDs
    BY DEF IInv, PoolInv, BlockRecordsAgree
  <2>4. ASSUME NEW id \in DOMAIN cfg
        PROVE  table(gen)[id].blocked = (id \in banned)
    <3> PICK b : b = (id \in banned)
      OBVIOUS
    <3>1. CASE id \in kept
      <4>1. "blocked" \in DOMAIN providers[id]
        BY <3>1 DEF IInv, PoolInv, PoolTypeOK, Provider
      <4> QED
        BY <3>1, <4>1
    <3>2. CASE id \notin kept
      BY <3>2 DEF Shell
    <3> QED
      BY <3>1, <3>2
  <2> QED
    BY <1>4, <2>2, <2>3, <2>4, PublishNoBan
<1>6. CASE FetchSucceeds \/ FetchFails
  <2>1. PICK t \in refresh.current : \E models : ReplaceProviderModels(t.ref, models)
    BY <1>6 DEF FetchSucceeds, FetchFails, MarkProviderModelsUnavailable
  <2>2. PICK models : ReplaceProviderModels(t.ref, models)
    BY <2>1
  <2> DEFINE ps == [providers EXCEPT ![t.ref.id].models = models]
  <2>3. ASSUME NEW id \in DOMAIN ps, ps[id].blocked
        PROVE  id \in blockedProviderIDs
    <3>1. id \in DOMAIN providers /\ providers[id] \in Provider
      BY DEF IInv, PoolInv, PoolTypeOK
    <3>2. ps[id].blocked = providers[id].blocked
      BY <3>1 DEF Provider
    <3> QED
      BY <2>3, <3>1, <3>2 DEF IInv, PoolInv, BlockRecordsAgree
  <2>4. blockedProviderIDs' = blockedProviderIDs
    <3>1. CASE Live(t.ref)
      BY <2>2, <2>3, <3>1, PublishNoBan DEF ReplaceProviderModels
    <3>2. CASE ~Live(t.ref)
      BY <2>2, <3>2 DEF ReplaceProviderModels
    <3> QED
      BY <3>1, <3>2
  <2> QED
    BY <1>4, <2>4
<1>7. CASE CancelRefresh \/ TakeTargets \/ NextTarget \/ Prune \/ Tick \/ UNCHANGED vars
  BY <1>4, <1>7 DEF CancelRefresh, TakeTargets, NextTarget, Prune, Tick,
                    PruneProviderFailures, Elapse, vars, poolVars
<1> QED
  BY <1>3, <1>5, <1>6, <1>7 DEF PoolStep, Refresher

LEMMA HandlerView ==
  ASSUME IInv, Paths, AllKnown, NEW r \in Requests, StepOf(r)
  PROVE  Service!Next \/ UNCHANGED Service!vars
<1> USE DEF Goto, Finish
<1>1. /\ Phases' = [Phases EXCEPT ![r] = Phase(r)']
      /\ Servings' = [Servings EXCEPT ![r] = ServedBy(r)']
      /\ Phase(r)' = Phase(r) => Phases' = Phases
      /\ ServedBy(r)' = ServedBy(r) => Servings' = Servings
  BY OwnView
<1>2. /\ pc[r] \in InFlight => Servings[r] \in ProviderIDs /\ Servings[r] # NoRef
      /\ pc[r] \notin InFlight => Servings[r] = NoRef
      /\ Phases[r] = Phase(r) /\ Servings[r] = ServedBy(r)
  BY ServingInFlight
<1>3. /\ pc \in [Requests -> Controls] /\ reply \in [Requests -> Replies]
      /\ cancelled \in [Requests -> BOOLEAN]
      /\ provider \in [Requests -> Ref \cup {NoRef}] /\ holding \in [Requests -> BOOLEAN]
  BY DEF IInv, RequestTypeOK
<1>4. Path(r)
  BY DEF Paths
<1>5. ASSUME ~BlockMarked(r)
      PROVE  blockedProviderIDs' = blockedProviderIDs
  BY <1>5 DEF StepOf, Handler, Reject, Arrive, Cancel, CommitStream, LeavePass, EndPass,
              DelayOver, DelayCancelled, PostFails, PostAnswers, BodyEnds, ErrorBodyEnds,
              Conclude, Acquire, RecordFailure, Release, RecordLate, poolVars,
              Occupy, ReleaseProvider, RecordProviderFailure, RecordProviderSuccess, Update
<1>6. ASSUME ~Acquire(r), ~Release(r)
      PROVE  Servings' = Servings
  <2>1. UNCHANGED <<provider, holding>>
    BY <1>6 DEF StepOf, Handler, Reject, Arrive, Cancel, CommitStream, LeavePass, EndPass,
                DelayOver, DelayCancelled, PostFails, PostAnswers, BodyEnds, ErrorBodyEnds,
                Conclude, BlockMarked, RecordFailure, RecordLate, attemptVars
  <2> QED
    BY <1>1, <2>1 DEF ServedBy
<1>7. CASE Reject(r)
  <2>1. /\ Phase(r) = "new" /\ Phase(r)' = "closed"
        /\ reply' = [reply EXCEPT ![r] = "rejected"] /\ UNCHANGED cancelled
    BY <1>3, <1>7 DEF Reject, Phase
  <2>2. ~Acquire(r) /\ ~Release(r) /\ ~BlockMarked(r)
    BY <1>7 DEF Reject, Acquire, Release, BlockMarked
  <2>3. "rejected" \in Replies \ {"none"}
    BY DEF Replies
  <2> QED
    BY <1>1, <1>2, <1>5, <1>6, <2>1, <2>2, <2>3, AsRefuse
<1>8. CASE Arrive(r)
  <2>1. ~Acquire(r) /\ ~Release(r) /\ ~BlockMarked(r) /\ UNCHANGED cancelled
    BY <1>8 DEF Arrive, Acquire, Release, BlockMarked
  <2>2. /\ Phase(r) = "new"
        /\ \/ Phase(r)' = "open" /\ reply' = reply
           \/ Phase(r)' = "closed" /\ reply' = [reply EXCEPT ![r] = "rejected"]
    BY <1>3, <1>8 DEF Arrive, Phase
  <2>3. "rejected" \in Replies \ {"none"}
    BY DEF Replies
  <2> QED
    BY <1>1, <1>2, <1>5, <1>6, <2>1, <2>2, <2>3, AsAdmit, AsRefuse
<1>9. CASE Cancel(r)
  <2>1. ~Acquire(r) /\ ~Release(r) /\ ~BlockMarked(r)
    BY <1>9, <1>3 DEF Cancel, Acquire, Release, BlockMarked
  <2>2. /\ Phase(r) = "open" /\ Phase(r)' = Phase(r) /\ ~cancelled[r]
        /\ cancelled' = [cancelled EXCEPT ![r] = TRUE] /\ reply' = reply
    BY <1>9 DEF Cancel, Phase
  <2> QED
    BY <1>1, <1>2, <1>5, <1>6, <2>1, <2>2, AsLeave
<1>10. CASE CommitStream(r)
  <2>1. ~Acquire(r) /\ ~Release(r) /\ ~BlockMarked(r) /\ UNCHANGED cancelled
    BY <1>10 DEF CommitStream, Acquire, Release, BlockMarked
  <2>2. /\ Phase(r) = "open" /\ Phase(r)' = Phase(r) /\ pc[r] \in InFlight
        /\ reply[r] = "none" /\ reply' = [reply EXCEPT ![r] = "relayed"]
    BY <1>10 DEF CommitStream, Phase, InFlight
  <2>3. "relayed" \in Replies \ {"none"}
    BY DEF Replies
  <2> QED
    BY <1>1, <1>2, <1>5, <1>6, <2>1, <2>2, <2>3, AsRelay
<1>11. CASE Acquire(r)
  <2>1. PICK i \in Open(r) : /\ ordered[r][i] = RefOf(ordered[r][i].id)
                             /\ ordered[r][i].id \in DOMAIN providers
                             /\ ~Blocked(ordered[r][i].id)
                             /\ provider' = [provider EXCEPT ![r] = ordered[r][i]]
    BY <1>11, AcquireChoice DEF AllKnown
  <2> DEFINE id == ordered[r][i].id
  <2>2. id \in ProviderIDs \ blockedProviderIDs
    BY <2>1 DEF Blocked, IInv, PoolInv, PoolTypeOK
  <2>3. ServedBy(r)' = id
    BY <1>3, <1>11, <2>1 DEF ServedBy, Acquire
  <2>4. /\ Phase(r) = "open" /\ Phase(r)' = Phase(r) /\ pc[r] \notin InFlight
        /\ reply[r] = "none" /\ UNCHANGED <<reply, cancelled>> /\ ~BlockMarked(r)
    BY <1>3, <1>4, <1>11 DEF Acquire, BlockMarked, Phase, InFlight, Path
  <2> HIDE DEF id
  <2> QED
    BY <1>1, <1>2, <1>5, <2>2, <2>3, <2>4, AsTake
<1>12. CASE LeavePass(r) \/ DelayOver(r) \/ PostFails(r) \/ PostAnswers(r)
            \/ ErrorBodyEnds(r) \/ RecordFailure(r)
  <2>1. ~Acquire(r) \/ Servings' = Servings
    BY <1>1, <1>12 DEF LeavePass, DelayOver, PostFails, PostAnswers, ErrorBodyEnds,
                       RecordFailure, Conclude, Acquire, attemptVars, ServedBy
  <2>2. ~Release(r) /\ ~BlockMarked(r)
    BY <1>12 DEF LeavePass, DelayOver, PostFails, PostAnswers, ErrorBodyEnds, RecordFailure,
                 Release, BlockMarked
  <2>3. /\ Phase(r) = "open" /\ Phase(r)' = Phase(r) /\ UNCHANGED <<reply, cancelled>>
    BY <1>3, <1>12 DEF LeavePass, DelayOver, PostFails, PostAnswers, ErrorBodyEnds,
                       RecordFailure, Conclude, Phase
  <2> QED
    BY <1>1, <1>5, <1>6, <2>1, <2>2, <2>3, AsNothing
<1>13. CASE EndPass(r)
  <2>1. ~Acquire(r) /\ ~Release(r) /\ ~BlockMarked(r) /\ UNCHANGED cancelled
    BY <1>13 DEF EndPass, Acquire, Release, BlockMarked
  <2>2. /\ Phase(r) = "open" /\ pc[r] \notin InFlight /\ reply[r] = "none"
        /\ \/ Phase(r)' = Phase(r) /\ reply' = reply
           \/ /\ Phase(r)' = "closed"
              /\ \E answer \in Replies \ {"none"} : reply' = [reply EXCEPT ![r] = answer]
    BY <1>3, <1>4, <1>13 DEF EndPass, Phase, InFlight, Path, Replies
  <2> QED
    BY <1>1, <1>2, <1>5, <1>6, <2>1, <2>2, AsNothing, AsClose
<1>14. CASE DelayCancelled(r) \/ RecordLate(r)
  <2>1. ~Acquire(r) /\ ~Release(r) /\ ~BlockMarked(r) /\ UNCHANGED <<reply, cancelled>>
    BY <1>14 DEF DelayCancelled, RecordLate, Acquire, Release, BlockMarked
  <2>2. /\ Phase(r) = "open" /\ Phase(r)' = "closed" /\ pc[r] \notin InFlight
        /\ reply[r] # "none" \/ cancelled[r]
    BY <1>3, <1>4, <1>14 DEF DelayCancelled, RecordLate, Phase, InFlight, Path
  <2> QED
    BY <1>1, <1>2, <1>5, <1>6, <2>1, <2>2, AsClose
<1>15. CASE BodyEnds(r)
  <2>1. ~Acquire(r) /\ ~Release(r) /\ ~BlockMarked(r) /\ UNCHANGED cancelled
    BY <1>15 DEF BodyEnds, Acquire, Release, BlockMarked, Conclude
  <2>2. /\ Phase(r) = "open" /\ Phase(r)' = Phase(r) /\ pc[r] \in InFlight
        /\ \/ reply' = reply
           \/ reply' = [reply EXCEPT ![r] = "relayed"]
    BY <1>3, <1>15 DEF BodyEnds, Conclude, Phase, InFlight
  <2>3. reply[r] # "none" => reply' = reply \/ reply' # [reply EXCEPT ![r] = "relayed"]
    BY <1>3, <1>4, <1>15 DEF BodyEnds, Path
  <2>4. "relayed" \in Replies \ {"none"}
    BY DEF Replies
  <2> QED
    BY <1>1, <1>2, <1>5, <1>6, <2>1, <2>2, <2>3, <2>4, AsNothing, AsRelay
<1>16. CASE BlockMarked(r)
  <2>1. ~Acquire(r) /\ ~Release(r) /\ UNCHANGED <<reply, cancelled>>
    BY <1>16 DEF BlockMarked, Acquire, Release
  <2>2. Phase(r)' = Phase(r) /\ pc[r] \in InFlight
    BY <1>3, <1>16 DEF BlockMarked, Phase, InFlight
  <2>3. provider[r].id \in ProviderIDs
    BY <2>2 DEF IInv, HeldExactlyInFlight, HeldRefs, Ref
  <2>4. blockedProviderIDs' = blockedProviderIDs \cup {provider[r].id}
    BY <1>16 DEF BlockMarked, BlockProvider
  <2> QED
    BY <1>1, <1>6, <2>1, <2>2, <2>3, <2>4, AsBan
<1>17. CASE Release(r)
  <2>1. ~BlockMarked(r) /\ UNCHANGED <<reply, cancelled>>
    BY <1>17 DEF Release, BlockMarked
  <2>2. ServedBy(r)' = NoRef
    BY <1>3, <1>17 DEF Release, ServedBy
  <2>3. /\ Phase(r) = "open" /\ pc[r] \in InFlight
        /\ \/ Phase(r)' = Phase(r)
           \/ (reply[r] # "none" \/ cancelled[r]) /\ Phase(r)' = "closed"
    <3>1. pc[r] = "release" /\ pc'[r] = AfterRelease(r)
      BY <1>3, <1>17 DEF Release
    <3>2. AfterRelease(r) \in {"acquire", "recordLate", "recordSuccess", "done"}
      BY DEF AfterRelease
    <3>3. AfterRelease(r) = "done" => reply[r] # "none" \/ cancelled[r]
      BY <1>4, <3>1 DEF AfterRelease, Path
    <3> QED
      BY <3>1, <3>2, <3>3 DEF Phase, InFlight
  <2> QED
    BY <1>1, <1>2, <1>5, <2>1, <2>2, <2>3, AsGiveBack
<1> QED
  BY <1>7, <1>8, <1>9, <1>10, <1>11, <1>12, <1>13, <1>14, <1>15, <1>16, <1>17
     DEF StepOf, Handler

-----------------------------------------------------------------------------
(* The handlers over the pool keep the service's promise to every request, *)
(* for any number of requests, providers, refreshes and passes.            *)
THEOREM BalancerImplementsService == Spec => ImplementsService
<1>1. Init => Service!Init
  <2> SUFFICES ASSUME Init
               PROVE  Service!Init
    OBVIOUS
  <2>1. blockedProviderIDs \in SUBSET ProviderIDs
    BY InitIInv DEF IInv, PoolInv, PoolTypeOK
  <2> QED
    BY <2>1 DEF Init, Service!Init
<1>2. IInv /\ Paths /\ AllKnown /\ [Next]_vars => [Service!Next]_(Service!vars)
  BY HandlerView, PoolStepView DEF Next, StepOf, PoolStep
<1> QED
  BY <1>1, <1>2, Invariance, PathsInvariant, KnownInvariant, PTL
     DEF Spec, ImplementsService, Service!Spec
=============================================================================
