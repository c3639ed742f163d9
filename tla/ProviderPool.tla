---------------------------- MODULE ProviderPool ----------------------------
(***************************************************************************)
(* The load balancer's providerPool (cmd/load-balancer/main.go): the table *)
(* of configured providers, the index from models to providers, the set of *)
(* permanently blocked IDs, and one operator for every method that changes *)
(* them.  Each method holds p.mu from start to end, so each operator is    *)
(* one atomic step; LoadBalancer composes them with the goroutines that    *)
(* call them.                                                              *)
(*                                                                         *)
(* A provider's URL and API key together are one member of Connections.    *)
(* cooldownUntil is kept as the time left until it (coolingLeft): 0 is     *)
(* both the zero time.Time and an instant already passed, which the code   *)
(* treats alike.  Timestamps and the failure history, which only the       *)
(* status page shows, are left out.                                        *)
(***************************************************************************)
EXTENDS Integers, FiniteSets, Functions

CONSTANTS
  ProviderIDs,       \* the IDs a config file may name
  Models,            \* the model IDs
  Connections,       \* the (URL, API key) pairs a config file may give
  Tiers,             \* the tiers a config file may give
  Serves,            \* Serves[c]: the model lists the server behind c may answer
  InitialConfigs,    \* what the config file may hold at startup
  CooldownFailures,  \* -provider-cooldown-failures
  Cooldown,          \* -provider-cooldown
  MaxGeneration      \* bound: the last generation number handed out

ProviderConfig == [connection : Connections, tier : Tiers]

ConfigFile == UNION {[S -> ProviderConfig] : S \in SUBSET ProviderIDs \ {{}}}

ASSUME PoolAssumption ==
  /\ IsFiniteSet(ProviderIDs)
  /\ Tiers \subseteq Nat
  /\ Serves \in [Connections -> SUBSET SUBSET Models]
  /\ InitialConfigs \subseteq ConfigFile
  /\ CooldownFailures \in Nat
  /\ Cooldown \in Nat
  /\ MaxGeneration \in Nat

(* -provider-cooldown-failures when the command line does not give it.     *)
DefaultCooldownFailures == 5

VARIABLES
  providers,               \* ID -> record, for the configured IDs only
  modelProviders,          \* model -> the refs of the providers that list it
  blockedProviderIDs,
  nextProviderGeneration

poolVars ==
  <<providers, modelProviders, blockedProviderIDs, nextProviderGeneration>>

Provider == [generation : Nat, tier : Tiers, connection : Connections,
             models : SUBSET Models, busy : Nat, consecutiveFailures : Nat,
             coolingLeft : 0 .. Cooldown, blocked : BOOLEAN]

Ref == [id : ProviderIDs, generation : Nat, tier : Tiers]

RefIn(ps, id) ==
  [id |-> id, generation |-> ps[id].generation, tier |-> ps[id].tier]

RefOf(id) == RefIn(providers, id)

PoolTypeOK ==
  /\ DOMAIN providers \subseteq ProviderIDs
  /\ providers \in [DOMAIN providers -> Provider]
  /\ modelProviders \in [Models -> SUBSET Ref]
  /\ blockedProviderIDs \subseteq ProviderIDs
  /\ nextProviderGeneration \in Nat

(* A ref is live while the shell it was taken from is still in the table.  *)
Live(ref) ==
  /\ ref.id \in DOMAIN providers
  /\ providers[ref.id].generation = ref.generation

Blocked(id) == providers[id].blocked \/ id \in blockedProviderIDs

IndexOf(ps) ==
  [m \in Models |-> {RefIn(ps, id) : id \in {i \in DOMAIN ps : m \in ps[i].models}}]

Shell(entry, generation, blocked) ==
  [generation |-> generation, tier |-> entry.tier,
   connection |-> entry.connection, models |-> {}, busy |-> 0,
   consecutiveFailures |-> 0, coolingLeft |-> 0, blocked |-> blocked]

(* Mutant: every config file numbers its shells from one.                  *)
GenerationsFromOne(fresh, first) == Injection(fresh, 1 .. Cardinality(fresh))

(* The generations given to `fresh` shells: the next numbers, one each, in *)
(* the order of the file, which is any order.                              *)
Generations(fresh, first) ==
  Injection(fresh, first .. first + Cardinality(fresh) - 1)

(* Startup fetches every provider's model list once.  A failed fetch       *)
(* leaves the list empty; one that carried the marker also blocks.         *)
StartFrom(config) ==
  /\ \E gen \in Generations(DOMAIN config, 1),
        banned \in SUBSET DOMAIN config,
        listed \in [DOMAIN config -> SUBSET Models] :
       /\ \A id \in DOMAIN config :
            \/ listed[id] = {}
            \/ id \notin banned /\ listed[id] \in Serves[config[id].connection]
       /\ blockedProviderIDs = banned
       /\ providers =
            [id \in DOMAIN config |->
               [Shell(config[id], gen[id], id \in banned) EXCEPT !.models = listed[id]]]
  /\ modelProviders = IndexOf(providers)
  /\ nextProviderGeneration = 1 + Cardinality(DOMAIN config)

PoolInit == \E config \in InitialConfigs : StartFrom(config)

(* Mutant: the set of blocked IDs is rebuilt from the table like the index.*)
PublishForgettingRemoved(ps) ==
  /\ blockedProviderIDs' = {id \in DOMAIN ps : ps[id].blocked}
  /\ providers' = ps
  /\ modelProviders' = IndexOf(ps)

(* Install a new table: flags and blocked IDs are merged both ways and the *)
(* model index is rebuilt.                                                 *)
Publish(ps) ==
  /\ blockedProviderIDs' =
       blockedProviderIDs \cup {id \in DOMAIN ps : ps[id].blocked}
  /\ providers' = [id \in DOMAIN ps |->
       [ps[id] EXCEPT !.blocked = @ \/ id \in blockedProviderIDs]]
  /\ modelProviders' = IndexOf(ps)

SameConnection(old, entry) ==
  old.tier = entry.tier /\ old.connection = entry.connection

(* Mutant: a provider keeps its model list when its connection changes.    *)
ReconcileKeepingModels(cfg) ==
  LET kept == {id \in DOMAIN cfg \cap DOMAIN providers :
                 SameConnection(providers[id], cfg[id])}
      fresh == DOMAIN cfg \ kept
      known(id) == IF id \in DOMAIN providers THEN providers[id].models ELSE {}
  IN  /\ nextProviderGeneration + Cardinality(fresh) <= MaxGeneration + 1
      /\ \E gen \in Generations(fresh, nextProviderGeneration) :
           Publish([id \in DOMAIN cfg |->
                      IF id \in kept
                        THEN providers[id]
                        ELSE [Shell(cfg[id], gen[id], FALSE) EXCEPT !.models = known(id)]])
      /\ nextProviderGeneration' = nextProviderGeneration + Cardinality(fresh)

(* A provider whose connection did not change keeps its record; any other  *)
(* becomes a fresh shell with a generation of its own.                     *)
Reconcile(cfg) ==
  LET kept == {id \in DOMAIN cfg \cap DOMAIN providers :
                 SameConnection(providers[id], cfg[id])}
      fresh == DOMAIN cfg \ kept
      banned == blockedProviderIDs
                  \cup {id \in DOMAIN providers : providers[id].blocked}
  IN  /\ nextProviderGeneration + Cardinality(fresh) <= MaxGeneration + 1
      /\ \E gen \in Generations(fresh, nextProviderGeneration) :
           Publish([id \in DOMAIN cfg |->
                      IF id \in kept
                        THEN [providers[id] EXCEPT !.blocked = id \in banned]
                        ELSE Shell(cfg[id], gen[id], id \in banned)])
      /\ nextProviderGeneration' = nextProviderGeneration + Cardinality(fresh)

(* Mutant: the index is not rebuilt.                                       *)
ReplaceWithoutRebuild(ref, models) ==
  /\ providers' = IF Live(ref) THEN [providers EXCEPT ![ref.id].models = models]
                               ELSE providers
  /\ UNCHANGED <<modelProviders, blockedProviderIDs, nextProviderGeneration>>

(* A fetched list, or the empty one, replaces a provider's models unless   *)
(* the provider it was fetched for is gone.                                *)
ReplaceProviderModels(ref, models) ==
  /\ IF Live(ref)
       THEN Publish([providers EXCEPT ![ref.id].models = models])
       ELSE UNCHANGED <<providers, modelProviders, blockedProviderIDs>>
  /\ UNCHANGED nextProviderGeneration

MarkProviderModelsUnavailable(ref) == ReplaceProviderModels(ref, {})

(* Mutant: the block is recorded for the ID but not on the provider.       *)
BlockIDOnly(ref) ==
  /\ blockedProviderIDs' = blockedProviderIDs \cup {ref.id}
  /\ UNCHANGED <<providers, modelProviders, nextProviderGeneration>>

(* Blocking is by ID: it does not ask whether the ref is live.             *)
BlockProvider(ref) ==
  /\ blockedProviderIDs' = blockedProviderIDs \cup {ref.id}
  /\ providers' =
       IF ref.id \in DOMAIN providers
         THEN [providers EXCEPT ![ref.id].blocked = TRUE, ![ref.id].coolingLeft = 0]
         ELSE providers
  /\ UNCHANGED <<modelProviders, nextProviderGeneration>>

(* Every method below changes at most one live provider's record.          *)
Update(ref, record) ==
  /\ providers' = IF Live(ref) THEN [providers EXCEPT ![ref.id] = record]
                               ELSE providers
  /\ UNCHANGED <<modelProviders, blockedProviderIDs, nextProviderGeneration>>

(* Mutant: the failure is charged to whatever shell has the ID now.        *)
FailureByID(ref) ==
  /\ providers' = IF ref.id \in DOMAIN providers
                    THEN [providers EXCEPT ![ref.id].consecutiveFailures = @ + 1]
                    ELSE providers
  /\ UNCHANGED <<modelProviders, blockedProviderIDs, nextProviderGeneration>>

(* Mutant: a failure during a cooldown adds another one to what is left.   *)
FailureAddingCooldown(ref) ==
  LET old == providers[ref.id]
      failures == old.consecutiveFailures + 1
  IN  Update(ref, [old EXCEPT
        !.consecutiveFailures = failures,
        !.coolingLeft = IF CooldownFailures > 0 /\ failures >= CooldownFailures
                          THEN @ + Cooldown ELSE @])

RecordProviderFailure(ref) ==
  LET old == providers[ref.id]
      failures == old.consecutiveFailures + 1
  IN  Update(ref, [old EXCEPT
        !.consecutiveFailures = failures,
        !.coolingLeft = IF CooldownFailures > 0 /\ failures >= CooldownFailures
                          THEN Cooldown ELSE @])

RecordProviderSuccess(ref) ==
  Update(ref, [providers[ref.id] EXCEPT
                 !.consecutiveFailures = 0, !.coolingLeft = 0])

(* Mutant: a block does not keep the candidate from being handed out.      *)
AvailableThoughBlocked(ref) == Live(ref) /\ providers[ref.id].coolingLeft = 0

(* Whether acquire may hand out this candidate now.                        *)
Available(ref) ==
  /\ Live(ref)
  /\ ~Blocked(ref.id)
  /\ providers[ref.id].coolingLeft = 0

Occupy(ref) == Update(ref, [providers[ref.id] EXCEPT !.busy = @ + 1])

(* Mutant: the release is applied to whatever shell has the ID now.        *)
ReleaseByID(ref) ==
  /\ providers' = IF ref.id \in DOMAIN providers
                    THEN [providers EXCEPT ![ref.id].busy = IF @ > 0 THEN @ - 1 ELSE 0]
                    ELSE providers
  /\ UNCHANGED <<modelProviders, blockedProviderIDs, nextProviderGeneration>>

ReleaseProvider(ref) ==
  Update(ref, [providers[ref.id] EXCEPT !.busy = IF @ > 0 THEN @ - 1 ELSE 0])

HasUnblocked(refs) == \E ref \in refs : Live(ref) /\ ~Blocked(ref.id)

(* Mutant: the cooldown is not pruned.                                     *)
PruneCountOnly ==
  /\ providers' = [id \in DOMAIN providers |->
       [providers[id] EXCEPT !.consecutiveFailures = 0]]
  /\ UNCHANGED <<modelProviders, blockedProviderIDs, nextProviderGeneration>>

PruneProviderFailures ==
  /\ providers' = [id \in DOMAIN providers |->
       [providers[id] EXCEPT !.consecutiveFailures = 0, !.coolingLeft = 0]]
  /\ UNCHANGED <<modelProviders, blockedProviderIDs, nextProviderGeneration>>

(* Time passes for every running cooldown.                                 *)
Elapse ==
  /\ \E id \in DOMAIN providers : providers[id].coolingLeft > 0
  /\ providers' = [id \in DOMAIN providers |->
       [providers[id] EXCEPT !.coolingLeft = IF @ > 0 THEN @ - 1 ELSE 0]]
  /\ UNCHANGED <<modelProviders, blockedProviderIDs, nextProviderGeneration>>

-----------------------------------------------------------------------------
(* The routing index always agrees with the table: every ref in it is live *)
(* and lists the model, and no listed model is missing                     *)
(* (rebuildModelProvidersLocked).                                          *)
IndexConsistent == modelProviders = IndexOf(providers)

(* A provider only advertises models that the server behind its present    *)
(* URL and key listed: a changed connection starts with an empty list      *)
(* (buildProviderShells), and no list fetched over the old one is stored   *)
(* with the new (refreshMu, the generation check of replaceProviderModels).*)
ModelsFromOwnConnection ==
  \A id \in DOMAIN providers :
    providers[id].models \in Serves[providers[id].connection] \cup {{}}

(* A provider cools down only with enough consecutive failures behind it;  *)
(* whatever clears the count clears the cooldown.                          *)
CooldownEarned ==
  \A id \in DOMAIN providers :
    providers[id].coolingLeft > 0 =>
      CooldownFailures > 0 /\ providers[id].consecutiveFailures >= CooldownFailures

(* The two records of a block, the provider's flag and the set of IDs that *)
(* outlives the provider, never disagree.                                  *)
BlockRecordsAgree ==
  \A id \in DOMAIN providers : providers[id].blocked <=> id \in blockedProviderIDs

(* No two shells share a generation, and numbers are never handed out      *)
(* twice: what makes a ref name one shell for ever (reconcileProviders).   *)
GenerationsUnique ==
  \A id \in DOMAIN providers :
    /\ providers[id].generation < nextProviderGeneration
    /\ \A other \in DOMAIN providers \ {id} :
         providers[other].generation # providers[id].generation
=============================================================================
