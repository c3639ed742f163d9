-------------------------- MODULE LoadBalancer_proofs --------------------------
(***************************************************************************)
(* The load balancer's inductive invariant and the safety theorems that    *)
(* follow from it, for any number of requests, providers and refreshes.    *)
(***************************************************************************)
EXTENDS LoadBalancer, FiniteSetTheorems, SequenceTheorems, TLAPS

-----------------------------------------------------------------------------
(* What every method of the provider pool keeps true of it, for any IDs,   *)
(* models, connections, tiers and cooldown policy.                         *)

PoolInv ==
  /\ PoolTypeOK
  /\ IndexConsistent
  /\ CooldownEarned
  /\ BlockRecordsAgree
  /\ GenerationsUnique

(* No shell was replaced and only counters, flags or lists changed.        *)
SameShells ==
  /\ DOMAIN providers' = DOMAIN providers
  /\ nextProviderGeneration' = nextProviderGeneration
  /\ \A id \in DOMAIN providers :
       /\ providers'[id].generation = providers[id].generation
       /\ providers'[id].tier = providers[id].tier
       /\ providers'[id].connection = providers[id].connection

SameBusy == \A id \in DOMAIN providers : providers'[id].busy = providers[id].busy

SameModels == \A id \in DOMAIN providers : providers'[id].models = providers[id].models

(* Reconciliation keeps a shell as it is or puts a new one in its place.   *)
ShellsKeptOrFresh ==
  /\ nextProviderGeneration <= nextProviderGeneration'
  /\ \A id \in DOMAIN providers' :
       \/ /\ id \in DOMAIN providers
          /\ providers'[id].generation = providers[id].generation
          /\ providers'[id].tier = providers[id].tier
          /\ providers'[id].connection = providers[id].connection
          /\ providers'[id].busy = providers[id].busy
          /\ providers'[id].models = providers[id].models
          /\ providers'[id].consecutiveFailures = providers[id].consecutiveFailures
       \/ /\ providers'[id].generation >= nextProviderGeneration
          /\ providers'[id].busy = 0
          /\ providers'[id].models = {}
          /\ providers'[id].consecutiveFailures = 0

LEMMA ConfigDomainFinite ==
  ASSUME NEW cfg \in ConfigFile
  PROVE  /\ DOMAIN cfg \subseteq ProviderIDs
         /\ IsFiniteSet(DOMAIN cfg)
         /\ \A id \in DOMAIN cfg : cfg[id] \in ProviderConfig
<1>1. PICK S \in SUBSET ProviderIDs \ {{}} : cfg \in [S -> ProviderConfig]
  BY DEF ConfigFile
<1>2. DOMAIN cfg = S /\ \A id \in S : cfg[id] \in ProviderConfig
  BY <1>1
<1> QED
  BY <1>1, <1>2, PoolAssumption, FS_Subset

(* The numbers given to fresh shells are new and distinct.                 *)
LEMMA GenerationsFresh ==
  ASSUME NEW fresh, IsFiniteSet(fresh), NEW first \in Nat,
         NEW gen \in Generations(fresh, first)
  PROVE  /\ \A id \in fresh : /\ gen[id] \in Nat
                              /\ first <= gen[id]
                              /\ gen[id] < first + Cardinality(fresh)
         /\ \A a, b \in fresh : a # b => gen[a] # gen[b]
         /\ Cardinality(fresh) \in Nat
<1>1. Cardinality(fresh) \in Nat
  BY FS_CardinalityType
<1>2. gen \in [fresh -> first .. first + Cardinality(fresh) - 1] /\ IsInjective(gen)
  BY DEF Generations, Injection
<1>3. \A id \in fresh : gen[id] \in first .. first + Cardinality(fresh) - 1
  BY <1>2
<1>4. \A a, b \in fresh : a # b => gen[a] # gen[b]
  BY <1>2 DEF IsInjective
<1> QED
  BY <1>1, <1>3, <1>4

LEMMA IndexType ==
  ASSUME NEW ps, DOMAIN ps \subseteq ProviderIDs,
         \A id \in DOMAIN ps : ps[id] \in Provider
  PROVE  IndexOf(ps) \in [Models -> SUBSET Ref]
BY DEF IndexOf, RefIn, Ref, Provider

(* The index depends on nothing but generations, tiers and model lists.    *)
LEMMA IndexUnchanged ==
  ASSUME NEW ps, NEW qs, DOMAIN qs = DOMAIN ps,
         \A id \in DOMAIN ps : /\ qs[id].generation = ps[id].generation
                               /\ qs[id].tier = ps[id].tier
                               /\ qs[id].models = ps[id].models
  PROVE  IndexOf(qs) = IndexOf(ps)
<1>1. \A id \in DOMAIN ps : RefIn(qs, id) = RefIn(ps, id)
  BY DEF RefIn
<1>2. \A m \in Models : {id \in DOMAIN qs : m \in qs[id].models}
                          = {id \in DOMAIN ps : m \in ps[id].models}
  OBVIOUS
<1>3. \A m \in Models : {RefIn(qs, id) : id \in {i \in DOMAIN qs : m \in qs[i].models}}
                          = {RefIn(ps, id) : id \in {i \in DOMAIN ps : m \in ps[i].models}}
  BY <1>1, <1>2
<1> QED
  BY <1>3 DEF IndexOf

LEMMA ProviderRecord ==
  ASSUME NEW g \in Nat, NEW t \in Tiers, NEW c \in Connections,
         NEW ms \in SUBSET Models, NEW n \in Nat, NEW f \in Nat,
         NEW left \in 0 .. Cooldown, NEW b \in BOOLEAN
  PROVE  [generation |-> g, tier |-> t, connection |-> c, models |-> ms, busy |-> n,
          consecutiveFailures |-> f, coolingLeft |-> left, blocked |-> b] \in Provider
BY DEF Provider

LEMMA ShellType ==
  ASSUME NEW entry \in ProviderConfig, NEW g \in Nat, NEW b \in BOOLEAN
  PROVE  /\ Shell(entry, g, b) \in Provider
         /\ Shell(entry, g, b).generation = g
         /\ Shell(entry, g, b).connection = entry.connection
         /\ Shell(entry, g, b).models = {}
         /\ Shell(entry, g, b).busy = 0
         /\ Shell(entry, g, b).consecutiveFailures = 0
         /\ Shell(entry, g, b).coolingLeft = 0
         /\ Shell(entry, g, b).blocked = b
BY PoolAssumption DEF Shell, Provider, ProviderConfig

(* At startup nothing is busy and every model list came from its server.   *)
THEOREM PoolInitInv ==
  PoolInit => /\ PoolInv
              /\ ModelsFromOwnConnection
              /\ \A id \in DOMAIN providers : providers[id].busy = 0
<1> SUFFICES ASSUME PoolInit
             PROVE  /\ PoolInv
                    /\ ModelsFromOwnConnection
                    /\ \A id \in DOMAIN providers : providers[id].busy = 0
  OBVIOUS
<1>s. PICK config \in InitialConfigs : StartFrom(config)
  BY DEF PoolInit
<1> DEFINE D == DOMAIN config
<1>0. D \subseteq ProviderIDs /\ IsFiniteSet(D) /\ \A id \in D : config[id] \in ProviderConfig
  BY PoolAssumption, ConfigDomainFinite
<1>1. PICK gen \in Generations(D, 1), banned \in SUBSET D, listed \in [D -> SUBSET Models] :
         /\ \A id \in D : \/ listed[id] = {}
                          \/ listed[id] \in Serves[config[id].connection]
         /\ blockedProviderIDs = banned
         /\ providers = [id \in D |-> [Shell(config[id], gen[id], id \in banned)
                                         EXCEPT !.models = listed[id]]]
  BY <1>s DEF StartFrom
<1>2. /\ \A id \in D : gen[id] \in Nat /\ gen[id] < 1 + Cardinality(D)
      /\ \A a, b \in D : a # b => gen[a] # gen[b]
      /\ Cardinality(D) \in Nat
  BY <1>0, GenerationsFresh
<1>3. DOMAIN providers = D
  BY <1>1
<1>4. \A id \in D : providers[id] = [Shell(config[id], gen[id], id \in banned)
                                       EXCEPT !.models = listed[id]]
  BY <1>1
<1>5. \A id \in D : /\ providers[id] \in Provider
                    /\ providers[id].generation = gen[id]
                    /\ providers[id].coolingLeft = 0
                    /\ providers[id].busy = 0
                    /\ providers[id].connection = config[id].connection
                    /\ providers[id].models = listed[id]
                    /\ providers[id].blocked <=> id \in banned
  <2> SUFFICES ASSUME NEW id \in D
               PROVE  /\ providers[id] \in Provider
                      /\ providers[id].generation = gen[id]
                      /\ providers[id].coolingLeft = 0
                      /\ providers[id].busy = 0
                      /\ providers[id].connection = config[id].connection
                      /\ providers[id].models = listed[id]
                      /\ providers[id].blocked <=> id \in banned
    OBVIOUS
  <2>0. (id \in banned) \in BOOLEAN
    OBVIOUS
  <2>1. PICK b \in BOOLEAN : b = (id \in banned)
    BY <2>0, Zenon
  <2>2. providers[id] = [Shell(config[id], gen[id], b) EXCEPT !.models = listed[id]]
    BY <1>4, <2>1
  <2>3. config[id] \in ProviderConfig /\ gen[id] \in Nat /\ listed[id] \in SUBSET Models
    BY <1>0, <1>2
  <2>4. /\ Shell(config[id], gen[id], b) \in Provider
        /\ Shell(config[id], gen[id], b).generation = gen[id]
        /\ Shell(config[id], gen[id], b).coolingLeft = 0
        /\ Shell(config[id], gen[id], b).busy = 0
        /\ Shell(config[id], gen[id], b).connection = config[id].connection
        /\ Shell(config[id], gen[id], b).blocked = b
    BY <2>3, ShellType
  <2>5. /\ providers[id] \in Provider
        /\ providers[id].generation = gen[id]
        /\ providers[id].coolingLeft = 0
        /\ providers[id].busy = 0
        /\ providers[id].connection = config[id].connection
        /\ providers[id].models = listed[id]
        /\ providers[id].blocked = b
    BY <2>2, <2>3, <2>4 DEF Provider
  <2> QED
    BY <2>1, <2>5
<1>6. IndexConsistent
  BY <1>s DEF StartFrom, IndexConsistent
<1>7. PoolTypeOK
  <2>1. modelProviders \in [Models -> SUBSET Ref]
    BY <1>0, <1>3, <1>5, <1>6, IndexType DEF IndexConsistent
  <2>2. nextProviderGeneration \in Nat
    BY <1>2, <1>s DEF StartFrom
  <2>3. providers \in [DOMAIN providers -> Provider]
    BY <1>1, <1>3, <1>5
  <2> QED
    BY <1>0, <1>1, <1>3, <2>1, <2>2, <2>3 DEF PoolTypeOK
<1>8. CooldownEarned /\ BlockRecordsAgree
  BY <1>1, <1>3, <1>5 DEF CooldownEarned, BlockRecordsAgree
<1>9. GenerationsUnique
  BY <1>2, <1>3, <1>5, <1>s DEF GenerationsUnique, StartFrom
<1>10. ModelsFromOwnConnection /\ \A id \in DOMAIN providers : providers[id].busy = 0
  BY <1>1, <1>3, <1>5 DEF ModelsFromOwnConnection
<1> QED
  BY <1>6, <1>7, <1>8, <1>9, <1>10 DEF PoolInv

LEMMA CoolingRange ==
  0 \in 0 .. Cooldown /\ Cooldown \in 0 .. Cooldown /\ Cooldown \in Nat /\ CooldownFailures \in Nat
BY PoolAssumption

LEMMA SetCounters ==
  ASSUME NEW record \in Provider, NEW f \in Nat, NEW left \in 0 .. Cooldown
  PROVE  [record EXCEPT !.consecutiveFailures = f, !.coolingLeft = left] \in Provider
BY DEF Provider

LEMMA UpdateInv ==
  ASSUME PoolInv, NEW ref, NEW record, Update(ref, record),
         Live(ref) =>
           /\ record \in Provider
           /\ record.generation = providers[ref.id].generation
           /\ record.tier = providers[ref.id].tier
           /\ record.connection = providers[ref.id].connection
           /\ record.models = providers[ref.id].models
           /\ record.blocked = providers[ref.id].blocked
           /\ record.coolingLeft > 0 =>
                CooldownFailures > 0 /\ record.consecutiveFailures >= CooldownFailures
  PROVE  PoolInv' /\ SameShells /\ SameModels
<1>1. CASE ~Live(ref)
  <2>1. UNCHANGED poolVars
    BY <1>1 DEF Update, poolVars
  <2> QED
    BY <2>1 DEF poolVars, PoolInv, SameShells, SameModels, PoolTypeOK, IndexConsistent, CooldownEarned,
                BlockRecordsAgree, GenerationsUnique
<1>2. CASE Live(ref)
  <2>1. /\ DOMAIN providers' = DOMAIN providers
        /\ providers' = [providers EXCEPT ![ref.id] = record]
        /\ ref.id \in DOMAIN providers
    BY <1>2 DEF Update, Live
  <2>2. \A id \in DOMAIN providers :
          /\ providers'[id] \in Provider
          /\ providers'[id].generation = providers[id].generation
          /\ providers'[id].tier = providers[id].tier
          /\ providers'[id].connection = providers[id].connection
          /\ providers'[id].models = providers[id].models
          /\ providers'[id].blocked = providers[id].blocked
          /\ providers'[id].coolingLeft > 0 =>
               CooldownFailures > 0 /\ providers'[id].consecutiveFailures >= CooldownFailures
    <3> SUFFICES ASSUME NEW id \in DOMAIN providers
                 PROVE  /\ providers'[id] \in Provider
                        /\ providers'[id].generation = providers[id].generation
                        /\ providers'[id].tier = providers[id].tier
                        /\ providers'[id].connection = providers[id].connection
                        /\ providers'[id].models = providers[id].models
                        /\ providers'[id].blocked = providers[id].blocked
                        /\ providers'[id].coolingLeft > 0 =>
                             /\ CooldownFailures > 0
                             /\ providers'[id].consecutiveFailures >= CooldownFailures
      OBVIOUS
    <3>1. CASE id = ref.id
      <4>1. providers'[id] = record
        BY <2>1, <3>1
      <4> QED
        BY <1>2, <3>1, <4>1
    <3>2. CASE id # ref.id
      <4>1. providers'[id] = providers[id]
        BY <2>1, <3>2
      <4> QED
        BY <4>1 DEF PoolInv, PoolTypeOK, CooldownEarned
    <3> QED
      BY <3>1, <3>2
  <2>3. IndexOf(providers') = IndexOf(providers)
    BY <2>1, <2>2, IndexUnchanged
  <2>4. SameShells /\ SameModels
    BY <2>1, <2>2 DEF SameShells, SameModels, Update
  <2>5. PoolTypeOK'
    BY <2>1, <2>2 DEF PoolInv, PoolTypeOK, Update
  <2>6. IndexConsistent'
    BY <2>3 DEF PoolInv, IndexConsistent, Update
  <2>7. CooldownEarned'
    BY <2>1, <2>2 DEF CooldownEarned
  <2>8. BlockRecordsAgree'
    BY <2>1, <2>2 DEF PoolInv, BlockRecordsAgree, Update
  <2>9. GenerationsUnique'
    BY <2>1, <2>2 DEF PoolInv, GenerationsUnique, Update
  <2> QED
    BY <2>4, <2>5, <2>6, <2>7, <2>8, <2>9 DEF PoolInv
<1> QED
  BY <1>1, <1>2

LEMMA RecordProviderFailureInv ==
  ASSUME PoolInv, NEW ref, RecordProviderFailure(ref)
  PROVE  PoolInv' /\ SameShells /\ SameModels /\ SameBusy
<1> DEFINE old == providers[ref.id]
           record == [old EXCEPT
             !.consecutiveFailures = old.consecutiveFailures + 1,
             !.coolingLeft = IF CooldownFailures > 0
                                /\ old.consecutiveFailures + 1 >= CooldownFailures
                               THEN Cooldown ELSE @]
<1>1. Update(ref, record)
  BY DEF RecordProviderFailure
<1>2. Live(ref) =>
        /\ record \in Provider
        /\ record.generation = old.generation
        /\ record.tier = old.tier
        /\ record.connection = old.connection
        /\ record.models = old.models
        /\ record.blocked = old.blocked
        /\ record.busy = old.busy
        /\ record.coolingLeft > 0 =>
             CooldownFailures > 0 /\ record.consecutiveFailures >= CooldownFailures
  <2> SUFFICES ASSUME Live(ref)
               PROVE  /\ record \in Provider
                      /\ record.generation = old.generation
                      /\ record.tier = old.tier
                      /\ record.connection = old.connection
                      /\ record.models = old.models
                      /\ record.blocked = old.blocked
                      /\ record.busy = old.busy
                      /\ record.coolingLeft > 0 =>
                           CooldownFailures > 0 /\ record.consecutiveFailures >= CooldownFailures
    OBVIOUS
  <2>1. /\ old \in Provider
        /\ old.coolingLeft > 0 =>
             CooldownFailures > 0 /\ old.consecutiveFailures >= CooldownFailures
    BY DEF PoolInv, PoolTypeOK, CooldownEarned, Live
  <2>2. CASE CooldownFailures > 0 /\ old.consecutiveFailures + 1 >= CooldownFailures
    <3>1. record = [old EXCEPT !.consecutiveFailures = old.consecutiveFailures + 1,
                               !.coolingLeft = Cooldown]
      BY <2>2
    <3>2. record \in Provider
      <4>1. old \in Provider /\ old.consecutiveFailures + 1 \in Nat
        BY <2>1 DEF Provider
      <4> HIDE DEF record, old
      <4> QED
        BY <3>1, <4>1, CoolingRange DEF Provider
    <3>3. old.consecutiveFailures \in Nat
      BY <2>1 DEF Provider
    <3> QED
      BY <2>1, <2>2, <3>1, <3>2, <3>3 DEF Provider
  <2>3. CASE ~(CooldownFailures > 0 /\ old.consecutiveFailures + 1 >= CooldownFailures)
    <3>1. record = [old EXCEPT !.consecutiveFailures = old.consecutiveFailures + 1]
      BY <2>1, <2>3 DEF Provider
    <3>2. record \in Provider
      BY <2>1, <3>1 DEF Provider
    <3>3. old.consecutiveFailures \in Nat
      BY <2>1 DEF Provider
    <3> QED
      BY <2>1, <3>1, <3>2, <3>3, CoolingRange DEF Provider
  <2> QED
    BY <2>2, <2>3
<1>3. PoolInv' /\ SameShells /\ SameModels
  BY <1>1, <1>2, UpdateInv
<1>4. SameBusy
  BY <1>1, <1>2 DEF Update, SameBusy
<1> QED
  BY <1>3, <1>4

LEMMA RecordProviderSuccessInv ==
  ASSUME PoolInv, NEW ref, RecordProviderSuccess(ref)
  PROVE  PoolInv' /\ SameShells /\ SameModels /\ SameBusy
<1> DEFINE old == providers[ref.id]
           record == [old EXCEPT !.consecutiveFailures = 0, !.coolingLeft = 0]
<1>1. Update(ref, record)
  BY DEF RecordProviderSuccess
<1>2. Live(ref) =>
        /\ record \in Provider
        /\ record.generation = old.generation
        /\ record.tier = old.tier
        /\ record.connection = old.connection
        /\ record.models = old.models
        /\ record.blocked = old.blocked
        /\ record.busy = old.busy
        /\ record.coolingLeft = 0
  <2> SUFFICES ASSUME Live(ref)
               PROVE  /\ record \in Provider
                      /\ record.generation = old.generation
                      /\ record.tier = old.tier
                      /\ record.connection = old.connection
                      /\ record.models = old.models
                      /\ record.blocked = old.blocked
                      /\ record.busy = old.busy
                      /\ record.coolingLeft = 0
    OBVIOUS
  <2>1. old \in Provider
    BY DEF PoolInv, PoolTypeOK, Live
  <2>2. record \in Provider
    BY <2>1, CoolingRange DEF Provider
  <2> QED
    BY <2>1, <2>2 DEF Provider
<1>3. PoolInv' /\ SameShells /\ SameModels
  <2>1. Live(ref) => (record.coolingLeft > 0 =>
             CooldownFailures > 0 /\ record.consecutiveFailures >= CooldownFailures)
    BY <1>2
  <2> HIDE DEF record
  <2> QED
    BY <1>1, <1>2, <2>1, UpdateInv
<1>4. SameBusy
  BY <1>1, <1>2 DEF Update, SameBusy
<1> QED
  BY <1>3, <1>4

LEMMA OccupyInv ==
  ASSUME PoolInv, NEW ref, Live(ref), Occupy(ref)
  PROVE  /\ PoolInv' /\ SameShells /\ SameModels
         /\ \A id \in DOMAIN providers :
              providers'[id].busy = IF id = ref.id THEN providers[id].busy + 1
                                                   ELSE providers[id].busy
<1> DEFINE old == providers[ref.id]
           record == [old EXCEPT !.busy = @ + 1]
<1>1. Update(ref, record)
  BY DEF Occupy
<1>2. old \in Provider /\ ref.id \in DOMAIN providers
  BY DEF PoolInv, PoolTypeOK, Live
<1>3. /\ record \in Provider
      /\ record.generation = old.generation
      /\ record.tier = old.tier
      /\ record.connection = old.connection
      /\ record.models = old.models
      /\ record.blocked = old.blocked
      /\ record.busy = old.busy + 1
      /\ record.coolingLeft > 0 =>
           CooldownFailures > 0 /\ record.consecutiveFailures >= CooldownFailures
  BY <1>2, PoolAssumption DEF Provider, PoolInv, CooldownEarned
<1>4. PoolInv' /\ SameShells /\ SameModels
  BY <1>1, <1>3, UpdateInv
<1>5. providers' = [providers EXCEPT ![ref.id] = record]
  BY <1>1 DEF Update
<1> QED
  BY <1>2, <1>3, <1>4, <1>5

LEMMA ReleaseProviderInv ==
  ASSUME PoolInv, NEW ref, ReleaseProvider(ref)
  PROVE  /\ PoolInv' /\ SameShells /\ SameModels
         /\ \A id \in DOMAIN providers :
              providers'[id].busy = IF Live(ref) /\ id = ref.id /\ providers[id].busy > 0
                                      THEN providers[id].busy - 1
                                      ELSE providers[id].busy
<1> DEFINE old == providers[ref.id]
           record == [old EXCEPT !.busy = IF @ > 0 THEN @ - 1 ELSE 0]
<1>1. Update(ref, record)
  BY DEF ReleaseProvider
<1>2. Live(ref) =>
        /\ ref.id \in DOMAIN providers
        /\ record \in Provider
        /\ record.generation = old.generation
        /\ record.tier = old.tier
        /\ record.connection = old.connection
        /\ record.models = old.models
        /\ record.blocked = old.blocked
        /\ record.busy = (IF old.busy > 0 THEN old.busy - 1 ELSE old.busy)
        /\ record.coolingLeft > 0 =>
             CooldownFailures > 0 /\ record.consecutiveFailures >= CooldownFailures
  <2>1. Live(ref) => old \in Provider /\ ref.id \in DOMAIN providers
    BY DEF PoolInv, PoolTypeOK, Live
  <2> QED
    BY <2>1, PoolAssumption DEF Provider, PoolInv, CooldownEarned
<1>3. PoolInv' /\ SameShells /\ SameModels
  BY <1>1, <1>2, UpdateInv
<1>4. providers' = IF Live(ref) THEN [providers EXCEPT ![ref.id] = record] ELSE providers
  BY <1>1 DEF Update
<1>5. \A id \in DOMAIN providers :
        providers'[id].busy = IF Live(ref) /\ id = ref.id /\ providers[id].busy > 0
                                THEN providers[id].busy - 1
                                ELSE providers[id].busy
  BY <1>2, <1>4
<1> QED
  BY <1>3, <1>5

(* A step that rewrites every record, field by field, without touching the *)
(* index or the blocks.                                                    *)
LEMMA RewriteInv ==
  ASSUME PoolInv,
         DOMAIN providers' = DOMAIN providers,
         UNCHANGED <<modelProviders, blockedProviderIDs, nextProviderGeneration>>,
         providers' = [id \in DOMAIN providers |-> providers'[id]],
         \A id \in DOMAIN providers :
           /\ providers'[id] \in Provider
           /\ providers'[id].generation = providers[id].generation
           /\ providers'[id].tier = providers[id].tier
           /\ providers'[id].connection = providers[id].connection
           /\ providers'[id].models = providers[id].models
           /\ providers'[id].blocked = providers[id].blocked
           /\ providers'[id].coolingLeft > 0 =>
                CooldownFailures > 0 /\ providers'[id].consecutiveFailures >= CooldownFailures
  PROVE  PoolInv' /\ SameShells /\ SameModels
<1>1. IndexOf(providers') = IndexOf(providers)
  BY IndexUnchanged
<1>2. SameShells /\ SameModels
  BY DEF SameShells, SameModels
<1>3. PoolTypeOK'
  BY DEF PoolInv, PoolTypeOK
<1>4. IndexConsistent'
  BY <1>1 DEF PoolInv, IndexConsistent
<1>5. CooldownEarned'
  BY DEF CooldownEarned
<1>6. BlockRecordsAgree'
  BY DEF PoolInv, BlockRecordsAgree
<1>7. GenerationsUnique'
  BY DEF PoolInv, GenerationsUnique
<1> QED
  BY <1>2, <1>3, <1>4, <1>5, <1>6, <1>7 DEF PoolInv

LEMMA PruneInv ==
  ASSUME PoolInv, PruneProviderFailures
  PROVE  PoolInv' /\ SameShells /\ SameModels /\ SameBusy
<1>1. /\ DOMAIN providers' = DOMAIN providers
      /\ providers' = [id \in DOMAIN providers |-> providers'[id]]
      /\ UNCHANGED <<modelProviders, blockedProviderIDs, nextProviderGeneration>>
  BY DEF PruneProviderFailures
<1>2. ASSUME NEW id \in DOMAIN providers
      PROVE  /\ providers'[id] \in Provider
             /\ providers'[id].generation = providers[id].generation
             /\ providers'[id].tier = providers[id].tier
             /\ providers'[id].connection = providers[id].connection
             /\ providers'[id].models = providers[id].models
             /\ providers'[id].blocked = providers[id].blocked
             /\ providers'[id].busy = providers[id].busy
             /\ providers'[id].coolingLeft = 0
  <2>1. providers'[id] = [providers[id] EXCEPT !.consecutiveFailures = 0, !.coolingLeft = 0]
    BY DEF PruneProviderFailures
  <2>2. providers[id] \in Provider
    BY DEF PoolInv, PoolTypeOK
  <2>3. providers'[id] \in Provider
    <3> DEFINE zero == 0
    <3>1. zero \in Nat /\ zero \in 0 .. Cooldown
      BY CoolingRange
    <3>2. providers'[id] = [providers[id] EXCEPT !.consecutiveFailures = zero,
                                                 !.coolingLeft = zero]
      BY <2>1
    <3> HIDE DEF zero
    <3> QED
      BY <2>2, <3>1, <3>2, SetCounters
  <2> QED
    BY <2>1, <2>2, <2>3 DEF Provider
<1>3. PoolInv' /\ SameShells /\ SameModels
  <2>1. \A id \in DOMAIN providers : ~(providers'[id].coolingLeft > 0)
    BY <1>2
  <2> QED
    BY <1>1, <1>2, <2>1, RewriteInv
<1> QED
  BY <1>2, <1>3 DEF SameBusy

LEMMA ElapseInv ==
  ASSUME PoolInv, Elapse
  PROVE  PoolInv' /\ SameShells /\ SameModels /\ SameBusy
<1>1. /\ DOMAIN providers' = DOMAIN providers
      /\ providers' = [id \in DOMAIN providers |-> providers'[id]]
      /\ UNCHANGED <<modelProviders, blockedProviderIDs, nextProviderGeneration>>
  BY DEF Elapse
<1>2. ASSUME NEW id \in DOMAIN providers
      PROVE  /\ providers'[id] \in Provider
             /\ providers'[id].generation = providers[id].generation
             /\ providers'[id].tier = providers[id].tier
             /\ providers'[id].connection = providers[id].connection
             /\ providers'[id].models = providers[id].models
             /\ providers'[id].blocked = providers[id].blocked
             /\ providers'[id].busy = providers[id].busy
             /\ providers'[id].coolingLeft > 0 =>
                  CooldownFailures > 0 /\ providers'[id].consecutiveFailures >= CooldownFailures
  <2> DEFINE left == IF providers[id].coolingLeft > 0 THEN providers[id].coolingLeft - 1 ELSE 0
  <2>1. providers'[id] = [providers[id] EXCEPT !.coolingLeft = left]
    BY DEF Elapse
  <2>2. /\ providers[id] \in Provider
        /\ providers[id].coolingLeft > 0 =>
             CooldownFailures > 0 /\ providers[id].consecutiveFailures >= CooldownFailures
    BY DEF PoolInv, PoolTypeOK, CooldownEarned
  <2>3. left \in 0 .. Cooldown /\ (left > 0 => providers[id].coolingLeft > 0)
    BY <2>2, CoolingRange DEF Provider
  <2> HIDE DEF left
  <2>4. providers'[id] \in Provider
    BY <2>1, <2>2, <2>3 DEF Provider
  <2> QED
    BY <2>1, <2>2, <2>3, <2>4 DEF Provider
<1>3. PoolInv' /\ SameShells /\ SameModels
  BY <1>1, <1>2, RewriteInv
<1> QED
  BY <1>2, <1>3 DEF SameBusy

LEMMA BlockProviderInv ==
  ASSUME PoolInv, NEW ref \in Ref, BlockProvider(ref)
  PROVE  PoolInv' /\ SameShells /\ SameModels /\ SameBusy
<1>1. DOMAIN providers' = DOMAIN providers
  BY DEF BlockProvider
<1>2. ASSUME NEW id \in DOMAIN providers
      PROVE  /\ providers'[id] \in Provider
             /\ providers'[id].generation = providers[id].generation
             /\ providers'[id].tier = providers[id].tier
             /\ providers'[id].connection = providers[id].connection
             /\ providers'[id].models = providers[id].models
             /\ providers'[id].busy = providers[id].busy
             /\ providers'[id].blocked <=> (providers[id].blocked \/ id = ref.id)
             /\ providers'[id].coolingLeft > 0 =>
                  CooldownFailures > 0 /\ providers'[id].consecutiveFailures >= CooldownFailures
  <2>1. /\ providers[id] \in Provider
        /\ providers[id].coolingLeft > 0 =>
             CooldownFailures > 0 /\ providers[id].consecutiveFailures >= CooldownFailures
    BY DEF PoolInv, PoolTypeOK, CooldownEarned
  <2>2. CASE id = ref.id
    <3>1. providers'[id] = [providers[id] EXCEPT !.blocked = TRUE, !.coolingLeft = 0]
      BY <2>2 DEF BlockProvider
    <3>2. providers'[id] \in Provider
      BY <2>1, <3>1, CoolingRange DEF Provider
    <3> QED
      BY <2>1, <2>2, <3>1, <3>2 DEF Provider
  <2>3. CASE id # ref.id
    <3>1. providers'[id] = providers[id]
      BY <2>3 DEF BlockProvider
    <3> QED
      BY <2>1, <2>3, <3>1
  <2> QED
    BY <2>2, <2>3
<1>3. IndexOf(providers') = IndexOf(providers)
  BY <1>1, <1>2, IndexUnchanged
<1>4. SameShells /\ SameModels /\ SameBusy
  BY <1>1, <1>2 DEF SameShells, SameModels, SameBusy, BlockProvider
<1>5. PoolTypeOK'
  <2>1. providers' = [id \in DOMAIN providers |-> providers'[id]]
    BY DEF BlockProvider, PoolInv, PoolTypeOK
  <2>2. ref.id \in ProviderIDs
    BY DEF Ref
  <2> QED
    BY <1>1, <1>2, <2>1, <2>2 DEF PoolInv, PoolTypeOK, BlockProvider
<1>6. IndexConsistent'
  BY <1>3 DEF PoolInv, IndexConsistent, BlockProvider
<1>7. CooldownEarned'
  BY <1>1, <1>2 DEF CooldownEarned
<1>8. BlockRecordsAgree'
  BY <1>1, <1>2 DEF PoolInv, BlockRecordsAgree, BlockProvider
<1>9. GenerationsUnique'
  BY <1>1, <1>2 DEF PoolInv, GenerationsUnique, BlockProvider
<1> QED
  BY <1>4, <1>5, <1>6, <1>7, <1>8, <1>9 DEF PoolInv

LEMMA SetBlocked ==
  ASSUME NEW record \in Provider, NEW b \in BOOLEAN
  PROVE  [record EXCEPT !.blocked = b] \in Provider
BY DEF Provider

LEMMA PublishFacts ==
  ASSUME PoolInv, NEW ps, Publish(ps), DOMAIN ps \subseteq ProviderIDs,
         \A id \in DOMAIN ps : ps[id] \in Provider
  PROVE  /\ DOMAIN providers' = DOMAIN ps
         /\ providers' = [id \in DOMAIN ps |-> providers'[id]]
         /\ \A id \in DOMAIN ps :
              /\ providers'[id] \in Provider
              /\ providers'[id].generation = ps[id].generation
              /\ providers'[id].tier = ps[id].tier
              /\ providers'[id].connection = ps[id].connection
              /\ providers'[id].models = ps[id].models
              /\ providers'[id].busy = ps[id].busy
              /\ providers'[id].consecutiveFailures = ps[id].consecutiveFailures
              /\ providers'[id].coolingLeft = ps[id].coolingLeft
         /\ IndexConsistent'
         /\ BlockRecordsAgree'
         /\ blockedProviderIDs' \subseteq ProviderIDs
         /\ modelProviders' \in [Models -> SUBSET Ref]
<1>1. DOMAIN providers' = DOMAIN ps /\ providers' = [id \in DOMAIN ps |-> providers'[id]]
  BY DEF Publish
<1>2. ASSUME NEW id \in DOMAIN ps
      PROVE  /\ providers'[id] \in Provider
             /\ providers'[id].generation = ps[id].generation
             /\ providers'[id].tier = ps[id].tier
             /\ providers'[id].connection = ps[id].connection
             /\ providers'[id].models = ps[id].models
             /\ providers'[id].busy = ps[id].busy
             /\ providers'[id].consecutiveFailures = ps[id].consecutiveFailures
             /\ providers'[id].coolingLeft = ps[id].coolingLeft
             /\ providers'[id].blocked <=> (ps[id].blocked \/ id \in blockedProviderIDs)
  <2>1. (ps[id].blocked \/ id \in blockedProviderIDs) \in BOOLEAN
    OBVIOUS
  <2>2. PICK b \in BOOLEAN : b = (ps[id].blocked \/ id \in blockedProviderIDs)
    BY <2>1, Zenon
  <2>3. providers'[id] = [ps[id] EXCEPT !.blocked = b]
    BY <2>2 DEF Publish
  <2>4. providers'[id] \in Provider
    BY <2>3, SetBlocked
  <2>5. /\ providers'[id].blocked = b
        /\ providers'[id].generation = ps[id].generation
        /\ providers'[id].tier = ps[id].tier
        /\ providers'[id].connection = ps[id].connection
        /\ providers'[id].models = ps[id].models
        /\ providers'[id].busy = ps[id].busy
        /\ providers'[id].consecutiveFailures = ps[id].consecutiveFailures
        /\ providers'[id].coolingLeft = ps[id].coolingLeft
    BY <2>3 DEF Provider
  <2> QED
    BY <2>2, <2>4, <2>5
<1>3. IndexOf(providers') = IndexOf(ps)
  BY <1>1, <1>2, IndexUnchanged
<1>4. IndexConsistent'
  BY <1>3 DEF Publish, IndexConsistent
<1>5. BlockRecordsAgree'
  BY <1>1, <1>2 DEF Publish, BlockRecordsAgree
<1>6. blockedProviderIDs' \subseteq ProviderIDs
  BY DEF Publish, PoolInv, PoolTypeOK
<1>7. modelProviders' \in [Models -> SUBSET Ref]
  BY IndexType DEF Publish
<1> QED
  BY <1>1, <1>2, <1>4, <1>5, <1>6, <1>7

LEMMA ReplaceProviderModelsInv ==
  ASSUME PoolInv, NEW ref, NEW models \in SUBSET Models, ReplaceProviderModels(ref, models)
  PROVE  /\ PoolInv' /\ SameShells /\ SameBusy
         /\ \A id \in DOMAIN providers :
              \/ providers'[id].models = providers[id].models
              \/ Live(ref) /\ id = ref.id /\ providers'[id].models = models
<1>1. CASE ~Live(ref)
  <2>1. UNCHANGED poolVars
    BY <1>1 DEF ReplaceProviderModels, poolVars
  <2> QED
    BY <2>1 DEF poolVars, PoolInv, SameShells, SameBusy, PoolTypeOK, IndexConsistent,
                CooldownEarned, BlockRecordsAgree, GenerationsUnique
<1>2. CASE Live(ref)
  <2> DEFINE ps == [providers EXCEPT ![ref.id].models = models]
  <2>1. Publish(ps) /\ nextProviderGeneration' = nextProviderGeneration
    BY <1>2 DEF ReplaceProviderModels
  <2>2. DOMAIN ps = DOMAIN providers /\ DOMAIN providers \subseteq ProviderIDs
    BY DEF PoolInv, PoolTypeOK
  <2>3. ASSUME NEW id \in DOMAIN providers
        PROVE  /\ ps[id] \in Provider
               /\ ps[id].generation = providers[id].generation
               /\ ps[id].tier = providers[id].tier
               /\ ps[id].connection = providers[id].connection
               /\ ps[id].busy = providers[id].busy
               /\ ps[id].consecutiveFailures = providers[id].consecutiveFailures
               /\ ps[id].coolingLeft = providers[id].coolingLeft
               /\ \/ ps[id].models = providers[id].models
                  \/ id = ref.id /\ ps[id].models = models
    <3>1. providers[id] \in Provider
      BY DEF PoolInv, PoolTypeOK
    <3>2. CASE id = ref.id
      <4>1. ps[id] = [providers[id] EXCEPT !.models = models]
        BY <3>2
      <4> QED
        BY <3>1, <3>2, <4>1 DEF Provider
    <3>3. CASE id # ref.id
      <4>1. ps[id] = providers[id]
        BY <3>3
      <4> QED
        BY <3>1, <4>1
    <3> QED
      BY <3>2, <3>3
  <2> HIDE DEF ps
  <2>4. /\ DOMAIN providers' = DOMAIN providers
        /\ providers' = [id \in DOMAIN providers |-> providers'[id]]
        /\ \A id \in DOMAIN providers :
             /\ providers'[id] \in Provider
             /\ providers'[id].generation = ps[id].generation
             /\ providers'[id].tier = ps[id].tier
             /\ providers'[id].connection = ps[id].connection
             /\ providers'[id].models = ps[id].models
             /\ providers'[id].busy = ps[id].busy
             /\ providers'[id].consecutiveFailures = ps[id].consecutiveFailures
             /\ providers'[id].coolingLeft = ps[id].coolingLeft
        /\ IndexConsistent'
        /\ BlockRecordsAgree'
        /\ blockedProviderIDs' \subseteq ProviderIDs
        /\ modelProviders' \in [Models -> SUBSET Ref]
    BY <2>1, <2>2, <2>3, PublishFacts
  <2>5. SameShells /\ SameBusy
    BY <2>1, <2>3, <2>4 DEF SameShells, SameBusy
  <2>6. PoolTypeOK'
    BY <2>1, <2>2, <2>4 DEF PoolInv, PoolTypeOK
  <2>7. CooldownEarned'
    BY <2>3, <2>4 DEF PoolInv, CooldownEarned
  <2>8. GenerationsUnique'
    BY <2>1, <2>3, <2>4 DEF PoolInv, GenerationsUnique
  <2> QED
    BY <1>2, <2>3, <2>4, <2>5, <2>6, <2>7, <2>8 DEF PoolInv
<1> QED
  BY <1>1, <1>2

LEMMA ReconcileInv ==
  ASSUME PoolInv, NEW cfg \in ConfigFile, Reconcile(cfg)
  PROVE  PoolInv' /\ ShellsKeptOrFresh
<1> DEFINE kept == {id \in DOMAIN cfg \cap DOMAIN providers :
                      SameConnection(providers[id], cfg[id])}
           fresh == DOMAIN cfg \ kept
           banned == blockedProviderIDs \cup {id \in DOMAIN providers : providers[id].blocked}
           table(gen) == [id \in DOMAIN cfg |->
                            IF id \in kept
                              THEN [providers[id] EXCEPT !.blocked = id \in banned]
                              ELSE Shell(cfg[id], gen[id], id \in banned)]
<1>1. /\ DOMAIN cfg \subseteq ProviderIDs
      /\ IsFiniteSet(fresh)
      /\ \A id \in DOMAIN cfg : cfg[id] \in ProviderConfig
  BY ConfigDomainFinite, FS_Subset
<1>2. PICK gen \in Generations(fresh, nextProviderGeneration) : Publish(table(gen))
  BY DEF Reconcile
<1>3. nextProviderGeneration \in Nat
      /\ nextProviderGeneration' = nextProviderGeneration + Cardinality(fresh)
  BY DEF Reconcile, PoolInv, PoolTypeOK
<1>4. /\ \A id \in fresh : /\ gen[id] \in Nat
                           /\ nextProviderGeneration <= gen[id]
                           /\ gen[id] < nextProviderGeneration'
      /\ \A a, b \in fresh : a # b => gen[a] # gen[b]
      /\ Cardinality(fresh) \in Nat
  BY <1>1, <1>3, GenerationsFresh
<1> DEFINE ps == table(gen)
<1>5. ASSUME NEW id \in kept
      PROVE  /\ id \in DOMAIN providers
             /\ ps[id] \in Provider
             /\ ps[id].generation = providers[id].generation
             /\ ps[id].tier = providers[id].tier
             /\ ps[id].connection = providers[id].connection
             /\ ps[id].models = providers[id].models
             /\ ps[id].busy = providers[id].busy
             /\ ps[id].consecutiveFailures = providers[id].consecutiveFailures
             /\ ps[id].coolingLeft = providers[id].coolingLeft
  <2>1. (id \in banned) \in BOOLEAN
    OBVIOUS
  <2>2. PICK b \in BOOLEAN : b = (id \in banned)
    BY <2>1, Zenon
  <2>3. ps[id] = [providers[id] EXCEPT !.blocked = b]
    BY <2>2
  <2>4. providers[id] \in Provider
    BY DEF PoolInv, PoolTypeOK
  <2> QED
    BY <2>3, <2>4, SetBlocked DEF Provider
<1>6. ASSUME NEW id \in fresh
      PROVE  /\ ps[id] \in Provider
             /\ ps[id].generation = gen[id]
             /\ ps[id].models = {}
             /\ ps[id].busy = 0
             /\ ps[id].consecutiveFailures = 0
             /\ ps[id].coolingLeft = 0
  <2>1. (id \in banned) \in BOOLEAN
    OBVIOUS
  <2>2. PICK b \in BOOLEAN : b = (id \in banned)
    BY <2>1, Zenon
  <2>3. ps[id] = Shell(cfg[id], gen[id], b)
    BY <2>2
  <2> QED
    BY <1>1, <1>4, <2>3, ShellType
<1>7. DOMAIN ps = DOMAIN cfg /\ DOMAIN cfg = kept \cup fresh
  OBVIOUS
<1>8. Publish(ps)
  BY <1>2
<1> HIDE DEF ps, kept, fresh
<1>9. /\ DOMAIN providers' = kept \cup fresh
      /\ providers' = [id \in DOMAIN providers' |-> providers'[id]]
      /\ \A id \in kept \cup fresh :
           /\ providers'[id] \in Provider
           /\ providers'[id].generation = ps[id].generation
           /\ providers'[id].tier = ps[id].tier
           /\ providers'[id].connection = ps[id].connection
           /\ providers'[id].models = ps[id].models
           /\ providers'[id].busy = ps[id].busy
           /\ providers'[id].consecutiveFailures = ps[id].consecutiveFailures
           /\ providers'[id].coolingLeft = ps[id].coolingLeft
      /\ IndexConsistent'
      /\ BlockRecordsAgree'
      /\ blockedProviderIDs' \subseteq ProviderIDs
      /\ modelProviders' \in [Models -> SUBSET Ref]
  BY <1>1, <1>5, <1>6, <1>7, <1>8, PublishFacts
<1>10. ShellsKeptOrFresh
  BY <1>3, <1>4, <1>5, <1>6, <1>9 DEF ShellsKeptOrFresh
<1>11. PoolTypeOK'
  BY <1>1, <1>3, <1>4, <1>7, <1>9 DEF PoolTypeOK
<1>12. CooldownEarned'
  BY <1>5, <1>6, <1>9 DEF PoolInv, CooldownEarned
<1>13. GenerationsUnique'
  <2>1. \A id \in kept : /\ providers'[id].generation < nextProviderGeneration
                         /\ providers'[id].generation \in Nat
    BY <1>5, <1>9 DEF PoolInv, GenerationsUnique, PoolTypeOK, Provider
  <2>2. \A id \in fresh : providers'[id].generation = gen[id]
    BY <1>6, <1>9
  <2>3. \A a, b \in kept : a # b => providers'[a].generation # providers'[b].generation
    BY <1>5, <1>9 DEF PoolInv, GenerationsUnique
  <2>4. \A a \in kept, b \in fresh : providers'[a].generation # providers'[b].generation
    BY <1>3, <1>4, <2>1, <2>2
  <2>5. \A a, b \in kept \cup fresh : a # b => providers'[a].generation # providers'[b].generation
    BY <1>4, <2>2, <2>3, <2>4
  <2>6. \A id \in kept \cup fresh : providers'[id].generation < nextProviderGeneration'
    BY <1>3, <1>4, <2>1, <2>2
  <2> QED
    BY <1>9, <2>5, <2>6 DEF GenerationsUnique
<1> QED
  BY <1>9, <1>10, <1>11, <1>12, <1>13 DEF PoolInv

-----------------------------------------------------------------------------
(* The requests and the refresh that call them.                             *)

(* A handler that holds a provider knows its ref, of a number handed out.  *)
HeldRefs ==
  \A r \in Requests : holding[r] =>
    provider[r] \in Ref /\ provider[r].generation < nextProviderGeneration

(* What the refresh still has to fetch is a shell that existed; if it is   *)
(* still there, its connection is the one noted with the target.           *)
TargetsCurrent ==
  \A t \in refresh.targets \cup refresh.current :
    /\ t.ref.generation < nextProviderGeneration
    /\ Live(t.ref) => providers[t.ref.id].connection = t.connection

IInv ==
  /\ PoolInv
  /\ RequestTypeOK
  /\ refresh \in Refresh
  /\ HeldExactlyInFlight
  /\ HeldRefs
  /\ BusyMatchesHolders
  /\ TargetsCurrent
  /\ ModelsFromOwnConnection

(* What a step has to keep besides the requests' own variables.            *)
Shared ==
  PoolInv /\ refresh \in Refresh /\ HeldRefs /\ BusyMatchesHolders
          /\ TargetsCurrent /\ ModelsFromOwnConnection

LEMMA HoldersFinite ==
  ASSUME NEW id
  PROVE  IsFiniteSet(Holders(id)) /\ Cardinality(Holders(id)) \in Nat
<1>1. Holders(id) \subseteq Requests
  BY DEF Holders
<1> QED
  BY <1>1, LoadBalancerAssumption, FS_Subset, FS_CardinalityType

(* A live ref stays live, and a dead one dead, while no shell is replaced. *)
LEMMA LiveUnchanged ==
  ASSUME SameShells, NEW ref
  PROVE  Live(ref)' <=> Live(ref)
BY DEF SameShells, Live

THEOREM InitIInv == Init => IInv
<1> SUFFICES ASSUME Init PROVE IInv
  OBVIOUS
<1>1. PoolInv /\ ModelsFromOwnConnection /\ \A id \in DOMAIN providers : providers[id].busy = 0
  BY PoolInitInv DEF Init
<1>2. RequestTypeOK
  BY DEF Init, RequestTypeOK, Controls, Outcomes, Replies
<1>3. refresh \in Refresh /\ TargetsCurrent
  BY DEF Init, NoRefresh, Refresh, TargetsCurrent
<1>4. HeldExactlyInFlight /\ HeldRefs
  BY DEF Init, HeldExactlyInFlight, HeldRefs, InFlight
<1>5. BusyMatchesHolders
  <2>1. \A id \in DOMAIN providers : Holders(id) = {}
    BY DEF Holders, Init
  <2> QED
    BY <1>1, <2>1, FS_EmptySet DEF BusyMatchesHolders
<1> QED
  BY <1>1, <1>2, <1>3, <1>4, <1>5 DEF IInv

-----------------------------------------------------------------------------
(* A step of the pool that replaces no shell and no model list, for a      *)
(* handler that neither takes nor gives back a provider.                   *)
LEMMA SharedKept ==
  ASSUME IInv, PoolInv', SameShells, SameModels, SameBusy,
         UNCHANGED <<holding, provider, refresh>>
  PROVE  Shared'
<1>1. \A id \in DOMAIN providers : Holders(id)' = Holders(id)
  BY LiveUnchanged DEF Holders
<1>2. BusyMatchesHolders'
  BY <1>1 DEF IInv, BusyMatchesHolders, SameShells, SameBusy
<1>3. HeldRefs'
  BY DEF IInv, HeldRefs, SameShells
<1>4. TargetsCurrent'
  BY LiveUnchanged DEF IInv, TargetsCurrent, SameShells, Live
<1>5. ModelsFromOwnConnection'
  BY DEF IInv, ModelsFromOwnConnection, SameShells, SameModels
<1> QED
  BY <1>2, <1>3, <1>4, <1>5 DEF Shared, IInv

LEMMA SharedUnchanged ==
  ASSUME IInv, UNCHANGED poolVars, UNCHANGED <<holding, provider, refresh>>
  PROVE  Shared'
<1>1. SameShells /\ SameModels /\ SameBusy
  BY DEF poolVars, SameShells, SameModels, SameBusy
<1>2. PoolInv'
  BY DEF IInv, poolVars, PoolInv, PoolTypeOK, IndexConsistent, CooldownEarned,
         BlockRecordsAgree, GenerationsUnique
<1> QED
  BY <1>1, <1>2, SharedKept

(* Taking a provider adds its handler to the holders of one shell.         *)
LEMMA AcquireShared ==
  ASSUME IInv, NEW r \in Requests, Acquire(r)
  PROVE  Shared' /\ provider'[r] \in Ref /\ provider' = [provider EXCEPT ![r] = provider'[r]]
<1>1. PICK i \in Open(r) :
         /\ Occupy(RefOf(ordered[r][i].id))
         /\ tried' = [tried EXCEPT ![r] = @ \cup {RefOf(ordered[r][i].id)}]
         /\ provider' = [provider EXCEPT ![r] = RefOf(ordered[r][i].id)]
  BY DEF Acquire
<1>a. PICK p : p = ordered[r][i].id
  OBVIOUS
<1> DEFINE ref == RefOf(p)
<1>2. p \in DOMAIN providers
  BY <1>1, <1>a DEF Open, Available, Live
<1>3. /\ ref \in Ref /\ ref.id = p
      /\ ref.generation = providers[p].generation
      /\ ref.generation < nextProviderGeneration
  BY <1>2 DEF RefOf, RefIn, Ref, IInv, PoolInv, PoolTypeOK, Provider, GenerationsUnique
<1>4. Live(ref)
  BY <1>2, <1>3 DEF Live
<1> HIDE DEF ref
<1>5. /\ PoolInv' /\ SameShells /\ SameModels
      /\ \A id \in DOMAIN providers :
           providers'[id].busy = IF id = p THEN providers[id].busy + 1 ELSE providers[id].busy
  BY <1>1, <1>a, <1>3, <1>4, OccupyInv DEF IInv, ref
<1>6. /\ provider'[r] = ref /\ provider' = [provider EXCEPT ![r] = ref]
      /\ holding' = [holding EXCEPT ![r] = TRUE]
      /\ refresh' = refresh
      /\ ~holding[r]
  BY <1>1, <1>a DEF ref, Acquire, IInv, RequestTypeOK, HeldExactlyInFlight, InFlight
<1>7. Holders(p)' = Holders(p) \cup {r}
  <2>1. /\ holding'[r] /\ \A q \in Requests \ {r} : holding'[q] = holding[q]
        /\ \A q \in Requests \ {r} : provider'[q] = provider[q]
    BY <1>6 DEF IInv, RequestTypeOK
  <2>2. Live(provider[r])'
    BY <1>4, <1>5, <1>6 DEF SameShells, Live
  <2>3. \A q \in Requests \ {r} : Live(provider[q])' <=> Live(provider[q])
    BY <1>5, <2>1 DEF SameShells, Live
  <2>4. r \in Holders(p)'
    BY <1>3, <1>6, <2>1, <2>2 DEF Holders, Live
  <2>5. \A q \in Requests \ {r} : q \in Holders(p)' <=> q \in Holders(p)
    BY <2>1, <2>3 DEF Holders, Live
  <2>6. Holders(p) \subseteq Requests /\ Holders(p)' \subseteq Requests
    BY DEF Holders
  <2> QED
    BY <2>4, <2>5, <2>6
<1>8. r \notin Holders(p)
  BY <1>6 DEF Holders
<1>9. \A id \in DOMAIN providers \ {p} : Holders(id)' = Holders(id)
  BY <1>3, <1>5, <1>6, LiveUnchanged DEF Holders, IInv, RequestTypeOK
<1>10. BusyMatchesHolders'
  <2>1. Cardinality(Holders(p)') = Cardinality(Holders(p)) + 1
    BY <1>7, <1>8, HoldersFinite, FS_AddElement
  <2>2. providers'[p].busy = Cardinality(Holders(p)')
    BY <1>2, <1>5, <2>1 DEF BusyMatchesHolders, IInv
  <2>3. \A id \in DOMAIN providers \ {p} : providers'[id].busy = Cardinality(Holders(id)')
    BY <1>5, <1>9 DEF BusyMatchesHolders, IInv
  <2> QED
    BY <1>5, <2>2, <2>3 DEF BusyMatchesHolders, SameShells
<1>11. HeldRefs'
  BY <1>3, <1>5, <1>6 DEF HeldRefs, IInv, SameShells, RequestTypeOK
<1>12. TargetsCurrent'
  BY <1>5, <1>6, LiveUnchanged DEF IInv, TargetsCurrent, SameShells, Live
<1>13. ModelsFromOwnConnection'
  BY <1>5 DEF IInv, ModelsFromOwnConnection, SameShells, SameModels
<1> QED
  BY <1>3, <1>5, <1>6, <1>10, <1>11, <1>12, <1>13 DEF Shared, IInv

(* Giving it back removes the handler from the shell's holders, if the     *)
(* shell is still there, and changes no count otherwise.                   *)
LEMMA ReleaseShared ==
  ASSUME IInv, NEW r \in Requests, Release(r)
  PROVE  Shared'
<1> DEFINE ref == provider[r]
<1>1. /\ holding[r]
      /\ holding' = [holding EXCEPT ![r] = FALSE]
      /\ UNCHANGED <<provider, refresh>>
  BY DEF Release, IInv, HeldExactlyInFlight, InFlight
<1>2. ReleaseProvider(ref)
  BY <1>1 DEF Release
<1>3. /\ PoolInv' /\ SameShells /\ SameModels
      /\ \A id \in DOMAIN providers :
           providers'[id].busy = IF Live(ref) /\ id = ref.id /\ providers[id].busy > 0
                                   THEN providers[id].busy - 1
                                   ELSE providers[id].busy
  BY <1>2, ReleaseProviderInv DEF IInv
<1>4. \A id : Holders(id)' = Holders(id) \ {r}
  BY <1>1, <1>3, LiveUnchanged DEF Holders, IInv, RequestTypeOK
<1>5. BusyMatchesHolders'
  <2> SUFFICES ASSUME NEW id \in DOMAIN providers
               PROVE  providers'[id].busy = Cardinality(Holders(id)')
    BY <1>3 DEF BusyMatchesHolders, SameShells
  <2>1. providers[id].busy = Cardinality(Holders(id)) /\ Cardinality(Holders(id)) \in Nat
    BY HoldersFinite DEF IInv, BusyMatchesHolders
  <2>2. CASE r \in Holders(id)
    <3>1. Live(ref) /\ id = ref.id
      BY <2>2 DEF Holders
    <3>2. Cardinality(Holders(id)') = Cardinality(Holders(id)) - 1
      BY <1>4, <2>2, HoldersFinite, FS_RemoveElement
    <3>3. Cardinality(Holders(id)') \in Nat
      BY <1>4, HoldersFinite, FS_Subset, FS_CardinalityType
    <3> QED
      BY <1>3, <2>1, <3>1, <3>2, <3>3
  <2>3. CASE r \notin Holders(id)
    <3>1. ~(Live(ref) /\ id = ref.id)
      BY <1>1, <2>3 DEF Holders
    <3>2. Holders(id)' = Holders(id)
      BY <1>4, <2>3
    <3> QED
      BY <1>3, <2>1, <3>1, <3>2
  <2> QED
    BY <2>2, <2>3
<1>6. HeldRefs'
  BY <1>1, <1>3 DEF HeldRefs, IInv, SameShells, RequestTypeOK
<1>7. TargetsCurrent'
  BY <1>1, <1>3, LiveUnchanged DEF IInv, TargetsCurrent, SameShells, Live
<1>8. ModelsFromOwnConnection'
  BY <1>3 DEF IInv, ModelsFromOwnConnection, SameShells, SameModels
<1> QED
  BY <1>1, <1>3, <1>5, <1>6, <1>7, <1>8 DEF Shared, IInv

-----------------------------------------------------------------------------
(* Reconciliation: a shell that was replaced has no holders any more, and  *)
(* its successor has none yet, because refs never name a future number.    *)
LEMMA StartRefreshShared ==
  ASSUME IInv, StartRefresh
  PROVE  Shared'
<1>1. PICK cfg \in ConfigFiles : Reconcile(cfg)
  BY DEF StartRefresh
<1>2. PoolInv' /\ ShellsKeptOrFresh
  BY <1>1, ReconcileInv, LoadBalancerAssumption DEF IInv
<1>3. UNCHANGED <<holding, provider>>
  BY DEF StartRefresh, requestVars, attemptVars
<1>4. /\ refresh' = [NoRefresh EXCEPT !.pc = "targets"]
      /\ refresh' \in Refresh /\ refresh'.targets = {} /\ refresh'.current = {}
  BY DEF StartRefresh, NoRefresh, Refresh
<1>5. nextProviderGeneration \in Nat /\ nextProviderGeneration' \in Nat
  BY <1>2 DEF IInv, PoolInv, PoolTypeOK
<1>6. \A r \in Requests : holding[r] =>
        provider[r].generation \in Nat /\ provider[r].generation < nextProviderGeneration
  BY DEF IInv, HeldRefs, Ref
<1>7. BusyMatchesHolders'
  <2> SUFFICES ASSUME NEW id \in DOMAIN providers'
               PROVE  providers'[id].busy = Cardinality(Holders(id)')
    BY DEF BusyMatchesHolders
  <2>1. CASE /\ id \in DOMAIN providers
             /\ providers'[id].generation = providers[id].generation
             /\ providers'[id].busy = providers[id].busy
    <3>1. Holders(id)' = Holders(id)
      BY <1>3, <2>1 DEF Holders, Live
    <3> QED
      BY <2>1, <3>1 DEF IInv, BusyMatchesHolders
  <2>2. CASE providers'[id].generation >= nextProviderGeneration /\ providers'[id].busy = 0
    <3>1. providers'[id].generation \in Nat
      BY <1>2 DEF PoolInv, PoolTypeOK, Provider
    <3>2. \A r \in Requests : holding[r] => provider[r].generation # providers'[id].generation
      BY <1>5, <1>6, <2>2, <3>1
    <3>3. Holders(id)' = {}
      BY <1>3, <3>2 DEF Holders, Live
    <3> QED
      BY <2>2, <3>3, FS_EmptySet
  <2> QED
    BY <1>2, <2>1, <2>2 DEF ShellsKeptOrFresh
<1>8. HeldRefs'
  <2> SUFFICES ASSUME NEW r \in Requests, holding'[r]
               PROVE  provider'[r] \in Ref /\ provider'[r].generation < nextProviderGeneration'
    BY DEF HeldRefs
  <2>1. holding[r] /\ provider'[r] = provider[r]
    BY <1>3
  <2> QED
    BY <1>2, <1>5, <1>6, <2>1 DEF IInv, HeldRefs, ShellsKeptOrFresh
<1>9. TargetsCurrent'
  BY <1>4 DEF TargetsCurrent
<1>10. ModelsFromOwnConnection'
  BY <1>2 DEF IInv, ModelsFromOwnConnection, ShellsKeptOrFresh
<1> QED
  BY <1>2, <1>4, <1>7, <1>8, <1>9, <1>10 DEF Shared

(* The targets are shells of the table as it is.                           *)
LEMMA TakeTargetsShared ==
  ASSUME IInv, TakeTargets
  PROVE  Shared'
<1>1. UNCHANGED poolVars /\ UNCHANGED <<holding, provider>>
  BY DEF TakeTargets, requestVars, attemptVars
<1>2. PoolInv' /\ SameShells /\ SameModels /\ SameBusy
  BY <1>1 DEF IInv, poolVars, PoolInv, PoolTypeOK, IndexConsistent, CooldownEarned,
              BlockRecordsAgree, GenerationsUnique, SameShells, SameModels, SameBusy
<1>3. \A id \in DOMAIN providers :
        /\ RefOf(id) \in Ref /\ RefOf(id).id = id
        /\ RefOf(id).generation < nextProviderGeneration
        /\ providers[id].connection \in Connections
  BY DEF RefOf, RefIn, Ref, IInv, PoolInv, PoolTypeOK, Provider, GenerationsUnique
<1> DEFINE targets == {[ref |-> RefOf(id), connection |-> providers[id].connection] :
                          id \in {i \in DOMAIN providers : ~Blocked(i)}}
<1>4. targets \subseteq Target
  BY <1>3 DEF Target
<1>5. \A t \in targets : /\ t.ref.generation < nextProviderGeneration
                         /\ providers[t.ref.id].connection = t.connection
  BY <1>3
<1>6. refresh' = [refresh EXCEPT !.pc = "loop", !.targets = targets]
  BY DEF TakeTargets
<1> HIDE DEF targets
<1>7. /\ refresh' \in Refresh
      /\ refresh'.targets = targets
      /\ refresh'.current = refresh.current
  BY <1>4, <1>6 DEF IInv, Refresh
<1>8. HeldRefs' /\ BusyMatchesHolders' /\ ModelsFromOwnConnection'
  BY <1>1 DEF IInv, HeldRefs, BusyMatchesHolders, Holders, Live, poolVars,
              ModelsFromOwnConnection
<1>9. TargetsCurrent'
  BY <1>1, <1>5, <1>7 DEF IInv, TargetsCurrent, Live, poolVars
<1> QED
  BY <1>2, <1>7, <1>8, <1>9 DEF Shared

(* A refresh step that neither replaces a shell nor adds a target.         *)
LEMMA RefreshShared ==
  ASSUME IInv, PoolInv', SameShells, SameBusy, UNCHANGED <<holding, provider>>,
         ModelsFromOwnConnection', refresh' \in Refresh,
         refresh'.targets \cup refresh'.current \subseteq refresh.targets \cup refresh.current
  PROVE  Shared'
<1>1. \A id \in DOMAIN providers : Holders(id)' = Holders(id)
  BY LiveUnchanged DEF Holders
<1>2. BusyMatchesHolders'
  BY <1>1 DEF IInv, BusyMatchesHolders, SameShells, SameBusy
<1>3. HeldRefs'
  BY DEF IInv, HeldRefs, SameShells
<1>4. TargetsCurrent'
  <2> SUFFICES ASSUME NEW t \in refresh'.targets \cup refresh'.current
               PROVE  /\ t.ref.generation < nextProviderGeneration'
                      /\ Live(t.ref)' => providers'[t.ref.id].connection = t.connection
    BY DEF TargetsCurrent
  <2>1. /\ t.ref.generation < nextProviderGeneration
        /\ Live(t.ref) => providers[t.ref.id].connection = t.connection
    BY DEF IInv, TargetsCurrent
  <2> QED
    BY <2>1 DEF SameShells, Live
<1> QED
  BY <1>2, <1>3, <1>4 DEF Shared

(* A list fetched over a connection is only ever stored with a provider    *)
(* that still has this connection.                                         *)
LEMMA ReplaceShared ==
  ASSUME IInv, NEW t \in refresh.current, NEW models \in Serves[t.connection] \cup {{}},
         ReplaceProviderModels(t.ref, models), UNCHANGED <<holding, provider>>,
         refresh' = [refresh EXCEPT !.pc = "loop", !.current = {}]
  PROVE  Shared'
<1>1. t \in Target /\ models \in SUBSET Models
  BY PoolAssumption DEF IInv, Refresh, Target
<1>2. /\ PoolInv' /\ SameShells /\ SameBusy
      /\ \A id \in DOMAIN providers :
           \/ providers'[id].models = providers[id].models
           \/ Live(t.ref) /\ id = t.ref.id /\ providers'[id].models = models
  BY <1>1, ReplaceProviderModelsInv DEF IInv
<1>3. Live(t.ref) => providers[t.ref.id].connection = t.connection
  BY DEF IInv, TargetsCurrent
<1>4. ModelsFromOwnConnection'
  BY <1>2, <1>3 DEF IInv, ModelsFromOwnConnection, SameShells
<1>5. /\ refresh' \in Refresh
      /\ refresh'.targets \cup refresh'.current \subseteq refresh.targets \cup refresh.current
  BY DEF IInv, Refresh
<1> QED
  BY <1>2, <1>4, <1>5, RefreshShared

LEMMA RefresherShared ==
  ASSUME IInv, Refresher \/ CancelRefresh
  PROVE  Shared'
<1>1. CASE TakeTargets
  BY <1>1, TakeTargetsShared
<1>2. CASE NextTarget \/ CancelRefresh
  <2>1. UNCHANGED poolVars /\ UNCHANGED <<holding, provider>>
    BY <1>2 DEF NextTarget, CancelRefresh, requestVars, attemptVars
  <2>2. PoolInv' /\ SameShells /\ SameBusy /\ ModelsFromOwnConnection'
    BY <2>1 DEF IInv, poolVars, PoolInv, PoolTypeOK, IndexConsistent, CooldownEarned,
                BlockRecordsAgree, GenerationsUnique, SameShells, SameBusy,
                ModelsFromOwnConnection
  <2>3. /\ refresh' \in Refresh
        /\ refresh'.targets \cup refresh'.current \subseteq refresh.targets \cup refresh.current
    <3>1. CASE CancelRefresh
      BY <3>1 DEF CancelRefresh, IInv, Refresh
    <3>2. CASE NextTarget /\ refresh' = NoRefresh
      BY <3>2 DEF NoRefresh, Refresh
    <3>3. CASE NextTarget /\ refresh' # NoRefresh
      <4>1. PICK t \in refresh.targets :
              refresh' = [refresh EXCEPT !.pc = "fetch", !.current = {t}, !.targets = @ \ {t}]
        BY <3>3 DEF NextTarget
      <4> QED
        BY <4>1 DEF IInv, Refresh
    <3> QED
      BY <1>2, <3>1, <3>2, <3>3
  <2> QED
    BY <2>1, <2>2, <2>3, RefreshShared
<1>3. CASE FetchSucceeds
  <2>1. PICK t \in refresh.current : \E models \in Serves[t.connection] :
          ReplaceProviderModels(t.ref, models)
    BY <1>3 DEF FetchSucceeds
  <2>2. UNCHANGED <<holding, provider>>
    BY <1>3 DEF FetchSucceeds, requestVars, attemptVars
  <2>3. PICK models \in Serves[t.connection] : ReplaceProviderModels(t.ref, models)
    BY <2>1
  <2> QED
    BY <1>3, <2>2, <2>3, ReplaceShared DEF FetchSucceeds
<1>4. CASE FetchFails
  <2>1. PICK t \in refresh.current : ReplaceProviderModels(t.ref, {})
    BY <1>4 DEF FetchFails, MarkProviderModelsUnavailable
  <2>2. UNCHANGED <<holding, provider>>
    BY <1>4 DEF FetchFails, requestVars, attemptVars
  <2>3. {} \in Serves[t.connection] \cup {{}}
    OBVIOUS
  <2> QED
    BY <1>4, <2>1, <2>2, <2>3, ReplaceShared DEF FetchFails
<1>5. CASE FetchMarked
  <2>1. PICK t \in refresh.current : BlockProvider(t.ref)
    BY <1>5 DEF FetchMarked
  <2>2. t.ref \in Ref
    BY DEF IInv, Refresh, Target
  <2>3. PoolInv' /\ SameShells /\ SameModels /\ SameBusy
    BY <2>1, <2>2, BlockProviderInv DEF IInv
  <2>4. ModelsFromOwnConnection'
    BY <2>3 DEF IInv, ModelsFromOwnConnection, SameShells, SameModels
  <2>5. /\ UNCHANGED <<holding, provider>>
        /\ refresh' \in Refresh
        /\ refresh'.targets \cup refresh'.current \subseteq refresh.targets \cup refresh.current
    BY <1>5 DEF FetchMarked, requestVars, attemptVars, IInv, Refresh
  <2> QED
    BY <2>3, <2>4, <2>5, RefreshShared
<1> QED
  BY <1>1, <1>2, <1>3, <1>4, <1>5 DEF Refresher

-----------------------------------------------------------------------------
(* The handlers' own variables.                                            *)

(* The refs of one model are finitely many, so their orderings are         *)
(* sequences.                                                              *)
LEMMA OrderingType ==
  ASSUME IInv, NEW m \in Models, NEW s \in Orderings(modelProviders[m])
  PROVE  s \in Seq(Ref)
<1> DEFINE ids == {id \in DOMAIN providers : m \in providers[id].models}
           refs == modelProviders[m]
           name == [id \in ids |-> RefIn(providers, id)]
<1>1. refs = {RefIn(providers, id) : id \in ids} /\ refs \subseteq Ref
  BY DEF IInv, PoolInv, IndexConsistent, IndexOf, PoolTypeOK
<1>2. IsFiniteSet(ids)
  BY PoolAssumption, FS_Subset DEF IInv, PoolInv, PoolTypeOK
<1>3. name \in Surjection(ids, refs)
  BY <1>1 DEF Surjection
<1>4. IsFiniteSet(refs)
  BY <1>2, <1>3, FS_Surjection
<1>5. s \in [1 .. Cardinality(refs) -> refs]
  BY DEF Orderings, Bijection, Injection
<1>6. Cardinality(refs) \in Nat
  BY <1>4, FS_CardinalityType
<1> HIDE DEF refs
<1>7. s \in [1 .. Cardinality(refs) -> Ref]
  BY <1>1, <1>5
<1> QED
  BY <1>6, <1>7, SeqDef

LEMMA ArriveType ==
  ASSUME IInv, NEW r \in Requests, Arrive(r)
  PROVE  RequestTypeOK' /\ HeldExactlyInFlight'
<1>1. ordered' \in [Requests -> Seq(Ref)]
  <2>1. CASE modelProviders[model[r]] = {}
    BY <2>1 DEF Arrive, IInv, RequestTypeOK
  <2>2. CASE modelProviders[model[r]] # {}
    <3>1. PICK s \in Orderings(modelProviders[model[r]]) : ordered' = [ordered EXCEPT ![r] = s]
      BY <2>2 DEF Arrive
    <3>2. s \in Seq(Ref)
      BY OrderingType DEF IInv, RequestTypeOK
    <3> QED
      BY <3>1, <3>2 DEF IInv, RequestTypeOK
  <2> QED
    BY <2>1, <2>2
<1>2. /\ pc[r] = "idle"
      /\ \/ pc' = [pc EXCEPT ![r] = "done"] /\ reply' = [reply EXCEPT ![r] = "rejected"]
         \/ pc' = [pc EXCEPT ![r] = "acquire"] /\ reply' = reply
      /\ UNCHANGED <<model, tried, pass, attempt, lastHTTP, provider, holding, outcome, cancelled>>
  BY DEF Arrive, Finish, Goto, attemptVars
<1>3. RequestTypeOK'
  BY <1>1, <1>2 DEF IInv, RequestTypeOK, Controls, Replies
<1>4. HeldExactlyInFlight'
  BY <1>2 DEF IInv, RequestTypeOK, HeldExactlyInFlight, InFlight
<1> QED
  BY <1>3, <1>4

LEMMA AcquireType ==
  ASSUME IInv, NEW r \in Requests, Acquire(r)
  PROVE  RequestTypeOK' /\ HeldExactlyInFlight'
<1>1. /\ pc' = [pc EXCEPT ![r] = "post"]
      /\ holding' = [holding EXCEPT ![r] = TRUE]
      /\ attempt' = [attempt EXCEPT ![r] = @ + 1]
      /\ tried' = [tried EXCEPT ![r] = @ \cup {provider'[r]}]
      /\ UNCHANGED <<model, ordered, pass, lastHTTP, outcome, reply, cancelled>>
  BY DEF Acquire, Goto, IInv, RequestTypeOK
<1>2. provider'[r] \in Ref /\ provider' = [provider EXCEPT ![r] = provider'[r]]
  BY AcquireShared
<1>3. provider' \in [Requests -> Ref \cup {NoRef}]
  BY <1>2 DEF IInv, RequestTypeOK
<1>4. tried' \in [Requests -> SUBSET Ref]
  BY <1>1, <1>2 DEF IInv, RequestTypeOK
<1>5. RequestTypeOK'
  BY <1>1, <1>3, <1>4 DEF IInv, RequestTypeOK, Controls
<1>6. HeldExactlyInFlight'
  BY <1>1 DEF IInv, RequestTypeOK, HeldExactlyInFlight, InFlight
<1> QED
  BY <1>5, <1>6

(* An attempt that is concluded is still held until its release.           *)
LEMMA ConcludeType ==
  ASSUME IInv, NEW r \in Requests, NEW result \in Outcomes, NEW next \in InFlight,
         pc[r] \in InFlight, Conclude(r, result, next),
         lastHTTP' \in [Requests -> BOOLEAN], reply' \in [Requests -> Replies]
  PROVE  RequestTypeOK' /\ HeldExactlyInFlight'
<1>1. /\ outcome' = [outcome EXCEPT ![r] = result]
      /\ pc' = [pc EXCEPT ![r] = next]
      /\ UNCHANGED <<model, ordered, tried, pass, attempt, provider, holding, cancelled>>
  BY DEF Conclude, Goto
<1>2. next \in Controls
  BY DEF InFlight, Controls
<1>3. RequestTypeOK'
  BY <1>1, <1>2 DEF IInv, RequestTypeOK
<1>4. HeldExactlyInFlight'
  BY <1>1 DEF IInv, RequestTypeOK, HeldExactlyInFlight
<1> QED
  BY <1>3, <1>4

(* The steps of a handler between acquire and release, release included.   *)
LEMMA AttemptType ==
  ASSUME IInv, NEW r \in Requests,
         \/ PostFails(r) \/ PostAnswers(r) \/ CommitStream(r) \/ BodyEnds(r)
         \/ ErrorBodyEnds(r) \/ BlockMarked(r) \/ RecordFailure(r) \/ Release(r)
  PROVE  RequestTypeOK' /\ HeldExactlyInFlight'
<1>1. CASE PostFails(r) \/ PostAnswers(r) \/ BodyEnds(r) \/ ErrorBodyEnds(r)
  <2>1. pc[r] \in InFlight
    BY <1>1 DEF PostFails, PostAnswers, BodyEnds, ErrorBodyEnds, InFlight
  <2>2. lastHTTP' \in [Requests -> BOOLEAN] /\ reply' \in [Requests -> Replies]
    BY <1>1 DEF PostFails, PostAnswers, BodyEnds, ErrorBodyEnds, IInv, RequestTypeOK, Replies
  <2>3. \E result \in Outcomes, next \in InFlight : Conclude(r, result, next)
    BY <1>1 DEF PostFails, PostAnswers, BodyEnds, ErrorBodyEnds, Outcomes, InFlight
  <2> QED
    BY <2>1, <2>2, <2>3, ConcludeType
<1>2. CASE CommitStream(r)
  BY <1>2 DEF CommitStream, loopVars, attemptVars, IInv, RequestTypeOK,
              HeldExactlyInFlight, Replies
<1>3. CASE BlockMarked(r) \/ RecordFailure(r)
  BY <1>3 DEF BlockMarked, RecordFailure, Goto, loopVars, attemptVars, IInv, RequestTypeOK,
              HeldExactlyInFlight, InFlight, Controls
<1>4. CASE Release(r)
  <2>1. AfterRelease(r) \in Controls \ InFlight
    BY DEF AfterRelease, Controls, InFlight, Outcomes, IInv, RequestTypeOK
  <2>2. /\ pc' = [pc EXCEPT ![r] = AfterRelease(r)]
        /\ holding' = [holding EXCEPT ![r] = FALSE]
        /\ outcome' = [outcome EXCEPT ![r] = "none"]
        /\ UNCHANGED <<model, ordered, tried, pass, attempt, lastHTTP, provider, reply, cancelled>>
    BY <1>4 DEF Release, Goto, loopVars
  <2>3. RequestTypeOK'
    BY <2>1, <2>2 DEF IInv, RequestTypeOK, Outcomes
  <2>4. HeldExactlyInFlight'
    BY <2>1, <2>2 DEF IInv, RequestTypeOK, HeldExactlyInFlight
  <2> QED
    BY <2>3, <2>4
<1> QED
  BY <1>1, <1>2, <1>3, <1>4

(* The other steps of a handler.                                           *)
LEMMA BetweenType ==
  ASSUME IInv, NEW r \in Requests,
         \/ Reject(r) \/ Cancel(r) \/ LeavePass(r) \/ EndPass(r)
         \/ DelayOver(r) \/ DelayCancelled(r) \/ RecordLate(r)
  PROVE  RequestTypeOK' /\ HeldExactlyInFlight'
<1> USE DEF IInv, RequestTypeOK
<1>1. CASE Reject(r)
  BY <1>1 DEF Reject, Finish, Goto, loopVars, attemptVars, HeldExactlyInFlight, InFlight,
              Controls, Replies
<1>2. CASE Cancel(r)
  BY <1>2 DEF Cancel, loopVars, attemptVars, HeldExactlyInFlight
<1>3. CASE LeavePass(r) \/ DelayOver(r) \/ DelayCancelled(r) \/ RecordLate(r)
  BY <1>3 DEF LeavePass, DelayOver, DelayCancelled, RecordLate, Goto, loopVars, attemptVars,
              HeldExactlyInFlight, InFlight, Controls
<1>4. CASE EndPass(r)
  <2>1. PICK label \in {"delay", "acquire", "done"} : pc' = [pc EXCEPT ![r] = label]
    BY <1>4 DEF EndPass, Finish, Goto
  <2>2. /\ pc[r] = "passEnd"
        /\ pass' \in [Requests -> Nat] /\ tried' \in [Requests -> SUBSET Ref]
        /\ reply' \in [Requests -> Replies]
        /\ UNCHANGED <<model, ordered, attempt, lastHTTP, provider, holding, outcome, cancelled>>
    <3>1. CASE HasUnblocked(Candidates(r)) /\ pass[r] + 1 < Attempts
      <4>1. /\ pass' = [pass EXCEPT ![r] = @ + 1]
            /\ tried' = [tried EXCEPT ![r] = {}]
            /\ reply' = reply
        BY <1>4, <3>1 DEF EndPass
      <4>2. pass' \in [Requests -> Nat] /\ tried' \in [Requests -> SUBSET Ref]
        BY <4>1
      <4> QED
        BY <1>4, <4>1, <4>2 DEF EndPass, attemptVars
    <3>2. CASE ~(HasUnblocked(Candidates(r)) /\ pass[r] + 1 < Attempts)
      <4>1. PICK answer \in Replies : reply' = [reply EXCEPT ![r] = answer]
        BY <1>4, <3>2 DEF EndPass, Finish, Replies
      <4> QED
        BY <1>4, <3>2, <4>1 DEF EndPass, attemptVars
    <3> QED
      BY <3>1, <3>2
  <2> QED
    BY <2>1, <2>2 DEF HeldExactlyInFlight, InFlight, Controls
<1> QED
  BY <1>1, <1>2, <1>3, <1>4

-----------------------------------------------------------------------------
(* A step of a handler keeps the invariant.                                *)
LEMMA HandlerInv ==
  ASSUME IInv, NEW r \in Requests,
         Reject(r) \/ Arrive(r) \/ Cancel(r) \/ CommitStream(r) \/ Handler(r)
  PROVE  IInv'
<1>1. RequestTypeOK' /\ HeldExactlyInFlight'
  BY ArriveType, AcquireType, AttemptType, BetweenType DEF Handler
<1>2. Shared'
  <2>1. CASE \/ Reject(r) \/ Arrive(r) \/ Cancel(r) \/ CommitStream(r) \/ LeavePass(r)
             \/ EndPass(r) \/ DelayOver(r) \/ DelayCancelled(r) \/ PostFails(r)
             \/ PostAnswers(r) \/ BodyEnds(r) \/ ErrorBodyEnds(r)
    <3>1. UNCHANGED poolVars /\ UNCHANGED <<holding, provider, refresh>>
      BY <2>1 DEF Reject, Arrive, Cancel, CommitStream, LeavePass, EndPass, DelayOver,
                  DelayCancelled, PostFails, PostAnswers, BodyEnds, ErrorBodyEnds,
                  Conclude, attemptVars
    <3> QED
      BY <3>1, SharedUnchanged
  <2>2. CASE Acquire(r)
    BY <2>2, AcquireShared
  <2>3. CASE Release(r)
    BY <2>3, ReleaseShared
  <2>4. CASE BlockMarked(r)
    <3>1. provider[r] \in Ref
      BY <2>4 DEF BlockMarked, IInv, HeldExactlyInFlight, HeldRefs, InFlight
    <3>2. PoolInv' /\ SameShells /\ SameModels /\ SameBusy
      BY <2>4, <3>1, BlockProviderInv DEF BlockMarked, IInv
    <3>3. UNCHANGED <<holding, provider, refresh>>
      BY <2>4 DEF BlockMarked, attemptVars
    <3> QED
      BY <3>2, <3>3, SharedKept
  <2>5. CASE RecordFailure(r) \/ RecordLate(r)
    <3>1. PoolInv' /\ SameShells /\ SameModels /\ SameBusy
      BY <2>5, RecordProviderFailureInv, RecordProviderSuccessInv
         DEF RecordFailure, RecordLate, IInv
    <3>2. UNCHANGED <<holding, provider, refresh>>
      BY <2>5 DEF RecordFailure, RecordLate, attemptVars
    <3> QED
      BY <3>1, <3>2, SharedKept
  <2> QED
    BY <2>1, <2>2, <2>3, <2>4, <2>5 DEF Handler
<1> QED
  BY <1>1, <1>2 DEF IInv, Shared

(* A step of the refresh, of an operator or of the clock keeps it too:     *)
(* none of them touches the handlers' variables.                           *)
LEMMA PoolStepInv ==
  ASSUME IInv, StartRefresh \/ CancelRefresh \/ Refresher \/ Prune \/ Tick
  PROVE  IInv'
<1>1. UNCHANGED requestVars
  BY DEF StartRefresh, CancelRefresh, Refresher, TakeTargets, NextTarget, FetchSucceeds,
         FetchMarked, FetchFails, Prune, Tick
<1>2. RequestTypeOK' /\ HeldExactlyInFlight'
  BY <1>1 DEF requestVars, loopVars, attemptVars, IInv, RequestTypeOK, HeldExactlyInFlight
<1>3. Shared'
  <2>1. CASE StartRefresh
    BY <2>1, StartRefreshShared
  <2>2. CASE CancelRefresh \/ Refresher
    BY <2>2, RefresherShared
  <2>3. CASE Prune \/ Tick
    <3>1. PoolInv' /\ SameShells /\ SameModels /\ SameBusy
      BY <2>3, PruneInv, ElapseInv DEF Prune, Tick, IInv
    <3>2. UNCHANGED <<holding, provider, refresh>>
      BY <2>3, <1>1 DEF requestVars, attemptVars, Prune, Tick
    <3> QED
      BY <3>1, <3>2, SharedKept
  <2> QED
    BY <2>1, <2>2, <2>3
<1> QED
  BY <1>2, <1>3 DEF IInv, Shared

LEMMA StutterInv ==
  ASSUME IInv, UNCHANGED vars
  PROVE  IInv'
<1>1. Shared'
  BY SharedUnchanged DEF vars, requestVars, attemptVars
<1>2. RequestTypeOK' /\ HeldExactlyInFlight'
  BY DEF vars, requestVars, loopVars, attemptVars, IInv, RequestTypeOK, HeldExactlyInFlight
<1> QED
  BY <1>1, <1>2 DEF IInv, Shared

(* The invariant is inductive.                                             *)
THEOREM Invariance == Spec => []IInv
<1>1. IInv /\ [Next]_vars => IInv'
  BY HandlerInv, PoolStepInv, StutterInv DEF Next
<1> QED
  BY InitIInv, <1>1, PTL DEF Spec

-----------------------------------------------------------------------------
(* Every variable keeps its type.                                          *)
THEOREM TypeCorrect == Spec => []TypeOK
<1>1. IInv => TypeOK
  BY DEF IInv, PoolInv, TypeOK
<1> QED
  BY <1>1, Invariance, PTL

(* However refreshes replace shells under the handlers, a provider's busy  *)
(* count is the number of handlers holding it.                             *)
THEOREM BusyCountExact == Spec => []BusyMatchesHolders
<1>1. IInv => BusyMatchesHolders
  BY DEF IInv
<1> QED
  BY <1>1, Invariance, PTL

(* A handler holds a provider exactly from acquire to release, on every    *)
(* path through handleAPIRequest.                                          *)
THEOREM NoProviderLeaked == Spec => []HeldExactlyInFlight
<1>1. IInv => HeldExactlyInFlight
  BY DEF IInv
<1> QED
  BY <1>1, Invariance, PTL

(* A provider only ever advertises what the server behind its present URL  *)
(* and key listed, in whatever order fetches and config changes finish.    *)
THEOREM NoStaleModelList == Spec => []ModelsFromOwnConnection
<1>1. IInv => ModelsFromOwnConnection
  BY DEF IInv
<1> QED
  BY <1>1, Invariance, PTL

(* The routing index never disagrees with the table.                       *)
THEOREM RoutingIndexConsistent == Spec => []IndexConsistent
<1>1. IInv => IndexConsistent
  BY DEF IInv, PoolInv
<1> QED
  BY <1>1, Invariance, PTL

(* A provider cools down only with enough consecutive failures.            *)
THEOREM CooldownOnlyEarned == Spec => []CooldownEarned
<1>1. IInv => CooldownEarned
  BY DEF IInv, PoolInv
<1> QED
  BY <1>1, Invariance, PTL

(* A provider's blocked flag and the set of blocked IDs never disagree.    *)
THEOREM BlocksAgree == Spec => []BlockRecordsAgree
<1>1. IInv => BlockRecordsAgree
  BY DEF IInv, PoolInv
<1> QED
  BY <1>1, Invariance, PTL

(* A ref names one shell for ever.                                         *)
THEOREM RefsNameOneShell == Spec => []GenerationsUnique
<1>1. IInv => GenerationsUnique
  BY DEF IInv, PoolInv
<1> QED
  BY <1>1, Invariance, PTL
=============================================================================
