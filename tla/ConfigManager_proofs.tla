------------------------ MODULE ConfigManager_proofs ------------------------
(***************************************************************************)
(* ConfigManager, for every number of calls, providers, routes and models: *)
(* the host's memory is its file whenever no save is under way, routes     *)
(* always resolve, and the manager implements AtomicConfig.                *)
(***************************************************************************)
EXTENDS ConfigManager, TLAPS

(***************************************************************************)
(* Configurations.                                                         *)
(***************************************************************************)
Configs == [providers : [Providers -> ProviderDefs \cup {None}],
            routes    : [Routes -> RouteDefs \cup {None}]]

\* The positions of a route's chain: the primary is its first one.
LEMMA ChainIsPrimaryAndFallbacks ==
  ASSUME NEW v \in RouteDefs
  PROVE  /\ Range(Chain(v)) \subseteq Providers
         /\ v.primary \in Range(Chain(v))
         /\ 1 \in DOMAIN Chain(v) /\ Chain(v)[1] = v.primary
<1>1. v.primary \in Providers /\ v.fallbacks \in Seq(Providers)
  <2>1. v.primary \in Providers /\ \E n \in 0 .. 1 : v.fallbacks \in [1 .. n -> Providers]
    BY DEF RouteDefs
  <2> QED BY <2>1
<1>2. Chain(v) \in Seq(Providers) /\ Len(Chain(v)) = 1 + Len(v.fallbacks) /\ Chain(v)[1] = v.primary
  BY <1>1 DEF Chain
<1>3. 1 \in DOMAIN Chain(v)
  BY <1>1, <1>2
<1> QED BY <1>1, <1>2, <1>3 DEF Range

LEMMA EmptyConfigIsValid == EmptyConfig \in Configs /\ Valid(EmptyConfig)
BY DEF EmptyConfig, Configs, Valid

\* A mutation of a configuration is one.
LEMMA MutationTyped ==
  ASSUME NEW cfg \in Configs, NEW new, Mutation(cfg, new)
  PROVE  new \in Configs
BY DEF Mutation, Configs, SetProvider, SetRoute

\* Whatever a route names exists and serves its model: in a valid
\* configuration, and still after a mutation of it, although a snapshot of the
\* mutated registry need not be valid.
LEMMA ValidIsConsistent ==
  ASSUME NEW cfg \in Configs, Valid(cfg), NEW r \in Routes, cfg.routes[r] # None
  PROVE  Consistent(cfg, r)
BY DEF Valid, RouteFits, Consistent

LEMMA MutationIsConsistent ==
  ASSUME NEW cfg \in Configs, Valid(cfg), NEW new, Mutation(cfg, new),
         NEW r \in Routes, new.routes[r] # None
  PROVE  Consistent(new, r)
<1>1. CASE \E p \in Providers, v \in ProviderDefs :
             /\ CanRegisterProvider(cfg, p) \/ CanUpdateProvider(cfg, p, v)
             /\ new = SetProvider(cfg, p, v)
  <2>1. PICK p \in Providers, v \in ProviderDefs :
             /\ CanRegisterProvider(cfg, p) \/ CanUpdateProvider(cfg, p, v)
             /\ new = SetProvider(cfg, p, v)
    BY <1>1
  <2>2. /\ new.routes = cfg.routes
        /\ new.providers = [cfg.providers EXCEPT ![p] = v]
    BY <2>1 DEF SetProvider, Configs
  <2>3. cfg.routes[r] # None /\ cfg.routes[r] \in RouteDefs
    BY <2>2 DEF Configs
  <2>4. Consistent(cfg, r) /\ Range(Chain(cfg.routes[r])) \subseteq Providers
    BY <2>3, ValidIsConsistent, ChainIsPrimaryAndFallbacks
  <2>5. v # None
    BY RegistryAssumption
  <2>6. p \in Range(Chain(cfg.routes[r])) => cfg.routes[r].model \in v.models
    BY <2>1, <2>3, <2>4 DEF CanRegisterProvider, CanUpdateProvider, ReferencedBy, Consistent, Serves
  <2>7. cfg.providers \in [Providers -> ProviderDefs \cup {None}]
    BY DEF Configs
  <2>8. ASSUME NEW q \in Range(Chain(cfg.routes[r])) PROVE Serves(new, q, cfg.routes[r].model)
    BY <2>2, <2>4, <2>5, <2>6, <2>7, <2>8 DEF Consistent, Serves
  <2> QED BY <2>2, <2>8 DEF Consistent
<1>2. CASE \E p \in Providers : CanRemoveProvider(cfg, p) /\ new = SetProvider(cfg, p, None)
  <2>1. PICK p \in Providers : CanRemoveProvider(cfg, p) /\ new = SetProvider(cfg, p, None)
    BY <1>2
  <2>2. /\ new.routes = cfg.routes
        /\ new.providers = [cfg.providers EXCEPT ![p] = None]
    BY <2>1 DEF SetProvider, Configs
  <2>3. cfg.routes[r] # None /\ cfg.routes[r] \in RouteDefs
    BY <2>2 DEF Configs
  <2>4. Consistent(cfg, r) /\ Range(Chain(cfg.routes[r])) \subseteq Providers
    BY <2>3, ValidIsConsistent, ChainIsPrimaryAndFallbacks
  <2>5. p \notin Range(Chain(cfg.routes[r]))
    BY <2>1, <2>3 DEF CanRemoveProvider, ReferencedBy
  <2>6. cfg.providers \in [Providers -> ProviderDefs \cup {None}]
    BY DEF Configs
  <2>7. ASSUME NEW q \in Range(Chain(cfg.routes[r])) PROVE Serves(new, q, cfg.routes[r].model)
    BY <2>2, <2>4, <2>5, <2>6, <2>7 DEF Consistent, Serves
  <2> QED BY <2>2, <2>7 DEF Consistent
<1>3. CASE \E s \in Routes, v \in RouteDefs : RouteFits(cfg, v) /\ new = SetRoute(cfg, s, v)
  <2>1. PICK s \in Routes, v \in RouteDefs : RouteFits(cfg, v) /\ new = SetRoute(cfg, s, v)
    BY <1>3
  <2>2. /\ new.providers = cfg.providers
        /\ new.routes = [cfg.routes EXCEPT ![s] = v]
    BY <2>1 DEF SetRoute, Configs
  <2>3. cfg.routes \in [Routes -> RouteDefs \cup {None}]
    BY DEF Configs
  <2>4. CASE r = s
    BY <2>1, <2>2, <2>3, <2>4 DEF RouteFits, Consistent, Serves
  <2>5. CASE r # s
    BY <2>2, <2>3, <2>5, ValidIsConsistent DEF Consistent, Serves
  <2> QED BY <2>4, <2>5
<1>4. CASE \E s \in Routes : CanRemoveRoute(cfg, s) /\ new = SetRoute(cfg, s, None)
  <2>1. PICK s \in Routes : new = SetRoute(cfg, s, None)
    BY <1>4
  <2>2. /\ new.providers = cfg.providers
        /\ new.routes = [cfg.routes EXCEPT ![s] = None]
    BY <2>1 DEF SetRoute, Configs
  <2>3. cfg.routes \in [Routes -> RouteDefs \cup {None}]
    BY DEF Configs
  <2> QED BY <2>2, <2>3, ValidIsConsistent DEF Consistent, Serves
<1> QED BY <1>1, <1>2, <1>3, <1>4 DEF Mutation, CanRegisterRoute, CanUpdateRoute

(***************************************************************************)
(* The inductive invariant: only the call at the head of the queue saves,  *)
(* what it may have to restore is what the file holds until the rename,    *)
(* and the registry is what it writes.                                     *)
(***************************************************************************)
ConfigTypes == /\ running \in BOOLEAN
               /\ registry \in Configs /\ configFile \in Configs
               /\ queue \in Seq(Calls)
               /\ phase \in [Calls -> Phases]
               /\ before \in [Calls -> Configs] /\ writing \in [Calls -> Configs]

\* Nothing of a host that was killed is left but its file.
DeadIsEmpty == ~running => registry = EmptyConfig /\ \A c \in Calls : phase[c] = "idle"

LockHeld ==
  \A c \in Calls :
    /\ phase[c] = "queued" => \E i \in 1 .. Len(queue) : queue[i] = c
    /\ phase[c] \in {"saving", "written"} => queue # <<>> /\ Head(queue) = c

SaveUnderWay ==
  \A c \in Calls :
    /\ phase[c] = "saving" => /\ before[c] = configFile /\ writing[c] = registry
                              /\ Mutation(configFile, registry)
    /\ phase[c] = "written" => registry = configFile

ConfigInv == ConfigTypes /\ DeadIsEmpty /\ LockHeld /\ SaveUnderWay /\ MemoryIsFile

LEMMA ConfigInitInv == ConfigInit => ConfigInv
<1> SUFFICES ASSUME ConfigInit PROVE ConfigInv OBVIOUS
<1>1. ConfigTypes
  <2>1. queue \in Seq(Calls) BY DEF ConfigInit
  <2> QED BY <2>1, EmptyConfigIsValid DEF ConfigInit, ConfigTypes, Phases, Answered, Reset
<1>2. DeadIsEmpty /\ LockHeld /\ SaveUnderWay
  BY DEF ConfigInit, DeadIsEmpty, LockHeld, SaveUnderWay
<1>3. MemoryIsFile
  BY EmptyConfigIsValid DEF ConfigInit, MemoryIsFile
<1> QED BY <1>1, <1>2, <1>3 DEF ConfigInv

\* While a call has the lock and does not save yet, no call saves.
LEMMA LockIsExclusive ==
  ASSUME ConfigInv, NEW c \in Calls, queue # <<>>, Head(queue) = c
  PROVE  /\ \A d \in Calls \ {c} : phase[d] \notin {"saving", "written"}
         /\ phase[c] \notin {"saving", "written"} => AtRest
BY DEF ConfigInv, LockHeld, AtRest

\* A call that has the lock is in the queue, and the host runs.
LEMMA QueuedRuns ==
  ASSUME ConfigInv, NEW c \in Calls, phase[c] \in {"queued", "saving", "written"}
  PROVE  running /\ queue # <<>>
BY DEF ConfigInv, DeadIsEmpty, LockHeld, ConfigTypes

\* When the call that has the lock is answered, the others stay in the queue
\* and none of them saves.
LEMMA AnswerKeepsLock ==
  ASSUME ConfigInv, NEW c \in Calls, queue # <<>>, Head(queue) = c,
         NEW ph \in Answered, Answer(c, ph)
  PROVE  /\ LockHeld' /\ AtRest'
         /\ phase' \in [Calls -> Phases] /\ queue' \in Seq(Calls)
         /\ before' \in [Calls -> Configs] /\ writing' \in [Calls -> Configs]
<1>1. /\ phase' \in [Calls -> Phases]
      /\ phase'[c] = ph
      /\ \A d \in Calls \ {c} : phase'[d] = phase[d]
  BY DEF Answer, To, ConfigInv, ConfigTypes, Phases
<1>2. /\ queue' = Tail(queue) /\ queue' \in Seq(Calls) /\ Len(queue') = Len(queue) - 1
      /\ \A i \in 1 .. Len(queue') : queue'[i] = queue[i + 1]
  BY DEF Answer, ConfigInv, ConfigTypes
<1>3. before' \in [Calls -> Configs] /\ writing' \in [Calls -> Configs]
  BY EmptyConfigIsValid DEF Answer, ConfigInv, ConfigTypes
<1>4. AtRest'
  BY <1>1, LockIsExclusive DEF AtRest, Answered
<1>5. ASSUME NEW d \in Calls, phase'[d] = "queued" PROVE \E i \in 1 .. Len(queue') : queue'[i] = d
  <2>1. d # c /\ phase[d] = "queued"
    BY <1>1, <1>5 DEF Answered
  <2>2. PICK i \in 1 .. Len(queue) : queue[i] = d
    BY <2>1 DEF ConfigInv, LockHeld
  <2>3. i # 1
    BY <2>1, <2>2 DEF ConfigInv, ConfigTypes
  <2>4. i - 1 \in 1 .. Len(queue')
    BY <2>2, <2>3, <1>2 DEF ConfigInv, ConfigTypes
  <2>5. queue'[i - 1] = queue[(i - 1) + 1]
    BY <2>4, <1>2
  <2>6. (i - 1) + 1 = i
    BY <2>2 DEF ConfigInv, ConfigTypes
  <2> QED BY <2>2, <2>4, <2>5, <2>6
<1> QED BY <1>1, <1>2, <1>3, <1>4, <1>5 DEF LockHeld, AtRest

\* A snapshot that is what the file holds can be restored.
LEMMA Restores ==
  ASSUME ConfigInv, NEW cfg \in {configFile, registry}, cfg = configFile
  PROVE  Restored(cfg) = configFile
BY DEF ConfigInv, MemoryIsFile, Restored

LEMMA ApplyInv ==
  ASSUME ConfigInv, NEW c \in Calls, phase[c] = "queued", HasLock(c),
         NEW new, Mutation(registry, new), Apply(c, new)
  PROVE  ConfigInv'
<1>1. running /\ queue # <<>> /\ Head(queue) = c
  BY QueuedRuns DEF HasLock
<1>2. AtRest /\ \A d \in Calls \ {c} : phase[d] \notin {"saving", "written"}
  BY <1>1, LockIsExclusive
<1>3. registry = configFile
  BY <1>1, <1>2 DEF ConfigInv, MemoryIsFile
<1>4. new \in Configs
  BY MutationTyped DEF ConfigInv, ConfigTypes
<1>5. /\ phase' \in [Calls -> Phases] /\ phase'[c] = "saving"
      /\ \A d \in Calls \ {c} : phase'[d] = phase[d]
  BY DEF Apply, To, ConfigInv, ConfigTypes, Phases
<1>6. /\ before' \in [Calls -> Configs] /\ writing' \in [Calls -> Configs]
      /\ before'[c] = registry /\ writing'[c] = new
  BY <1>4 DEF Apply, ConfigInv, ConfigTypes
<1>7. UNCHANGED <<running, configFile, queue>> /\ registry' = new
  BY DEF Apply
<1>8. ConfigTypes' BY <1>4, <1>5, <1>6, <1>7 DEF ConfigInv, ConfigTypes
<1>9. DeadIsEmpty' BY <1>1, <1>7 DEF DeadIsEmpty
<1>10. LockHeld' BY <1>1, <1>2, <1>5, <1>7 DEF ConfigInv, LockHeld
<1>11. SaveUnderWay' BY <1>2, <1>3, <1>5, <1>6, <1>7 DEF SaveUnderWay
<1>12. MemoryIsFile' BY <1>5, <1>7 DEF ConfigInv, MemoryIsFile, AtRest
<1> QED BY <1>8, <1>9, <1>10, <1>11, <1>12 DEF ConfigInv

\* A call that is answered leaves memory and file equal if it made them so.
LEMMA AnsweredInv ==
  ASSUME ConfigInv, NEW c \in Calls, phase[c] \in {"queued", "saving", "written"}, Head(queue) = c,
         NEW ph \in Answered, Answer(c, ph),
         registry' = configFile, UNCHANGED <<running, configFile>>
  PROVE  ConfigInv'
<1>1. running /\ queue # <<>>
  BY QueuedRuns
<1>2. /\ LockHeld' /\ AtRest'
      /\ phase' \in [Calls -> Phases] /\ queue' \in Seq(Calls)
      /\ before' \in [Calls -> Configs] /\ writing' \in [Calls -> Configs]
  BY <1>1, AnswerKeepsLock
<1>3. ConfigTypes' /\ DeadIsEmpty'
  BY <1>1, <1>2 DEF ConfigInv, ConfigTypes, DeadIsEmpty
<1>4. SaveUnderWay' BY <1>2 DEF SaveUnderWay, AtRest
<1>5. MemoryIsFile' BY DEF ConfigInv, MemoryIsFile, Valid, RouteFits, Serves
<1> QED BY <1>2, <1>3, <1>4, <1>5 DEF ConfigInv

LEMMA MutatorCases ==
  ASSUME NEW c \in Calls, Mutator(c)
  PROVE  /\ phase[c] = "queued" /\ HasLock(c)
         /\ \/ Refuse(c)
            \/ \E new : Mutation(registry, new) /\ Apply(c, new)
<1>1. phase[c] = "queued" /\ HasLock(c) BY DEF Mutator
<1>2. ASSUME NEW p \in Providers, DeleteProvider(c, p)
      PROVE  Refuse(c) \/ \E new : Mutation(registry, new) /\ Apply(c, new)
  BY <1>2 DEF DeleteProvider, Mutate, Mutation
<1>3. ASSUME NEW p \in Providers, NEW v \in ProviderDefs,
             CreateProvider(c, p, v) \/ UpdateProvider(c, p, v)
      PROVE  Refuse(c) \/ \E new : Mutation(registry, new) /\ Apply(c, new)
  BY <1>3 DEF CreateProvider, UpdateProvider, Mutate, Mutation
<1>4. ASSUME NEW r \in Routes, DeleteRoute(c, r)
      PROVE  Refuse(c) \/ \E new : Mutation(registry, new) /\ Apply(c, new)
  BY <1>4 DEF DeleteRoute, Mutate, Mutation
<1>5. ASSUME NEW r \in Routes, NEW v \in RouteDefs,
             CreateRoute(c, r, v) \/ UpdateRoute(c, r, v)
      PROVE  Refuse(c) \/ \E new : Mutation(registry, new) /\ Apply(c, new)
  BY <1>5 DEF CreateRoute, UpdateRoute, Mutate, Mutation
<1> QED BY <1>1, <1>2, <1>3, <1>4, <1>5 DEF Mutator

LEMMA ConfigNextInv == ConfigInv /\ [ConfigNext]_configVars => ConfigInv'
<1> SUFFICES ASSUME ConfigInv, [ConfigNext]_configVars PROVE ConfigInv'
  OBVIOUS
<1> USE DEF ConfigInv
<1>1. CASE ConfigCrash
  <2>1. ConfigTypes'
    <3>1. queue' \in Seq(Calls) BY <1>1 DEF ConfigCrash
    <3> QED BY <1>1, <3>1, EmptyConfigIsValid DEF ConfigCrash, ConfigTypes, Phases, Answered, Reset
  <2>2. DeadIsEmpty' /\ LockHeld' /\ SaveUnderWay'
    BY <1>1 DEF ConfigCrash, DeadIsEmpty, LockHeld, SaveUnderWay
  <2>3. MemoryIsFile'
    BY <1>1 DEF ConfigCrash, MemoryIsFile, Valid, RouteFits, Serves
  <2> QED BY <2>1, <2>2, <2>3
<1>2. CASE Boot
  <2>1. ConfigTypes' BY <1>2 DEF Boot, ConfigTypes
  <2>2. \A c \in Calls : phase'[c] = "idle" BY <1>2 DEF Boot, DeadIsEmpty
  <2>3. DeadIsEmpty' /\ LockHeld' /\ SaveUnderWay'
    BY <1>2, <2>2 DEF Boot, DeadIsEmpty, LockHeld, SaveUnderWay
  <2>4. MemoryIsFile'
    BY <1>2 DEF Boot, MemoryIsFile, Valid, RouteFits, Serves
  <2> QED BY <2>1, <2>3, <2>4
<1>3. ASSUME NEW c \in Calls, Ask(c) PROVE ConfigInv'
  <2>1. /\ phase' \in [Calls -> Phases] /\ phase'[c] = "queued"
        /\ phase[c] \in Answered
        /\ \A d \in Calls \ {c} : phase'[d] = phase[d]
    BY <1>3 DEF Ask, To, ConfigTypes, Phases
  <2>2. /\ queue' \in Seq(Calls) /\ Len(queue') = Len(queue) + 1
        /\ queue'[Len(queue) + 1] = c
        /\ \A i \in 1 .. Len(queue) : queue'[i] = queue[i]
        /\ queue # <<>> => queue' # <<>> /\ Head(queue') = Head(queue)
    BY <1>3 DEF Ask, ConfigTypes
  <2>3. UNCHANGED <<running, registry, configFile, before, writing>> /\ running
    BY <1>3 DEF Ask
  <2>4. ConfigTypes' BY <2>1, <2>2, <2>3 DEF ConfigTypes
  <2>5. DeadIsEmpty' BY <2>3 DEF DeadIsEmpty
  <2>6. LockHeld'
    <3>1. ASSUME NEW d \in Calls, phase'[d] = "queued"
          PROVE  \E i \in 1 .. Len(queue') : queue'[i] = d
      <4>1. Len(queue) \in Nat BY DEF ConfigTypes
      <4>2. CASE d = c BY <2>2, <4>1, <4>2
      <4>3. CASE d # c
        <5>1. PICK i \in 1 .. Len(queue) : queue[i] = d BY <2>1, <3>1, <4>3 DEF LockHeld
        <5>2. i \in 1 .. Len(queue') /\ queue'[i] = d BY <2>2, <4>1, <5>1
        <5> QED BY <5>2
      <4> QED BY <4>2, <4>3
    <3>2. ASSUME NEW d \in Calls, phase'[d] \in {"saving", "written"}
          PROVE  queue' # <<>> /\ Head(queue') = d
      BY <2>1, <2>2, <3>2 DEF LockHeld
    <3> QED BY <3>1, <3>2 DEF LockHeld
  <2>7. SaveUnderWay' BY <2>1, <2>3 DEF SaveUnderWay
  <2>8. MemoryIsFile'
    <3>1. AtRest' => AtRest BY <2>1 DEF AtRest, Answered
    <3> QED BY <2>3, <3>1 DEF MemoryIsFile, Valid, RouteFits, Serves
  <2> QED BY <2>4, <2>5, <2>6, <2>7, <2>8
<1>4. ASSUME NEW c \in Calls, Mutator(c) PROVE ConfigInv'
  <2>1. phase[c] = "queued" /\ HasLock(c)
    BY <1>4, MutatorCases
  <2>2. CASE Refuse(c)
    <3>1. running /\ queue # <<>> /\ Head(queue) = c BY <2>1, QueuedRuns DEF HasLock
    <3>2. AtRest BY <2>1, <3>1, LockIsExclusive
    <3>3. registry = configFile BY <3>1, <3>2 DEF MemoryIsFile
    <3>4. Restored(registry) = configFile BY <3>3, Restores
    <3> QED BY <2>1, <2>2, <3>1, <3>4, AnsweredInv DEF Refuse, Answered
  <2>3. CASE \E new : Mutation(registry, new) /\ Apply(c, new)
    BY <2>1, <2>3, ApplyInv
  <2> QED BY <1>4, <2>2, <2>3, MutatorCases
<1>5. ASSUME NEW c \in Calls, SaveFails(c) PROVE ConfigInv'
  <2>1. phase[c] = "saving" /\ before[c] = configFile BY <1>5 DEF SaveFails, SaveRejects, SaveUnderWay
  <2>2. Head(queue) = c BY <2>1 DEF LockHeld
  <2>3. Restored(before[c]) = configFile BY <2>1, Restores
  <2> QED BY <1>5, <2>1, <2>2, <2>3, AnsweredInv DEF SaveFails, Answered
<1>6. ASSUME NEW c \in Calls, Replace(c) PROVE ConfigInv'
  <2>1. /\ phase' \in [Calls -> Phases] /\ phase'[c] = "written"
        /\ phase[c] = "saving" /\ writing[c] = registry
        /\ \A d \in Calls \ {c} : phase'[d] = phase[d]
    BY <1>6 DEF Replace, To, ConfigTypes, Phases, SaveUnderWay
  <2>2. configFile' = registry /\ Valid(configFile')
        /\ UNCHANGED <<running, registry, queue, before, writing>>
    BY <1>6, <2>1 DEF Replace
  <2>3. running /\ queue # <<>> /\ Head(queue) = c
    BY <2>1, QueuedRuns DEF LockHeld
  <2>4. \A d \in Calls \ {c} : phase[d] \notin {"saving", "written"}
    BY <2>3, LockIsExclusive
  <2>5. ConfigTypes' BY <2>1, <2>2 DEF ConfigTypes
  <2>6. DeadIsEmpty' BY <2>2, <2>3 DEF DeadIsEmpty
  <2>7. LockHeld' BY <2>1, <2>2 DEF LockHeld
  <2>8. SaveUnderWay' BY <2>1, <2>2, <2>4 DEF SaveUnderWay
  <2>9. MemoryIsFile' BY <2>2 DEF MemoryIsFile, Valid, RouteFits, Serves
  <2> QED BY <2>5, <2>6, <2>7, <2>8, <2>9
<1>7. ASSUME NEW c \in Calls, Return(c) PROVE ConfigInv'
  <2>1. phase[c] = "written" /\ registry = configFile BY <1>7 DEF Return, SaveUnderWay
  <2>2. Head(queue) = c BY <2>1 DEF LockHeld
  <2> QED BY <1>7, <2>1, <2>2, AnsweredInv DEF Return, Answered
<1>8. CASE UNCHANGED configVars
  <2>1. ConfigTypes' /\ DeadIsEmpty' BY <1>8 DEF configVars, ConfigTypes, DeadIsEmpty
  <2>2. LockHeld' BY <1>8 DEF configVars, LockHeld
  <2>3. SaveUnderWay' BY <1>8 DEF configVars, SaveUnderWay
  <2>4. MemoryIsFile' BY <1>8 DEF configVars, MemoryIsFile, AtRest, Valid, RouteFits, Serves
  <2> QED BY <2>1, <2>2, <2>3, <2>4
<1> QED BY <1>1, <1>2, <1>3, <1>4, <1>5, <1>6, <1>7, <1>8 DEF ConfigNext

(***************************************************************************)
(* What follows from it.                                                   *)
(***************************************************************************)
\* Whenever no save is under way the host runs what its file holds, and the
\* file can be booted from: for any number of queued calls, of which any fail
\* to be saved, and a kill at any moment (#withLock, #restore and #saveOnce).
THEOREM HostRunsItsFile == ConfigSpec => []MemoryIsFile
<1>1. ConfigInv => MemoryIsFile BY DEF ConfigInv
<1> QED BY ConfigInitInv, ConfigNextInv, <1>1, PTL DEF ConfigSpec

LEMMA InvResolves == ConfigInv => RoutesResolve
<1> SUFFICES ASSUME ConfigInv, NEW r \in Routes, registry.routes[r] # None
             PROVE  /\ Consistent(registry, r)
                    /\ AtRest /\ registry.routes[r].enabled => 1 \in Candidates(registry, r)
  BY DEF RoutesResolve
<1>1. running
  BY DEF ConfigInv, DeadIsEmpty, EmptyConfig
<1>2. configFile \in Configs /\ Valid(configFile) /\ registry \in Configs
  BY DEF ConfigInv, ConfigTypes, MemoryIsFile
<1>3. CASE registry = configFile
  <2>1. Consistent(registry, r)
    BY <1>2, <1>3, ValidIsConsistent
  <2>2. registry.routes[r] \in RouteDefs
    BY <1>2 DEF Configs
  <2>3. 1 \in DOMAIN Chain(registry.routes[r])
        /\ Chain(registry.routes[r])[1] = registry.routes[r].primary
    BY <2>2, ChainIsPrimaryAndFallbacks
  <2>4. registry.routes[r].enabled => registry.providers[registry.routes[r].primary].enabled
    BY <1>2, <1>3 DEF Valid, RouteFits
  <2> QED BY <2>1, <2>3, <2>4 DEF Candidates
<1>4. CASE registry # configFile
  <2>1. ~AtRest
    BY <1>1, <1>4 DEF ConfigInv, MemoryIsFile
  <2>2. Mutation(configFile, registry)
    BY <1>4, <2>1 DEF ConfigInv, SaveUnderWay, AtRest
  <2> QED BY <1>2, <2>1, <2>2, MutationIsConsistent
<1> QED BY <1>3, <1>4

\* A turn that resolves its route never meets a provider that is missing or
\* does not serve the model, also while a save is under way that may be undone
\* (resolveRouteCandidates on the registry that #withLock mutates).
THEOREM TurnsResolve == ConfigSpec => []RoutesResolve
BY ConfigInitInv, ConfigNextInv, InvResolves, PTL DEF ConfigSpec

(***************************************************************************)
(* Each step of the manager is a step of AtomicConfig or none: the rename  *)
(* commits, a refusal and a failed save are errors that changed nothing.   *)
(***************************************************************************)
LEMMA AtomicInit == ConfigInit => Atomic!Init
BY DEF ConfigInit, Atomic!Init, CallState, EmptyConfig, Atomic!EmptyConfig

\* AtomicConfig has the registry's own mutations and validation.
LEMMA SameRegistry ==
  ASSUME NEW cfg, NEW new
  PROVE  /\ Mutation(cfg, new) => Atomic!Mutation(cfg, new)
         /\ Valid(cfg) => Atomic!Valid(cfg)
<1>1. Atomic!ProviderDefs = ProviderDefs BY DEF ProviderDefs, Atomic!ProviderDefs
<1>2. Atomic!RouteDefs = RouteDefs BY DEF RouteDefs, Atomic!RouteDefs, IsInjective, Atomic!IsInjective
<1>3. \A p, v : Atomic!SetProvider(cfg, p, v) = SetProvider(cfg, p, v)
  BY DEF SetProvider, Atomic!SetProvider
<1>4. \A r, v : Atomic!SetRoute(cfg, r, v) = SetRoute(cfg, r, v)
  BY DEF SetRoute, Atomic!SetRoute
<1>5. \A v : Atomic!Chain(v) = Chain(v) BY DEF Chain, Atomic!Chain
<1>6. \A p : Atomic!ReferencedBy(cfg, p) = ReferencedBy(cfg, p)
  BY <1>5 DEF ReferencedBy, Atomic!ReferencedBy, Range, Atomic!Range
<1>7. \A v : Atomic!RouteFits(cfg, v) <=> RouteFits(cfg, v)
  BY <1>5 DEF RouteFits, Atomic!RouteFits, Serves, Atomic!Serves, Range, Atomic!Range
<1>8. Valid(cfg) => Atomic!Valid(cfg) BY <1>7 DEF Valid, Atomic!Valid
<1>9. ASSUME NEW p \in Providers, NEW v \in ProviderDefs,
              CanRegisterProvider(cfg, p) \/ CanUpdateProvider(cfg, p, v),
              new = SetProvider(cfg, p, v)
       PROVE  Atomic!Mutation(cfg, new)
  <2>1. v \in Atomic!ProviderDefs BY <1>1
  <2>2. Atomic!CanRegisterProvider(cfg, p) \/ Atomic!CanUpdateProvider(cfg, p, v)
    BY <1>6, <1>9 DEF CanRegisterProvider, CanUpdateProvider,
         Atomic!CanRegisterProvider, Atomic!CanUpdateProvider
  <2>3. new = Atomic!SetProvider(cfg, p, v) BY <1>3, <1>9, Zenon
  <2> QED BY <2>1, <2>2, <2>3 DEF Atomic!Mutation
<1>10. ASSUME NEW p \in Providers, CanRemoveProvider(cfg, p), new = SetProvider(cfg, p, None)
       PROVE  Atomic!Mutation(cfg, new)
  <2>1. Atomic!CanRemoveProvider(cfg, p)
    BY <1>6, <1>10 DEF CanRemoveProvider, Atomic!CanRemoveProvider
  <2>2. new = Atomic!SetProvider(cfg, p, None) BY <1>3, <1>10, Zenon
  <2> QED BY <2>1, <2>2 DEF Atomic!Mutation
<1>11. ASSUME NEW r \in Routes, NEW v \in RouteDefs,
              CanRegisterRoute(cfg, r, v) \/ CanUpdateRoute(cfg, r, v),
              new = SetRoute(cfg, r, v)
       PROVE  Atomic!Mutation(cfg, new)
  <2>1. v \in Atomic!RouteDefs BY <1>2
  <2>2. Atomic!CanRegisterRoute(cfg, r, v) \/ Atomic!CanUpdateRoute(cfg, r, v)
    BY <1>7, <1>11 DEF CanRegisterRoute, CanUpdateRoute,
         Atomic!CanRegisterRoute, Atomic!CanUpdateRoute
  <2>3. new = Atomic!SetRoute(cfg, r, v) BY <1>4, <1>11, Zenon
  <2> QED BY <2>1, <2>2, <2>3 DEF Atomic!Mutation
<1>12. ASSUME NEW r \in Routes, CanRemoveRoute(cfg, r), new = SetRoute(cfg, r, None)
       PROVE  Atomic!Mutation(cfg, new)
  <2>1. Atomic!CanRemoveRoute(cfg, r)
    BY <1>12 DEF CanRemoveRoute, Atomic!CanRemoveRoute
  <2>2. new = Atomic!SetRoute(cfg, r, None) BY <1>4, <1>12, Zenon
  <2> QED BY <2>1, <2>2 DEF Atomic!Mutation
<1>13. Mutation(cfg, new) => Atomic!Mutation(cfg, new)
  BY <1>9, <1>10, <1>11, <1>12 DEF Mutation
<1> QED BY <1>8, <1>13

\* The state of one call changes, seen through CallState.
LEMMA CallMoves ==
  ASSUME ConfigInv, NEW c \in Calls, NEW ph \in Phases, To(c, ph), NEW st,
         ph \in {"queued", "saving"} => st = "asked",
         ph = "written" => st = "committed",
         ph \in {"refused", "failed"} => st = "error",
         ph \in {"idle", "ok"} => st = ph
  PROVE  Atomic!To(c, st)
<1>1. phase \in [Calls -> Phases] BY DEF ConfigInv, ConfigTypes
<1>2. phase'[c] = ph /\ \A d \in Calls \ {c} : phase'[d] = phase[d]
  BY <1>1 DEF To
<1>3. CallState'[c] = st
  BY <1>2 DEF CallState, Phases, Answered
<1>4. \A d \in Calls \ {c} : CallState'[d] = CallState[d]
  BY <1>2 DEF CallState
<1>5. CallState' \in [Calls -> {CallState'[d] : d \in Calls}]
  BY DEF CallState
<1> QED BY <1>3, <1>4, <1>5 DEF Atomic!To, CallState

LEMMA AtomicStep ==
  ConfigInv /\ ConfigInv' /\ [ConfigNext]_configVars => [Atomic!Next]_(Atomic!vars)
<1> SUFFICES ASSUME ConfigInv, ConfigInv', [ConfigNext]_configVars
             PROVE  Atomic!Next \/ UNCHANGED Atomic!vars
  OBVIOUS
<1>1. CASE ConfigCrash
  <2>1. Atomic!Die BY <1>1 DEF ConfigCrash, Atomic!Die, CallState
  <2> QED BY <2>1 DEF Atomic!Next
<1>2. CASE Boot
  BY <1>2 DEF Boot, Atomic!vars, CallState
<1>3. ASSUME NEW c \in Calls, Ask(c) PROVE Atomic!Next
  <2>1. Atomic!To(c, "asked") BY <1>3, CallMoves DEF Ask, Phases, Answered
  <2>2. CallState[c] \in {"idle", "ok", "error"} BY <1>3 DEF Ask, CallState, Answered
  <2>3. Atomic!Ask(c) BY <1>3, <2>1, <2>2 DEF Ask, Atomic!Ask
  <2> QED BY <2>3 DEF Atomic!Next
<1>4. ASSUME NEW c \in Calls, Mutator(c) PROVE Atomic!Next \/ UNCHANGED Atomic!vars
  <2>1. phase[c] = "queued" /\ CallState[c] = "asked" BY <1>4, MutatorCases DEF CallState
  <2>2. CASE Refuse(c)
    <3>1. Atomic!To(c, "error") BY <2>2, CallMoves DEF Refuse, Answer, Phases, Answered
    <3>2. Atomic!Error(c) BY <2>1, <2>2, <3>1 DEF Refuse, Atomic!Error
    <3> QED BY <3>2 DEF Atomic!Next
  <2>3. ASSUME NEW new, Apply(c, new) PROVE UNCHANGED Atomic!vars
    <3>1. To(c, "saving") /\ UNCHANGED configFile BY <2>3 DEF Apply
    <3>2. phase'[c] = "saving" /\ \A d \in Calls \ {c} : phase'[d] = phase[d]
      BY <3>1 DEF To, ConfigInv, ConfigTypes
    <3>3. \A d \in Calls : CallState'[d] = CallState[d] BY <2>1, <3>2 DEF CallState
    <3>4. CallState' = CallState BY <3>3 DEF CallState
    <3> QED BY <3>1, <3>4 DEF Atomic!vars
  <2> QED BY <1>4, <2>2, <2>3, MutatorCases
<1>5. ASSUME NEW c \in Calls, SaveFails(c) PROVE Atomic!Next
  <2>1. Atomic!To(c, "error") BY <1>5, CallMoves DEF SaveFails, Answer, Phases, Answered
  <2>2. CallState[c] = "asked" BY <1>5 DEF SaveFails, SaveRejects, CallState
  <2>3. Atomic!Error(c) BY <1>5, <2>1, <2>2 DEF SaveFails, Atomic!Error
  <2> QED BY <2>3 DEF Atomic!Next
<1>6. ASSUME NEW c \in Calls, Replace(c) PROVE Atomic!Next
  <2>1. Atomic!To(c, "committed") BY <1>6, CallMoves DEF Replace, Phases, Answered
  <2>2. CallState[c] = "asked" BY <1>6 DEF Replace, CallState
  <2>3. Mutation(configFile, configFile') /\ Valid(configFile')
    BY <1>6 DEF Replace, ConfigInv, SaveUnderWay
  <2>4. Atomic!Commit(c)
    BY <2>1, <2>2, <2>3, SameRegistry DEF Atomic!Commit
  <2> QED BY <2>4 DEF Atomic!Next
<1>7. ASSUME NEW c \in Calls, Return(c) PROVE Atomic!Next
  <2>1. Atomic!To(c, "ok") BY <1>7, CallMoves DEF Return, Answer, Phases, Answered
  <2>2. CallState[c] = "committed" BY <1>7 DEF Return, CallState
  <2>3. Atomic!Ok(c) BY <1>7, <2>1, <2>2 DEF Return, Atomic!Ok
  <2> QED BY <2>3 DEF Atomic!Next
<1>8. CASE UNCHANGED configVars
  BY <1>8 DEF configVars, Atomic!vars, CallState
<1> QED BY <1>1, <1>2, <1>3, <1>4, <1>5, <1>6, <1>7, <1>8 DEF ConfigNext

\* The config manager implements AtomicConfig (docs/config-management.md): the
\* file changes by one accepted mutation at a time, and a call answers ok if
\* and only if its own is the one that was committed.
THEOREM ManagerIsAtomic == ConfigSpec => ImplementsAtomicConfig
<1>1. ConfigInv /\ [ConfigNext]_configVars => ConfigInv' BY ConfigNextInv
<1> QED BY AtomicInit, AtomicStep, ConfigInitInv, <1>1, PTL
        DEF ConfigSpec, ImplementsAtomicConfig, Atomic!Spec
=============================================================================
