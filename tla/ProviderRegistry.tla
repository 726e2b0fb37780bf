-------------------------- MODULE ProviderRegistry --------------------------
(***************************************************************************)
(* InMemoryProviderRegistry (packages/provider-registry/src/registry.ts)   *)
(* and the validation of a snapshot of it                                  *)
(* (packages/local-persistence/src/snapshot.ts), as operators on           *)
(* configurations.  Of a definition the model keeps what one entry says    *)
(* about another one; the checks of a single field are left out, but for   *)
(* the one that only the snapshot makes (keyLike).                         *)
(***************************************************************************)
EXTENDS Naturals, Sequences, Functions

CONSTANTS Providers, \* provider ids
          Routes,    \* route ids
          Models,    \* model names
          None       \* no such entry

ProviderDefs ==
  [models  : SUBSET Models \ {{}},
   enabled : BOOLEAN,
   keyLike : BOOLEAN]  \* credentialRef matches SECRET_LIKE_CREDENTIAL_REF

ASSUME RegistryAssumption == None \notin ProviderDefs

\* A fallback list has no duplicates and does not name the primary.
RouteDefs ==
  {v \in [primary   : Providers,
          fallbacks : UNION {[1 .. n -> Providers] : n \in 0 .. 1},
          model     : Models,
          enabled   : BOOLEAN] : IsInjective(<<v.primary>> \o v.fallbacks)}

EmptyConfig == [providers |-> [p \in Providers |-> None],
                routes    |-> [r \in Routes |-> None]]

SetProvider(cfg, p, v) == [cfg EXCEPT !.providers[p] = v]
SetRoute(cfg, r, v)    == [cfg EXCEPT !.routes[r] = v]

\* routeProviderIds: the primary, then the fallbacks in order.
Chain(route) == <<route.primary>> \o route.fallbacks

Serves(cfg, p, model) ==
  cfg.providers[p] # None /\ model \in cfg.providers[p].models

ReferencedBy(cfg, p) ==
  {r \in Routes : cfg.routes[r] # None /\ p \in Range(Chain(cfg.routes[r]))}

(***************************************************************************)
(* What the mutators of the registry accept.                               *)
(***************************************************************************)
CanRegisterProvider(cfg, p) == cfg.providers[p] = None

\* Mutant: the routes are looked at by their primary only.
MutantCanUpdateProvider(cfg, p, v) ==
  /\ cfg.providers[p] # None
  /\ \A r \in ReferencedBy(cfg, p) :
       cfg.routes[r].primary = p => cfg.routes[r].model \in v.models

CanUpdateProvider(cfg, p, v) ==
  /\ cfg.providers[p] # None
  /\ \A r \in ReferencedBy(cfg, p) : cfg.routes[r].model \in v.models

CanRemoveProvider(cfg, p) == cfg.providers[p] # None /\ ReferencedBy(cfg, p) = {}

\* The checks that registerRoute and updateRoute share.
RouteFits(cfg, route) ==
  /\ \A p \in Range(Chain(route)) : Serves(cfg, p, route.model)
  /\ route.enabled => cfg.providers[route.primary].enabled

CanRegisterRoute(cfg, r, v) == cfg.routes[r] = None /\ RouteFits(cfg, v)
CanUpdateRoute(cfg, r, v)   == cfg.routes[r] # None /\ RouteFits(cfg, v)
CanRemoveRoute(cfg, r)      == cfg.routes[r] # None

\* An accepted mutation takes the registry from one configuration to another.
Mutation(cfg, new) ==
  \/ \E p \in Providers :
       \/ \E v \in ProviderDefs :
            /\ CanRegisterProvider(cfg, p) \/ CanUpdateProvider(cfg, p, v)
            /\ new = SetProvider(cfg, p, v)
       \/ CanRemoveProvider(cfg, p) /\ new = SetProvider(cfg, p, None)
  \/ \E r \in Routes :
       \/ \E v \in RouteDefs :
            /\ CanRegisterRoute(cfg, r, v) \/ CanUpdateRoute(cfg, r, v)
            /\ new = SetRoute(cfg, r, v)
       \/ CanRemoveRoute(cfg, r) /\ new = SetRoute(cfg, r, None)

(***************************************************************************)
(* validateConfigSnapshot: what may be saved, and what a host boots from.  *)
(***************************************************************************)
Valid(cfg) ==
  /\ \A p \in Providers : cfg.providers[p] # None => ~cfg.providers[p].keyLike
  /\ \A r \in Routes : cfg.routes[r] # None => RouteFits(cfg, cfg.routes[r])

(***************************************************************************)
(* resolveRouteCandidates.                                                 *)
(***************************************************************************)
\* It reports no inconsistency: whatever the route names exists and serves it.
Consistent(cfg, r) ==
  \A p \in Range(Chain(cfg.routes[r])) : Serves(cfg, p, cfg.routes[r].model)

\* The positions of the chain whose providers are enabled, tried in order.
Candidates(cfg, r) ==
  LET chain == Chain(cfg.routes[r])
  IN  {i \in DOMAIN chain : cfg.providers[chain[i]].enabled}
=============================================================================
