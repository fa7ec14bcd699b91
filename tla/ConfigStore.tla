----------------------------- MODULE ConfigStore -----------------------------
(***************************************************************************)
(* The operational configuration: tables providers, routes, route_targets, *)
(* and the repository functions on them.  Each statement is atomic; only   *)
(* replace_admin_config_with_options runs its statements in a transaction. *)
(* The database keeps the primary keys, the unique downstream_model and    *)
(* the foreign keys of schema.rs.                                          *)
(*                                                                         *)
(* Abstracted: names, URLs, descriptions, the settings in config_json; of  *)
(* a managed key, only whether it is stored and in which form.             *)
(***************************************************************************)
EXTENDS Naturals, FiniteSets

CONSTANTS
  Providers,    \* provider ids
  Models,       \* downstream models, which also serve as the ids of routes
  Priorities,
  File,         \* the configuration file: providers and routes
  None,
  MaxFaults     \* bound of the model: failing statements and clients that leave

Payload == [provider : Providers, priority : Priorities, enabled : BOOLEAN]
TargetIds == [route : Models, provider : Providers, priority : Priorities]

\* A provider as a payload or a file gives it, and as its row holds it.
ProviderConfig == [managed : BOOLEAN, key : BOOLEAN]
ProviderRow == [managed : BOOLEAN, key : {"none", "sealed", "plain"}, api_key_set : BOOLEAN]
RouteRow == [model : Models, enabled : BOOLEAN]

RouteConfig == [model : Models, enabled : BOOLEAN, targets : SUBSET Payload]

\* A configuration: what a file holds and what an import sends, routes by their ids.
\* Nothing says that the tables would take it.
IsConfig(config) ==
  /\ DOMAIN config.providers \subseteq Providers
  /\ DOMAIN config.routes \subseteq Models
  /\ \A p \in DOMAIN config.providers : config.providers[p] \in ProviderConfig
  /\ \A r \in DOMAIN config.routes : config.routes[r] \in RouteConfig

ASSUME ConfigAssumption ==
  /\ IsConfig(File) /\ MaxFaults \in Nat
  /\ None \notin ProviderRow /\ None \notin RouteRow

VARIABLES
  providers,  \* table providers, by id
  routes,     \* table routes, by id
  targets,    \* table route_targets, by id
  faults      \* history: faults so far

tables == <<providers, routes, targets>>

StoreTypeOK ==
  /\ providers \in [Providers -> ProviderRow \cup {None}]
  /\ routes \in [Models -> RouteRow \cup {None}]
  /\ targets \in [TargetIds -> Payload \cup {None}]
  /\ faults \in 0 .. MaxFaults

StoreInit ==
  /\ providers = [p \in Providers |-> None]
  /\ routes = [r \in Models |-> None]
  /\ targets = [i \in TargetIds |-> None]
  /\ faults = 0

Fault == faults < MaxFaults /\ faults' = faults + 1

Present(table) == {i \in DOMAIN table : table[i] # None}
Without(table, S) == [i \in DOMAIN table |-> IF i \in S THEN None ELSE table[i]]

AnyRoute == Present(routes) # {}
TargetsOf(r) == {i \in Present(targets) : i.route = r}
RouteIdOf(r, t) == [route |-> r, provider |-> t.provider, priority |-> t.priority]

\* Whether a statement goes through: keys, uniqueness, foreign keys.
CanInsertRoute(r, m) ==
  routes[r] = None /\ \A s \in Present(routes) : routes[s].model # m
CanNameRoute(r, m) == \A s \in Present(routes) \ {r} : routes[s].model # m
CanInsertTarget(r, t) ==
  /\ targets[RouteIdOf(r, t)] = None
  /\ routes[r] # None /\ providers[t.provider] # None

\* ON DELETE CASCADE takes the targets along.
DeleteProviderRow(p) ==
  /\ providers' = Without(providers, {p})
  /\ targets' = Without(targets, {i \in Present(targets) : targets[i].provider = p})
DeleteRouteRow(r) ==
  /\ routes' = Without(routes, {r})
  /\ targets' = Without(targets, TargetsOf(r))

\* Whether all INSERTs of replace_admin_config_with_options go through: one that does
\* not rolls the others back.
CanReplaceAll(config) ==
  \A r \in DOMAIN config.routes :
    /\ \A s \in DOMAIN config.routes : config.routes[r].model = config.routes[s].model => r = s
    /\ \A t \in config.routes[r].targets :
         /\ t.provider \in DOMAIN config.providers
         /\ \A u \in config.routes[r].targets : RouteIdOf(r, t) = RouteIdOf(r, u) => t = u

\* What they leave; key[c] is the key column of a provider.
ReplaceAll(config, key) ==
  /\ providers' = [p \in Providers |->
       IF p \in DOMAIN config.providers
       THEN LET c == config.providers[p] IN
            [managed |-> c.managed, key |-> key[c], api_key_set |-> c.key]
       ELSE None]
  /\ routes' = [r \in Models |->
       IF r \in DOMAIN config.routes
       THEN [model |-> config.routes[r].model, enabled |-> config.routes[r].enabled]
       ELSE None]
  /\ targets' = [i \in TargetIds |->
       IF i.route \in DOMAIN config.routes
          /\ \E t \in config.routes[i.route].targets : i = RouteIdOf(i.route, t)
       THEN CHOOSE t \in config.routes[i.route].targets : i = RouteIdOf(i.route, t)
       ELSE None]
=============================================================================
