----------------------------- MODULE AdminConfig -----------------------------
(***************************************************************************)
(* The admin API's changes of the operational configuration, next to the   *)
(* requests that read it: ensure_operational_config_seeded fills empty     *)
(* tables from the file, under a lock of the process, and snapshot_route   *)
(* reads the route, its targets and the providers.  A handler is a         *)
(* sequence of statements, and others run between them; it ends early when *)
(* a statement fails, a check refuses, or the client leaves.               *)
(*                                                                         *)
(* Left out: syntax checks of the payloads, URL and DNS checks of a        *)
(* provider, the list and get endpoints, and probes (ProbeCache).          *)
(***************************************************************************)
EXTENDS ConfigStore, Functions

CONSTANTS
  Admins,     \* handlers of the admin API, one call each
  Requests,   \* requests to the data plane
  Asked,      \* models the requests ask for
  Ops         \* the calls to choose from: sequence of [kind, id, with]

Kinds == {"create_provider", "update_provider", "delete_provider",
          "create_route", "update_route", "delete_route",
          "create_target", "update_target", "delete_target", "import"}

\* What the id and the payload of a call are.
WellFormed(op) ==
  /\ op.kind \in Kinds
  /\ op.kind \in {"create_provider", "update_provider"} =>
       op.id \in Providers /\ op.with \in ProviderConfig
  /\ op.kind \in {"create_route", "update_route"} =>
       /\ op.with.model \in Models /\ op.with.enabled \in BOOLEAN
       /\ op.with.targets = None \/ op.with.targets \in SUBSET Payload
  /\ op.kind = "create_route" => op.id \in Models /\ op.with.targets # None
  /\ op.kind \in {"create_target", "update_target"} => op.with \in Payload
  /\ op.kind = "import" => IsConfig(op.with)

ASSUME AdminAssumption ==
  /\ Asked \subseteq Models /\ Asked # {}
  /\ 0 \notin DOMAIN Ops /\ \A k \in DOMAIN Ops : WellFormed(Ops[k])
  /\ None \notin Admins \cup Requests

VARIABLES
  secret,    \* managed_key_encryption_secret is configured
  admin,     \* handlers: call, next statement, what was read, what is left to do
  audited,   \* handlers with a row in admin_audit_events
  logged,    \* handlers whose missing audit was logged
  request,   \* requests: model, next statement, targets read
  lock,      \* seed_lock: the request that holds it
  made,      \* history: handler that inserted the route's row and may take it back
  filled,    \* history: the file was put in: no, yes, or twice and never emptied
  gap        \* history: requests during which their model was not on offer

handlers == <<admin, audited, logged, made>>
clients == <<request, lock>>
vars == <<tables, faults, secret, handlers, clients, filled, gap>>

Steps == {"new", "exists", "read", "read_targets", "route", "routes", "refer", "insert",
          "write", "clear", "targets", "reread", "delete", "undo", "apply", "audit", "log",
          "ok", "refused", "gone"}
Ended == {"new", "ok", "refused", "gone"}

TypeOK ==
  /\ StoreTypeOK
  /\ secret \in BOOLEAN
  /\ \A a \in Admins : admin[a].call \in DOMAIN Ops \cup {0} /\ admin[a].step \in Steps
  /\ audited \subseteq Admins /\ logged \subseteq Admins
  /\ \A q \in Requests :
       /\ request[q].model \in Asked
       /\ request[q].read \subseteq Providers
       /\ request[q].step \in {"new", "check", "lock", "recheck", "seed", "route", "targets",
            "providers", "served", "not_found", "unavailable", "error", "gone"}
  /\ lock \in Requests \cup {None}
  /\ made \in [Models -> Admins \cup {None}]
  /\ filled \in {"no", "yes", "twice"}
  /\ gap \subseteq Requests

Idle == [call |-> 0, step |-> "new", row |-> None, found |-> <<>>, todo |-> {}]

Init ==
  /\ StoreInit
  /\ secret \in BOOLEAN
  /\ admin = [a \in Admins |-> Idle]
  /\ audited = {} /\ logged = {}
  /\ request = [q \in Requests |-> [model |-> CHOOSE m \in Asked : TRUE,
                                    step |-> "new", id |-> None, read |-> {}]]
  /\ lock = None
  /\ made = [r \in Models |-> None]
  /\ filled = "no" /\ gap = {}

Op(a) == Ops[admin[a].call]
Kind(a, kind) == admin[a].call # 0 /\ Op(a).kind = kind
At(a, step) == admin[a].step = step
Then(a, step) == admin' = [admin EXCEPT ![a].step = step]
End(a, step) == admin' = [admin EXCEPT ![a] = [Idle EXCEPT !.call = admin[a].call, !.step = step]]

\* A statement of handler a reads or writes, and the handler goes on.
Reads(a, step) == Then(a, step) /\ UNCHANGED <<tables, faults, audited, logged, made>>
Refuses(a) ==
  End(a, "refused") /\ UNCHANGED <<tables, faults, audited, logged, made>>
Wrote(a) == UNCHANGED <<faults, audited, logged>>

\* The steps over a set: the last element moves the handler on.
Rest(a, x, next, left) ==
  admin' = [admin EXCEPT ![a].todo = IF @ = {x} THEN left ELSE @ \ {x},
                         ![a].step = IF admin[a].todo = {x} THEN next ELSE @]

-----------------------------------------------------------------------------
(* Providers.                                                               *)

\* A new managed key is sealed, which takes the secret; without a new one the row
\* keeps what it has.  api_key_set says whether this payload has a key.
Sealable(config) == config.managed /\ config.key => secret
RowOf(config, kept) ==
  [managed |-> config.managed, api_key_set |-> config.key,
   key |-> IF ~config.managed THEN "none" ELSE IF config.key THEN "sealed" ELSE kept]

ProviderIsNew(a) ==
  /\ Kind(a, "create_provider") /\ At(a, "exists")
  /\ IF providers[Op(a).id] = None /\ Sealable(Op(a).with)
     THEN Reads(a, "insert") ELSE Refuses(a)

\* `.ok().flatten()`: a provider that could not be read is taken for a new one.
ProviderUnread(a) ==
  /\ Kind(a, "create_provider") /\ At(a, "exists") /\ Fault
  /\ IF Sealable(Op(a).with) THEN Then(a, "insert") ELSE End(a, "refused")
  /\ UNCHANGED <<tables, audited, logged, made>>

InsertProvider(a) ==
  /\ Kind(a, "create_provider") /\ At(a, "insert")
  /\ IF providers[Op(a).id] = None
     THEN /\ providers' = [providers EXCEPT ![Op(a).id] = RowOf(Op(a).with, "none")]
          /\ Then(a, "audit") /\ Wrote(a) /\ UNCHANGED <<routes, targets, made>>
     ELSE Refuses(a)

ReadProvider(a) ==
  /\ Kind(a, "update_provider") /\ At(a, "read")
  /\ IF providers[Op(a).id] # None /\ Sealable(Op(a).with)
     THEN /\ admin' = [admin EXCEPT ![a].step = "write", ![a].row = providers[Op(a).id]]
          /\ Wrote(a) /\ UNCHANGED <<tables, made>>
     ELSE Refuses(a)

WriteProvider(a) ==
  /\ Kind(a, "update_provider") /\ At(a, "write")
  /\ IF providers[Op(a).id] # None
     THEN /\ providers' = [providers EXCEPT
                ![Op(a).id] = RowOf(Op(a).with, admin[a].row.key)]
          /\ Then(a, "audit") /\ Wrote(a) /\ UNCHANGED <<routes, targets, made>>
     ELSE Refuses(a)

DeleteProvider(a) ==
  /\ Kind(a, "delete_provider") /\ At(a, "delete")
  /\ IF providers[Op(a).id] # None
     THEN /\ DeleteProviderRow(Op(a).id) /\ End(a, "ok")
          /\ Wrote(a) /\ UNCHANGED <<routes, made>>
     ELSE Refuses(a)

-----------------------------------------------------------------------------
(* Routes and targets.                                                      *)

ReadRoute(a) ==
  /\ Kind(a, "update_route") /\ At(a, "read")
  /\ IF routes[Op(a).id] # None THEN Reads(a, "read_targets") ELSE Refuses(a)

\* get_targets: what update_route replaces, what delete_route deletes.
ReadTargets(a) ==
  LET found == TargetsOf(Op(a).id) IN
  /\ At(a, "read_targets")
  /\ admin' = [admin EXCEPT
       ![a].found = Restrict(targets, found),
       ![a].todo = IF Kind(a, "delete_route") THEN found ELSE {},
       ![a].step = IF Kind(a, "update_route") THEN "routes"
                   ELSE IF found = {} THEN "delete" ELSE "clear"]
  /\ Wrote(a) /\ UNCHANGED <<tables, made>>

\* The targets of the route as it will be: those of the payload, or those it has.
Replaces(a) == Op(a).with.targets # None
Candidate(a) == IF Replaces(a) THEN Op(a).with.targets ELSE Range(admin[a].found)

\* Two rows of a route with one provider and priority share the id they show.
ShowOneId(a) ==
  LET rows == admin[a].found IN
  ~Replaces(a) /\ \E i, j \in DOMAIN rows : i # j
    /\ rows[i].provider = rows[j].provider /\ rows[i].priority = rows[j].priority

\* validate_route_candidate: list_routes, then the provider of each target.
ValidateRoute(a) ==
  /\ At(a, "routes")
  /\ IF /\ CanNameRoute(Op(a).id, Op(a).with.model)
        /\ Kind(a, "create_route") => routes[Op(a).id] = None
        /\ Candidate(a) # {} /\ ~ShowOneId(a)
     THEN /\ admin' = [admin EXCEPT ![a].step = "refer", ![a].todo = Candidate(a)]
          /\ Wrote(a) /\ UNCHANGED <<tables, made>>
     ELSE Refuses(a)

\* create_target and update_target read what they are about first.
ReadForTarget(a) ==
  /\ \/ Kind(a, "create_target") /\ At(a, "read") /\ routes[Op(a).id] # None
     \/ Kind(a, "update_target") /\ At(a, "route") /\ routes[Op(a).id.route] # None
  /\ admin' = [admin EXCEPT ![a].step = "refer", ![a].todo = {Op(a).with}]
  /\ Wrote(a) /\ UNCHANGED <<tables, made>>

NothingToTarget(a) ==
  /\ \/ Kind(a, "create_target") /\ At(a, "read") /\ routes[Op(a).id] = None
     \/ Kind(a, "update_target") /\ At(a, "read") /\ targets[Op(a).id] = None
     \/ Kind(a, "update_target") /\ At(a, "route") /\ routes[Op(a).id.route] = None
  /\ Refuses(a)

ReadTarget(a) ==
  /\ Kind(a, "update_target") /\ At(a, "read") /\ targets[Op(a).id] # None
  /\ Reads(a, "route")

\* validate_target_candidate: the provider of a target is known.
ValidateTarget(a) ==
  /\ At(a, "refer")
  /\ \E t \in admin[a].todo :
       IF providers[t.provider] # None
       THEN /\ Rest(a, t, IF Op(a).kind \in {"create_route", "create_target"}
                          THEN "insert" ELSE "write", {})
            /\ Wrote(a) /\ UNCHANGED <<tables, made>>
       ELSE Refuses(a)

InsertRoute(a) ==
  /\ Kind(a, "create_route") /\ At(a, "insert")
  /\ IF CanInsertRoute(Op(a).id, Op(a).with.model)
     THEN /\ routes' = [routes EXCEPT ![Op(a).id] =
                [model |-> Op(a).with.model, enabled |-> Op(a).with.enabled]]
          /\ made' = [made EXCEPT ![Op(a).id] = a]
          /\ admin' = [admin EXCEPT ![a].step = "targets", ![a].todo = Op(a).with.targets]
          /\ Wrote(a) /\ UNCHANGED <<providers, targets>>
     ELSE Refuses(a)

WriteRoute(a) ==
  /\ Kind(a, "update_route") /\ At(a, "write")
  /\ IF routes[Op(a).id] # None /\ CanNameRoute(Op(a).id, Op(a).with.model)
     THEN /\ routes' = [routes EXCEPT ![Op(a).id] =
                [model |-> Op(a).with.model, enabled |-> Op(a).with.enabled]]
          /\ LET old == DOMAIN admin[a].found IN
             admin' = [admin EXCEPT
               ![a].step = IF ~Replaces(a) THEN "audit"
                           ELSE IF old = {} THEN "targets" ELSE "clear",
               ![a].todo = IF ~Replaces(a) THEN {}
                           ELSE IF old = {} THEN Op(a).with.targets ELSE old]
          /\ Wrote(a) /\ UNCHANGED <<providers, targets, made>>
     ELSE Refuses(a)

\* The targets that were read are deleted one by one.
ClearTargets(a) ==
  /\ At(a, "clear")
  /\ \E i \in admin[a].todo :
       /\ targets' = Without(targets, {i})
       /\ IF Kind(a, "update_route") THEN Rest(a, i, "targets", Op(a).with.targets)
          ELSE Rest(a, i, "delete", {})
  /\ Wrote(a) /\ UNCHANGED <<providers, routes, made>>

\* A target that cannot be inserted leaves an update as far as it got; a creation
\* takes the route back.
InsertTargets(a) ==
  /\ At(a, "targets")
  /\ \E t \in admin[a].todo :
       IF CanInsertTarget(Op(a).id, t)
       THEN /\ targets' = [targets EXCEPT ![RouteIdOf(Op(a).id, t)] = t]
            /\ Rest(a, t, IF Kind(a, "create_route") THEN "ok" ELSE "reread", {})
            /\ Wrote(a) /\ UNCHANGED <<providers, routes, made>>
       ELSE IF Kind(a, "create_route") THEN Reads(a, "undo") ELSE Refuses(a)

\* Mutant: a creation that fails is only reported.
UndoNothing(a) ==
  /\ At(a, "undo")
  /\ End(a, "refused") /\ Wrote(a) /\ UNCHANGED <<tables, made>>

UndoRoute(a) ==
  /\ At(a, "undo")
  /\ DeleteRouteRow(Op(a).id) /\ End(a, "refused")
  /\ Wrote(a) /\ UNCHANGED <<providers, made>>

RereadTargets(a) == At(a, "reread") /\ Reads(a, "audit")

DeleteRoute(a) ==
  /\ Kind(a, "delete_route") /\ At(a, "delete")
  /\ IF routes[Op(a).id] # None
     THEN /\ DeleteRouteRow(Op(a).id) /\ End(a, "ok")
          /\ Wrote(a) /\ UNCHANGED <<providers, made>>
     ELSE Refuses(a)

InsertTarget(a) ==
  /\ Kind(a, "create_target") /\ At(a, "insert")
  /\ IF CanInsertTarget(Op(a).id, Op(a).with)
     THEN /\ targets' = [targets EXCEPT ![RouteIdOf(Op(a).id, Op(a).with)] = Op(a).with]
          /\ End(a, "ok") /\ Wrote(a) /\ UNCHANGED <<providers, routes, made>>
     ELSE Refuses(a)

\* The row keeps its id, whatever provider and priority it is given.
WriteTarget(a) ==
  /\ Kind(a, "update_target") /\ At(a, "write")
  /\ IF targets[Op(a).id] # None /\ providers[Op(a).with.provider] # None
     THEN /\ targets' = [targets EXCEPT ![Op(a).id] = Op(a).with]
          /\ End(a, "ok") /\ Wrote(a) /\ UNCHANGED <<providers, routes, made>>
     ELSE Refuses(a)

DeleteTarget(a) ==
  /\ Kind(a, "delete_target") /\ At(a, "delete")
  /\ IF targets[Op(a).id] # None
     THEN /\ targets' = Without(targets, {Op(a).id}) /\ End(a, "ok")
          /\ Wrote(a) /\ UNCHANGED <<providers, routes, made>>
     ELSE Refuses(a)

-----------------------------------------------------------------------------
(* Import, audit, and handlers that end early.                              *)

\* Mutant: an import stores the keys it carries.
ImportedKeyKept(config) == IF config.key THEN "plain" ELSE "none"

\* include_managed_api_keys is false for an import.
ImportedKey(config) == "none"

\* What validate_import_config refuses, the tables would refuse as well.
Import(a) ==
  /\ Kind(a, "import") /\ At(a, "apply")
  /\ IF CanReplaceAll(Op(a).with)
     THEN /\ ReplaceAll(Op(a).with, [c \in ProviderConfig |-> ImportedKey(c)])
          /\ made' = [r \in Models |-> None]
          /\ Then(a, "audit") /\ Wrote(a)
     ELSE Refuses(a)

\* write_admin_audit_event: the row, or a log entry when the row fails.
Audit(a) ==
  /\ At(a, "audit")
  /\ \/ audited' = audited \cup {a} /\ End(a, "ok") /\ UNCHANGED faults
     \/ Fault /\ Then(a, "log") /\ UNCHANGED audited
  /\ UNCHANGED <<tables, logged, made>>

\* Mutant: an audit row that fails is forgotten.
LogNothing(a) ==
  /\ At(a, "log") /\ End(a, "ok")
  /\ UNCHANGED <<tables, faults, audited, logged, made>>

LogMissingAudit(a) ==
  /\ At(a, "log") /\ End(a, "ok")
  /\ \/ logged' = logged \cup {a} /\ UNCHANGED faults
     \/ Fault /\ UNCHANGED logged
  /\ UNCHANGED <<tables, audited, made>>

\* A statement fails: the handler answers with an error and stops where it is, or
\* takes a half made route back first.
StatementFails(a) ==
  /\ admin[a].step \notin Ended \cup {"exists", "audit", "log"}
  /\ Fault
  /\ IF At(a, "targets") /\ Kind(a, "create_route")
     THEN Then(a, "undo") ELSE End(a, "refused")
  /\ made' = IF At(a, "undo") THEN [made EXCEPT ![Op(a).id] = None] ELSE made
  /\ UNCHANGED <<tables, audited, logged>>

\* The client leaves: the handler is dropped at the statement it waits for.
Dropped(a) ==
  /\ admin[a].step \notin Ended /\ Fault
  /\ End(a, "gone") /\ UNCHANGED <<tables, audited, logged, made>>

Start(a) ==
  /\ At(a, "new")
  /\ \E k \in DOMAIN Ops :
       LET kind == Ops[k].kind IN
       admin' = [admin EXCEPT ![a].call = k, ![a].step =
         CASE kind = "create_provider" -> "exists"
           [] kind = "create_route" -> "routes"
           [] kind \in {"delete_provider", "delete_target"} -> "delete"
           [] kind = "delete_route" -> "read_targets"
           [] kind = "import" -> "apply"
           [] OTHER -> "read"]
  /\ Wrote(a) /\ UNCHANGED <<tables, made>>

Handle(a) ==
  /\ \/ Start(a)
     \/ ProviderIsNew(a) \/ ProviderUnread(a) \/ InsertProvider(a)
     \/ ReadProvider(a) \/ WriteProvider(a) \/ DeleteProvider(a)
     \/ ReadRoute(a) \/ ReadTargets(a) \/ ValidateRoute(a)
     \/ ReadForTarget(a) \/ NothingToTarget(a) \/ ReadTarget(a) \/ ValidateTarget(a)
     \/ InsertRoute(a) \/ WriteRoute(a) \/ ClearTargets(a) \/ InsertTargets(a)
     \/ UndoRoute(a) \/ RereadTargets(a) \/ DeleteRoute(a)
     \/ InsertTarget(a) \/ WriteTarget(a) \/ DeleteTarget(a)
     \/ Import(a) \/ Audit(a) \/ LogMissingAudit(a)
     \/ StatementFails(a) \/ Dropped(a)
  /\ UNCHANGED <<secret, clients>>
  /\ filled' = IF Present(routes') = {} /\ filled = "yes" THEN "no" ELSE filled

-----------------------------------------------------------------------------
(* Requests: ensure_operational_config_seeded and snapshot_route.           *)

On(q, here, there) ==
  request[q].step = here /\ request' = [request EXCEPT ![q].step = there]
Leaves(q, here, outcome) ==
  /\ request[q].step = here
  /\ request' = [request EXCEPT ![q] = [@ EXCEPT !.step = outcome, !.id = None, !.read = {}]]
Unlock(q) == lock' = IF lock = q THEN None ELSE lock
NoWrite == UNCHANGED <<tables, faults, made, filled>>

Arrive(q) ==
  /\ request[q].step = "new"
  /\ \E m \in Asked :
       request' = [request EXCEPT ![q].step = "check", ![q].model = m]
  /\ NoWrite /\ UNCHANGED lock

\* Mutant: tables with a provider count as filled.
SeededByProviders == AnyRoute \/ Present(providers) # {}

\* has_any_route, or a file that says nothing.
Seeded == AnyRoute \/ (DOMAIN File.providers = {} /\ DOMAIN File.routes = {})

Check(q) ==
  /\ On(q, "check", IF Seeded THEN "route" ELSE "lock")
  /\ NoWrite /\ UNCHANGED lock

Acquire(q) ==
  /\ On(q, "lock", "recheck")
  /\ lock = None /\ lock' = q
  /\ NoWrite

\* Mutant: the tables are not looked at again under the lock.
RecheckNothing(q) ==
  /\ On(q, "recheck", "seed") /\ UNCHANGED lock
  /\ NoWrite

\* The second look, and config_with_encrypted_managed_keys.
CannotSeal == ~secret /\ \E p \in DOMAIN File.providers :
  File.providers[p].managed /\ File.providers[p].key

Recheck(q) ==
  /\ \/ Seeded /\ On(q, "recheck", "route") /\ Unlock(q)
     \/ ~Seeded /\ CannotSeal /\ Leaves(q, "recheck", "error") /\ Unlock(q)
     \/ ~Seeded /\ ~CannotSeal /\ On(q, "recheck", "seed") /\ UNCHANGED lock
  /\ NoWrite

SeededKey(config) ==
  IF ~config.key THEN "none" ELSE IF config.managed THEN "sealed" ELSE "plain"

Seed(q) ==
  /\ IF CanReplaceAll(File)
     THEN /\ On(q, "seed", "route")
          /\ ReplaceAll(File, [c \in ProviderConfig |-> SeededKey(c)])
          /\ made' = [r \in Models |-> None]
          /\ filled' = IF filled = "no" THEN "yes" ELSE "twice"
     ELSE /\ Leaves(q, "seed", "error")
          /\ UNCHANGED <<tables, made, filled>>
  /\ Unlock(q) /\ UNCHANGED faults

OnOffer(rows, m) == {r \in Present(rows) : rows[r].model = m /\ rows[r].enabled}

ReadRouteRow(q) ==
  LET found == OnOffer(routes, request[q].model) IN
  /\ \/ found = {} /\ Leaves(q, "route", "not_found")
     \/ /\ request[q].step = "route"
        /\ \E r \in found :
             request' = [request EXCEPT ![q].step = "targets", ![q].id = r]
  /\ NoWrite /\ UNCHANGED lock

ReadTargetRows(q) ==
  /\ request[q].step = "targets"
  /\ request' = [request EXCEPT ![q].step = "providers",
       ![q].read = {targets[i].provider : i \in
                      {i \in TargetsOf(request[q].id) : targets[i].enabled}}]
  /\ NoWrite /\ UNCHANGED lock

\* A target is skipped when its provider is gone or its key cannot be opened.
ReadProviderRows(q) ==
  LET usable == {p \in request[q].read : providers[p] # None /\
                   (providers[p].managed /\ providers[p].key = "sealed" => secret)} IN
  /\ Leaves(q, "providers", IF usable = {} THEN "unavailable" ELSE "served")
  /\ NoWrite /\ UNCHANGED lock

\* A failing statement ends the request; the guard of the lock is dropped with it,
\* also when the client leaves.
RequestFails(q) ==
  /\ Fault
  /\ \E outcome \in {"error", "gone"}, step \in
       {"check", "lock", "recheck", "seed", "route", "targets", "providers"} :
       /\ step = "lock" => outcome = "gone"
       /\ Leaves(q, step, outcome)
  /\ Unlock(q) /\ UNCHANGED <<tables, made, filled>>

Serve(q) ==
  /\ \/ Arrive(q) \/ Check(q) \/ Acquire(q) \/ Recheck(q) \/ Seed(q)
     \/ ReadRouteRow(q) \/ ReadTargetRows(q) \/ ReadProviderRows(q)
     \/ RequestFails(q)
  /\ UNCHANGED <<secret, admin, audited, logged>>

\* History: the model of a request in progress was off a table that was not empty,
\* or was taken off.
Watch ==
  gap' = {q \in Requests :
    /\ request'[q].step # "new"
    /\ \/ q \in gap
       \/ OnOffer(routes', request'[q].model) = {} /\ AnyRoute'
       \/ /\ OnOffer(routes, request'[q].model) # {}
          /\ OnOffer(routes', request'[q].model) = {}}

Next ==
  /\ (\E a \in Admins : Handle(a)) \/ (\E q \in Requests : Serve(q))
  /\ Watch

Spec == Init /\ [][Next]_vars

-----------------------------------------------------------------------------
(* Properties.                                                              *)

\* Concurrent first requests put the file into the tables once: again only after
\* an administrator has emptied them (the lock and the second look under it).
SeededOnce == filled # "twice"

InFile(m) == \E r \in DOMAIN File.routes : File.routes[r].model = m /\ File.routes[r].enabled

\* A request is told that a model of the file does not exist only if an administrator
\* had it so at some moment of the request: never because it came first, or while
\* another one was filling the tables.
ServedFromFile ==
  \A q \in Requests :
    request[q].step = "not_found" /\ InFile(request[q].model) => q \in gap

\* A route whose creation was answered with an error is not left in the tables half
\* made, unless taking it back failed as well.
FailedCreateUndone ==
  \A r \in Models : routes[r] # None /\ made[r] # None => admin[made[r]].step # "refused"

\* With one fault, a change that is audited and was answered with success left a
\* row in the audit table or a log entry that says it could not.
AuditedOrLogged ==
  \A a \in Admins :
    admin[a].step = "ok" /\ Op(a).kind \in {"create_provider", "update_provider",
                                            "update_route", "import"}
      => a \in audited \cup logged

\* docs/public-deployment-guide.md:45-46: "Admin-created or file-seeded managed keys are
\* encrypted before they are stored".  However the statements of handlers and requests
\* interleave, a key stored in the clear is one the file gave to a provider it did not
\* manage: no key of an administrator, none of an import, none the file gave a managed
\* one.  It is all the code keeps of the two claims below.
PlainKeysAreTheFiles ==
  \A p \in Present(providers) : providers[p].key = "plain" =>
    p \in DOMAIN File.providers /\ ~File.providers[p].managed /\ File.providers[p].key

\* docs/modelwire-implementation-plan.md:2477: "a DB dump must not reveal raw API keys".
\* The seed stores what an unmanaged provider of the file has (runtime_config.rs:112).
KeysSealedAtRest == \A p \in Present(providers) : providers[p].key # "plain"

\* docs/modelwire-implementation-plan.md:2536: "Store managed upstream keys encrypted at
\* rest".  update_provider takes the key of such a provider along when it makes it a
\* managed one (admin/mod.rs:336).
ManagedKeysSealed ==
  \A p \in Present(providers) : providers[p].managed => providers[p].key # "plain"

\* runtime_config.rs:4: the file is put in only if the tables are empty.
SeedOnlyIntoEmpty ==
  [][\A q \in Requests :
       request[q].step = "seed" /\ request'[q].step = "route"
         => Present(providers) = {} /\ Present(routes) = {}]_vars
=============================================================================
