------------------------------ MODULE ProbeCache ------------------------------
(***************************************************************************)
(* How concurrent requests find out which protocol an upstream speaks: the *)
(* memory cache, the probe_results row, the lock of probe_locks and the    *)
(* probe itself, for ONE cache key (provider, credential hash, model).     *)
(*                                                                         *)
(* A request calls resolve_target_protocol and then                        *)
(* ensure_tool_probe_if_needed; each await and each operation on a shared  *)
(* map is a step.  Targets that force a protocol share the key.            *)
(*                                                                         *)
(* External: a DashMap operation that writes a shard blocks its thread     *)
(* while any guard into the shard is alive, the caller's own included;     *)
(* tokio's Mutex releases when its guard is dropped, by cancellation too.  *)
(*                                                                         *)
(* Abstracted: the capability flags no code reads back; time (an entry is  *)
(* fresh or has expired); which of 401, 403, 429, 5xx, a timeout or an     *)
(* invalid model made a probe fail.                                        *)
(***************************************************************************)
EXTENDS Naturals, Sequences, FiniteSets

CONSTANTS
  Requests,    \* concurrent requests; also names of the mutexes they create
  Forced,      \* api another target of this key forces, NoApi if there is none
  NoApi,
  None,        \* no mutex, no holder, no cache entry, no row
  MaxFaults    \* bound of the model: disturbances in one behaviour

Apis == <<"responses", "anthropic", "openai_chat">>
Api == {Apis[k] : k \in DOMAIN Apis}

Entry == [api : Api, known : BOOLEAN, tools : BOOLEAN, fresh : BOOLEAN]
Row == [status : {"success", "failed"}, api : Api \cup {NoApi},
        tools : BOOLEAN, fresh : BOOLEAN]

ASSUME ProbeCacheAssumption ==
  /\ MaxFaults \in Nat
  /\ None \notin Requests \cup Entry \cup Row
  /\ Forced \in Api \cup {NoApi}

VARIABLES
  serves,     \* apis the upstream answers 2xx to: fixed
  tooling,    \* whether it accepts tools: fixed
  mem,        \* probe_cache entry
  row,        \* probe_results row
  lockEntry,  \* mutex registered in probe_locks
  holder,     \* who holds each mutex
  pc,
  kind,       \* "text", "tools" (a request that brings tools) or "forced"
  mutex,      \* the Arc the request cloned from probe_locks
  candidate,  \* index in Apis of the probe in progress
  found,      \* what the request resolved to
  result,     \* how resolving ended
  adminPc,    \* progress of refresh_probes
  probes,     \* history: probe sequences started
  faults      \* history: disturbances so far

shared == <<mem, row, lockEntry>>
local  == <<kind, mutex, candidate, found, result>>
world  == <<serves, tooling>>
vars == <<world, shared, holder, pc, local, adminPc, probes, faults>>

Unprobed(a) == [api |-> a, known |-> FALSE, tools |-> FALSE, fresh |-> TRUE]

\* load_probe_from_db: the column is never NULL, so support counts as known.
FromRow(w) == [api |-> w.api, known |-> TRUE, tools |-> w.tools, fresh |-> w.fresh]

\* A request that waits in `if let Some(entry) = probe_cache.get(..)` for its
\* own read guard holds that guard forever: no step writes the shard again.
Deadlocked == \E r \in Requests : pc[r] = "deadlocked"

Init ==
  /\ serves \in SUBSET Api /\ tooling \in BOOLEAN
  /\ mem = None /\ row = None /\ lockEntry = None
  /\ holder = [m \in Requests |-> None]
  /\ pc = [r \in Requests |-> "idle"]
  /\ kind = [r \in Requests |-> "text"]
  /\ mutex = [r \in Requests |-> None]
  /\ candidate = [r \in Requests |-> 1]
  /\ found = [r \in Requests |-> None]
  /\ result = [r \in Requests |-> "pending"]
  /\ adminPc = "idle"
  /\ probes = 0 /\ faults = 0

-----------------------------------------------------------------------------
(* Shapes of steps.                                                         *)

Goto(r, here, there) == pc[r] = here /\ pc' = [pc EXCEPT ![r] = there]

\* Where a request goes with what it resolved: tool support still unknown to a
\* tool-bearing request takes a tool probe.
After(r, e) == IF kind[r] = "tools" /\ ~e.known THEN "toolProbe" ELSE "done"

\* How it ends then: should_skip_target_for_tool_support.
Verdict(r, e) == IF After(r, e) = "toolProbe" THEN "pending"
                 ELSE IF kind[r] = "tools" /\ ~e.tools THEN "skipped" ELSE "ok"

Resolve(r, here, e) ==
  /\ Goto(r, here, After(r, e))
  /\ found' = [found EXCEPT ![r] = e]
  /\ result' = [result EXCEPT ![r] = Verdict(r, e)]

EndsWith(r, res) == result' = [result EXCEPT ![r] = res]

Disturbed == faults < MaxFaults /\ faults' = faults + 1

\* The guard of the probe lock goes out of scope.
DropGuard(r) ==
  holder' = [m \in Requests |-> IF holder[m] = r THEN None ELSE holder[m]]

Remember(e) == ~Deadlocked /\ mem' = e

-----------------------------------------------------------------------------
(* resolve_target_protocol                                                  *)

Arrive(r) ==
  /\ \E k \in {"text", "tools"} \cup (IF Forced = NoApi THEN {} ELSE {"forced"}) :
       /\ kind' = [kind EXCEPT ![r] = k]
       /\ Goto(r, "idle", IF k = "forced" THEN "force" ELSE "mem")
  /\ UNCHANGED <<world, shared, holder, mutex, candidate, found, result,
                 adminPc, probes, faults>>

\* remember_forced_probe_visibility: a missing, differing or expired entry is
\* replaced and stored; a failing store is logged.
ResolveForced(r) ==
  /\ Goto(r, "force", IF mem # None /\ mem.api = Forced /\ mem.fresh
                      THEN "done" ELSE "forceRemember")
  /\ found' = [found EXCEPT ![r] = Unprobed(Forced)]
  /\ EndsWith(r, "ok")
  /\ UNCHANGED <<world, shared, holder, kind, mutex, candidate, adminPc, probes,
                 faults>>

RememberForced(r) ==
  /\ Goto(r, "forceRemember", "forceStore")
  /\ Remember(found[r])
  /\ UNCHANGED <<world, row, lockEntry, holder, local, adminPc, probes, faults>>

SuccessRow(e) == [status |-> "success", api |-> e.api, tools |-> e.tools,
                  fresh |-> TRUE]

StoreForced(r) ==
  /\ Goto(r, "forceStore", "done")
  /\ \/ row' = SuccessRow(found[r]) /\ UNCHANGED faults
     \/ Disturbed /\ UNCHANGED row
  /\ UNCHANGED <<world, mem, lockEntry, holder, local, adminPc, probes>>

\* load_probe_from_memory_cache, before the lock (here = "mem") and with it
\* (here = "recheck").
MemoryHit(r, here) ==
  /\ mem # None /\ mem.fresh
  /\ Resolve(r, here, mem)
  /\ DropGuard(r)
  /\ UNCHANGED <<world, shared, kind, mutex, candidate, adminPc, probes, faults>>

MemoryMiss(r, here) ==
  /\ mem = None
  /\ Goto(r, here, IF here = "mem" THEN "db" ELSE "recheckDb")
  /\ UNCHANGED <<world, shared, holder, local, adminPc, probes, faults>>

MemoryExpired(r, here) ==
  /\ mem # None /\ ~mem.fresh
  /\ Goto(r, here, "deadlocked")
  /\ UNCHANGED <<world, shared, holder, local, adminPc, probes, faults>>

\* load_probe_from_db: only a fresh success counts.
RowCounts == row # None /\ row.fresh /\ row.status = "success"

RowRead(r, here) ==
  /\ RowCounts
  /\ Goto(r, here, IF here = "db" THEN "rowHit" ELSE "recheckHit")
  /\ found' = [found EXCEPT ![r] = FromRow(row)]
  /\ UNCHANGED <<world, shared, holder, kind, mutex, candidate, result, adminPc,
                 probes, faults>>

\* What was read is put in the memory cache, whatever the row says by now.
RowHit(r, here) ==
  /\ Remember(found[r])
  /\ Resolve(r, here, found[r])
  /\ DropGuard(r)
  /\ UNCHANGED <<world, row, lockEntry, kind, mutex, candidate, adminPc, probes,
                 faults>>

RowMiss(r) ==
  /\ ~RowCounts
  /\ Goto(r, "db", "enter")
  /\ UNCHANGED <<world, shared, holder, local, adminPc, probes, faults>>

RowMissWithLock(r) ==
  /\ ~RowCounts
  /\ Goto(r, "recheckDb", "probe")
  /\ probes' = probes + 1
  /\ UNCHANGED <<world, shared, holder, local, adminPc, faults>>

\* `?` on a failing query; under the lock the entry of probe_locks stays.
RowFails(r, here) ==
  /\ Goto(r, here, "done")
  /\ Disturbed
  /\ EndsWith(r, "error")
  /\ DropGuard(r)
  /\ UNCHANGED <<world, shared, kind, mutex, candidate, found, adminPc, probes>>

\* probe_locks.entry(..).or_insert_with(..).clone()
EnterLock(r) ==
  /\ Goto(r, "enter", "lock")
  /\ lockEntry' = IF lockEntry = None THEN r ELSE lockEntry
  /\ mutex' = [mutex EXCEPT ![r] = lockEntry']
  /\ UNCHANGED <<world, mem, row, holder, kind, candidate, found, result,
                 adminPc, probes, faults>>

\* Fault: the caches are not read again once the lock is held.
AcquireLockUnchecked(r) ==
  /\ Goto(r, "lock", "probe")
  /\ holder[mutex[r]] = None
  /\ holder' = [holder EXCEPT ![mutex[r]] = r]
  /\ probes' = probes + 1
  /\ UNCHANGED <<world, shared, local, adminPc, faults>>

AcquireLock(r) ==
  /\ Goto(r, "lock", "recheck")
  /\ holder[mutex[r]] = None
  /\ holder' = [holder EXCEPT ![mutex[r]] = r]
  /\ UNCHANGED <<world, shared, local, adminPc, probes, faults>>

-----------------------------------------------------------------------------
(* probe_wire_api, under the lock                                           *)

Candidate(r) == Apis[candidate[r]]

ProbeSupported(r) ==
  /\ Candidate(r) \in serves
  /\ Goto(r, "probe", "store")
  /\ found' = [found EXCEPT ![r] = Unprobed(Candidate(r))]
  /\ UNCHANGED <<world, shared, holder, kind, mutex, candidate, result, adminPc,
                 probes, faults>>

\* 404, 405, 501 and an unspecific 400: the next protocol, if there is one.
TryNext(r) ==
  /\ candidate' = [candidate EXCEPT ![r] = @ + 1]
  /\ Goto(r, "probe", "probe")

\* Fault: off by one, a candidate past the last is tried.
NextCandidatePastEnd(r) ==
  IF candidate[r] <= Len(Apis)
  THEN TryNext(r)
  ELSE Goto(r, "probe", "storeFailure") /\ UNCHANGED candidate

NextCandidate(r) ==
  IF candidate[r] < Len(Apis)
  THEN TryNext(r)
  ELSE Goto(r, "probe", "storeFailure") /\ UNCHANGED candidate

ProbeUnsupported(r) ==
  /\ Candidate(r) \notin serves
  /\ NextCandidate(r)
  /\ UNCHANGED <<world, shared, holder, kind, mutex, found, result, adminPc,
                 probes, faults>>

\* 401, 403, 429, 5xx, a timeout or an invalid model: no protocol decision.
\* Fault: such an answer moves on to the next protocol.
ProbeFailsOver(r) ==
  /\ NextCandidate(r)
  /\ Disturbed
  /\ UNCHANGED <<world, shared, holder, kind, mutex, found, result, adminPc,
                 probes>>

ProbeFails(r) ==
  /\ Goto(r, "probe", "release")
  /\ Disturbed
  /\ EndsWith(r, "error")
  /\ UNCHANGED <<world, shared, holder, kind, mutex, candidate, found, adminPc,
                 probes>>

StoreProbe(r) ==
  /\ \/ /\ Goto(r, "store", "remember")
        /\ row' = SuccessRow(found[r])
        /\ UNCHANGED <<result, faults>>
     \/ /\ Goto(r, "store", "release")
        /\ Disturbed
        /\ EndsWith(r, "error")
        /\ UNCHANGED row
  /\ UNCHANGED <<world, mem, lockEntry, holder, kind, mutex, candidate, found,
                 adminPc, probes>>

RememberProbe(r) ==
  /\ Goto(r, "remember", "release")
  /\ Remember(found[r])
  /\ UNCHANGED <<world, row, lockEntry, holder, local, adminPc, probes, faults>>

FailureRow == [status |-> "failed", api |-> NoApi, tools |-> FALSE,
               fresh |-> TRUE]

\* The failure is stored, `.ok()`, with the api "auto"; no reader uses it.
StoreFailure(r) ==
  /\ Goto(r, "storeFailure", "release")
  /\ EndsWith(r, "unsupported")
  /\ \/ row' = FailureRow /\ UNCHANGED faults
     \/ Disturbed /\ UNCHANGED row
  /\ UNCHANGED <<world, mem, lockEntry, holder, kind, mutex, candidate, found,
                 adminPc, probes>>

\* drop(_guard)
\* Fault: the guard of a failed probe is leaked.
ReleaseOnSuccess(r) ==
  /\ Goto(r, "release", "remove")
  /\ IF result[r] = "pending" THEN DropGuard(r) ELSE UNCHANGED holder
  /\ UNCHANGED <<world, shared, local, adminPc, probes, faults>>

Release(r) ==
  /\ Goto(r, "release", "remove")
  /\ DropGuard(r)
  /\ UNCHANGED <<world, shared, local, adminPc, probes, faults>>

\* probe_locks.remove(..), whoever's mutex is registered by now.
RemoveLock(r) ==
  /\ lockEntry' = None
  /\ IF result[r] = "pending"
     THEN Resolve(r, "remove", found[r])
     ELSE Goto(r, "remove", "done") /\ UNCHANGED <<found, result>>
  /\ UNCHANGED <<world, mem, row, holder, kind, mutex, candidate, adminPc,
                 probes, faults>>

-----------------------------------------------------------------------------
(* ensure_tool_probe_if_needed                                              *)

ToolAnswer(r) == [api |-> found[r].api, known |-> TRUE, tools |-> tooling,
                  fresh |-> TRUE]

ToolProbe(r) ==
  /\ \/ /\ Goto(r, "toolProbe", "toolRemember")
        /\ found' = [found EXCEPT ![r] = ToolAnswer(r)]
        /\ UNCHANGED <<result, faults>>
     \/ /\ Goto(r, "toolProbe", "done")
        /\ Disturbed
        /\ EndsWith(r, "error")
        /\ UNCHANGED found
  /\ UNCHANGED <<world, shared, holder, kind, mutex, candidate, adminPc, probes>>

ToolRemember(r) ==
  /\ Goto(r, "toolRemember", "toolStore")
  /\ Remember(found[r])
  /\ UNCHANGED <<world, row, lockEntry, holder, local, adminPc, probes, faults>>

ToolRow(e) == [status |-> IF e.tools THEN "success" ELSE "failed",
               api |-> e.api, tools |-> e.tools, fresh |-> TRUE]

ToolStore(r) ==
  /\ Goto(r, "toolStore", "done")
  /\ \/ /\ row' = ToolRow(found[r])
        /\ EndsWith(r, Verdict(r, found[r]))
        /\ UNCHANGED faults
     \/ Disturbed /\ EndsWith(r, "error") /\ UNCHANGED row
  /\ UNCHANGED <<world, mem, lockEntry, holder, kind, mutex, candidate, found,
                 adminPc, probes>>

-----------------------------------------------------------------------------
(* What happens around the requests.                                        *)

\* The client goes away: the handler's future is dropped at an await, which a
\* query may have passed in the database already.
AwaitPoints == {"db", "rowHit", "lock", "recheckDb", "recheckHit", "probe",
                "store", "remember", "storeFailure", "forceStore", "toolProbe",
                "toolStore"}

Abandon(r) ==
  /\ pc[r] \in AwaitPoints
  /\ Disturbed
  /\ pc' = [pc EXCEPT ![r] = "gone"]
  /\ DropGuard(r)
  /\ UNCHANGED <<world, shared, local, adminPc, probes>>

ExpireEntry ==
  /\ mem # None /\ mem.fresh
  /\ Disturbed
  /\ mem' = [mem EXCEPT !.fresh = FALSE]
  /\ UNCHANGED <<world, row, lockEntry, holder, pc, local, adminPc, probes>>

ExpireRow ==
  /\ row # None /\ row.fresh
  /\ Disturbed
  /\ row' = [row EXCEPT !.fresh = FALSE]
  /\ UNCHANGED <<world, mem, lockEntry, holder, pc, local, adminPc, probes>>

\* refresh_probes: probe_cache.clear(), probe_locks.clear(), DELETE, which may
\* fail or be cancelled.
RefreshCache ==
  /\ adminPc = "idle" /\ adminPc' = "locks"
  /\ Disturbed
  /\ Remember(None)
  /\ UNCHANGED <<world, row, lockEntry, holder, pc, local, probes>>

RefreshLocks ==
  /\ adminPc = "locks" /\ adminPc' = "rows"
  /\ lockEntry' = None
  /\ UNCHANGED <<world, mem, row, holder, pc, local, probes, faults>>

RefreshRows ==
  /\ adminPc = "rows" /\ adminPc' = "idle"
  /\ \/ row' = None /\ UNCHANGED faults
     \/ Disturbed /\ UNCHANGED row
  /\ UNCHANGED <<world, mem, lockEntry, holder, pc, local, probes>>

\* The process restarts: the row survives.
Restart ==
  /\ Disturbed
  /\ mem' = None /\ lockEntry' = None
  /\ holder' = [m \in Requests |-> None]
  /\ pc' = [r \in Requests |->
              IF pc[r] \in {"idle", "done"} THEN pc[r] ELSE "gone"]
  /\ adminPc' = "idle"
  /\ UNCHANGED <<world, row, local, probes>>

-----------------------------------------------------------------------------
Lookup(r) ==
  \/ \E here \in {"mem", "recheck"} :
       MemoryHit(r, here) \/ MemoryMiss(r, here) \/ MemoryExpired(r, here)
  \/ \E here \in {"db", "recheckDb"} : RowRead(r, here) \/ RowFails(r, here)
  \/ \E here \in {"rowHit", "recheckHit"} : RowHit(r, here)
  \/ RowMiss(r)
  \/ RowMissWithLock(r)

Probe(r) ==
  \/ ProbeSupported(r) \/ ProbeUnsupported(r) \/ ProbeFails(r)
  \/ StoreProbe(r) \/ RememberProbe(r) \/ StoreFailure(r)

\* The steps a request takes by itself.
Step(r) ==
  \/ ResolveForced(r) \/ RememberForced(r) \/ StoreForced(r)
  \/ Lookup(r)
  \/ EnterLock(r) \/ AcquireLock(r)
  \/ Probe(r)
  \/ Release(r) \/ RemoveLock(r)
  \/ ToolProbe(r) \/ ToolRemember(r) \/ ToolStore(r)

Environment ==
  ExpireEntry \/ ExpireRow \/ RefreshCache \/ RefreshLocks \/ RefreshRows
  \/ Restart

Next ==
  \/ \E r \in Requests : Arrive(r) \/ Step(r) \/ Abandon(r)
  \/ Environment

\* A request is a tokio task: it is polled while it can go on.  Upstream calls
\* end (reqwest's timeout) and so do queries.
Spec == Init /\ [][Next]_vars /\ \A r \in Requests : WF_vars(Step(r))

-----------------------------------------------------------------------------
(* Properties.                                                              *)

Points == {"idle", "force", "forceRemember", "forceStore", "mem", "db", "rowHit",
           "enter", "lock", "recheck", "recheckDb", "recheckHit", "probe",
           "store", "remember",
           "storeFailure", "release", "remove", "toolProbe", "toolRemember",
           "toolStore", "deadlocked", "gone", "done"}
Results == {"pending", "ok", "skipped", "error", "unsupported"}

TypeOK ==
  /\ serves \subseteq Api /\ tooling \in BOOLEAN
  /\ mem \in Entry \cup {None}
  /\ row \in Row \cup {None}
  /\ lockEntry \in Requests \cup {None}
  /\ holder \in [Requests -> Requests \cup {None}]
  /\ pc \in [Requests -> Points]
  /\ kind \in [Requests -> {"text", "tools", "forced"}]
  /\ mutex \in [Requests -> Requests \cup {None}]
  /\ candidate \in [Requests -> DOMAIN Apis]
  /\ found \in [Requests -> Entry \cup {None}]
  /\ result \in [Requests -> Results]
  /\ adminPc \in {"idle", "locks", "rows"}
  /\ probes \in Nat
  /\ faults \in 0..MaxFaults

\* Undisturbed, concurrent requests share one probe sequence, whatever the order
\* in which they read the caches, take the lock and remove it.
\* (test probe_concurrent_identical_requests_single_flight, all interleavings)
ProbedOnce == faults = 0 /\ serves # {} => probes <= 1

\* The protocol the upstream should be called with: the first it serves (there
\* is none if it serves none), or one that an operator forced.
FirstServed == {Apis[k] : k \in {i \in DOMAIN Apis :
  Apis[i] \in serves /\ \A j \in 1..(i - 1) : Apis[j] \notin serves}}

Expected == ({Forced} \cap Api) \cup FirstServed

\* Failures, expiry, restarts and refreshes never make an auto target resolve to
\* another protocol than the first the upstream serves, or one an operator
\* forced for the same key.
ResolvesToFirstServed ==
  \A r \in Requests : result[r] \in {"ok", "skipped"} =>
    found[r].api \in Expected

\* A target is declared unusable only if the upstream serves no protocol, and is
\* used for tools only if the upstream takes them.
VerdictsAreEarned ==
  \A r \in Requests :
    /\ result[r] = "unsupported" => serves = {}
    /\ result[r] = "ok" /\ kind[r] = "tools" => tooling

\* Whoever is between acquiring the lock and dropping it holds it alone: a
\* cancelled or failed request leaves no mutex held behind.
HeldByTheLiving ==
  \A m, r \in Requests : holder[m] = r =>
    /\ mutex[r] = m
    /\ pc[r] \in {"recheck", "recheckDb", "recheckHit", "probe", "store",
                  "remember", "storeFailure", "release", "deadlocked"}

\* A request that looks the protocol up gets an answer, unless a lookup has met
\* an expired memory entry.
LookupEnds ==
  \A r \in Requests : pc[r] = "mem" ~> pc[r] \in {"done", "gone"} \/ Deadlocked

-----------------------------------------------------------------------------
(* What the documents say and the code does not do.                         *)

\* "Concurrent requests probe the same target: use a single-flight lock so only
\* one probe runs."
SingleFlight ==
  Cardinality({r \in Requests : pc[r] = "probe"}) <= 1

\* "Probe cache expired: re-probe lazily on next request."
ExpiredIsReprobed == \A r \in Requests : pc[r] = "mem" ~> pc[r] \in {"done", "gone"}

\* "Run a second lightweight tool probe when the real request contains tools and
\* the cached result does not yet know tool support": an upstream that takes
\* tools is not skipped for want of them.
ToolSupportIsProbed ==
  \A r \in Requests : result[r] = "skipped" => ~tooling
=============================================================================
