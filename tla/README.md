# ModelWire in TLA+

ModelWire is a gateway: clients speak the Responses protocol to it, and it relays
each request to one of several upstream targets, which speak the Responses, Chat
Completions or Anthropic protocol. This directory holds TLA+ specifications of
its core, TLC configurations that check them on small instances, and TLAPS proofs
of the properties that matter most. Paths below are relative to the repository;
`relay.rs` is `src/modelwire-server/src/relay.rs`, "the plan" is
`src/docs/modelwire-implementation-plan.md`.

    tlc -config StreamRelay.cfg StreamRelay.tla
    tlc -config AdminConfig.cfg MCAdminConfig.tla
    tlapm StreamRelayProofs.tla

## 1. Inventory

| Component | State it keeps | Operations | Interacts with | Hard behaviour |
|---|---|---|---|---|
| Streaming relay (`relay.rs` 459-613, 1280-1736, 2600-3042) | per request: the current target, `last_error`, a oneshot `ready` channel, an mpsc channel of 64 chunks; per worker: `committed`, item sets, thinking filters | try targets in order, start a worker, forward events, synthesize missing ones, persist | adapters, probing, response store, hyper | commit against fallback, a client that leaves or does not read, streams that fail half-way |
| Non-streaming relay (`relay.rs` 241-414, 936-1278) | none between requests | try targets, check the window, retry with replay when a handle is gone, record attempts | as above, archive | fallback, the retry after a missing handle, what is recorded of whom |
| Compaction (`relay.rs` 637-709, 1808-1967) | rows of `compaction_lineage` | native compaction or a local summary | response store | fallback that must respect where the source's state lies |
| Protocol and tool probing (`relay.rs` 3648-4260, `repo/probes.rs`) | `probe_cache`, `probe_locks`, rows of `probe_results` | resolve, probe, tool probe, refresh | every relay path, admin | single flight, expiry, stale reads, restarts, cancellation |
| Request limiter and data-plane authentication (`request_limiter.rs`, `middleware/auth.rs`) | a window per client, a window and a slot counter per key | charge, refuse, release | wraps every `/v1` handler | release after an await, window edges |
| Response chain (`relay.rs` 3128-3400, 4291-4765, `repo/responses.rs`) | rows of `responses`, `response_items`, `upstream_handles` | store, continue natively or by replay, delete | relay, janitor | partial writes, missing ancestors, races with deletion |
| Janitor (`janitor.rs`) | none (cutoffs from the clock) | delete what has expired | response chain, archive, logs | reads reference sets, then deletes, in no transaction |
| SSE and thinking filter (`sse.rs`, `relay.rs` 2683-2806) | undecoded bytes, a partial tag per item | extract frames, hide `<think>` text | streaming relay | input cut at any byte |
| Adapters (`modelwire-adapters`) | none | translate requests and events | relay | data conversion |
| Archive (`modelwire-archive`, `relay.rs` archive functions) | open segment, manifest, files, rows of `archive_files` | append, seal, list, index | relay | failures and cancellation between segment, manifest and index |
| Configuration (`runtime_config.rs`, `config_apply.rs`) | tables `providers`, `routes`, `route_targets` | seed, replace, snapshot | admin, every request | double-checked seeding |
| Admin API (`admin/mod.rs`) | the same tables, `admin_audit_events` | create, update, delete, import, refresh probes | configuration, probing | handlers of several statements and no transaction |
| Web interface, guards (CSRF, origin, SSRF), request logging, schema | their tables | stateless checks, I/O | database | little |

The relay calls the probe code once per target before it calls upstream; the probe
code calls the upstream and the database; the limiter's middleware wraps the handler
that runs the relay; every request first makes sure the configuration is seeded and
takes a snapshot of its route. Everything runs as tokio tasks in one process: what
they share are DashMaps, tokio mutexes, channels, files and the database.

What makes each correct, in a sentence:

* *Relay*: a request is answered once, by an error or by one well-formed answer of
  one target whose window it fits, and what is stored, logged and archived says what
  the client was told.
* *Compaction*: what one upstream keeps is compacted where it is, and the lineage
  says by whom.
* *Probing*: what a target resolves to is what its upstream serves, found with one
  probe sequence at a time, and every lookup ends.
* *Limiter*: no more handlers of a key at once than its cap, no more charges per
  window than its rate, and every slot is given back.
* *Response chain, janitor*: a continued response is answered on exactly the turns
  before it, and what a client may still continue is kept until it expires.
* *SSE, thinking filter*: the output does not depend on how the input is cut.
* *Archive*: what was acknowledged as archived is found again, and counted right.
* *Configuration, admin*: a file is put in once, a model it offers is found, a
  refused change leaves nothing half made, and the only keys in the clear are those the
  file gives to providers it does not manage.

`PROJECT.json` lists the hazards at their lines, with the properties that cover
them or the reason why none does.

## 2. Modules

| Module | Models |
|---|---|
| `ResponseContract` | what the caller of a streaming request may rely on (abstract) |
| `StreamRelay` | the target loop, the worker task, the two channels, the client, the record; refines `ResponseContract` |
| `ProbeCache`, `MCProbeCache` | memory cache, row, lock and probes of one cache key |
| `KeyLimiter` | windows and slots of one client and one key |
| `ResponseStore` | tables `responses`, `response_items`, `upstream_handles` and their statements |
| `Janitor` | the cleanup task on these tables (extends `ResponseStore`) |
| `ResponseChain`, `MCResponseChain` | requests that continue one another, next to the janitor (extends `Janitor`) |
| `ResponseLifetime` | what the tables promise of one response (abstract); `ResponseChain` refines it |
| `ContextGuard` | does a request fit a target: the arithmetic, with its width |
| `TargetCall` | a non-streaming request from its first target to its answer (extends `ContextGuard`) |
| `Compaction`, `MCCompaction` | the compaction of that answer (extends `TargetCall`) |
| `ArchiveWriter` | archive records, segments, manifests and files |
| `ConfigStore` | the configuration tables and their statements |
| `AdminConfig`, `MCAdminConfig` | admin handlers next to requests that seed and read (extends `ConfigStore`) |
| `StreamText`, `MCStreamText` | frames and thinking text of a stream cut anywhere |
| `StreamRelayProofs`, `ProbeCacheProofs`, `KeyLimiterProofs`, `ResponseChainProofs`, `CompactionProofs`, `ArchiveWriterProofs`, `AdminConfigProofs`, `StreamTextProofs` | their proofs |

`PROJECT.json` maps every definition to the lines it stands for. The MC modules give
constants their values; everything else is in the module it models.

### StreamRelay

`hpc` is where the handler (`relay_streaming_response_stream_scoped`) is: `start`,
`select` at the head of the loop over the targets, `await` on `ready_rx`, and the
two endings `streaming` and `refused`. `wpc` is where the worker
(`run_streaming_target_worker`) is: `connect`, the `top` of its loop, `wait` for
the upstream, `send` of one event, `flush` of the last chunk, `persist`, and the
endings `done`, `failed` (reported to the handler), `aborted` (the receiver is
gone) and `panicked`. One action is what happens between two awaits. The item sets
are the ones `collect_stream_completion_state` keeps; `out` is what `sse_writer`
holds, `sent` what the channel has accepted, which is what the client gets, and
`queued` how many chunks of it are still in the channel.

The upstream may send any event of `UpstreamEvent` at any time, and its stream may
end, break, stall into a timer or carry a malformed frame anywhere. `FramePanics`
is there because `longest_tag_prefix_suffix` (`relay.rs:2797`) slices by bytes.
`inBand` and `record.whole` are history: no action reads them.

Abstracted: text and arguments (an item is its id), the contents of requests and
of the route snapshot (their failures are sets of error kinds), logging and
archiving. The continuation context appears as a set of errors.

### ProbeCache

One cache key. Each request runs `resolve_target_protocol` and then
`ensure_tool_probe_if_needed`; the steps are its awaits and its operations on the
shared maps. The mutex a request registers in `probe_locks` is named after that
request, so that two mutexes for one key are told apart: `probe_locks.remove` does
create that situation. The upstream serves a fixed set of protocols and takes tools
or not. Disturbances (a failing query or probe, a client that leaves, an expiry, an
admin refresh, a restart) are counted in `faults` and bounded by `MaxFaults`.

External, and modelled from how the code uses them: a DashMap write waits for every
guard into its shard, the caller's own included (`Deadlocked`); a tokio mutex is
released when its guard is dropped, by cancellation too (`DropGuard`, `Abandon`).

### KeyLimiter

One client identity, one key with both limits. Each limiter call holds the DashMap
entry it changes and is one step. `Respond` is the return of `next.run`: for a
stream that is the head of the response, and `StreamEnds` comes later. `Abandon` is
a client that leaves while the handler runs; a handler that panics does the same to
the middleware's future. The clock advances freely.

### ResponseStore, Janitor, ResponseChain

A turn is one request; its number names its response. `pc[n]` goes through
`lookup` (the row), `walk` (parents, `load_replay_chain_items`), `items` (their
items, then the handle), `target` (`apply_continuation_to_canonical`), `call`,
`retry` (the replay after a missing handle, which only `try_target` does) and the
statements of `persist_response_shell`: `store`, `store_handle`, `store_input`,
`store_output`. `local[n]` holds the handler's locals and is given back when it
ends. `context[n]` is external: the conversation the upstream answered. `Crash`,
failing statements and the ticks of the clock are bounded by `MaxFaults` and
`MaxTime`.

`cleaning` is the janitor's next statement: `select` of what has expired, `protect` of
what a live response names, then the deletes of `items`, `handles` and `rows`. A
failing delete is passed over. The reads are of one moment, the deletes of later ones.
`protect` is in the module because the code has it, but it spares nothing: a row names,
if anything, the upstream's handle and never a response (`Place` of the proofs), so
`Referenced` is empty in every reachable state.

`ask.early` and `ask.late` say that a request came before the response it continues
was stored, or read it after it had expired; `written` and `lost` are history too.
`Eager` is a bound: FALSE lets a request begin only when the one it continues is
done, which leaves out exactly the races the other runs look at. `Resolved` are the
targets that speak the Responses protocol, by their row or by a probe, which is what a
response's row records; `Responses` are those that do so by their row. A handle of any
of the first may be sent to one of the second (`CanSendHandle`).

Abstracted: items are pieces (whose turn, message, call or result, and which call id
they carry), reasoning items are left out (never replayed).

### ContextGuard, TargetCall, Compaction

`TargetCall` takes one route and one request, both from small sets, through
`relay_non_streaming_response_scoped`: `consider` the next target (its window, then
its key and its protocol), `call`, `retry`, then `store`, `log` and `archive` of an
answer, or the log of a failure and the next target. A target without a protocol of its
own may fail there with everything an upstream can answer to a probe (`ProbeErrors`),
and that ends the request whatever it is. `attempts`, `logs`, `stored` and
`archived` are what is recorded, `calls` (external) what upstreams received. The
parts of other modules are taken by what they return.

The numbers of `ContextGuard` are `u64` with saturating subtraction, and
`max_output_tokens` is cut to 32 bits where the request is parsed; `U32` is the
scaled-down width and `DefaultMargin` the scaled-down 2048.

`Compaction` begins when a request was answered. `phase` is `load` (the source's row
and the state recorded for it), `native` and `call` (the loop over the targets),
`record` (the lineage of a native compaction), `local` and `summary`. Provider, scope and model of a target stand
together as its `Space`.

### ArchiveWriter

`pc[r]` is where a request is in `archive_successful_response`: waiting for the mutex
of `archive_writers`, opening the segment, writing the record and the newline, closing
the segment, writing the sealed file, removing the temporary one, writing the manifest,
and the row of `archive_files`. Every call of `tokio::fs` is an operation handed to the
blocking pool, `File::create` included: `pending[r]` is the one of request `r`, which
takes place whether or not the request still waits (`Land`). A write may be seen half
done (`Begin`), and may fail (`Fails`, `FailsUnheard`). A file is known by the request
that made it, so that a handle goes on writing to a file that lost its name; a content is
a sequence of pieces written at offsets, so that a late write or truncation spoils what
is there. A crash begins a new archive directory (`archive` counts them). `spoilt` and
`cut` are history: the files that were begun while an operation on them was left in the
pool, or whose manifest was written badly, and the files with a record whose line was
never ended.

### ConfigStore, AdminConfig

`ConfigStore` has the three tables with the constraints of `schema.rs` (primary keys,
unique downstream model, foreign keys, cascades); only
`replace_admin_config_with_options` is a transaction, which leaves everything as it was
when one of its INSERTs fails (`CanReplaceAll`: two routes of one model, two targets of
one id, a provider that is not there). `AdminConfig` has a handler of
the admin API per element of `Admins`, each with one call out of `Ops`;
`admin[a].step` is the next statement, `row` and `found` what was read before, `todo`
what is left of a loop over targets. A handler ends early when a check refuses, a
statement fails or the client leaves; `UndoRoute` is `create_route`'s cleanup. A
request goes through `check`, `lock`, `recheck`, `seed` of
`ensure_operational_config_seeded` and `route`, `targets`, `providers` of
`snapshot_route`. `made`, `filled` and `gap` are history.

### StreamText

`wire` are the bytes on their way, each a CR, LF or the content of one line; `Send`
frames a piece of text in one of two shapes and with either line end, `Receive` takes
any number of bytes from the wire, runs `extract_sse_frames` on the buffer and the
thinking filter on every delta. The tags are shortened to two characters with a
beginning in common, which is what makes a partial tag ambiguous. The loops of
the code are recursive functions on texts (`Extracted`, `Filtered`), so that they can be
proved about; `Strip`, on the text in one piece, is the reference.

## 3. What is checked

| Run | Instance | States | Shows |
|---|---|---|---|
| `stream` | 2 targets, 1 text and 1 tool item, channel of 2, 3 frames | 382 098 | `OneAnswer`, `CommitBindsTarget`, `StreamWellFormed`, `StreamTerminated`, `RecordMatchesStream`, `ImplementsContract`, `RequestAnswered`, `WorkerEnds` |
| `probe` | 2 requests, 1 disturbance, a forced target on the same key | 359 901 | `ResolvesToFirstServed`, `VerdictsAreEarned`, `HeldByTheLiving`, `LookupEnds`, `ProbedOnce` |
| `limiter` | 4 requests, limits 2/1/1, window 2, clock to 4 | 104 639 | `ConcurrencyCapped`, `SlotsAccountedFor`, `RateCapped`, `RefusedRateIsSpent` |
| `chain` | 3 turns, 3 targets of 2 providers, 2 keys (symmetric), no fault | 645 627 | `ContextIntact`, `ToolIdsMatch` |
| `chain_faults` | 2 turns, 1 target, 1 tick, 1 fault, a time to live of 0, `Eager` | 245 188 | `ContextIntact`, `RefusalExplained`, `KeptThenForgotten`, `RequestsEnd` |
| `call` | 3 targets out of 6 profiles, 4 requests, 1 fault, `U32` = 8, margin 2 | 15 042 202 | `CallsFit`, `AttemptsMirrorCalls`, `AnswerAccounted`, `RefusalIsOfTheLast`, `CompactedWhereAnswered`, `LineageTold` |
| `archive` | 3 requests, 3 faults (crash, failing operation, a client that leaves) | 532 759 | `ArchivedIsFound`, `CountsAreLines`, `NobodyBlocked` |
| `config` | 2 administrators with 12 calls, 2 requests (all symmetric), 1 fault | 366 245 | `SeededOnce`, `ServedFromFile`, `FailedCreateUndone`, `AuditedOrLogged`, `PlainKeysAreTheFiles` |
| `text` | 2 items (symmetric), 5 characters, 1 byte on the wire | 266 549 | `CutsDoNotMatter`, `NothingTakenBack` |

What the less obvious ones say:

* `ImplementsContract`: `StreamRelay` implements `ResponseContract`, in which a request
  is refused or gets a stream with one end and at most one record of the same status.
* `ContextIntact`: the conversation an upstream answers is the whole history of the
  turn, whatever target, credential, handle and retry it went through. Excused are
  only turns whose source was still being written, was hit by a fault or had expired.
* `ToolIdsMatch`, `RefusalExplained`: a tool result reaches an upstream behind its call
  and under the id the call has there, and a call a client was shown is known when its
  result comes. Both excuse a turn whose chain a fault took items from (`Intact`): a
  failed INSERT of an ancestor's items leaves a row that looks whole, and only the
  result, two turns later, meets the gap. Neither run has three turns and a fault; the
  attempt to prove an earlier statement, which excused less, showed that such a turn
  refutes it.
* `KeptThenForgotten`: to one response, the tables and the janitor together do what
  `ResponseLifetime` says: it is stored, kept while it is young, then forgotten for good.
* `CallsFit`, `AttemptsMirrorCalls`, `AnswerAccounted`, `RefusalIsOfTheLast`: no call
  exceeds its target's window, in the code's widths; the attempts, logs, stored row and
  archive record say what was called, in order, by whom the request was answered. A
  refusal is about the last target looked at, and each one before it allowed to go on. It
  says too where the loop gives up although targets are left: on an error that allows no
  other, or on any error of resolution or of a probe, before the target is ever called.
* `ArchivedIsFound`, `CountsAreLines`: what the index lists is in a manifest, in a file of
  the recorded checksum, with as many lines as the index says and the acknowledged record
  on one of them. Each part is excused only by a fault in that very file: an operation
  left in the pool when the file was begun, a manifest that was written badly, a record
  whose line was never ended. And the index rebuilds from all manifests below the root at
  once, unless one of them or a file it lists has such a fault.
* `PlainKeysAreTheFiles`: with whatever is written in between, a key in the clear is one
  the file gave to a provider it does not manage. The documents promise more; see
  `AdminConfigKeys.cfg` and `AdminConfigManagedKeys.cfg` below.
* `AuditedOrLogged`: a change of providers, an update of a route or an import that was
  answered with success left an audit row or a log entry that says it could not. It
  holds for one fault; with two it is false.
* `CutsDoNotMatter`, `NothingTakenBack`: the frames and the visible text are those of
  the uncut stream, and never more of the text than the whole stream will show.

Why the bounds suffice. Two targets give every pair (the one that failed, the next)
and the end of the route; the three of `call` add one that is skipped between two that
are called, and the three of `chain` a target that shares its predecessor's provider
and one that does not. Three frames are the least for an item's added, delta and done,
and more than the channel holds, so that the worker blocks. One item of each kind,
because the code treats items independently, except for the order of the closing
events, which no property distinguishes. Two requests race for one lock or one seed.
One disturbance combines with every interleaving of the two. Four requests with limits
of one and two fill and overflow the slot and both windows, and the clock reaches two
window edges. Three turns are a source, a continuation that was itself replayed, and
one more that has to walk both; a sweep needs one tick and two turns, one that expires
and one that reads it meanwhile. A `U32` of 8 with windows around it makes truncation and saturation
happen. Three archive requests are one that leaves an operation in the pool, a second
whose file it meets and a third that goes on behind both; three faults allow a crash
after a failed operation after a client that left. Five
characters hold an opening tag, a closing tag and one more. The theorems of section 5
carry every safety property to every size.

Deadlock checking is off because the systems stop: a request ends, or the bounded
instance has no request left. Type invariants are theorems (`TypeCorrect`) and not part
of the runs.

### Disagreements found

Each is one run that TLC finds violated; `PROJECT.json` quotes the documents.

| Run | Property | What the code does |
|---|---|---|
| `stream_panic` | `EndIsTold` | a text delta that ends in a multi-byte character panics the worker: no terminal event, no record |
| `probe_expired` | `ExpiredIsReprobed` | an expired memory entry is removed under its own read guard: the lookup blocks for ever |
| `chain_native` | `ChainReplays` | after a native continuation the upstream's handle is stored as the parent: a later replay looks it up among the responses and is refused |

More configurations are kept beside these; each is violated in the same way:

| Configuration | Property | What the code does |
|---|---|---|
| `StreamRelayReported.cfg` | `ReportedFailureIsFailure` | the upstream's own `response.failed` or `error` event is skipped, and the response is stored as completed |
| `StreamRelayEligible.cfg` | `EligibleErrorsFallBack` | a fallback-eligible error of the probe is returned although targets remain; so it is in the non-streaming loop (`relay.rs:337`) and in the compaction (665) |
| `ProbeCacheSingleFlight.cfg` | `SingleFlight` | the lock entry is removed under its waiters, so two probes may run at once when the first one failed |
| `ProbeCacheTools.cfg` | `ToolSupportIsProbed` | a row's default counts as probed tool support, so capable targets are skipped |
| `KeyLimiterLeak.cfg` | `SlotsReturned` | a client that leaves keeps the key's slot for good |
| `KeyLimiterStreams.cfg` | `StreamsCapped` | the slot is released while the body still streams |
| `ResponseChainEarly.cfg` | `AnsweredOnWholeHistory` | a turn that continues a response whose items are not stored yet is answered without them |
| `ResponseChainParents.cfg` | `ParentsKept` | an expired response is deleted while a live one was made from it (plan 3671-3672, `janitor.rs:217`): the protection looks up parents by a reference that rows do not hold |
| `ArchiveWriterRebuild.cfg` | `IndexCanBeRebuilt` | one torn, empty or unmatched file makes `rebuild_archive_index_from_files` give up on all archives (plan 2022-2023) |
| `AdminConfigKeys.cfg` | `KeysSealedAtRest` | the seed stores the key of a provider the file does not manage in the clear (plan 2477, `runtime_config.rs:112`) |
| `AdminConfigManagedKeys.cfg` | `ManagedKeysSealed` | a provider that is made managed without a new key keeps the plain key it had (plan 2536, `admin/mod.rs:336`) |
| `AdminConfigSeed.cfg` | `SeedOnlyIntoEmpty` | a file is put over providers an administrator created before there was a route |

`MCProbeCache.cfg` is `ProbedOnce` for three undisturbed requests, where the third
meets an entry removed under a waiter; it passes.

Seen while the models were written, and not stated as properties:

* Relay: a second `response.completed` is forwarded (plan 3600-3601). A client that
  leaves leaves no `cancelled` record (plan 3590-3591). `response.completed` is sent
  before the row is stored. A partial tag held back when the stream ends is not sent,
  and the filter is applied twice to some texts. Frames of a stream that mixes line ends
  may be merged. A non-streaming upstream answer of status failed is passed on with 200
  and logged as a success. The retry after a missing handle leaves the original request
  stored, and streams have no such retry. `had_fallback` ignores targets that were
  skipped.
* Compaction: a native attempt that fails with an error that does not allow fallback
  ends a hybrid compaction although a local summary was permitted (plan 1082). Native
  compaction forwards the client's JSON untouched.
* Archive: the sealed file and the manifest are written in place, not renamed into place,
  and a crash can leave them empty (plan 2154, 2362, `writer.rs:166`, 191); nothing marks
  or repairs a dirty archive at start-up (plan 3708-3711), and only tests call
  `rebuild_archive_index_from_files`. The `File::create` of a request that left can
  truncate the temporary file of the next one after its record was written: a listed file
  of count 1 without a line (`writer.rs:138`). These are the faults `spoilt` stands for.
* Configuration: a snapshot reads its tables in separate statements and may mix two
  configurations (`relay.rs:752`). `update_route` replaces targets one by one (`admin/mod.rs:690`).
  A provider's key read before is written back after another administrator changed it
  (336). `api_key_set` says whether a column is filled, not whether it can be opened
  (348). Some changes are not audited (plan 2617). A file without routes is put in again
  on each request.
* Janitor: each tick makes a new `Janitor` (`main.rs:106`), so its counter never reaches
  the tick that runs VACUUM. Deletes name every id in one statement, which SQLite's limit
  on variables bounds (`janitor.rs:351`).

## 4. Fairness

`StreamRelay!Spec` assumes weak fairness of the handler's and of the worker's steps:
both are tokio tasks, polled when they can go on, and each wait for the upstream
ends, because reqwest's total timeout and the two stream timers bound it.
`ReadingSpec` adds a client that reads on what it is sent. `WorkerEnds` needs that:
the timers are not looked at while the worker is blocked in `tx.send`, so a client
that keeps the connection open and does not read holds the worker. `RequestAnswered`
does not need it.

`ProbeCache!Spec` assumes weak fairness of each request's own steps and none of
arrivals, of the administrator or of the disturbances. `LookupEnds` excuses a lookup
that waits behind the deadlock of an expired entry; `ExpiredIsReprobed` does not, and
fails.

`ResponseChain!FairSpec` assumes weak fairness of each turn that has begun (every
statement and every upstream call ends) and none of the janitor.
`ArchiveWriter!FairSpec` assumes weak fairness of a request's steps and of the operations
in the blocking pool, and strong fairness of taking the mutex, because tokio's is fair: it
serves its waiters in the order they came. The other modules have safety properties
only.

## 5. What is proved

For every value of the constants that satisfies the modules' assumptions. Each
`...Proofs` module has an inductive invariant, preserved action by action, and the
theorems that follow from it; where a property needs more, further invariants are
built on the first.

* **StreamRelayProofs** (`StreamRelayAssumption`: finite disjoint item sets, a channel of
  positive capacity). `OneAnswer` and `CommitBindsTarget` are not inductive: that the
  handler does not fall back rests on what the worker may still report. `IInv` adds
  `Phase`, which places the worker for each place of the handler and equates `committed`,
  "something was sent" and `ready = "ok"`. For the refinement, `Verdict` relates the end
  that is written to the status that will be stored; from it `Store` of
  `ResponseContract` happens once, after a terminal event, with the right status
  (`RelayRefinesContract`). What the stream says is `Content`, an invariant of the
  *whole* stream, what is sent followed by what the worker still holds in `out`: a
  position is well-formed by what precedes it, so sending an event, or losing the rest,
  takes a prefix of a well-formed stream. It ties the item sets the worker keeps to the
  events that announce, close and fill them, and gives `StreamIsWellFormed`,
  `StreamIsTerminated` and, with what is known where a record is stored (`Stored`),
  `RecordIsOfStream`. `NobodyWaitsInVain` is the safety half of the two liveness
  properties: handler, worker and client do not wait for one another in a circle.
* **ProbeCacheProofs** (`ProbeCacheAssumption`: a bound on disturbances, a name for
  "none", a forced protocol or none). `ResolvesToFirstServed` depends on what caches,
  rows and requests in flight claim: `IInv` says each claim is *earned* (`CachesEarned`,
  `FoundEarned`), that a probe only passes over protocols the upstream does not serve
  (`PassedOver`), and how results and positions go together (`ResultsInOrder`,
  `ToolsServed`), beside `HeldByTheLiving`. `ProbedOnce` counts over a history and rests
  on an order of events, `SingleProbe`: until something is remembered nobody has come so
  far as to remove the mutex, so there is one (`OneMutex`), whose holder is alone
  (`Guarded`, `OneProber`) and finds that nobody has probed (`ProbeCounted`); once
  something is remembered, no request misses the memory cache again. The last one to
  have missed it may still probe beside a forced target that wrote the cache meanwhile,
  which is why `OneProber` includes the second read of the row.
* **KeyLimiterProofs** (`KeyLimiterAssumption`: finitely many requests, limits in `Nat`,
  a window of positive length). Cardinalities of the sets of running, abandoned and
  charged requests are tied to the counters (`SlotsAccountedFor`, `RateCounts`,
  `Uncharged`); the caps follow, `RateCapped` by splitting a stretch of `Window` ticks at
  the start of the current window.
* **ResponseChainProofs** (`StoreAssumption`, `JanitorAssumption`, `ChainAssumption`: bounds
  in `Nat`, functions on the targets). Type correctness of chain, tables and janitor, and
  the refinement of `ResponseLifetime` (`LifetimeKept`) for any number of turns, faults and
  crashes. `Place` says what a turn's locals hold where it is, `Rows` that a row is inserted
  once and a deleted one left nothing, and `Doomed` that what the janitor is going to delete
  had expired when it looked; a row does not change, so it has still when it is deleted.
  The second half of the module has `ContextIntact`, `ToolIdsMatch` and
  `RefusalExplained`, for any number of turns, targets, keys, faults and ticks. They
  speak of a conversation that several requests wrote and one reads piece by piece, while
  the janitor deletes, and two invariants follow it. `OwnAnswers` is what a turn, its
  row, its handle and its items know of its own answer. `History` is what a turn knows of the
  one it continues: that it was asked when that one's answer was out (`Asked`); that a
  response answered without a handle has the whole conversation in its items, so that
  what was walked and loaded is that conversation, or the reader is excused (`Loads`);
  that what is sent is it, under the ids of the side it is sent to (`Calls`); and how it
  ended (`Ends`). What a reader has loaded stays true because no step takes back what it
  was loaded from (`Onward`, `Stays`): a conversation is written once, a row keeps its
  previous handle, and what is deleted had expired, which excuses the reader.
  `RequestsDrawToAnEnd` is the safety half of `RequestsEnd`: on a finite route each step
  of a request leaves fewer to come (`StepsLeft` counts them), for no chain is walked in a
  circle and no target is tried twice. It rests on `Place`, by which a row never names a
  further response, so that the walk is over after one.
* **CompactionProofs** (`GuardAssumption`, `CallAssumption`, `CompactionAssumption`: a
  width and a margin, sets of well-formed profiles and requests, one space per target).
  All six properties of `call`, for routes of any length. `Bounded` keeps the checked
  numbers with the call made from them, `SentInOrder` and `FailedInOrder` tie calls,
  attempts and logs to the place in the route, `Answering` and `Refusing` say what is
  known where the answer or the refusal is being recorded, and `Compacting` carries the
  recorded source through the second loop.
* **ArchiveWriterProofs** (`ArchiveAssumption`). `ArchivedIsFound` and `CountsAreLines`
  for any number of requests and faults. Neither is inductive: what an index says rests on
  what every operation in the pool will still do. `Types`; `Pool`, which operation belongs
  to which place of a request, and that one left behind has marked the file it can reach
  (`StraysMarked`); `Filling`, that the temporary file is what the open or taken segment
  says, while nothing stray reaches it; `Sealing`, that the sealed file and the manifest
  become what was read; and `Past`, that earlier archives and indexed entries stay what
  they are. `MutexIsWorkedFor` is the safety half of `NobodyBlocked`: whoever holds the
  mutex works on.
* **AdminConfigProofs** (`ConfigAssumption`, `AdminAssumption`: a well-formed file
  and well-formed calls, which the tables may refuse). `HInv` joins the tables' constraints, what
  each handler's step knows of rows read before (`HandlersOK`), `PlainKeysAreTheFiles`, what a
  creation has made (`MadeOK`) and the audit (`AuditOK`); `Once` is the invariant of the
  seeding lock, `Offered` the one that finds a served model. `TracesKept` assumes
  `MaxFaults < 2`: a failing statement and a failing audit insert are two faults.
  `SeededOnlyOnce` assumes a file with a route, because one without is put in again.
* **StreamTextProofs** (`TextAssumption`: two tags that are not empty, and a name that is
  no item's). `CutsDoNotMatter` and `NothingTakenBack` for all tags, texts and cuts. They
  are about loops over data of any length: that the recursive functions exist
  (`RecursionExists`) and what they return is shown by induction over a set of numbers
  (`Induction`), which the well-founded order on `Nat` gives. What the loops promise is
  one lemma each: to filter a text is to filter its beginning, then what is kept with the
  rest (`FilteredCut`); to extract frames likewise (`ExtractedCut`), because a blank line
  that is whole stays the first one (`FirstBlankStays`); and what the filter shows of a
  text in one piece is what `Strip` leaves (`StripIsWhole`). `IInv` has `Faithful`, that
  what is buffered and on the wire reads as the frames sent, wherever it is cut, and
  leaves nothing behind, and `Agrees`, that the filter is where the text received so far
  in one piece would have brought it. `ShownIsNeverTakenBack` is proved from
  `VisibleStays`, for every continuation of the text and not only the ends of a tag.

Only model-checked: liveness (`RequestAnswered`, `WorkerEnds`, `LookupEnds`,
`RequestsEnd`, `NobodyBlocked`), which needs fairness and ENABLED, out of
the prover's reach. Every safety property of a passing run is a theorem.

## 6. Plan

What is left, most important first:

1. `ProbeCache`: an upstream that changes what it serves, for what a refresh must forget
   (`relay.rs:3798`), with what is then left of `ResolutionHolds`.
2. `StreamRelay`: an upstream that ends its answer twice, and the record of a client that
   left, should the code come to treat them.

## 7. Not modelled

* Adapters, parsers and the building of requests: conversions of one message at a time,
  covered by table tests. Of the adapters, the models use which events they may return.
* How tokens are estimated (`context_guard` in `TargetCall` takes the estimate), what a
  request or an answer says, and the route checks of multipart requests in
  `routes/responses.rs`.
* The GET endpoints, which only read; the parsing of the configuration file
  (`config.rs`), whose result is the constant `File`.
* Schema creation, the pool, request logging, ids, health routes and wiring: I/O without
  a state of its own. The schema's constraints are in `ResponseStore` and `ConfigStore`.
* The janitor's retention of request logs, two independent deletes by age, and VACUUM.
* The origin, CSRF and address guards and the parsing of keys: stateless predicates of
  one request. What they refuse is `RefuseKey` of `KeyLimiter`.
* The web interface, a browser client of the admin API.
