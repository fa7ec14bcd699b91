----------------------------- MODULE StreamRelay -----------------------------
(***************************************************************************)
(* One streaming /v1/responses request: the relay loop of                  *)
(* relay_streaming_response_stream_scoped, which tries the targets of the  *)
(* route in order, and the worker task that run_streaming_target_worker    *)
(* runs for the current target.                                            *)
(*                                                                         *)
(* The loop and the worker meet in two channels: the oneshot `ready`       *)
(* (commit, or the error that stopped the worker before the commit) and    *)
(* the bounded mpsc channel whose receiver is the body of the downstream   *)
(* response.  The client may go away at any moment: hyper then drops the   *)
(* handler future or the body, and with it the receiver of both channels.  *)
(*                                                                         *)
(* Abstracted: text, arguments, usage and ids (an item is an id the        *)
(* adapter reads from the upstream frame); the logging calls.              *)
(***************************************************************************)
EXTENDS Naturals, Sequences, FiniteSets, SequencesExt

CONSTANTS
  TargetCount,   \* number of targets of the route snapshot
  TextItems,     \* ids of message items an upstream may stream
  ToolItems,     \* ids of function_call items an upstream may stream
  NoItem,        \* the item of an event that carries none
  ChannelCap,    \* capacity of the mpsc channel, 64 in the code
  MaxFrames      \* bound of the model: frames one upstream stream carries

ASSUME StreamRelayAssumption ==
  /\ TargetCount \in Nat
  /\ ChannelCap \in Nat \ {0}
  /\ MaxFrames \in Nat
  /\ IsFiniteSet(TextItems) /\ IsFiniteSet(ToolItems)
  /\ TextItems \cap ToolItems = {}
  /\ NoItem \notin TextItems \cup ToolItems

VARIABLES
  client,        \* the downstream connection: "connected" or "gone"
  hpc,           \* where the handler is
  cur,           \* index of the target the handler is at
  lastError,     \* last_error; the error returned once hpc = "refused"
  ready,         \* the oneshot channel: "pending", "ok" or an error kind
  wpc,           \* where the worker is
  frames,        \* frames read from the current upstream stream
  emitted,       \* emitted_any_semantic
  committed,     \* committed
  created,       \* sent_downstream_created
  added,         \* added_stream_item_ids
  text,          \* keys of synthesized_text_items
  tools,         \* keys of synthesized_tool_items
  doneItems,     \* completed_stream_item_ids
  sawCompleted,  \* saw_stream_completed
  postFailed,    \* fallback_after_commit_error.is_some() when the loop ends
  inBand,        \* history: the upstream reported a failure inside the stream
  out,           \* events written to sse_writer and not yet flushed
  sent,          \* events the channel accepted, in order: what the client gets
  queued,        \* flushed chunks the client has not read yet
  record         \* the row of `responses` this request stores

handlerVars == <<hpc, cur, lastError>>
itemVars    == <<added, text, tools, doneItems, sawCompleted>>
workerVars  == <<frames, emitted, created, itemVars, postFailed, inBand, out>>
clientVars  == <<sent, queued, client>>
vars == <<handlerVars, ready, wpc, committed, workerVars, clientVars, record>>

-----------------------------------------------------------------------------
Items == TextItems \cup ToolItems

\* The canonical events parse_sse_event of the three adapters can return; no
\* adapter returns ResponseFailed, the worker alone writes that event.
Event == [type : {"created", "completed", "failed"}, item : {NoItem}]
         \cup [type : {"added", "delta", "done"}, item : Items]

Created   == [type |-> "created",   item |-> NoItem]
Completed == [type |-> "completed", item |-> NoItem]
Failed    == [type |-> "failed",    item |-> NoItem]
Added(i)  == [type |-> "added", item |-> i]
Delta(i)  == [type |-> "delta", item |-> i]
Done(i)   == [type |-> "done",  item |-> i]

UpstreamEvent == Event \ {Failed}

NoRecord == [status |-> "none", target |-> 0, output |-> {}, whole |-> FALSE]

\* ErrorKind::is_fallback_eligible
FallbackEligible == {"protocol_not_supported", "upstream_unavailable",
                     "upstream_timeout", "rate_limited"}

\* Errors of snapshot_route and load_continuation_context.  A route without a
\* usable target (upstream_unavailable) is TargetCount = 0.
LoadErrors == {"auth_failed", "model_not_found", "request_invalid",
               "state_not_found", "state_not_continuable",
               "state_replay_failed", "internal_error"}

\* Errors on which the loop moves on without calling the target: the context
\* window is unknown on a public bind or overflows with policy "fallback", or
\* tool support is unknown or missing.
SkipErrors == {"context_length_exceeded", "protocol_not_supported"}

\* Errors of preparing a target that `?` and the guard return at once: request
\* parsing, tool-result ids, context guard, upstream key, protocol and tool
\* probes.
GuardErrors == {"request_invalid", "tool_mapping_failed",
                "context_length_exceeded", "internal_error", "auth_failed"}
ProbeErrors == {"auth_failed", "internal_error", "model_not_found"}
               \cup FallbackEligible

\* Errors of sending the upstream request: map_reqwest_error and
\* map_upstream_status, and the Fatal ones of building the client.
ConnectErrors == {"auth_failed", "rate_limited", "upstream_timeout",
                  "upstream_unavailable", "request_invalid", "internal_error"}

\* Errors that can end a stream that was opened: a timer, the body, the parser.
StreamErrors == {"upstream_timeout", "upstream_unavailable"}

ErrorKinds == SkipErrors \cup GuardErrors \cup ProbeErrors \cup ConnectErrors
              \cup LoadErrors
-----------------------------------------------------------------------------
Init ==
  /\ client = "connected"
  /\ hpc = "start" /\ cur = 1 /\ lastError = "none"
  /\ ready = "pending"
  /\ wpc = "idle"
  /\ frames = 0
  /\ emitted = FALSE /\ committed = FALSE /\ created = FALSE
  /\ added = {} /\ text = {} /\ tools = {} /\ doneItems = {}
  /\ sawCompleted = FALSE /\ postFailed = FALSE /\ inBand = FALSE
  /\ out = <<>> /\ sent = <<>> /\ queued = 0
  /\ record = NoRecord

-----------------------------------------------------------------------------
(* The handler: one step per await point that decides something.            *)

HandlerAt(pc) == hpc = pc /\ client = "connected"

\* Fault: the loop retries the target that failed.
NextTargetSame == cur
NextTarget == cur + 1

\* Loading the route snapshot and the continuation context before the loop.
LoadRequest ==
  /\ HandlerAt("start")
  /\ \/ hpc' = "select" /\ UNCHANGED lastError
     \/ \E kind \in LoadErrors :
          hpc' = "refused" /\ lastError' = kind
  /\ UNCHANGED <<cur, ready, wpc, committed, workerVars, clientVars, record>>

SkipTarget(kind) ==
  /\ HandlerAt("select") /\ cur <= TargetCount
  /\ cur' = NextTarget
  /\ lastError' = kind
  /\ UNCHANGED <<hpc, ready, wpc, committed, workerVars, clientVars, record>>

RefuseTarget(kind) ==
  /\ HandlerAt("select") /\ cur <= TargetCount
  /\ hpc' = "refused"
  /\ lastError' = kind
  /\ UNCHANGED <<cur, ready, wpc, committed, workerVars, clientVars, record>>

\* start_streaming_target_channel: fresh channels, fresh worker.
StartWorker ==
  /\ HandlerAt("select") /\ cur <= TargetCount
  /\ hpc' = "await"
  /\ wpc' = "connect"
  /\ ready' = "pending"
  /\ frames' = 0
  /\ emitted' = FALSE /\ committed' = FALSE /\ created' = FALSE
  /\ added' = {} /\ text' = {} /\ tools' = {} /\ doneItems' = {}
  /\ sawCompleted' = FALSE /\ postFailed' = FALSE /\ inBand' = FALSE
  /\ out' = <<>>
  /\ UNCHANGED <<cur, lastError, clientVars, record>>

\* The loop ran out of targets.
Exhausted ==
  /\ HandlerAt("select") /\ cur > TargetCount
  /\ hpc' = "refused"
  /\ lastError' = IF lastError = "none" THEN "upstream_unavailable"
                  ELSE lastError
  /\ UNCHANGED <<cur, ready, wpc, committed, workerVars, clientVars, record>>

\* ready_rx resolves: the stream is returned, or the loop falls back on an
\* eligible error and returns any other one.
AwaitReady ==
  /\ HandlerAt("await") /\ ready # "pending"
  /\ \/ /\ ready = "ok"
        /\ hpc' = "streaming"
        /\ UNCHANGED <<cur, lastError>>
     \/ /\ ready \in FallbackEligible
        /\ hpc' = "select" /\ cur' = NextTarget /\ lastError' = ready
     \/ /\ ready \notin FallbackEligible \cup {"ok"}
        /\ hpc' = "refused" /\ lastError' = ready
        /\ UNCHANGED cur
  /\ UNCHANGED <<ready, wpc, committed, workerVars, clientVars, record>>

-----------------------------------------------------------------------------
(* The worker.                                                              *)

\* notify_stream_worker_error and return.
Notify(kind) ==
  /\ wpc' = "failed"
  /\ ready' = kind

\* Fault: a sender that was used is dropped as one that was not.
SenderDroppedAlways == ready' = "upstream_unavailable"

\* The oneshot sender is dropped unused, which its receiver reads as
\* upstream_unavailable.
SenderDropped ==
  ready' = IF ready = "pending" THEN "upstream_unavailable" ELSE ready

\* Fault: the loop is left, the function is not.
AbortPersists == wpc' = "persist" /\ SenderDropped

\* `return` because the receiver is gone.
Abort == wpc' = "aborted" /\ SenderDropped

\* Open the upstream stream; reqwest's timeout bounds the wait.
Connect ==
  /\ wpc = "connect"
  /\ \/ wpc' = "top" /\ UNCHANGED ready
     \/ \E kind \in ConnectErrors : Notify(kind)
  /\ UNCHANGED <<handlerVars, committed, workerVars, clientVars, record>>

\* tx.is_closed() at the top of the loop, then the wait for the next chunk.
LoopTop ==
  /\ wpc = "top"
  /\ IF client = "gone" THEN Abort ELSE wpc' = "wait" /\ UNCHANGED ready
  /\ UNCHANGED <<handlerVars, committed, workerVars, clientVars, record>>

\* Fault: a failure is reported to the handler even after the commit.
MayFallBackAlways == TRUE
MayFallBack == ~committed

\* After the loop: before the commit every ending is reported to the handler;
\* after it a failure is written downstream and a clean end is completed with
\* the item_done and completed events the upstream left out.
DoneEvents(items) == {[k \in DOMAIN s |-> Done(s[k])] : s \in SetToSeqs(items)}

MissingTextDones == DoneEvents(text \ doneItems)
MissingToolDones == DoneEvents(tools \ doneItems)
MissingCompleted == IF sawCompleted THEN <<>> ELSE <<Completed>>

\* Fault: no response.completed is made up for an upstream that sent none.
SynthesizedEndItemsOnly ==
  {t \o u : t \in MissingTextDones, u \in MissingToolDones}

SynthesizedEnd ==
  {t \o u \o MissingCompleted : t \in MissingTextDones, u \in MissingToolDones}

EndCleanly ==
  IF MayFallBack
  THEN Notify("upstream_unavailable") /\ UNCHANGED out
  ELSE /\ \E tail \in SynthesizedEnd : out' = tail
       /\ wpc' = "flush"
       /\ UNCHANGED ready

EndWithError(kind) ==
  IF MayFallBack
  THEN /\ Notify(IF emitted THEN "upstream_unavailable" ELSE kind)
       /\ UNCHANGED <<out, postFailed>>
  ELSE /\ out' = <<Failed>>
       /\ postFailed' = TRUE
       /\ wpc' = "flush"
       /\ UNCHANGED ready

\* The wait ends without a frame: end of stream, a body error, the idle or the
\* max-duration timer.
StreamEnds ==
  /\ wpc = "wait"
  /\ EndCleanly
  /\ UNCHANGED <<handlerVars, committed, frames, emitted, created, itemVars,
                 postFailed, inBand, clientVars, record>>

StreamBreaks(kind) ==
  /\ wpc = "wait"
  /\ EndWithError(kind)
  /\ UNCHANGED <<handlerVars, committed, frames, emitted, created, itemVars,
                 inBand, clientVars, record>>

\* A frame arrives; tx.is_closed() is checked again before it is parsed.
FrameArrives ==
  /\ wpc = "wait" /\ frames < MaxFrames
  /\ frames' = frames + 1

FrameAfterDisconnect ==
  /\ FrameArrives
  /\ client = "gone"
  /\ Abort
  /\ UNCHANGED <<handlerVars, committed, emitted, created, itemVars,
                 postFailed, inBand, out, clientVars, record>>

\* A comment, or an event parse_sse_event maps to None.  The latter include the
\* upstream's own report of a failure ("response.failed", Anthropic "error").
FrameIgnored(reportsFailure) ==
  /\ FrameArrives
  /\ client = "connected"
  /\ wpc' = "top"
  /\ inBand' = (inBand \/ reportsFailure)
  /\ UNCHANGED <<handlerVars, ready, committed, emitted, created, itemVars,
                 postFailed, out, clientVars, record>>

FrameMalformed ==
  /\ FrameArrives
  /\ client = "connected"
  /\ EndWithError("upstream_unavailable")
  /\ UNCHANGED <<handlerVars, committed, emitted, created, itemVars, inBand,
                 clientVars, record>>

\* A text delta that filter_stream_event_thinking hides: semantic, not sent.
FrameHidden ==
  /\ FrameArrives
  /\ client = "connected"
  /\ emitted' = TRUE
  /\ wpc' = "top"
  /\ UNCHANGED <<handlerVars, ready, committed, created, itemVars, postFailed,
                 inBand, out, clientVars, record>>

\* A frame with model text that ends in a multi-byte character:
\* longest_tag_prefix_suffix slices it at byte offsets, which panics inside a
\* character.  The task dies and both senders are dropped.
FramePanics ==
  /\ FrameArrives
  /\ client = "connected"
  /\ wpc' = "panicked"
  /\ SenderDropped
  /\ UNCHANGED <<handlerVars, committed, emitted, created, itemVars,
                 postFailed, inBand, out, clientVars, record>>

\* response.created is put in front of a stream that starts otherwise, and
\* output_item.added in front of the first delta of an item.
MissingCreated(e) == IF created \/ e = Created THEN <<>> ELSE <<Created>>
\* Fault: deltas are forwarded as they come.
MissingAddedNever(e) == <<>>
MissingAdded(e) ==
  IF e.type = "delta" /\ e.item \notin added THEN <<Added(e.item)>> ELSE <<>>

\* collect_stream_completion_state
CollectItems(e) ==
  /\ added' = IF e.item \in Items THEN added \cup {e.item} ELSE added
  /\ text' = CASE e.type = "delta" /\ e.item \in TextItems -> text \cup {e.item}
               [] e.type = "done" -> text \ {e.item}
               [] OTHER -> text
  /\ tools' = CASE e.type \in {"added", "delta"} /\ e.item \in ToolItems
                     -> tools \cup {e.item}
                [] e.type = "done" -> tools \ {e.item}
                [] OTHER -> tools
  /\ doneItems' = IF e.type = "done" THEN doneItems \cup {e.item} ELSE doneItems
  /\ sawCompleted' = (sawCompleted \/ e = Completed)

FrameEvent(e) ==
  /\ FrameArrives
  /\ client = "connected"
  /\ emitted' = TRUE
  /\ created' = TRUE
  /\ CollectItems(e)
  /\ out' = MissingCreated(e) \o MissingAdded(e) \o <<e>>
  /\ wpc' = "send"
  /\ UNCHANGED <<handlerVars, ready, committed, postFailed, inBand, clientVars,
                 record>>

\* tx.send(bytes).await: it waits for room, and fails once the receiver is gone.
\* Fault: only the last send notices that the receiver is gone.
SendFailsAtEnd ==
  /\ wpc = "flush" /\ out # <<>>
  /\ client = "gone"
  /\ Abort
  /\ UNCHANGED <<handlerVars, committed, workerVars, clientVars, record>>

SendFails ==
  /\ wpc \in {"send", "flush"} /\ out # <<>>
  /\ client = "gone"
  /\ Abort
  /\ UNCHANGED <<handlerVars, committed, workerVars, clientVars, record>>

\* Fault: the channel is not bounded.
DeliverUnbounded ==
  /\ client = "connected"
  /\ sent' = sent \o out
  /\ queued' = queued + 1
  /\ out' = <<>>

Deliver ==
  /\ client = "connected" /\ queued < ChannelCap
  /\ sent' = sent \o out
  /\ queued' = queued + 1
  /\ out' = <<>>

SendEvent ==
  /\ wpc = "send" /\ Deliver
  /\ committed' = TRUE
  /\ ready' = "ok"
  /\ wpc' = "top"
  /\ UNCHANGED <<client, handlerVars, frames, emitted, created, itemVars,
                 postFailed, inBand, record>>

SendLast ==
  /\ wpc = "flush"
  /\ IF out = <<>> THEN UNCHANGED <<sent, queued, out>> ELSE Deliver
  /\ wpc' = "persist"
  /\ UNCHANGED <<client, handlerVars, ready, committed, frames, emitted,
                 created, itemVars, postFailed, inBand, record>>

\* normalize_downstream_response_with_id_and_call_map and
\* persist_response_shell.  The row is inserted first, then each item of the
\* output, in no transaction: a failing INSERT is logged, the row's ends it all,
\* an item's leaves that item out.  The output is kept as the set of its items;
\* `whole` (history) says that every INSERT succeeded.
DoneItemsOf(s) == {e.item : e \in {d \in ToSet(s) : d.type = "done"}}

\* Fault: status_override is left out.
RecordStatusFromEvents == "completed"
RecordStatus == IF postFailed THEN "failed" ELSE "completed"

Persist ==
  /\ wpc = "persist"
  /\ wpc' = "done"
  /\ \/ \E stored \in SUBSET DoneItemsOf(sent) :
          record' = [status |-> RecordStatus,
                     target |-> cur,
                     output |-> stored,
                     whole  |-> stored = DoneItemsOf(sent)]
     \/ UNCHANGED record
  /\ UNCHANGED <<handlerVars, ready, committed, workerVars, clientVars>>

-----------------------------------------------------------------------------
(* The downstream client.                                                   *)

ClientReads ==
  /\ client = "connected" /\ hpc = "streaming" /\ queued > 0
  /\ queued' = queued - 1
  /\ UNCHANGED <<sent, client, handlerVars, ready, wpc, committed, workerVars,
                 record>>

ClientLeaves ==
  /\ client = "connected"
  /\ client' = "gone"
  /\ UNCHANGED <<sent, queued, handlerVars, ready, wpc, committed, workerVars,
                 record>>

-----------------------------------------------------------------------------
Handler ==
  \/ LoadRequest
  \/ \E kind \in SkipErrors : SkipTarget(kind)
  \/ \E kind \in GuardErrors \cup ProbeErrors : RefuseTarget(kind)
  \/ StartWorker
  \/ Exhausted
  \/ AwaitReady

WaitEnds ==
  \/ StreamEnds
  \/ \E kind \in StreamErrors : StreamBreaks(kind)
  \/ FrameAfterDisconnect
  \/ \E reportsFailure \in BOOLEAN : FrameIgnored(reportsFailure)
  \/ FrameMalformed
  \/ TextItems # {} /\ (FrameHidden \/ FramePanics)
  \/ \E e \in UpstreamEvent : FrameEvent(e)

Worker ==
  Connect \/ LoopTop \/ WaitEnds \/ SendFails \/ SendEvent \/ SendLast \/ Persist

Next == Handler \/ Worker \/ ClientReads \/ ClientLeaves

\* The handler and the worker are tokio tasks, which are polled when they can
\* go on.  A wait for the upstream always ends: reqwest's total timeout and the
\* two stream timers bound it.  Nothing is assumed of the client.
Spec == Init /\ [][Next]_vars /\ WF_vars(Handler) /\ WF_vars(Worker)

\* The same with a client that goes on reading what it is sent.
ReadingSpec == Spec /\ WF_vars(ClientReads)

-----------------------------------------------------------------------------
(* Properties.                                                              *)

Says(e) == \E k \in DOMAIN sent : sent[k] = e

FlagsOK ==
  /\ emitted \in BOOLEAN /\ committed \in BOOLEAN /\ created \in BOOLEAN
  /\ sawCompleted \in BOOLEAN /\ postFailed \in BOOLEAN /\ inBand \in BOOLEAN

\* The values the variables range over.
TypeOK ==
  /\ client \in {"connected", "gone"}
  /\ hpc \in {"start", "select", "await", "streaming", "refused"}
  /\ cur \in 1..(TargetCount + 1)
  /\ lastError \in ErrorKinds \cup {"none"}
  /\ ready \in ErrorKinds \cup {"pending", "ok"}
  /\ wpc \in {"idle", "connect", "top", "wait", "send", "flush", "persist",
              "done", "aborted", "failed", "panicked"}
  /\ frames \in 0..MaxFrames
  /\ FlagsOK
  /\ added \subseteq Items /\ doneItems \subseteq Items
  /\ text \subseteq TextItems /\ tools \subseteq ToolItems
  /\ out \in Seq(Event) /\ sent \in Seq(Event)
  /\ queued \in 0..ChannelCap
  /\ record \in [status : {"none", "completed", "failed"},
                 target : 0..TargetCount, output : SUBSET Items,
                 whole : BOOLEAN]

\* Once an event was sent downstream the response is bound to its target: no
\* fallback and no error answer follow, and what was sent is never taken back.
\* (relay.rs falls back on what the worker reports through `ready`.)
StaysCommitted ==
  sent # <<>> => /\ cur' = cur
                 /\ hpc' # "refused"
                 /\ IsPrefix(sent, sent')

CommitBindsTarget == [][StaysCommitted]_vars

\* An answer is never both an error and a stream, and the worker that sends
\* events is the one whose commit the handler was told of.
OneAnswer ==
  /\ sent # <<>> => ready = "ok" /\ hpc \in {"await", "streaming"}
  /\ hpc = "streaming" => sent # <<>>

\* The downstream stream starts with response.created, announces an item before
\* its first delta, and ends at response.failed.
StreamWellFormed ==
  /\ sent # <<>> => sent[1] = Created
  /\ \A k \in DOMAIN sent :
       /\ sent[k].type = "delta"
            => \E j \in 1..(k - 1) : sent[j] \in {Added(sent[k].item),
                                                   Done(sent[k].item)}
       /\ sent[k] = Failed => k = Len(sent)

\* A stream the worker finished on has told the client how it ended, and has
\* closed each item whose content it forwarded unless it failed.
StreamTerminated ==
  wpc \in {"persist", "done"} =>
    /\ Says(Completed) \/ Says(Failed)
    /\ \A k \in DOMAIN sent :
         sent[k].type = "delta" => Says(Done(sent[k].item)) \/ Says(Failed)

\* The stored record agrees with the stream: its target, its status, and an
\* output of items the client saw finished: of each it was shown content of,
\* unless the response failed or an INSERT did.
RecordMatchesStream ==
  record # NoRecord =>
    /\ record.target = cur
    /\ record.status = "failed" <=> Says(Failed)
    /\ \A i \in record.output : Says(Done(i))
    /\ record.status = "completed" /\ record.whole =>
         \A k \in DOMAIN sent : sent[k].type = "delta" =>
           sent[k].item \in record.output

\* The relay implements the contract of ResponseContract.
Contract == INSTANCE ResponseContract WITH
  attempt <- cur,
  refused <- hpc = "refused",
  transcript <- [k \in DOMAIN sent |-> sent[k].type],
  outcome <- record.status

ImplementsContract == Contract!Spec

\* Every request is answered: the handler's loop ends for each outcome of each
\* target, unless the client leaves first.
RequestAnswered ==
  hpc = "start" ~> hpc \in {"streaming", "refused"} \/ client = "gone"

\* Every worker task ends, provided the client reads on or leaves.
WorkerEnds == wpc = "connect" ~> wpc \in {"done", "aborted", "failed", "panicked"}

-----------------------------------------------------------------------------
(* What the design document says and the code does not do.                  *)

\* "UTF-8 split across chunks is handled correctly", and a stream that fails is
\* closed by `response.failed`: a client that was sent an event and stays is told
\* how the stream ends.
EndIsTold ==
  sent # <<>> ~> Says(Completed) \/ Says(Failed) \/ client = "gone"

\* "Upstream stream fails after commit: emit `response.failed` if possible":
\* a response whose upstream reported a failure is not stored as completed.
ReportedFailureIsFailure == inBand => record.status # "completed"

\* Fallback-eligible failures lead to the next target as long as nothing was
\* sent: they are not the answer while targets remain.
EligibleErrorsFallBack ==
  hpc = "refused" /\ lastError \in FallbackEligible => cur = TargetCount + 1
=============================================================================
