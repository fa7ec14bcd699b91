---------------------------- MODULE ResponseChain ----------------------------
(***************************************************************************)
(* Requests that continue an earlier response (previous_response_id), from *)
(* the reads of load_continuation_context to the call of a target and the  *)
(* statements of persist_response_shell, next to the Janitor on the same   *)
(* tables.  A turn is one request; its number also names its response.     *)
(*                                                                         *)
(* A continuation is native (the upstream's own handle is sent, with the   *)
(* new input) or replayed (the stored history is sent as input).  External *)
(* is the upstream: it remembers what a response of its own was made from, *)
(* under the account that asked, and may forget it.                        *)
(*                                                                         *)
(* Left out: what StreamRelay and TargetCall say of targets, streams and   *)
(* errors, the context guard, and reasoning items (never replayed).        *)
(***************************************************************************)
EXTENDS Janitor, SequencesExt

CONSTANTS
  Provider,   \* provider of a target
  Scope,      \* state_scope of a target, None if it has none
  Model,      \* upstream model of a target
  Responses,  \* targets configured for the Responses protocol
  Resolved,   \* targets that answer in it: those, and what a probe found to speak it
  Eager       \* bound of the model: may a streamed response be continued before it is
              \* stored

ASSUME ChainAssumption ==
  /\ DOMAIN Provider = Targets /\ DOMAIN Scope = Targets /\ DOMAIN Model = Targets
  /\ Responses \subseteq Resolved /\ Resolved \subseteq Targets /\ Eager \in BOOLEAN

VARIABLES
  pc,
  ask,      \* what the request continues (0: nothing); history: whether it asked
            \* before that was written, or read it after it expired
  local,    \* locals of the request's handler
  outcome,  \* what the client was told
  context,  \* external: the conversation the upstream answered, answer included
  account,  \* external: target and credential the upstream answered under
  written,  \* history: responses whose row was inserted
  lost      \* history: responses a fault kept from being written whole

upstream == <<context, account>>
history == <<written, lost>>
vars == <<store, now, faults, janitor, pc, ask, local, outcome, upstream, history>>

Message(n) == [turn |-> n, kind |-> "message", call |-> 0, id |-> "none"]
Result(n, c, id) == [turn |-> n, kind |-> "result", call |-> c, id |-> id]
Answer(n, kind, id) ==
  [turn |-> n, kind |-> kind, call |-> IF kind = "call" THEN n ELSE 0, id |-> id]

Local == [
  stream : BOOLEAN,                 \* is the answer streamed
  key : Keys \cup {None},           \* the caller's credential
  given : Seq(Piece),               \* the input of the request
  cursor : Ref,                     \* load_replay_chain_items: next response
  chain : Seq(Turns),               \* responses whose items are still to be read
  previous : Targets \cup {None},   \* target recorded in the row continued
  replay : Seq(Piece),              \* replay_items
  mapped : SUBSET Turns,            \* tool_call_id_map: calls with an upstream id
  handle : Keys \cup {None},        \* credential of the handle, None without one
  target : Targets \cup {None},     \* target of the call in progress
  tried : SUBSET Targets,           \* targets that failed
  native : BOOLEAN,                 \* canonical.previous_response_id is the handle
  input : Seq(Piece),               \* canonical.input
  status : {"none", "completed", "failed"}]   \* of the answer

NoLocal == [stream |-> FALSE, key |-> None, given |-> <<>>, cursor |-> NoRef, chain |-> <<>>,
            previous |-> None, replay |-> <<>>, mapped |-> {}, handle |-> None,
            target |-> None, tried |-> {}, native |-> FALSE, input |-> <<>>,
            status |-> "none"]

Asks == [prev : 0 .. MaxTurns, early : BOOLEAN, late : BOOLEAN]
NoAsk == [prev |-> 0, early |-> FALSE, late |-> FALSE]

Init ==
  /\ StoreInit /\ JanitorInit
  /\ pc = [n \in Turns |-> "new"]
  /\ ask = [n \in Turns |-> NoAsk]
  /\ local = [n \in Turns |-> NoLocal]
  /\ outcome = [n \in Turns |-> "none"]
  /\ context = [n \in Turns |-> <<>>]
  /\ account = [n \in Turns |-> [target |-> None, key |-> None]]
  /\ written = {} /\ lost = {}

-----------------------------------------------------------------------------
(* Loading what a request continues.                                        *)

Set(f, n, value) == [f EXCEPT ![n] = value]
Goto(n, here, there) == pc[n] = here /\ pc' = Set(pc, n, there)
Leave(n) == pc' = Set(pc, n, "done") /\ local' = Set(local, n, NoLocal)

Refuse(n, kind) ==
  /\ Leave(n) /\ outcome' = Set(outcome, n, kind)
  /\ UNCHANGED <<store, now, janitor, ask, upstream, history>>

\* Calls a client has seen in the conversation it continues.
Seen(p) == IF p = 0 THEN {} ELSE {context[p][k].call : k \in DOMAIN context[p]} \ {0}

\* The first request opens a conversation; a client continues a response it was
\* given, with a message or the result of a call.  Requests write the rows of their
\* own response and read those of the one they continue, so a request is let run
\* next to that one only: others would interleave without meeting.  One that was
\* refused left nothing, so none is let follow it.
Ask(n) ==
  /\ \A m \in 1 .. n - 1 :
       pc[m] # "new" /\ outcome[m] \in {"none", "answered", "failed"}
  /\ \E p \in IF n = 1 THEN {0} ELSE {m \in Turns : outcome[m] \in {"answered", "failed"}},
        s \in BOOLEAN, k \in Keys :
       /\ \A m \in 1 .. n - 1 : (m = p /\ Eager) \/ pc[m] = "done"
       /\ \E i \in {Message(n)} \cup {Result(n, c, "downstream") : c \in Seen(p)} :
         /\ ask' = Set(ask, n, [prev |-> p, late |-> FALSE,
                              early |-> p # 0 /\ pc[p] # "done"])
         /\ local' = Set(local, n, [NoLocal EXCEPT !.key = k, !.stream = s, !.given = <<i>>,
                        !.cursor = IF p = 0 THEN NoRef ELSE Response(p)])
         /\ Goto(n, "new", IF p = 0 THEN "target" ELSE "lookup")
  /\ UNCHANGED <<store, now, faults, janitor, outcome, upstream, history>>

\* load_continuation_context: the row of the response continued.
LookUp(n) ==
  LET row == responses[ask[n].prev] IN
  /\ Goto(n, "lookup", "walk")
  /\ row.status = "completed"
  /\ local' = [local EXCEPT ![n].previous = row.target]
  /\ UNCHANGED <<store, now, faults, janitor, ask, outcome, upstream, history>>

NotFound(n) ==
  /\ pc[n] = "lookup" /\ ~Stored(ask[n].prev)
  /\ Refuse(n, "state_not_found") /\ UNCHANGED faults

NotContinuable(n) ==
  /\ pc[n] = "lookup" /\ responses[ask[n].prev].status = "failed"
  /\ Refuse(n, "state_not_continuable") /\ UNCHANGED faults

\* load_replay_chain_items: one response of the chain, by its id.
\* No row names another one that failed, or itself: those refusals are left out.
Walk(n) ==
  LET c == local[n].cursor IN
  /\ pc[n] = "walk" /\ Found(c)
  /\ local' = [local EXCEPT ![n].chain = <<c.of>> \o @,
                            ![n].cursor = responses[c.of].prev]
  /\ UNCHANGED <<store, now, faults, janitor, pc, ask, outcome, upstream, history>>

ChainWalked(n) ==
  /\ Goto(n, "walk", "items") /\ local[n].cursor = NoRef
  /\ UNCHANGED <<store, now, faults, janitor, ask, local, outcome, upstream, history>>

ChainBroken(n) ==
  /\ pc[n] = "walk" /\ local[n].cursor # NoRef /\ ~Found(local[n].cursor)
  /\ Refuse(n, "state_replay_failed") /\ UNCHANGED faults

\* extract_tool_call_id_map: only output items carry the upstream's call id.
Mapped(output) == {output[k].call : k \in DOMAIN output} \ {0}

\* get_items of one response of the chain, to_replay_input_items.
ReadItems(n) ==
  /\ pc[n] = "items" /\ local[n].chain # <<>>
  /\ LET read == items[Head(local[n].chain)] IN
       local' = [local EXCEPT ![n].replay = @ \o read.input \o read.output,
                              ![n].mapped = @ \cup Mapped(read.output),
                              ![n].chain = Tail(@)]
  /\ UNCHANGED <<store, now, faults, janitor, pc, ask, outcome, upstream, history>>

\* get_latest_upstream_handle.
ReadHandle(n) ==
  /\ Goto(n, "items", "target") /\ local[n].chain = <<>>
  /\ local' = [local EXCEPT ![n].handle = handles[ask[n].prev]]
  /\ ask' = [ask EXCEPT ![n].late = now > responses[ask[n].prev].at + Ttl]
  /\ UNCHANGED <<store, now, faults, janitor, outcome, upstream, history>>

LoadFails(n) ==
  /\ pc[n] \in {"lookup", "walk", "items"} /\ Fault
  /\ Refuse(n, "internal_error")

-----------------------------------------------------------------------------
(* Calling a target.                                                        *)

\* Mutant: a handle of the same provider is sent whoever asked for it.
CanSendHandleOfAnyone(n, t) ==
  LET p == local[n].previous IN
  /\ local[n].handle # None
  /\ t \in Responses /\ p \in Resolved
  /\ Model[t] = Model[p]
  /\ \/ Provider[t] = Provider[p]
     \/ Scope[t] # None /\ Scope[t] = Scope[p]

\* can_send_upstream_previous_response_id: the protocol the target is configured for,
\* and the one the row continued was answered in.
CanSendHandle(n, t) ==
  LET p == local[n].previous IN
  /\ local[n].handle # None
  /\ t \in Responses /\ p \in Resolved
  /\ Model[t] = Model[p]
  /\ \/ Provider[t] = Provider[p] /\ local[n].key = local[n].handle
     \/ /\ Provider[t] # Provider[p]
        /\ Scope[t] # None /\ Scope[t] = Scope[p]

\* Mutant: calls are known by the upstream's id, which the items do not carry.
KnownResultsUpstream(n) ==
  \A r \in ToSet(local[n].given) : r.kind = "result" =>
    \E c \in ToSet(local[n].replay) :
      c.kind = "call" /\ c.id = "upstream" /\ c.call = r.call

\* validate_tool_result_ids: a result answers a call of the replayed history.
KnownResults(n) ==
  LET calls == {p \in ToSet(local[n].replay) : p.kind = "call" /\ p.id = "downstream"}
  IN \A r \in ToSet(local[n].given) :
       r.kind = "result" => \E c \in calls : c.call = r.call

\* Mutant: results keep the call id they came with.
RenamedNever(pieces, calls, id) == pieces

\* map_current_tool_outputs_to_upstream and back, _to_downstream.
Renamed(pieces, calls, id) ==
  [k \in DOMAIN pieces |->
     IF pieces[k].kind = "result" /\ pieces[k].call \in calls
     THEN [pieces[k] EXCEPT !.id = id] ELSE pieces[k]]

\* apply_continuation_to_canonical for the next target of the route.
PickTarget(n) ==
  /\ Goto(n, "target", "call")
  /\ KnownResults(n)
  /\ \E t \in Targets \ local[n].tried :
       LET sends == ask[n].prev # 0 /\ CanSendHandle(n, t) IN
       local' = [local EXCEPT ![n].target = t, ![n].native = sends,
                   ![n].input = IF sends
                                THEN Renamed(local[n].given, local[n].mapped, "upstream")
                                ELSE local[n].replay \o local[n].given]
  /\ UNCHANGED <<store, now, faults, janitor, ask, outcome, upstream, history>>

UnknownResult(n) ==
  /\ pc[n] = "target" /\ ~KnownResults(n)
  /\ Refuse(n, "tool_mapping_failed") /\ UNCHANGED faults

Exhausted(n) ==
  /\ pc[n] = "target" /\ KnownResults(n) /\ local[n].tried = Targets
  /\ Refuse(n, "upstream_unavailable") /\ UNCHANGED faults

\* External: what the account of the call finds under the handle.
Remembered(n) ==
  LET p == ask[n].prev
      t == local[n].target
      issuer == account[p] IN
  IF \/ Provider[t] = Provider[issuer.target] /\ local[n].key = issuer.key
     \/ /\ Provider[t] # Provider[issuer.target]
        /\ Scope[t] # None /\ Scope[t] = Scope[issuer.target]
  THEN context[p] ELSE <<>>

\* What the client of turn n is told once its answer has this status.
Told(n, status) ==
  Set(outcome, n, IF status = "completed" THEN "answered" ELSE "failed")

\* The upstream answers what it was sent.  A stream tells its client before
\* persist_response_shell; a JSON response is returned after it.
Answers(n, sent) ==
  \E kind \in {"answer", "call"}, status \in {"completed", "failed"} :
    /\ context' = Set(context, n, Append(sent, Answer(n, kind,
                        IF kind = "call" THEN "upstream" ELSE "none")))
    /\ account' = Set(account, n, [target |-> local[n].target, key |-> local[n].key])
    /\ outcome' = IF local[n].stream THEN Told(n, status) ELSE outcome
    /\ pc' = Set(pc, n, "store")
    /\ local' = [local EXCEPT ![n].status = status]
    /\ UNCHANGED <<store, now, faults, janitor, ask, history>>

UpstreamAnswers(n) ==
  /\ pc[n] = "call"
  /\ Answers(n, IF local[n].native THEN Remembered(n) \o local[n].input
                ELSE local[n].input)

\* should_retry_with_replay_on_missing_handle: only try_target does it, and it
\* leaves the canonical request, which is stored later, as it was.
HandleMissing(n) ==
  /\ Goto(n, "call", "retry")
  /\ local[n].native /\ ~local[n].stream
  /\ UNCHANGED <<store, now, faults, janitor, ask, local, outcome, upstream, history>>

RetryAnswers(n) ==
  /\ pc[n] = "retry"
  /\ Answers(n, local[n].replay \o Renamed(local[n].input, local[n].mapped, "downstream"))

\* Mutant: a target that failed is picked again.
TargetFailsForgotten(n) ==
  /\ pc[n] \in {"call", "retry"}
  /\ pc' = Set(pc, n, "target")
  /\ local' = [local EXCEPT ![n].native = FALSE, ![n].target = None, ![n].input = <<>>]
  /\ UNCHANGED <<store, now, faults, janitor, ask, outcome, upstream, history>>

\* Any failure before the first event; a stream does not retry a missing handle.
TargetFails(n) ==
  /\ pc[n] \in {"call", "retry"}
  /\ pc' = Set(pc, n, "target")
  /\ local' = [local EXCEPT ![n].tried = @ \cup {local[n].target}, ![n].native = FALSE,
                            ![n].target = None, ![n].input = <<>>]
  /\ UNCHANGED <<store, now, faults, janitor, ask, outcome, upstream, history>>

CallFails(n) ==
  /\ pc[n] \in {"call", "retry"}
  /\ Refuse(n, "upstream_error") /\ UNCHANGED faults

-----------------------------------------------------------------------------
(* persist_response_shell.                                                  *)

\* A JSON response goes out when its record is written, or could not be.
Return(n) ==
  /\ Leave(n)
  /\ outcome' = IF local[n].stream THEN outcome ELSE Told(n, local[n].status)

\* canonical.previous_response_id is by now the handle or nothing.
StoreRow(n) ==
  /\ pc[n] = "store"
  /\ InsertRow(n, local[n].status,
               IF local[n].native THEN Upstream(ask[n].prev) ELSE NoRef, local[n].target)
  /\ pc' = Set(pc, n, "store_handle")
  /\ written' = written \cup {n}
  /\ UNCHANGED <<items, handles, now, faults, janitor, ask, local, outcome, upstream, lost>>

StoreRowFails(n) ==
  /\ pc[n] = "store"
  /\ Fault /\ Return(n)
  /\ lost' = lost \cup {n}
  /\ UNCHANGED <<store, now, janitor, ask, upstream, written>>

StoreHandle(n) ==
  /\ Goto(n, "store_handle", "store_input")
  /\ \/ InsertHandle(n, local[n].key) /\ UNCHANGED faults
     \/ Fault /\ UNCHANGED handles
  /\ UNCHANGED <<responses, items, now, janitor, ask, local, outcome, upstream, history>>

\* One statement per item: one that fails is skipped.
StoreInput(n) ==
  /\ Goto(n, "store_input", "store_output")
  /\ \/ InsertItems(n, "input", local[n].input) /\ UNCHANGED <<faults, lost>>
     \/ /\ Fault /\ lost' = lost \cup {n}
        /\ \E k \in DOMAIN local[n].input :
             InsertItems(n, "input", RemoveAt(local[n].input, k))
  /\ UNCHANGED <<responses, handles, now, janitor, ask, local, outcome, upstream, written>>

\* A stored call has ModelWire's call id and, in its JSON, the upstream's.
StoreOutput(n) ==
  /\ pc[n] = "store_output"
  /\ LET answer == Last(context[n]) IN
       \/ /\ InsertItems(n, "output",
               <<Answer(n, answer.kind, IF answer.kind = "call" THEN "downstream" ELSE "none")>>)
          /\ UNCHANGED <<faults, lost>>
       \/ Fault /\ lost' = lost \cup {n} /\ UNCHANGED items
  /\ Return(n)
  /\ UNCHANGED <<responses, handles, now, janitor, ask, upstream, written>>

-----------------------------------------------------------------------------
Turn(n) ==
  \/ LookUp(n) \/ NotFound(n) \/ NotContinuable(n)
  \/ Walk(n) \/ ChainWalked(n) \/ ChainBroken(n)
  \/ ReadItems(n) \/ ReadHandle(n) \/ LoadFails(n)
  \/ PickTarget(n) \/ UnknownResult(n) \/ Exhausted(n)
  \/ UpstreamAnswers(n) \/ HandleMissing(n) \/ RetryAnswers(n)
  \/ TargetFails(n) \/ CallFails(n)
  \/ StoreRow(n) \/ StoreRowFails(n) \/ StoreHandle(n) \/ StoreInput(n) \/ StoreOutput(n)

chainVars == <<pc, ask, local, outcome, upstream, history>>

\* The process stops and starts again: what was in progress is gone.
Crash ==
  /\ Fault
  /\ pc' = [n \in Turns |-> IF pc[n] = "new" THEN "new" ELSE "done"]
  /\ local' = [n \in Turns |-> NoLocal]
  /\ Finish
  /\ lost' = lost \cup {n \in Turns : pc[n] \notin {"new", "done"}}
  /\ UNCHANGED <<store, now, ask, outcome, upstream, written>>

Next ==
  \/ \E n \in Turns : Ask(n) \/ Turn(n)
  \/ Clean /\ UNCHANGED chainVars
  \/ Tick /\ UNCHANGED <<janitor, chainVars>>
  \/ Crash

Spec == Init /\ [][Next]_vars

\* A handler runs on, for every statement and every upstream call ends, by its own
\* timeout if by nothing else.
FairSpec == Spec /\ \A n \in Turns : WF_vars(Turn(n))

-----------------------------------------------------------------------------
TypeOK ==
  /\ StoreTypeOK /\ JanitorTypeOK
  /\ pc \in [Turns -> {"new", "lookup", "walk", "items", "target", "call", "retry",
                       "store", "store_handle", "store_input", "store_output", "done"}]
  /\ ask \in [Turns -> Asks]
  /\ local \in [Turns -> Local]
  /\ outcome \in [Turns -> {"none", "answered", "failed", "state_not_found",
       "state_not_continuable", "state_replay_failed", "tool_mapping_failed",
       "internal_error", "upstream_unavailable", "upstream_error"}]
  /\ context \in [Turns -> Seq(Piece)]
  /\ account \in [Turns -> [target : Targets \cup {None}, key : Keys \cup {None}]]
  /\ written \in SUBSET Turns /\ lost \in SUBSET Turns

\* What happened to the response a request continues may excuse its fate: it was
\* not written yet, or not wholly, or it had expired.
Excused(n) == ask[n].early \/ ask[n].late \/ ask[n].prev \in lost

Shape(pieces) == [k \in DOMAIN pieces |-> <<pieces[k].turn, pieces[k].kind>>]

\* The answer to a request was made from all that the response it continues was
\* made from and that response itself, by a handle or by replay.
OnWholeHistory(n) ==
  context[n] # <<>> /\ ask[n].prev # 0 =>
    IsPrefix(Shape(context[ask[n].prev]), Shape(context[n]))

\* Whatever target, credential and retry a turn goes through, and whatever the
\* janitor does meanwhile, no part of the conversation is silently left out,
\* unless the response continued was being written, was damaged by a fault, or
\* had expired (apply_continuation_to_canonical, load_replay_chain_items).
ContextIntact == \A n \in Turns : Excused(n) \/ OnWholeHistory(n)

\* No fault hit a response or one it was made from: some set holds them all and
\* no lost one.
Undamaged(n) ==
  \E A \in SUBSET Turns :
    /\ n \in A /\ A \cap lost = {}
    /\ \A m \in A : ask[m].prev \in A \cup {0}

Intact(n) == ask[n].prev = 0 \/ Undamaged(ask[n].prev)

\* Each tool result comes after its call, and carries the id the call has there.
Matched(pieces) ==
  \A k \in DOMAIN pieces : pieces[k].kind = "result" =>
    \E j \in 1 .. k - 1 : /\ pieces[j].kind = "call"
                          /\ pieces[j].call = pieces[k].call
                          /\ pieces[j].id = pieces[k].id

\* In every conversation an upstream sees, a tool result carries the call id its
\* call has there, ModelWire's or the upstream's (tool_call_id_map, both ways),
\* unless a fault took items out of a response it goes back to.
ToolIdsMatch == \A n \in Turns : Intact(n) => Matched(context[n])

\* A response a client was given is there to be continued, unless the request came
\* early, a fault hit it, or it may have expired; and the calls it was shown are
\* known, unless a fault hit that response or one it was made from.
RefusalExplained ==
  \A n \in Turns :
    /\ outcome[n] = "state_not_found" => Excused(n) \/ now > Ttl
    /\ outcome[n] = "tool_mapping_failed" => Excused(n) \/ ~Intact(n)

\* The tables keep a response as ResponseLifetime says.
Lifetime == INSTANCE ResponseLifetime WITH
  Ids <- Turns, clock <- now,
  phase <- [n \in Turns |-> IF Stored(n) THEN "kept"
                            ELSE IF n \in written THEN "forgotten" ELSE "unborn"],
  born <- [n \in Turns |-> responses[n].at]
KeptThenForgotten == Lifetime!Spec

\* A request that was made ends.
RequestsEnd == \A n \in Turns : (pc[n] # "new") ~> (pc[n] = "done")

\* The plan (3671-3672): state that reaches its time to live is deleted "only when no
\* non-expired child response depends on it"; janitor.rs:217 says the same.  Rows name
\* the upstream's handles and no response, so the janitor, which has read the rows when
\* it leaves "protect", dooms the parents of children that are stored and live.
ParentsKept ==
  [][cleaning = "protect" /\ cleaning' = "items" =>
       \A m \in Turns : Stored(m) /\ ~Expired(m, cutoff) => ask[m].prev \notin doomed']_vars

\* The plan (747): the transcript chain a continuation needs is loaded, so its
\* answer is made from the whole of what it continues.
AnsweredOnWholeHistory == \A n \in Turns : OnWholeHistory(n)

\* The plan (4559): replay walks the chain of a stored response.  Nothing was
\* deleted and nothing failed in this run, so no chain should be broken.
ChainReplays == \A n \in Turns : outcome[n] # "state_replay_failed"
=============================================================================
