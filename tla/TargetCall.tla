------------------------------ MODULE TargetCall ------------------------------
(***************************************************************************)
(* A request whose answer is not streamed, from the first target of its    *)
(* route to the answer: the loop of relay_non_streaming_response_scoped    *)
(* and try_target, with the record, the request log and the archive record *)
(* each target leaves.  Targets are the numbers 1 .. TargetCount in order  *)
(* of priority.                                                            *)
(*                                                                         *)
(* The parts of other modules are taken by what they return: a continued   *)
(* response has its history (ResponseChain), an auto target a protocol or  *)
(* an error (ProbeCache), an archive record is written or is not           *)
(* (ArchiveWriter).  Left out: the contents of requests and answers.       *)
(***************************************************************************)
EXTENDS ContextGuard, Sequences

CONSTANTS
  TargetCount,  \* targets of the route
  Profiles,     \* what a target's and its provider's row may say
  Requests,     \* what a caller may ask
  MaxFaults     \* bound of the model: statements and writes that fail

Targets == 1 .. TargetCount

\* key: how resolve_upstream_key_checked ends; native: a handle of the response
\* continued may be sent to it.
Profile == [window : Optional(Nat), margin : Optional(Nat), limit : Optional(Nat),
            fallback : BOOLEAN, key : {"found", "mismatch", "missing"},
            wire : {"auto", "responses", "chat"}, native : BOOLEAN]
Request == [input : Nat \ {0}, replay : Nat, max : Optional(Nat), tools : BOOLEAN]

ASSUME CallAssumption ==
  /\ TargetCount \in Nat \ {0} /\ MaxFaults \in Nat
  /\ Profiles \subseteq Profile /\ Requests \subseteq Request

Eligible == {"protocol_not_supported", "upstream_unavailable", "upstream_timeout",
             "rate_limited"}
UpstreamErrors == (Eligible \ {"protocol_not_supported"}) \cup
                  {"auth_failed", "request_invalid"}
\* What an upstream may answer to a probe, other than that it takes it or does not
\* serve the protocol.
ProbeErrors == (UpstreamErrors \ {"request_invalid"}) \cup {"model_not_found"}
Kinds == Eligible \cup UpstreamErrors \cup ProbeErrors \cup
         {"context_length_exceeded", "internal_error"}

VARIABLES
  server,    \* configuration: is the bind address public, is the archive on
  target,    \* the targets of the route
  request,
  pc,
  current,   \* the target the loop is at
  lastError,
  attempts,  \* routing_attempts
  calls,     \* external: what upstreams received
  logs,      \* table request_logs
  stored,    \* target of the response's row, 0 without one
  archived,  \* archive record: the attempts and which of them won
  answer,    \* what the caller was told: "none" yet, "answered", or an error
  faults     \* history: faults so far

inputs == <<server, target, request>>
traces == <<attempts, calls, logs, stored, archived>>
callVars == <<inputs, pc, current, lastError, traces, answer, faults>>

Attempt == [target : Targets, kind : Kinds \cup {"success"}]
Call == [target : Targets, handle : BOOLEAN, tokens : Nat, asked : Optional(Nat)]
Logged == [target : Targets,
           kind : Kinds \cup {"success", "upstream_error", "auth_mode_mismatch",
                              "provider_key_missing"}]
NotArchived == [winner |-> 0, attempts |-> <<>>]

CallTypeOK ==
  /\ server \in [public : BOOLEAN, archive : BOOLEAN]
  /\ target \in [Targets -> Profiles] /\ request \in Requests
  /\ pc \in {"consider", "key", "protocol", "call", "retry", "store", "log",
             "archive", "done", "gone"}
  /\ current \in 1 .. TargetCount + 1
  /\ lastError \in Kinds \cup {"none"}
  /\ attempts \in Seq(Attempt) /\ calls \in Seq(Call) /\ logs \in Seq(Logged)
  /\ stored \in 0 .. TargetCount
  /\ archived \in [winner : 0 .. TargetCount, attempts : Seq(Attempt)]
  /\ answer \in Kinds \cup {"none", "answered"}
  /\ faults \in 0 .. MaxFaults

CallInit ==
  /\ server \in [public : BOOLEAN, archive : BOOLEAN]
  /\ target \in [Targets -> Profiles] /\ request \in Requests
  /\ pc = "consider" /\ current = 1 /\ lastError = "none"
  /\ attempts = <<>> /\ calls = <<>> /\ logs = <<>>
  /\ stored = 0 /\ archived = NotArchived
  /\ answer = "none" /\ faults = 0

-----------------------------------------------------------------------------
Row == target[current]
Fault == faults < MaxFaults /\ faults' = faults + 1
Goto(here, there) == pc = here /\ pc' = there

Refuse(kind) == pc' = "done" /\ answer' = kind /\ UNCHANGED <<current, lastError>>

\* The loop goes on with the next target.
PassOver(kind) ==
  /\ pc' = "consider" /\ current' = current + 1 /\ lastError' = kind
  /\ UNCHANGED answer

\* store_log: `let _ =`, a row that cannot be written is missing.
Log(kind) ==
  \/ logs' = Append(logs, [target |-> current, kind |-> kind]) /\ UNCHANGED faults
  \/ Fault /\ UNCHANGED logs

-----------------------------------------------------------------------------
(* Before a target is called.                                               *)

Considering == pc = "consider" /\ current \in Targets
Unmeasured == server.public /\ Row.window = None

NoWindow ==
  /\ Considering /\ Unmeasured
  /\ PassOver("context_length_exceeded")
  /\ UNCHANGED <<inputs, traces, faults>>

Overflows ==
  /\ Considering /\ ~Unmeasured /\ ~Fits(request, Row)
  /\ IF Row.fallback THEN PassOver("context_length_exceeded")
     ELSE Refuse("context_length_exceeded")
  /\ UNCHANGED <<inputs, traces, faults>>

FitsTarget ==
  /\ Considering /\ ~Unmeasured /\ Fits(request, Row)
  /\ pc' = "key"
  /\ UNCHANGED <<inputs, current, lastError, traces, answer, faults>>

\* resolve_upstream_key_checked.
KeyFound ==
  /\ Goto("key", "protocol") /\ Row.key = "found"
  /\ UNCHANGED <<inputs, current, lastError, traces, answer, faults>>

KeyRefused ==
  /\ pc = "key"
  /\ \/ Row.key = "mismatch" /\ Log("auth_mode_mismatch") /\ Refuse("auth_failed")
     \/ Row.key = "missing" /\ Log("provider_key_missing") /\ Refuse("internal_error")
  /\ UNCHANGED <<inputs, attempts, calls, stored, archived>>

\* resolve_target_protocol and ensure_tool_probe_if_needed: no protocol is served, a
\* probe was answered by an error, or the table of probes failed.  Each ends the
\* request, eligible or not.
ProtocolFails ==
  /\ pc = "protocol" /\ Row.wire = "auto"
  /\ \/ \E kind \in {"protocol_not_supported"} \cup ProbeErrors :
          Refuse(kind) /\ UNCHANGED faults
     \/ Refuse("internal_error") /\ Fault
  /\ UNCHANGED <<inputs, traces>>

\* should_skip_target_for_tool_support.
ToolsUnsupported ==
  /\ pc = "protocol" /\ Row.wire = "auto" /\ request.tools
  /\ PassOver("protocol_not_supported")
  /\ UNCHANGED <<inputs, traces, faults>>

Continues == request.replay > 0
ByHandle == Continues /\ Row.native

Send(handle) ==
  calls' = Append(calls,
    [target |-> current, handle |-> handle, asked |-> Asked(request),
     tokens |-> request.input + IF handle THEN 0 ELSE request.replay])

CallTarget ==
  /\ Goto("protocol", "call")
  /\ Send(ByHandle)
  /\ UNCHANGED <<inputs, current, lastError, attempts, logs, stored, archived,
                 answer, faults>>

-----------------------------------------------------------------------------
(* try_target.                                                              *)

\* Mutant: the retry is counted as an attempt that failed.
HandleMissingCounted ==
  /\ Goto("call", "retry") /\ ByHandle
  /\ Send(FALSE)
  /\ attempts' = Append(attempts, [target |-> current, kind |-> "request_invalid"])
  /\ UNCHANGED <<inputs, current, lastError, logs, stored, archived, answer, faults>>

\* should_retry_with_replay_on_missing_handle.
HandleMissing ==
  /\ Goto("call", "retry") /\ ByHandle
  /\ Send(FALSE)
  /\ UNCHANGED <<inputs, current, lastError, attempts, logs, stored, archived,
                 answer, faults>>

\* Mutant: no error of an upstream is kept for the end.
FailForgotten(kind, entry) ==
  /\ Log(entry)
  /\ attempts' = Append(attempts, [target |-> current, kind |-> kind])
  /\ IF kind \in Eligible THEN PassOver(lastError) ELSE Refuse(kind)

Fail(kind, entry) ==
  /\ Log(entry)
  /\ attempts' = Append(attempts, [target |-> current, kind |-> kind])
  /\ IF kind \in Eligible THEN PassOver(kind) ELSE Refuse(kind)

\* A status that is not a success; or no connection, no body, an unreadable one.
CallFails ==
  /\ pc \in {"call", "retry"}
  /\ \/ \E kind \in UpstreamErrors : Fail(kind, "upstream_error")
     \/ \E kind \in {"upstream_unavailable", "upstream_timeout"} : Fail(kind, kind)
  /\ UNCHANGED <<inputs, calls, stored, archived>>

Succeeds ==
  /\ pc \in {"call", "retry"} /\ pc' = "store"
  /\ UNCHANGED <<inputs, current, lastError, traces, answer, faults>>

\* persist_response_shell, whose errors are ignored.
StoreResponse ==
  /\ Goto("store", "log")
  /\ \/ stored' = current /\ UNCHANGED faults
     \/ Fault /\ UNCHANGED stored
  /\ UNCHANGED <<inputs, current, lastError, attempts, calls, logs, archived, answer>>

LogSuccess ==
  /\ Goto("log", "archive")
  /\ Log("success")
  /\ attempts' = Append(attempts, [target |-> current, kind |-> "success"])
  /\ UNCHANGED <<inputs, current, lastError, calls, stored, archived, answer>>

\* Mutant: the index of the winner is the number of attempts.
ArchiveNamesLength ==
  [winner |-> Len(attempts), attempts |-> attempts]

\* winning_attempt_index, counted from 0.
ArchiveRecord == [winner |-> Len(attempts) - 1, attempts |-> attempts]

\* archive_successful_response: a failure is a warning.
Answer ==
  /\ Goto("archive", "done") /\ answer' = "answered"
  /\ \/ server.archive /\ archived' = ArchiveRecord /\ UNCHANGED faults
     \/ server.archive /\ Fault /\ UNCHANGED archived
     \/ ~server.archive /\ UNCHANGED <<archived, faults>>
  /\ UNCHANGED <<inputs, current, lastError, attempts, calls, logs, stored>>

Exhausted ==
  /\ pc = "consider" /\ current > TargetCount
  /\ Refuse(lastError)
  /\ UNCHANGED <<inputs, traces, faults>>

\* External: the caller hangs up and the handler is dropped where it waits.
CallerLeaves ==
  /\ pc \in {"key", "protocol", "call", "retry", "store", "log", "archive"}
  /\ pc' = "gone"
  /\ UNCHANGED <<inputs, current, lastError, traces, answer, faults>>

CallStep ==
  \/ NoWindow \/ Overflows \/ FitsTarget \/ KeyFound \/ KeyRefused \/ ProtocolFails
  \/ ToolsUnsupported \/ CallTarget \/ HandleMissing \/ CallFails \/ Succeeds
  \/ StoreResponse \/ LogSuccess \/ Answer \/ Exhausted \/ CallerLeaves

CallSpec == CallInit /\ [][CallStep]_callVars

-----------------------------------------------------------------------------
Over == pc \in {"done", "gone"}
Trying == pc \in {"call", "retry", "store", "log"}

\* Whatever an upstream receives fits the window of its target, with the output
\* it may add: also the retry, which sends the history the handle stood for
\* (relay.rs:2409, 1045).  A target is called at most twice, and again only
\* without the handle.
CallsFit ==
  \A i \in DOMAIN calls :
    LET c == calls[i]
        t == target[c.target] IN
    /\ t.window # None =>
         c.tokens + (IF c.asked = None THEN 0 ELSE c.asked) + Margin(t) <= t.window
    /\ \A j \in DOMAIN calls : i < j =>
         /\ c.target <= calls[j].target
         /\ c.target = calls[j].target => j = i + 1 /\ c.handle /\ ~calls[j].handle

\* routing_attempts tells of each target that was called, in their order, once
\* however often it was called, and of no other (relay.rs:990, 1240); the request
\* log agrees, rows that could not be written apart.
AttemptsMirrorCalls ==
  pc # "gone" =>
    /\ {attempts[i].target : i \in DOMAIN attempts} =
         {calls[i].target : i \in DOMAIN calls} \ (IF Trying THEN {current} ELSE {})
    /\ \A i, j \in DOMAIN attempts : i < j =>
         /\ attempts[i].target < attempts[j].target
         /\ attempts[i].kind \in Eligible
    /\ faults = 0 => \A i \in DOMAIN attempts :
         /\ i \in DOMAIN logs /\ logs[i].target = attempts[i].target
         /\ logs[i].kind # attempts[i].kind =>
              logs[i].kind = "upstream_error" /\ attempts[i].kind # "success"

\* What an answered request leaves names one target, the one that answered: the
\* response's row, the archive's winner, the last call (relay.rs:1202-1272).  Before
\* it, each target called had failed in a way that allows another.
AnswerAccounted ==
  answer = "answered" =>
    LET winner == calls[Len(calls)].target IN
    /\ attempts[Len(attempts)] = [target |-> winner, kind |-> "success"]
    /\ stored \in {0, winner}
    /\ archived # NotArchived =>
         /\ archived.winner + 1 \in DOMAIN archived.attempts
         /\ archived.attempts[archived.winner + 1].target = winner
    /\ faults = 0 => stored = winner /\ (server.archive <=> archived # NotArchived)

\* Why a target did not answer, as far as its row and the attempts tell.
CallErrors(t) == {attempts[i].kind : i \in {j \in DOMAIN attempts : attempts[j].target = t}}
TooSmall(t) == (server.public /\ target[t].window = None) \/ ~Fits(request, target[t])
GivenUp(t) ==
  IF CallErrors(t) # {} THEN CallErrors(t)
  ELSE IF TooSmall(t) THEN {"context_length_exceeded"}
  ELSE IF target[t].key = "mismatch" THEN {"auth_failed"}
  ELSE IF target[t].key = "missing" THEN {"internal_error"}
  ELSE IF target[t].wire = "auto"
  THEN {"protocol_not_supported", "internal_error"} \cup ProbeErrors
  ELSE {}

\* What lets the loop go on behind a target.
Passable(t) ==
  IF CallErrors(t) # {} THEN CallErrors(t) \subseteq Eligible
  ELSE IF TooSmall(t) THEN target[t].fallback \/ (server.public /\ target[t].window = None)
  ELSE target[t].key = "found" /\ target[t].wire = "auto" /\ request.tools

\* A refusal is about the last target looked at, and each one before it allowed to go
\* on (relay.rs:386-414).  While targets are left it is of a kind that allows no other;
\* an error of the probe is the exception (relay.rs:337-350): it is passed on whatever
\* its kind, for a target that was never called.
RefusalIsOfTheLast ==
  (pc = "done" /\ answer # "answered") =>
    LET last == IF current > TargetCount THEN TargetCount ELSE current IN
    /\ answer \in GivenUp(last)
    /\ \A t \in Targets : t < current => Passable(t)
    /\ (current \in Targets /\ answer \in Eligible) =>
         CallErrors(current) = {} /\ target[current].wire = "auto"
    /\ stored = 0 /\ archived = NotArchived
=============================================================================
