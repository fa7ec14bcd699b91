------------------------------ MODULE Compaction ------------------------------
(***************************************************************************)
(* POST /v1/responses/compact (relay_compact_response_scoped) on the route *)
(* and the tables of TargetCall: the response a caller compacts is the one *)
(* it was answered with.  Its state lies with one provider, in one scope   *)
(* and for one model; Space stands for the three.                          *)
(*                                                                         *)
(* Left out: the summary's text, and a request naming another response.    *)
(***************************************************************************)
EXTENDS TargetCall

CONSTANT
  Space   \* provider, state scope and upstream model of each target

ASSUME CompactionAssumption == DOMAIN Space = Targets

VARIABLES
  mode,     \* server.compaction_mode
  phase,    \* of the compaction
  source,   \* source_state: target recorded for the response, 0 without a source
  next,     \* the target the loop is at
  failed,   \* last_error
  lineage,  \* table compaction_lineage
  compacted,  \* external: targets that received the compact call
  result    \* what the caller was told

compactVars == <<mode, phase, source, next, failed, lineage, compacted, result>>
vars == <<callVars, compactVars>>

Modes == {"none", "native_responses", "local_summary", "hybrid"}
Lineage == [method : {"native_responses", "local_summary"}, space : {Space[t] : t \in Targets},
            source : 0 .. TargetCount]

TypeOK ==
  /\ CallTypeOK
  /\ mode \in Modes
  /\ phase \in {"idle", "load", "native", "call", "record", "local", "summary", "over"}
  /\ source \in 0 .. TargetCount
  /\ next \in 1 .. TargetCount + 1
  /\ failed \in Kinds \cup {"none"}
  /\ lineage \in Seq(Lineage) /\ compacted \in Seq(Targets)
  /\ result \in Kinds \cup {"none", "native", "summary", "state_not_found"}

Init ==
  /\ CallInit
  /\ mode \in Modes
  /\ phase = "idle" /\ source = 0 /\ next = 1 /\ failed = "none"
  /\ lineage = <<>> /\ compacted = <<>> /\ result = "none"

-----------------------------------------------------------------------------
Native == mode \in {"native_responses", "hybrid"}
Local == mode \in {"local_summary", "hybrid"}

Refused(kind) == phase' = "over" /\ result' = kind
Unchanged == UNCHANGED <<mode, source, next, failed, lineage, compacted, result>>

\* The response is named, or nothing is (and nothing is then loaded).
Compact ==
  /\ phase = "idle" /\ answer = "answered"
  /\ phase' \in {"load", "native"}
  /\ UNCHANGED callVars /\ Unchanged

\* load_compaction_source_state.
LoadSource ==
  /\ phase = "load" /\ stored # 0
  /\ phase' = "native" /\ source' = stored
  /\ UNCHANGED <<callVars, mode, next, failed, lineage, compacted, result>>

SourceMissing ==
  /\ phase = "load"
  /\ \/ stored = 0 /\ Refused("state_not_found") /\ UNCHANGED faults
     \/ Fault /\ Refused("internal_error")
  /\ UNCHANGED <<inputs, pc, current, lastError, traces, answer,
                 mode, source, next, failed, lineage, compacted>>

\* Mutant: any target may compact what another answered.
MatchesSourceAny(t) == TRUE

\* target_matches_compaction_source.
MatchesSource(t) == source # 0 => Space[t] = Space[source]

AtTarget == phase = "native" /\ Native /\ next \in Targets

\* The target holds other state, or does not speak Responses.
PassTarget ==
  /\ AtTarget
  /\ MatchesSource(next) => target[next].wire # "responses"
  /\ next' = next + 1
  /\ UNCHANGED <<callVars, mode, phase, source, failed, lineage, compacted, result>>

\* resolve_target_protocol, whose errors end the compaction.
ResolveFails ==
  /\ AtTarget /\ MatchesSource(next) /\ target[next].wire = "auto"
  /\ \/ \E kind \in {"protocol_not_supported"} \cup ProbeErrors :
          Refused(kind) /\ UNCHANGED faults
     \/ Fault /\ Refused("internal_error")
  /\ UNCHANGED <<inputs, pc, current, lastError, traces, answer,
                 mode, source, next, failed, lineage, compacted>>

\* try_target_compact.
CallCompact ==
  /\ AtTarget /\ MatchesSource(next) /\ target[next].wire # "chat"
  /\ phase' = "call" /\ compacted' = Append(compacted, next)
  /\ UNCHANGED <<callVars, mode, source, next, failed, lineage, result>>

CompactFails ==
  /\ phase = "call"
  /\ \E kind \in UpstreamErrors :
       \/ /\ kind \in Eligible /\ phase' = "native"
          /\ next' = next + 1 /\ failed' = kind /\ UNCHANGED result
       \/ /\ kind \notin Eligible
          /\ Refused(kind) /\ UNCHANGED <<next, failed>>
  /\ UNCHANGED <<callVars, mode, source, lineage, compacted>>

CompactSucceeds ==
  /\ phase = "call" /\ phase' = "record"
  /\ UNCHANGED callVars /\ Unchanged

InsertLineage(method, space) ==
  lineage' = Append(lineage, [method |-> method, space |-> space, source |-> source])

\* The upstream's answer is returned whether or not its lineage could be stored.
RecordNative ==
  /\ phase = "record" /\ phase' = "over" /\ result' = "native"
  /\ \/ InsertLineage("native_responses", Space[next]) /\ UNCHANGED faults
     \/ Fault /\ UNCHANGED lineage
  /\ UNCHANGED <<inputs, pc, current, lastError, traces, answer,
                 mode, source, next, failed, compacted>>

NativeExhausted ==
  /\ phase = "native" /\ (Native => next > TargetCount)
  /\ IF Local THEN phase' = "local" /\ UNCHANGED result
     ELSE Refused(IF failed = "none" THEN "protocol_not_supported" ELSE failed)
  /\ UNCHANGED <<callVars, mode, source, next, failed, lineage, compacted>>

\* perform_local_summary_compact: without a source there is nothing to summarise.
NothingToSummarise ==
  /\ phase = "local" /\ source = 0
  /\ Refused("request_invalid")
  /\ UNCHANGED <<callVars, mode, source, next, failed, lineage, compacted>>

\* Its items are read, its lineage is stored; a summary whose lineage cannot be
\* stored is not returned.
Summarise ==
  /\ phase = "local" /\ source # 0
  /\ \/ phase' = "summary" /\ UNCHANGED <<result, faults>>
     \/ Fault /\ Refused("internal_error")
  /\ UNCHANGED <<inputs, pc, current, lastError, traces, answer,
                 mode, source, next, failed, lineage, compacted>>

\* Mutant: the summary is returned before its lineage is stored.
RecordSummaryLater ==
  /\ phase = "summary" /\ phase' = "over" /\ result' = "summary"
  /\ \/ InsertLineage("local_summary", Space[source]) /\ UNCHANGED faults
     \/ Fault /\ UNCHANGED lineage
  /\ UNCHANGED <<inputs, pc, current, lastError, traces, answer,
                 mode, source, next, failed, compacted>>

RecordSummary ==
  /\ phase = "summary"
  /\ \/ /\ InsertLineage("local_summary", Space[source]) /\ UNCHANGED faults
        /\ phase' = "over" /\ result' = "summary"
     \/ Fault /\ Refused("internal_error") /\ UNCHANGED lineage
  /\ UNCHANGED <<inputs, pc, current, lastError, traces, answer,
                 mode, source, next, failed, compacted>>

CompactStep ==
  \/ Compact \/ LoadSource \/ SourceMissing \/ PassTarget \/ ResolveFails
  \/ CallCompact \/ CompactFails \/ CompactSucceeds \/ RecordNative
  \/ NativeExhausted \/ NothingToSummarise \/ Summarise \/ RecordSummary

Next == (CallStep /\ UNCHANGED compactVars) \/ CompactStep

Spec == Init /\ [][Next]_vars

-----------------------------------------------------------------------------
\* What an upstream is asked to compact is its own: a named response goes to the
\* namespace of the target that answered it, by the record of that call and never
\* by the attempts that failed before it (relay.rs:1858; the plan, 1053).
CompactedWhereAnswered ==
  (compacted # <<>> /\ source # 0) =>
    \A i \in DOMAIN compacted : Space[compacted[i]] = Space[calls[Len(calls)].target]

\* A compaction has its lineage (the plan, 1059): a summary always; an upstream's
\* answer unless that one insert failed; a request that was refused has none.
LineageTold ==
  phase = "over" =>
    /\ result = "summary" =>
         lineage = <<[method |-> "local_summary", source |-> stored,
                      space |-> Space[calls[Len(calls)].target]]>>
    /\ result = "native" =>
         /\ lineage = <<>> => faults > 0
         /\ \A i \in DOMAIN lineage :
              /\ lineage[i].method = "native_responses" /\ i = 1
              /\ lineage[i].space = Space[compacted[Len(compacted)]]
    /\ result \notin {"summary", "native"} => lineage = <<>>
=============================================================================
