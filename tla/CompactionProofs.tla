-------------------------- MODULE CompactionProofs ---------------------------
(***************************************************************************)
(* Proofs about TargetCall and Compaction, for every number of targets,    *)
(* whatever their rows and the request say, and any number of faults.      *)
(***************************************************************************)
EXTENDS Compaction, TLAPS

-----------------------------------------------------------------------------
(* The inductive invariant of TargetCall.                                   *)

AtRow == {"key", "protocol", "call", "retry", "store", "log", "archive"}
Sent == {"call", "retry", "store", "log", "archive"}

\* The loop has a target at hand while it works on one; the attempts recorded are
\* fewer than the targets it has come by.
Bounded ==
  /\ pc \in AtRow => current \in Targets
  /\ Len(attempts) <= TargetCount
  /\ pc \in {"consider", "key", "protocol", "call", "retry", "store", "log"}
       => Len(attempts) < current
  /\ pc = "archive" => Len(attempts) > 0

\* What was sent went to the target at hand or to earlier ones.
SentInOrder ==
  /\ \A i \in DOMAIN calls : calls[i].target <= current
  /\ pc \in {"consider", "key", "protocol"} =>
       \A i \in DOMAIN calls : calls[i].target < current
  /\ pc \in Sent => calls # <<>> /\ calls[Len(calls)].target = current
  /\ pc = "call" =>
       /\ calls[Len(calls)].handle = ByHandle
       /\ \A i \in DOMAIN calls : i < Len(calls) => calls[i].target < current
  /\ pc \in {"key", "protocol", "call", "retry"} => Fits(request, Row)

\* The attempts before the answer failed in a way that allows another target; each
\* has its row in the request log unless a row was lost.
FailedInOrder ==
  /\ pc \in {"consider", "key", "protocol", "call", "retry", "store", "log"} =>
       \A i \in DOMAIN attempts :
         attempts[i].target < current /\ attempts[i].kind \in Eligible
  /\ faults = 0 /\ ~Over => Len(logs) = Len(attempts)

\* From the row of the response to the answer everything names the target at hand.
Answering ==
  /\ ~Over => answer = "none"
  /\ (pc # "done" \/ answer # "answered") => archived = NotArchived
  /\ (pc \notin {"log", "archive", "gone"} /\ answer # "answered") => stored = 0
  /\ pc = "gone" => answer = "none"
  /\ answer = "answered" => pc = "done"
  /\ (pc \in {"log", "archive"} \/ answer = "answered") =>
       /\ calls # <<>> /\ calls[Len(calls)].target = current
       /\ stored \in {0, current} /\ (faults = 0 => stored = current)
  /\ (pc = "archive" \/ answer = "answered") =>
       /\ attempts # <<>>
       /\ attempts[Len(attempts)] = [target |-> current, kind |-> "success"]
  /\ answer = "answered" =>
       /\ archived \in {NotArchived, ArchiveRecord}
       /\ faults = 0 => (archived = IF server.archive THEN ArchiveRecord ELSE NotArchived)

\* The row at hand allowed what was done so far, those before it allowed to go on, and
\* lastError tells of the last of them.
Refusing ==
  /\ \A t \in Targets : t < current => Passable(t)
  /\ pc \in {"key", "protocol"} => ~Unmeasured
  /\ pc = "protocol" => Row.key = "found"
  /\ pc = "consider" /\ current > 1 => lastError \in GivenUp(current - 1)

CallInv ==
  /\ CallTypeOK /\ Bounded /\ SentInOrder /\ CallsFit
  /\ FailedInOrder /\ AttemptsMirrorCalls
  /\ Answering /\ Refusing /\ RefusalIsOfTheLast

-----------------------------------------------------------------------------
(* What a compaction adds to it.                                            *)

\* A compaction follows an answer and is about what was stored for it.
Compacting ==
  /\ phase # "idle" => answer = "answered"
  /\ phase \in {"idle", "load"} => source = 0 /\ compacted = <<>>
  /\ source # 0 => source = stored
  /\ source # 0 => \A i \in DOMAIN compacted : Space[compacted[i]] = Space[source]
  /\ phase \in {"call", "record"} =>
       compacted # <<>> /\ compacted[Len(compacted)] = next /\ next \in Targets
  /\ phase = "summary" => source # 0
  /\ phase # "over" => lineage = <<>> /\ result = "none"

IInv == TypeOK /\ CallInv /\ Compacting /\ LineageTold

-----------------------------------------------------------------------------
(* Lemmas.                                                                  *)

\* What Append adds.
LEMMA Appended ==
  ASSUME NEW S, NEW s \in Seq(S), NEW e \in S
  PROVE  /\ Append(s, e) \in Seq(S) /\ Len(Append(s, e)) = Len(s) + 1
         /\ DOMAIN Append(s, e) = DOMAIN s \cup {Len(s) + 1}
         /\ \A i \in DOMAIN s : Append(s, e)[i] = s[i]
         /\ Append(s, e)[Len(s) + 1] = e
         /\ DOMAIN s = 1 .. Len(s) /\ Len(s) \in Nat
  OBVIOUS

\* The numbers of a target and of a request.
LEMMA Numbers ==
  ASSUME CallTypeOK, NEW t \in Targets
  PROVE  /\ target[t] \in Profile
         /\ target[t].window \in Nat \cup {None} /\ target[t].margin \in Nat \cup {None}
         /\ target[t].limit \in Nat \cup {None}
         /\ Margin(target[t]) \in Nat
         /\ request.input \in Nat \ {0} /\ request.replay \in Nat
         /\ Asked(request) \in Nat \cup {None}
<1>1. target[t] \in Profile /\ request \in Request
  BY CallAssumption DEF CallTypeOK
<1>2. /\ target[t].window \in Nat \cup {None} /\ target[t].margin \in Nat \cup {None}
      /\ target[t].limit \in Nat \cup {None}
  BY <1>1 DEF Profile, Optional
<1>3. /\ request.input \in Nat \ {0} /\ request.replay \in Nat
      /\ request.max \in Nat \cup {None}
  BY <1>1 DEF Request, Optional
<1>4. Margin(target[t]) \in Nat
  BY <1>2, GuardAssumption DEF Margin
<1>5. \A n \in Nat : n % U32 \in Nat
  BY GuardAssumption
<1>6. Asked(request) \in Nat \cup {None}
  BY <1>3, <1>5 DEF Asked
<1> QED
  BY <1>1, <1>2, <1>3, <1>4, <1>6

\* What the saturating subtraction of the guard allows.
LEMMA BudgetHolds ==
  ASSUME NEW i \in Nat \ {0}, NEW h \in Nat, NEW o \in Nat, NEW w \in Nat, NEW m \in Nat,
         i + h + o <= (IF w >= m THEN w - m ELSE 0)
  PROVE  i + h + o + m <= w
<1>1. i + h + o \in Nat /\ i + h + o > 0
  OBVIOUS
<1>2. w >= m /\ i + h + o <= w - m
  BY <1>1
<1> QED
  BY <1>1, <1>2

\* A request that passes the guard fits with its whole history and its output: a
\* budget of zero lets no request pass.
LEMMA GuardHolds ==
  ASSUME CallTypeOK, NEW t \in Targets, Fits(request, target[t]), target[t].window # None
  PROVE  request.input + request.replay
           + (IF Asked(request) = None THEN 0 ELSE Asked(request)) + Margin(target[t])
             <= target[t].window
<1> DEFINE w == target[t].window
           m == Margin(target[t])
           o == RequestedOutput(request, target[t])
<1>1. w \in Nat /\ m \in Nat /\ request.input \in Nat \ {0} /\ request.replay \in Nat
  BY Numbers
<1>2. \A n \in Nat : n % U32 \in Nat
  BY GuardAssumption
<1>3. /\ o \in Nat
      /\ Asked(request) # None => o = Asked(request)
  BY <1>2, Numbers DEF RequestedOutput
<1>4. request.input + request.replay + o <= (IF w >= m THEN w - m ELSE 0)
  BY DEF Fits, Estimate, SafeBudget
<1> HIDE DEF w, m, o
<1>5. request.input + request.replay + o + m <= w
  BY <1>1, <1>3, <1>4, BudgetHolds
<1>6. (IF Asked(request) = None THEN 0 ELSE Asked(request)) <= o
  BY <1>3
<1>7. (IF Asked(request) = None THEN 0 ELSE Asked(request)) \in Nat
  BY Numbers
<1> QED
  BY <1>1, <1>3, <1>5, <1>6, <1>7 DEF w, m

\* A row of the request log may be written or not; the count of faults stays in
\* its bound.
LEMMA LogStep ==
  ASSUME CallTypeOK, current \in Targets, NEW kind, [target |-> current, kind |-> kind] \in Logged,
         Log(kind)
  PROVE  logs' \in Seq(Logged) /\ faults' \in 0 .. MaxFaults /\ faults' >= faults
<1>1. logs \in Seq(Logged) /\ faults \in 0 .. MaxFaults /\ MaxFaults \in Nat
  BY CallAssumption DEF CallTypeOK
<1>2. CASE logs' = Append(logs, [target |-> current, kind |-> kind]) /\ UNCHANGED faults
  <2>1. logs' \in Seq(Logged)
    BY <1>1, <1>2, Appended
  <2> QED BY <1>1, <1>2, <2>1
<1>3. CASE Fault /\ UNCHANGED logs
  BY <1>1, <1>3 DEF Fault
<1> QED
  BY <1>2, <1>3 DEF Log

\* Every action keeps the types.
LEMMA TypeStep ==
  ASSUME CallTypeOK, Bounded, CallStep
  PROVE  CallTypeOK'
<1> USE DEF CallTypeOK, inputs, traces, callVars
<1>0. TargetCount \in Nat \ {0} /\ MaxFaults \in Nat /\ Targets = 1 .. TargetCount
  BY CallAssumption DEF Targets
<1>1. ASSUME NEW kind \in Kinds \cup {"none"}, PassOver(kind), current \in Targets
      PROVE  /\ pc' = "consider" /\ current' \in 1 .. TargetCount + 1
             /\ lastError' \in Kinds \cup {"none"}
             /\ answer' \in Kinds \cup {"none", "answered"}
  BY <1>0, <1>1 DEF PassOver
<1>2. ASSUME NEW kind \in Kinds \cup {"none"}, Refuse(kind)
      PROVE  /\ pc' = "done" /\ current' \in 1 .. TargetCount + 1
             /\ lastError' \in Kinds \cup {"none"}
             /\ answer' \in Kinds \cup {"none", "answered"}
  BY <1>2 DEF Refuse
<1>3. UpstreamErrors \subseteq Kinds /\ Eligible \subseteq Kinds /\ ProbeErrors \subseteq Kinds
      /\ {"context_length_exceeded", "internal_error", "protocol_not_supported",
          "auth_failed", "request_invalid", "upstream_unavailable",
          "upstream_timeout"} \subseteq Kinds
  BY DEF Kinds, ProbeErrors, UpstreamErrors, Eligible
<1>4. CASE NoWindow
  BY <1>1, <1>3, <1>4 DEF NoWindow, Considering
<1>5. CASE Overflows
  BY <1>1, <1>2, <1>3, <1>5 DEF Overflows, Considering
<1>6. CASE FitsTarget
  BY <1>6 DEF FitsTarget, Considering
<1>7. CASE KeyFound
  BY <1>7 DEF KeyFound, Goto
<1>8. CASE KeyRefused
  <2>1. current \in Targets
    BY <1>8 DEF KeyRefused, Bounded, AtRow
  <2>2. ASSUME NEW kind \in {"auth_mode_mismatch", "provider_key_missing"}, Log(kind)
        PROVE  logs' \in Seq(Logged) /\ faults' \in 0 .. MaxFaults
    BY <2>1, <2>2, LogStep DEF Logged
  <2> QED
    BY <1>2, <1>3, <1>8, <2>2 DEF KeyRefused
<1>9. CASE ProtocolFails
  BY <1>0, <1>2, <1>3, <1>9 DEF ProtocolFails, Fault
<1>10. CASE ToolsUnsupported
  <2>1. current \in Targets
    BY <1>10 DEF ToolsUnsupported, Bounded, AtRow
  <2> QED BY <1>1, <1>3, <1>10, <2>1 DEF ToolsUnsupported
<1>11. ASSUME NEW h \in BOOLEAN, current \in Targets, Send(h)
       PROVE  calls' \in Seq(Call)
  <2>1. request.input \in Nat /\ request.replay \in Nat /\ Asked(request) \in Nat \cup {None}
    BY Numbers, <1>11
  <2>2. [target |-> current, handle |-> h, asked |-> Asked(request),
         tokens |-> request.input + IF h THEN 0 ELSE request.replay] \in Call
    BY <1>11, <2>1 DEF Call, Optional
  <2> QED BY <1>11, <2>2, Appended DEF Send
<1>12. CASE CallTarget
  <2>1. current \in Targets
    BY <1>12 DEF CallTarget, Goto, Bounded, AtRow
  <2>2. ByHandle \in BOOLEAN
    <3>1. target[current] \in Profile
      BY <2>1, CallAssumption
    <3> QED BY <3>1 DEF ByHandle, Continues, Row, Profile
  <2> QED BY <1>11, <1>12, <2>1, <2>2 DEF CallTarget, Goto
<1>13. CASE HandleMissing
  <2>1. current \in Targets
    BY <1>13 DEF HandleMissing, Goto, Bounded, AtRow
  <2> QED BY <1>11, <1>13, <2>1 DEF HandleMissing, Goto
<1>14. CASE CallFails
  <2>1. current \in Targets
    BY <1>14 DEF CallFails, Bounded, AtRow
  <2>2. ASSUME NEW kind \in UpstreamErrors, NEW entry \in UpstreamErrors \cup {"upstream_error"},
               Fail(kind, entry)
        PROVE  /\ logs' \in Seq(Logged) /\ faults' \in 0 .. MaxFaults
               /\ attempts' \in Seq(Attempt)
               /\ pc' \in {"consider", "done"} /\ current' \in 1 .. TargetCount + 1
               /\ lastError' \in Kinds \cup {"none"}
               /\ answer' \in Kinds \cup {"none", "answered"}
    <3>1. Log(entry) /\ attempts' = Append(attempts, [target |-> current, kind |-> kind])
      BY <2>2 DEF Fail
    <3>2. [target |-> current, kind |-> entry] \in Logged
      BY <1>3, <2>1 DEF Logged
    <3>3. logs' \in Seq(Logged) /\ faults' \in 0 .. MaxFaults
      BY <2>1, <3>1, <3>2, LogStep
    <3>4. [target |-> current, kind |-> kind] \in Attempt
      BY <1>3, <2>1 DEF Attempt
    <3>5. attempts' \in Seq(Attempt)
      BY <3>1, <3>4, Appended
    <3>6. CASE kind \in Eligible
      BY <1>1, <1>3, <2>1, <2>2, <3>3, <3>5, <3>6 DEF Fail
    <3>7. CASE kind \notin Eligible
      BY <1>2, <1>3, <2>2, <3>3, <3>5, <3>7 DEF Fail
    <3> QED BY <3>6, <3>7
  <2>3. \A kind \in {"upstream_unavailable", "upstream_timeout"} : kind \in UpstreamErrors
    BY DEF UpstreamErrors, Eligible
  <2> QED BY <1>14, <2>2, <2>3 DEF CallFails
<1>15. CASE Succeeds
  BY <1>15 DEF Succeeds
<1>16. CASE StoreResponse
  <2>1. current \in Targets
    BY <1>16 DEF StoreResponse, Goto, Bounded, AtRow
  <2> QED BY <1>0, <1>16, <2>1 DEF StoreResponse, Goto, Fault
<1>17. CASE LogSuccess
  <2>1. current \in Targets
    BY <1>17 DEF LogSuccess, Goto, Bounded, AtRow
  <2>2. [target |-> current, kind |-> "success"] \in Logged \cap Attempt
    BY <2>1 DEF Logged, Attempt
  <2>3. attempts' \in Seq(Attempt)
    BY <1>17, <2>2, Appended DEF LogSuccess
  <2>4. logs' \in Seq(Logged) /\ faults' \in 0 .. MaxFaults
    BY <1>17, <2>1, <2>2, LogStep DEF LogSuccess
  <2> QED BY <1>17, <2>3, <2>4 DEF LogSuccess, Goto
<1>18. CASE Answer
  <2>1. Len(attempts) \in Nat
    OBVIOUS
  <2>2. Len(attempts) - 1 \in 0 .. TargetCount
    BY <1>0, <1>18, <2>1 DEF Bounded, Answer, Goto
  <2>3. ArchiveRecord \in [winner : 0 .. TargetCount, attempts : Seq(Attempt)]
    BY <2>2 DEF ArchiveRecord
  <2> QED BY <1>0, <1>18, <2>3 DEF Answer, Goto, Fault
<1>19. CASE Exhausted
  BY <1>2, <1>19 DEF Exhausted
<1>20. CASE CallerLeaves
  BY <1>20 DEF CallerLeaves
<1> QED
  BY <1>4, <1>5, <1>6, <1>7, <1>8, <1>9, <1>10, <1>12, <1>13, <1>14, <1>15, <1>16,
     <1>17, <1>18, <1>19, <1>20 DEF CallStep

LEMMA BoundedStep ==
  ASSUME CallTypeOK, Bounded, CallStep
  PROVE  Bounded'
<1>0. /\ TargetCount \in Nat \ {0} /\ Targets = 1 .. TargetCount
      /\ current \in 1 .. TargetCount + 1 /\ Len(attempts) \in Nat
  BY CallAssumption DEF Targets, CallTypeOK
<1>1. \A e : /\ attempts' = Append(attempts, e) => Len(attempts') = Len(attempts) + 1
  BY DEF CallTypeOK
<1> USE <1>0 DEF Bounded, AtRow, inputs, traces, callVars
<1>2. CASE NoWindow
  BY <1>2 DEF NoWindow, Considering, PassOver
<1>3. CASE Overflows
  BY <1>3 DEF Overflows, Considering, PassOver, Refuse
<1>4. CASE FitsTarget
  BY <1>4 DEF FitsTarget, Considering
<1>5. CASE KeyFound \/ KeyRefused \/ ProtocolFails
  BY <1>5 DEF KeyFound, KeyRefused, ProtocolFails, Goto, Refuse
<1>6. CASE ToolsUnsupported
  BY <1>6 DEF ToolsUnsupported, PassOver
<1>7. CASE CallTarget \/ HandleMissing \/ Succeeds \/ StoreResponse
  BY <1>7 DEF CallTarget, HandleMissing, Succeeds, StoreResponse, Goto
<1>8. CASE CallFails
  <2>1. /\ pc \in {"call", "retry"} /\ Len(attempts') = Len(attempts) + 1
        /\ \/ pc' = "consider" /\ current' = current + 1
           \/ pc' = "done" /\ current' = current
    BY <1>1, <1>8 DEF CallFails, Fail, PassOver, Refuse
  <2> QED BY <2>1
<1>9. CASE LogSuccess
  <2>1. /\ pc = "log" /\ pc' = "archive" /\ current' = current
        /\ Len(attempts') = Len(attempts) + 1
    BY <1>1, <1>9 DEF LogSuccess, Goto
  <2> QED BY <2>1
<1>10. CASE Answer \/ Exhausted \/ CallerLeaves
  BY <1>10 DEF Answer, Exhausted, CallerLeaves, Goto, Refuse
<1> QED
  BY <1>2, <1>3, <1>4, <1>5, <1>6, <1>7, <1>8, <1>9, <1>10 DEF CallStep

\* A call that is sent fits its target, and is not the first to it only if it
\* repeats without the handle one that had it.
LEMMA CallSent ==
  ASSUME CallTypeOK, SentInOrder, CallsFit, current \in Targets, Fits(request, Row),
         UNCHANGED <<inputs, current>>, NEW h \in BOOLEAN, Send(h),
         \A i \in DOMAIN calls : calls[i].target = current =>
           i = Len(calls) /\ calls[i].handle /\ ~h
  PROVE  /\ CallsFit'
         /\ calls' # <<>> /\ Len(calls') = Len(calls) + 1
         /\ calls'[Len(calls')].target = current /\ calls'[Len(calls')].handle = h
         /\ DOMAIN calls' = DOMAIN calls \cup {Len(calls')}
         /\ \A i \in DOMAIN calls : calls'[i] = calls[i]
<1> DEFINE c == [target |-> current, handle |-> h, asked |-> Asked(request),
                 tokens |-> request.input + IF h THEN 0 ELSE request.replay]
           n == Len(calls) + 1
<1>1. request.input \in Nat \ {0} /\ request.replay \in Nat /\ Asked(request) \in Nat \cup {None}
      /\ Margin(Row) \in Nat /\ Row.window \in Nat \cup {None}
  BY Numbers DEF Row
<1>2. c \in Call
  BY <1>1 DEF Call, Optional
<1>3. /\ calls' = Append(calls, c) /\ calls \in Seq(Call)
      /\ target' = target /\ request' = request
  BY DEF Send, CallTypeOK, inputs
<1>4. /\ Len(calls') = n /\ DOMAIN calls' = DOMAIN calls \cup {n} /\ calls'[n] = c
      /\ \A i \in DOMAIN calls : calls'[i] = calls[i]
      /\ DOMAIN calls = 1 .. Len(calls) /\ Len(calls) \in Nat
  BY <1>2, <1>3, Appended
<1>5. c.target = current /\ c.handle = h /\ c.asked = Asked(request)
      /\ c.tokens = request.input + IF h THEN 0 ELSE request.replay
  OBVIOUS
<1> HIDE DEF c, n
<1>6. Row.window # None =>
        c.tokens + (IF c.asked = None THEN 0 ELSE c.asked) + Margin(Row) <= Row.window
  <2> SUFFICES ASSUME Row.window # None
               PROVE  c.tokens + (IF c.asked = None THEN 0 ELSE c.asked) + Margin(Row)
                        <= Row.window
    OBVIOUS
  <2>1. request.input + request.replay
          + (IF Asked(request) = None THEN 0 ELSE Asked(request)) + Margin(Row) <= Row.window
    BY GuardHolds DEF Row
  <2>2. c.tokens \in Nat /\ c.tokens <= request.input + request.replay
    BY <1>1, <1>5
  <2>3. (IF c.asked = None THEN 0 ELSE c.asked) \in Nat
    BY <1>1, <1>5
  <2> QED BY <1>1, <1>5, <2>1, <2>2, <2>3
<1>7. \A i \in DOMAIN calls : calls[i].target <= current
  BY DEF SentInOrder
<1>8. \A i \in DOMAIN calls' : LET d == calls'[i] IN
        target[d.target].window # None =>
          d.tokens + (IF d.asked = None THEN 0 ELSE d.asked) + Margin(target[d.target])
            <= target[d.target].window
  BY <1>4, <1>5, <1>6 DEF CallsFit, Row
<1>9. \A i, j \in DOMAIN calls' : i < j =>
        /\ calls'[i].target <= calls'[j].target
        /\ calls'[i].target = calls'[j].target =>
             j = i + 1 /\ calls'[i].handle /\ ~calls'[j].handle
  <2> SUFFICES ASSUME NEW i \in DOMAIN calls', NEW j \in DOMAIN calls', i < j
               PROVE  /\ calls'[i].target <= calls'[j].target
                      /\ calls'[i].target = calls'[j].target =>
                           j = i + 1 /\ calls'[i].handle /\ ~calls'[j].handle
    OBVIOUS
  <2>1. i \in DOMAIN calls
    BY <1>4 DEF n
  <2>2. CASE j \in DOMAIN calls
    BY <1>4, <2>1, <2>2 DEF CallsFit
  <2>3. CASE j = n
    BY <1>4, <1>5, <1>7, <2>1, <2>3 DEF n
  <2> QED BY <1>4, <2>2, <2>3
<1>10. CallsFit'
  <2>1. \A t : Margin(target[t])' = Margin(target'[t])
    BY DEF Margin
  <2> QED BY <1>3, <1>8, <1>9, <2>1 DEF CallsFit, Margin
<1> QED
  BY <1>4, <1>5, <1>10 DEF n

LEMMA SentStep ==
  ASSUME CallTypeOK, Bounded, SentInOrder, CallsFit, CallStep
  PROVE  SentInOrder' /\ CallsFit'
<1>0. /\ TargetCount \in Nat \ {0} /\ Targets = 1 .. TargetCount
      /\ current \in 1 .. TargetCount + 1 /\ calls \in Seq(Call)
  BY CallAssumption DEF Targets, CallTypeOK
<1>1. \A i \in DOMAIN calls : calls[i].target \in Nat
  <2>1. \A i \in DOMAIN calls : calls[i] \in Call
    BY <1>0
  <2> QED BY <1>0, <2>1 DEF Call
<1>2. CASE CallTarget
  <2>1. /\ pc = "protocol" /\ pc' = "call" /\ Send(ByHandle)
        /\ UNCHANGED inputs /\ current' = current /\ current \in Targets
    BY <1>2 DEF CallTarget, Goto, Bounded, AtRow
  <2>2. /\ Fits(request, Row) /\ \A i \in DOMAIN calls : calls[i].target < current
    BY <2>1 DEF SentInOrder
  <2>3. ByHandle \in BOOLEAN
    <3>1. target[current] \in Profile
      BY <2>1, CallAssumption DEF CallTypeOK
    <3> QED BY <3>1 DEF ByHandle, Continues, Row, Profile
  <2>4. \A i \in DOMAIN calls : calls[i].target # current
    BY <1>0, <1>1, <2>2
  <2>5. /\ CallsFit'
        /\ calls' # <<>> /\ Len(calls') = Len(calls) + 1
        /\ calls'[Len(calls')].target = current /\ calls'[Len(calls')].handle = ByHandle
        /\ DOMAIN calls' = DOMAIN calls \cup {Len(calls')}
        /\ \A i \in DOMAIN calls : calls'[i] = calls[i]
    BY <2>1, <2>2, <2>3, <2>4, CallSent DEF inputs
  <2>6. ByHandle' = ByHandle /\ Row' = Row /\ request' = request
    BY <2>1 DEF ByHandle, Continues, Row, inputs
  <2>7. SentInOrder'
    BY <1>0, <1>1, <2>1, <2>2, <2>5, <2>6 DEF SentInOrder, Sent
  <2> QED BY <2>5, <2>7
<1>3. CASE HandleMissing
  <2>1. /\ pc = "call" /\ pc' = "retry" /\ Send(FALSE) /\ ByHandle
        /\ UNCHANGED inputs /\ current' = current /\ current \in Targets
    BY <1>3 DEF HandleMissing, Goto, Bounded, AtRow
  <2>2. /\ Fits(request, Row) /\ calls[Len(calls)].handle = ByHandle
        /\ \A i \in DOMAIN calls : i < Len(calls) => calls[i].target < current
    BY <2>1 DEF SentInOrder
  <2>3. \A i \in DOMAIN calls : calls[i].target = current =>
           i = Len(calls) /\ calls[i].handle /\ ~FALSE
    <3>1. \A i \in DOMAIN calls : calls[i].target = current => i = Len(calls)
      BY <1>0, <1>1, <2>1, <2>2
    <3>2. calls[Len(calls)].handle
      BY <2>1, <2>2, Zenon
    <3> QED BY <3>1, <3>2, Zenon
  <2>4. /\ CallsFit'
        /\ calls' # <<>> /\ Len(calls') = Len(calls) + 1
        /\ calls'[Len(calls')].target = current
        /\ DOMAIN calls' = DOMAIN calls \cup {Len(calls')}
        /\ \A i \in DOMAIN calls : calls'[i] = calls[i]
    BY <2>1, <2>2, <2>3, CallSent DEF inputs
  <2>5. Row' = Row /\ request' = request
    BY <2>1 DEF Row, inputs
  <2>6. SentInOrder'
    BY <1>0, <1>1, <2>1, <2>2, <2>4, <2>5 DEF SentInOrder, Sent
  <2> QED BY <2>4, <2>6
<1>4. ASSUME UNCHANGED <<target, request, calls>>
      PROVE  CallsFit'
  BY <1>4 DEF CallsFit, Margin
<1>5. ASSUME UNCHANGED <<target, request, calls>>, current' = current + 1, pc' = "consider"
      PROVE  SentInOrder'
  BY <1>0, <1>1, <1>5 DEF SentInOrder, Sent
<1>6. ASSUME UNCHANGED <<target, request, calls, current>>,
             pc' \in {"done", "gone"} \/ (pc' \in Sent \ {"call", "retry"} /\ pc \in Sent)
      PROVE  SentInOrder'
  BY <1>0, <1>1, <1>6 DEF SentInOrder, Sent
<1> USE DEF inputs, traces, Goto
<1>7. CASE NoWindow
  BY <1>4, <1>5, <1>7 DEF NoWindow, PassOver
<1>8. CASE Overflows
  BY <1>4, <1>5, <1>6, <1>8 DEF Overflows, PassOver, Refuse
<1>9. CASE FitsTarget
  BY <1>0, <1>1, <1>4, <1>9 DEF FitsTarget, Considering, SentInOrder, Sent, Row
<1>10. CASE KeyFound
  BY <1>0, <1>1, <1>4, <1>10 DEF KeyFound, SentInOrder, Sent, Row
<1>11. CASE KeyRefused \/ ProtocolFails
  BY <1>4, <1>6, <1>11 DEF KeyRefused, ProtocolFails, Refuse
<1>12. CASE ToolsUnsupported
  BY <1>4, <1>5, <1>12 DEF ToolsUnsupported, PassOver
<1>13. CASE CallFails
  BY <1>4, <1>5, <1>6, <1>13 DEF CallFails, Fail, PassOver, Refuse
<1>14. CASE Succeeds
  BY <1>4, <1>6, <1>14 DEF Succeeds, Sent
<1>15. CASE StoreResponse \/ LogSuccess \/ Answer
  BY <1>4, <1>6, <1>15 DEF StoreResponse, LogSuccess, Answer, Sent
<1>16. CASE Exhausted \/ CallerLeaves
  BY <1>4, <1>6, <1>16 DEF Exhausted, CallerLeaves, Refuse
<1> QED
  BY <1>2, <1>3, <1>7, <1>8, <1>9, <1>10, <1>11, <1>12, <1>13, <1>14, <1>15, <1>16
  DEF CallStep

TargetsTried == {attempts[i].target : i \in DOMAIN attempts}
TargetsCalled == {calls[i].target : i \in DOMAIN calls}

\* An attempt is recorded after those of earlier targets.
LEMMA AttemptRecorded ==
  ASSUME CallTypeOK, AttemptsMirrorCalls, FailedInOrder, SentInOrder,
         pc \in {"call", "retry", "log"}, current \in Targets,
         NEW kind \in UpstreamErrors \cup {"success"},
         NEW entry \in UpstreamErrors \cup {"success", "upstream_error"},
         entry # kind => entry = "upstream_error" /\ kind # "success",
         attempts' = Append(attempts, [target |-> current, kind |-> kind]),
         Log(entry), UNCHANGED calls,
         pc' \in {"consider", "done", "archive"},
         pc' = "consider" => current' = current + 1 /\ kind \in Eligible
  PROVE  AttemptsMirrorCalls' /\ FailedInOrder'
<1> DEFINE e == [target |-> current, kind |-> kind]
           l == [target |-> current, kind |-> entry]
           n == Len(attempts) + 1
<1>0. current \in Nat /\ attempts \in Seq(Attempt) /\ logs \in Seq(Logged)
      /\ faults \in Nat /\ calls \in Seq(Call)
  BY CallAssumption DEF CallTypeOK, Targets
<1>1. e \in Attempt
  BY DEF Attempt, Kinds
<1>2. /\ DOMAIN attempts' = DOMAIN attempts \cup {n} /\ Len(attempts') = n
      /\ \A i \in DOMAIN attempts : attempts'[i] = attempts[i]
      /\ attempts'[n] = e
      /\ DOMAIN attempts = 1 .. Len(attempts) /\ Len(attempts) \in Nat
  BY <1>0, <1>1, Appended
<1>3. \A i \in DOMAIN attempts :
        attempts[i].target < current /\ attempts[i].kind \in Eligible
  BY DEF FailedInOrder
<1>4. \A i \in DOMAIN attempts : attempts[i].target \in Nat
  <2>1. \A i \in DOMAIN attempts : attempts[i] \in Attempt
    BY <1>0
  <2> QED BY <2>1, CallAssumption DEF Attempt, Targets
<1>5. e.target = current /\ e.kind = kind
  OBVIOUS
<1>6. TargetsTried' = TargetsTried \cup {current}
  <2> HIDE DEF e, n
  <2> QED BY <1>2, <1>5 DEF TargetsTried
<1>7. calls # <<>> /\ calls[Len(calls)].target = current
  BY DEF SentInOrder, Sent
<1>8. current \in TargetsCalled
  <2>1. Len(calls) \in DOMAIN calls
    BY <1>0, <1>7
  <2> QED BY <1>7, <2>1 DEF TargetsCalled
<1>9. TargetsTried' = TargetsCalled'
  <2>1. TargetsTried = TargetsCalled \ {current}
    BY DEF AttemptsMirrorCalls, Trying, TargetsTried, TargetsCalled
  <2>2. TargetsCalled' = TargetsCalled
    BY DEF TargetsCalled
  <2> QED BY <1>6, <1>8, <2>1, <2>2
<1>10. \A i, j \in DOMAIN attempts' : i < j =>
         attempts'[i].target < attempts'[j].target /\ attempts'[i].kind \in Eligible
  <2> SUFFICES ASSUME NEW i \in DOMAIN attempts', NEW j \in DOMAIN attempts', i < j
               PROVE  attempts'[i].target < attempts'[j].target /\ attempts'[i].kind \in Eligible
    OBVIOUS
  <2>1. i \in DOMAIN attempts
    BY <1>2
  <2>2. CASE j \in DOMAIN attempts
    BY <1>2, <1>3, <2>1, <2>2 DEF AttemptsMirrorCalls
  <2>3. CASE j = n
    BY <1>2, <1>3, <1>5, <2>1, <2>3
  <2> QED BY <1>2, <2>2, <2>3
<1>11. ASSUME faults' = 0
       PROVE  /\ faults = 0 /\ Len(logs') = n /\ DOMAIN logs' = DOMAIN logs \cup {n}
              /\ \A i \in DOMAIN logs : logs'[i] = logs[i]
              /\ logs'[n] = l
              /\ DOMAIN logs = DOMAIN attempts
  <2>1. logs' = Append(logs, l) /\ faults = 0
    BY <1>0, <1>11 DEF Log, Fault
  <2>2. l \in Logged
    BY DEF Logged, Kinds
  <2>3. Len(logs) = Len(attempts)
    BY <2>1 DEF FailedInOrder, Over
  <2> QED BY <1>0, <1>2, <2>1, <2>2, <2>3, Appended
<1>12. faults' = 0 => \A i \in DOMAIN attempts' :
         /\ i \in DOMAIN logs' /\ logs'[i].target = attempts'[i].target
         /\ logs'[i].kind # attempts'[i].kind =>
              logs'[i].kind = "upstream_error" /\ attempts'[i].kind # "success"
  <2> SUFFICES ASSUME faults' = 0, NEW i \in DOMAIN attempts'
               PROVE  /\ i \in DOMAIN logs' /\ logs'[i].target = attempts'[i].target
                      /\ logs'[i].kind # attempts'[i].kind =>
                           logs'[i].kind = "upstream_error" /\ attempts'[i].kind # "success"
    OBVIOUS
  <2>1. CASE i \in DOMAIN attempts
    BY <1>2, <1>11, <2>1 DEF AttemptsMirrorCalls
  <2>2. CASE i = n
    BY <1>2, <1>5, <1>11, <2>2
  <2> QED BY <1>2, <2>1, <2>2
<1> HIDE DEF e, l, n
<1>13. AttemptsMirrorCalls'
  BY <1>9, <1>10, <1>12 DEF AttemptsMirrorCalls, Trying, TargetsTried, TargetsCalled
<1>14. FailedInOrder'
  <2>1. ASSUME pc' = "consider"
        PROVE  \A i \in DOMAIN attempts' :
                 attempts'[i].target < current' /\ attempts'[i].kind \in Eligible
    BY <1>0, <1>2, <1>3, <1>4, <1>5, <2>1
  <2>2. faults' = 0 => Len(logs') = Len(attempts')
    BY <1>2, <1>11
  <2> QED BY <2>1, <2>2 DEF FailedInOrder, Over
<1> QED BY <1>13, <1>14

LEMMA AttemptsStep ==
  ASSUME CallTypeOK, Bounded, SentInOrder, CallsFit, AttemptsMirrorCalls, FailedInOrder,
         CallStep
  PROVE  AttemptsMirrorCalls' /\ FailedInOrder'
<1>0. /\ TargetCount \in Nat \ {0} /\ Targets = 1 .. TargetCount /\ current \in Nat
      /\ calls \in Seq(Call) /\ attempts \in Seq(Attempt) /\ logs \in Seq(Logged)
      /\ faults \in Nat
  BY CallAssumption DEF Targets, CallTypeOK
<1>1. \A i \in DOMAIN attempts : attempts[i].target \in Nat
  <2>1. \A i \in DOMAIN attempts : attempts[i] \in Attempt
    BY <1>0
  <2> QED BY <1>0, <2>1 DEF Attempt
<1>2. ASSUME UNCHANGED <<attempts, calls, logs>>, faults' = 0 => faults = 0,
             pc # "gone", pc' # "gone",
             (IF Trying' THEN {current'} ELSE {}) = (IF Trying THEN {current} ELSE {})
      PROVE  AttemptsMirrorCalls'
  BY <1>2 DEF AttemptsMirrorCalls
<1>3. ASSUME UNCHANGED <<attempts, logs>>, faults' = 0 => faults = 0, ~Over,
             pc' \in {"done", "archive"}
             \/ /\ pc \in {"consider", "key", "protocol", "call", "retry", "store", "log"}
                /\ current' \in {current, current + 1}
      PROVE  FailedInOrder'
  BY <1>0, <1>1, <1>3 DEF FailedInOrder, Over
<1> USE DEF inputs, traces, Goto
<1>4. CASE NoWindow
  <2>1. AttemptsMirrorCalls'
    BY <1>2, <1>4 DEF NoWindow, Considering, PassOver, Trying
  <2> QED BY <1>3, <1>4, <2>1 DEF NoWindow, Considering, PassOver, Over
<1>5. CASE Overflows
  <2>1. AttemptsMirrorCalls'
    BY <1>2, <1>5 DEF Overflows, Considering, PassOver, Refuse, Trying
  <2> QED BY <1>3, <1>5, <2>1 DEF Overflows, Considering, PassOver, Refuse, Over
<1>6. CASE FitsTarget \/ KeyFound
  <2>1. AttemptsMirrorCalls'
    BY <1>2, <1>6 DEF FitsTarget, KeyFound, Considering, Trying
  <2> QED BY <1>3, <1>6, <2>1 DEF FitsTarget, KeyFound, Considering, Over
<1>7. CASE KeyRefused
  <2>1. /\ pc = "key" /\ pc' = "done" /\ current' = current /\ UNCHANGED <<attempts, calls>>
        /\ \E kind \in {"auth_mode_mismatch", "provider_key_missing"} : Log(kind)
    BY <1>7 DEF KeyRefused, Refuse
  <2>2. current \in Targets
    BY <2>1 DEF Bounded, AtRow
  <2>3. faults' = 0 =>
          /\ faults = 0
          /\ \A i \in DOMAIN logs : i \in DOMAIN logs' /\ logs'[i] = logs[i]
    <3> SUFFICES ASSUME faults' = 0
                 PROVE  /\ faults = 0
                        /\ \A i \in DOMAIN logs : i \in DOMAIN logs' /\ logs'[i] = logs[i]
      OBVIOUS
    <3>1. PICK kind \in {"auth_mode_mismatch", "provider_key_missing"} : Log(kind)
      BY <2>1
    <3>2. faults = 0 /\ logs' = Append(logs, [target |-> current, kind |-> kind])
      BY <1>0, <3>1 DEF Log, Fault
    <3>3. [target |-> current, kind |-> kind] \in Logged
      BY <2>2 DEF Logged
    <3> QED BY <1>0, <3>2, <3>3, Appended
  <2>4. ~Trying /\ ~Trying'
    BY <2>1 DEF Trying
  <2>5. AttemptsMirrorCalls'
    <3>1. pc # "gone" /\ pc' # "gone"
      BY <2>1
    <3>2. {attempts'[i].target : i \in DOMAIN attempts'} =
            {calls'[i].target : i \in DOMAIN calls'} \ (IF Trying' THEN {current'} ELSE {})
      <4>1. TargetsTried = TargetsCalled \ (IF Trying THEN {current} ELSE {})
        BY <3>1 DEF AttemptsMirrorCalls, TargetsTried, TargetsCalled
      <4>2. TargetsTried' = TargetsTried /\ TargetsCalled' = TargetsCalled
        BY <2>1 DEF TargetsTried, TargetsCalled
      <4>3. TargetsTried' = TargetsCalled' \ (IF Trying' THEN {current'} ELSE {})
        BY <2>4, <4>1, <4>2
      <4> QED BY <4>3 DEF TargetsTried, TargetsCalled
    <3>3. faults' = 0 => \A i \in DOMAIN attempts' :
            /\ i \in DOMAIN logs' /\ logs'[i].target = attempts'[i].target
            /\ logs'[i].kind # attempts'[i].kind =>
                 logs'[i].kind = "upstream_error" /\ attempts'[i].kind # "success"
      BY <2>1, <2>3, <3>1 DEF AttemptsMirrorCalls
    <3> QED BY <2>1, <3>1, <3>2, <3>3 DEF AttemptsMirrorCalls
  <2> QED BY <2>1, <2>5 DEF FailedInOrder, Over
<1>8. CASE ProtocolFails \/ Exhausted
  <2>1. /\ pc \in {"protocol", "consider"} /\ pc' = "done" /\ UNCHANGED <<attempts, calls, logs>>
        /\ faults' = 0 => faults = 0
    BY <1>0, <1>8 DEF ProtocolFails, Exhausted, Refuse, Fault
  <2>2. ~Trying /\ ~Trying' /\ ~Over
    BY <2>1 DEF Trying, Over
  <2> QED BY <1>2, <1>3, <2>1, <2>2
<1>9. CASE ToolsUnsupported
  <2>1. AttemptsMirrorCalls'
    BY <1>2, <1>9 DEF ToolsUnsupported, PassOver, Trying
  <2> QED BY <1>3, <1>9, <2>1 DEF ToolsUnsupported, PassOver, Over
<1>10. CASE CallTarget \/ HandleMissing
  <2>1. /\ \E h \in BOOLEAN : Send(h)
        /\ pc \in {"protocol", "call"} /\ pc' \in {"call", "retry"}
        /\ UNCHANGED <<attempts, logs, faults, current>> /\ current \in Targets
        /\ pc = "protocol" => Trying' /\ ~Trying
        /\ pc = "call" => Trying' /\ Trying
    <3>1. current \in Targets
      BY <1>10 DEF CallTarget, HandleMissing, Bounded, AtRow
    <3>2. ByHandle \in BOOLEAN
      <4>1. target[current] \in Profile
        BY <3>1, CallAssumption DEF CallTypeOK
      <4> QED BY <4>1 DEF ByHandle, Continues, Row, Profile
    <3> QED BY <1>10, <3>1, <3>2 DEF CallTarget, HandleMissing, Trying
  <2>2. PICK h \in BOOLEAN : Send(h)
    BY <2>1
  <2> DEFINE c == [target |-> current, handle |-> h, asked |-> Asked(request),
                   tokens |-> request.input + IF h THEN 0 ELSE request.replay]
  <2>3. c \in Call /\ c.target = current /\ calls' = Append(calls, c)
    BY <2>1, <2>2, Numbers DEF Send, Call, Optional
  <2> HIDE DEF c
  <2>4. /\ DOMAIN calls' = DOMAIN calls \cup {Len(calls) + 1}
        /\ \A i \in DOMAIN calls : calls'[i] = calls[i]
        /\ calls'[Len(calls) + 1] = c
    BY <1>0, <2>3, Appended
  <2>5. TargetsCalled' = TargetsCalled \cup {current}
    BY <2>3, <2>4 DEF TargetsCalled
  <2>6. TargetsTried' = TargetsTried
    BY <2>1 DEF TargetsTried
  <2>7. current \notin TargetsTried
    <3>1. \A i \in DOMAIN attempts : attempts[i].target < current
      BY <2>1 DEF FailedInOrder
    <3> QED BY <1>0, <1>1, <3>1 DEF TargetsTried
  <2>8. TargetsTried = TargetsCalled \ (IF Trying THEN {current} ELSE {})
    BY <2>1 DEF AttemptsMirrorCalls, TargetsTried, TargetsCalled
  <2>9. TargetsTried' = TargetsCalled' \ {current}
    BY <2>5, <2>6, <2>7, <2>8
  <2>10. AttemptsMirrorCalls'
    BY <2>1, <2>9 DEF AttemptsMirrorCalls, TargetsTried, TargetsCalled
  <2> QED BY <1>3, <2>1, <2>10 DEF Over
<1>11. CASE CallFails
  <2>1. current \in Targets
    BY <1>11 DEF CallFails, Bounded, AtRow
  <2>2. ASSUME NEW kind \in UpstreamErrors, NEW entry \in {kind, "upstream_error"},
               Fail(kind, entry)
        PROVE  AttemptsMirrorCalls' /\ FailedInOrder'
    <3>1. /\ Log(entry) /\ attempts' = Append(attempts, [target |-> current, kind |-> kind])
          /\ pc' \in {"consider", "done", "archive"}
          /\ pc' = "consider" => current' = current + 1 /\ kind \in Eligible
      BY <2>2 DEF Fail, PassOver, Refuse
    <3>2. kind # "success" /\ entry \in UpstreamErrors \cup {"success", "upstream_error"}
      BY DEF UpstreamErrors, Eligible
    <3> QED BY <1>11, <2>1, <2>2, <3>1, <3>2, AttemptRecorded DEF CallFails
  <2>3. \A kind \in {"upstream_unavailable", "upstream_timeout"} : kind \in UpstreamErrors
    BY DEF UpstreamErrors, Eligible
  <2> QED BY <1>11, <2>2, <2>3 DEF CallFails
<1>12. CASE Succeeds \/ StoreResponse
  <2>1. /\ pc \in {"call", "retry", "store"} /\ pc' \in {"store", "log"} /\ current' = current
        /\ UNCHANGED <<attempts, calls, logs>>
        /\ faults' = 0 => faults = 0
    BY <1>0, <1>12 DEF Succeeds, StoreResponse, Fault
  <2>2. Trying /\ Trying' /\ ~Over
    BY <2>1 DEF Trying, Over
  <2>3. (IF Trying' THEN {current'} ELSE {}) = (IF Trying THEN {current} ELSE {})
    BY <2>1, <2>2
  <2>4. AttemptsMirrorCalls'
    BY <1>2, <2>1, <2>3
  <2>5. FailedInOrder'
    BY <1>3, <2>1, <2>2
  <2> QED BY <2>4, <2>5
<1>13. CASE LogSuccess
  <2>1. current \in Targets
    BY <1>13 DEF LogSuccess, Bounded, AtRow
  <2> QED BY <1>13, <2>1, AttemptRecorded DEF LogSuccess
<1>14. CASE Answer
  <2>1. /\ pc = "archive" /\ pc' = "done" /\ current' = current
        /\ UNCHANGED <<attempts, calls, logs>>
        /\ faults' = 0 => faults = 0
    BY <1>0, <1>14 DEF Answer, Fault
  <2>2. ~Trying /\ ~Trying' /\ ~Over
    BY <2>1 DEF Trying, Over
  <2> QED BY <1>2, <1>3, <2>1, <2>2
<1>15. CASE CallerLeaves
  BY <1>15 DEF CallerLeaves, AttemptsMirrorCalls, FailedInOrder, Over
<1> QED
  BY <1>4, <1>5, <1>6, <1>7, <1>8, <1>9, <1>10, <1>11, <1>12, <1>13, <1>14, <1>15
  DEF CallStep

\* What was recorded for the target at hand agrees with the answer.
LEMMA Accounted ==
  ASSUME CallTypeOK, Answering
  PROVE  AnswerAccounted
<1> SUFFICES ASSUME answer = "answered"
             PROVE  LET winner == calls[Len(calls)].target IN
                    /\ attempts[Len(attempts)] = [target |-> winner, kind |-> "success"]
                    /\ stored \in {0, winner}
                    /\ archived # NotArchived =>
                         /\ archived.winner + 1 \in DOMAIN archived.attempts
                         /\ archived.attempts[archived.winner + 1].target = winner
                    /\ faults = 0 => stored = winner /\ (server.archive <=> archived # NotArchived)
  BY DEF AnswerAccounted
<1>1. /\ calls[Len(calls)].target = current
      /\ attempts # <<>> /\ attempts \in Seq(Attempt)
      /\ attempts[Len(attempts)] = [target |-> current, kind |-> "success"]
      /\ stored \in {0, current} /\ (faults = 0 => stored = current)
      /\ archived \in {NotArchived, ArchiveRecord}
      /\ faults = 0 => (archived = IF server.archive THEN ArchiveRecord ELSE NotArchived)
  BY DEF Answering, CallTypeOK
<1>2. Len(attempts) \in Nat /\ Len(attempts) > 0 /\ DOMAIN attempts = 1 .. Len(attempts)
  BY <1>1
<1>3. ArchiveRecord.winner + 1 = Len(attempts) /\ ArchiveRecord.attempts = attempts
  BY <1>2 DEF ArchiveRecord
<1>4. ArchiveRecord # NotArchived
  BY <1>1, <1>3 DEF NotArchived
<1>5. attempts[Len(attempts)].target = current /\ Len(attempts) \in DOMAIN attempts
  BY <1>1, <1>2
<1>6. server.archive \in BOOLEAN
  BY DEF CallTypeOK
<1>7. CASE archived = NotArchived
  BY <1>1, <1>4, <1>6, <1>7
<1>8. CASE archived = ArchiveRecord
  BY <1>1, <1>3, <1>4, <1>5, <1>6, <1>8
<1> QED BY <1>1, <1>7, <1>8

LEMMA AnsweringStep ==
  ASSUME CallTypeOK, Bounded, SentInOrder, Answering, CallStep
  PROVE  Answering'
<1>0. attempts \in Seq(Attempt) /\ faults \in Nat
  BY CallAssumption DEF CallTypeOK
<1> USE DEF inputs, traces, Goto, Over
<1>1. ASSUME pc' \notin {"log", "archive", "done", "gone"}, ~Over,
             pc \notin {"log", "archive"},
             UNCHANGED <<stored, archived, answer>>
      PROVE  Answering'
  BY <1>1 DEF Answering
<1>2. ASSUME NEW kind \in Kinds, Refuse(kind), pc \notin {"log", "archive"}, ~Over,
             UNCHANGED <<stored, archived>>
      PROVE  Answering'
  <2>1. kind # "answered"
    BY DEF Kinds, ProbeErrors, UpstreamErrors, Eligible
  <2> QED BY <1>2, <2>1 DEF Answering, Refuse
<1>3. /\ UpstreamErrors \subseteq Kinds /\ ProbeErrors \subseteq Kinds
      /\ {"protocol_not_supported", "upstream_unavailable", "upstream_timeout",
          "auth_failed", "internal_error", "context_length_exceeded"} \subseteq Kinds
  BY DEF Kinds, ProbeErrors, UpstreamErrors, Eligible
<1>4. CASE NoWindow \/ ToolsUnsupported
  BY <1>1, <1>4 DEF NoWindow, ToolsUnsupported, Considering, PassOver
<1>5. CASE Overflows
  BY <1>1, <1>2, <1>3, <1>5 DEF Overflows, Considering, PassOver
<1>6. CASE FitsTarget \/ KeyFound \/ CallTarget \/ HandleMissing
  BY <1>1, <1>6 DEF FitsTarget, KeyFound, CallTarget, HandleMissing, Considering
<1>7. CASE KeyRefused \/ ProtocolFails
  BY <1>2, <1>3, <1>7 DEF KeyRefused, ProtocolFails
<1>8. CASE CallFails
  <2>1. \E kind \in Kinds, entry \in Kinds \cup {"upstream_error"} : Fail(kind, entry)
    BY <1>3, <1>8 DEF CallFails
  <2> QED BY <1>1, <1>2, <1>8, <2>1 DEF CallFails, Fail, PassOver
<1>9. CASE Succeeds
  BY <1>1, <1>9 DEF Succeeds
<1>10. CASE StoreResponse
  <2>1. /\ pc = "store" /\ pc' = "log" /\ UNCHANGED <<current, calls, archived, answer>>
        /\ stored' \in {0, current} /\ (faults' = 0 => stored' = current)
    BY <1>0, <1>10 DEF StoreResponse, Fault, Answering
  <2> QED BY <2>1 DEF Answering, SentInOrder, Sent
<1>11. CASE LogSuccess
  <2>1. current \in Targets
    BY <1>11 DEF LogSuccess, Bounded, AtRow
  <2>2. [target |-> current, kind |-> "success"] \in Attempt
    BY <2>1 DEF Attempt
  <2>3. /\ Len(attempts') = Len(attempts) + 1 /\ Len(attempts) \in Nat
        /\ attempts'[Len(attempts) + 1] = [target |-> current, kind |-> "success"]
    BY <1>0, <1>11, <2>2, Appended DEF LogSuccess
  <2>4. attempts' # <<>>
    BY <2>3
  <2>5. /\ pc = "log" /\ pc' = "archive"
        /\ UNCHANGED <<current, calls, stored, archived, answer>>
        /\ faults' = 0 => faults = 0
    BY <1>0, <1>11 DEF LogSuccess, Log, Fault
  <2> QED BY <2>3, <2>4, <2>5 DEF Answering
<1>12. CASE Answer
  <2>1. /\ pc = "archive" /\ pc' = "done" /\ answer' = "answered"
        /\ UNCHANGED <<server, current, calls, stored, attempts>>
        /\ faults' = 0 => faults = 0
    BY <1>0, <1>12 DEF Answer, Fault
  <2>2. archived = NotArchived
    BY <2>1 DEF Answering
  <2>3. archived' \in {NotArchived, ArchiveRecord}
        /\ (faults' = 0 => (archived' = IF server.archive THEN ArchiveRecord ELSE NotArchived))
    BY <1>0, <1>12, <2>2 DEF Answer, Fault
  <2>4. ArchiveRecord' = ArchiveRecord /\ NotArchived' = NotArchived
    BY <2>1 DEF ArchiveRecord, NotArchived
  <2> QED BY <2>1, <2>3, <2>4 DEF Answering
<1>13. CASE Exhausted
  <2>1. lastError \in Kinds \cup {"none"} /\ lastError # "answered"
    BY DEF CallTypeOK, Kinds, ProbeErrors, UpstreamErrors, Eligible
  <2> QED BY <1>13, <2>1 DEF Exhausted, Refuse, Answering
<1>14. CASE CallerLeaves
  BY <1>14 DEF CallerLeaves, Answering
<1> QED
  BY <1>4, <1>5, <1>6, <1>7, <1>8, <1>9, <1>10, <1>11, <1>12, <1>13, <1>14 DEF CallStep

\* What is said of a target depends on its row and on its own attempts.
LEMMA ErrorsStay ==
  ASSUME CallTypeOK, NEW t,
         \/ attempts' = attempts
         \/ \E e \in Attempt : e.target # t /\ attempts' = Append(attempts, e)
  PROVE  CallErrors(t)' = CallErrors(t)
<1>1. CASE attempts' = attempts
  BY <1>1 DEF CallErrors
<1>2. ASSUME NEW e \in Attempt, e.target # t, attempts' = Append(attempts, e)
      PROVE  CallErrors(t)' = CallErrors(t)
  <2>1. /\ DOMAIN attempts' = DOMAIN attempts \cup {Len(attempts) + 1}
        /\ \A i \in DOMAIN attempts : attempts'[i] = attempts[i]
        /\ attempts'[Len(attempts) + 1] = e
    BY <1>2, Appended DEF CallTypeOK
  <2>2. {j \in DOMAIN attempts' : attempts'[j].target = t}
          = {j \in DOMAIN attempts : attempts[j].target = t}
    BY <1>2, <2>1
  <2>3. \A i \in {j \in DOMAIN attempts : attempts[j].target = t} :
          attempts'[i].kind = attempts[i].kind
    BY <2>1
  <2> QED BY <2>2, <2>3 DEF CallErrors
<1> QED BY <1>1, <1>2

LEMMA ReasonsStay ==
  ASSUME NEW t, UNCHANGED <<server, target, request>>, CallErrors(t)' = CallErrors(t)
  PROVE  GivenUp(t)' = GivenUp(t) /\ Passable(t)' = Passable(t)
<1>1. TooSmall(t)' = TooSmall(t)
  BY DEF TooSmall, Fits, WithinLimit, Estimate, RequestedOutput, Asked, SafeBudget, Margin
<1> QED BY <1>1 DEF GivenUp, Passable

\* A step records at most an attempt of the target at hand.
LEMMA AttemptsOfTheCurrent ==
  ASSUME CallTypeOK, Bounded, CallStep
  PROVE  /\ UNCHANGED <<server, target, request>>
         /\ \/ attempts' = attempts
            \/ \E e \in Attempt : e.target = current /\ attempts' = Append(attempts, e)
<1> USE DEF inputs, traces, Goto
<1>1. CASE LogSuccess
  <2>1. [target |-> current, kind |-> "success"] \in Attempt
    BY <1>1 DEF LogSuccess, Bounded, AtRow, Attempt
  <2> QED BY <1>1, <2>1 DEF LogSuccess
<1>2. CASE CallFails
  <2>1. PICK kind \in UpstreamErrors, entry \in Kinds \cup {"upstream_error"} : Fail(kind, entry)
    <3>1. \A kind \in {"upstream_unavailable", "upstream_timeout"} : kind \in UpstreamErrors
      BY DEF UpstreamErrors, Eligible
    <3> QED BY <1>2, <3>1 DEF CallFails, Kinds
  <2>2. [target |-> current, kind |-> kind] \in Attempt
    BY <1>2 DEF CallFails, Bounded, AtRow, Attempt, Kinds
  <2> QED BY <1>2, <2>1, <2>2 DEF CallFails, Fail
<1>3. CASE NoWindow \/ Overflows \/ FitsTarget \/ KeyFound \/ KeyRefused \/ ProtocolFails
           \/ ToolsUnsupported \/ CallTarget \/ HandleMissing \/ Succeeds \/ StoreResponse
           \/ Answer \/ Exhausted \/ CallerLeaves
  BY <1>3 DEF NoWindow, Overflows, FitsTarget, KeyFound, KeyRefused, ProtocolFails,
     ToolsUnsupported, CallTarget, HandleMissing, Succeeds, StoreResponse, Answer,
     Exhausted, CallerLeaves
<1> QED BY <1>1, <1>2, <1>3 DEF CallStep

LEMMA EarlierStay ==
  ASSUME CallTypeOK, Bounded, Refusing, CallStep
  PROVE  \A t \in Targets : t < current => Passable(t)'
<1> SUFFICES ASSUME NEW t \in Targets, t < current PROVE Passable(t)'
  OBVIOUS
<1>1. t # current
  BY CallAssumption DEF Targets, CallTypeOK
<1> QED BY <1>1, AttemptsOfTheCurrent, ErrorsStay, ReasonsStay DEF Refusing

\* Why a target without an attempt is given up follows from its row.
LEMMA GivenUpAtRow ==
  ASSUME CallTypeOK, FailedInOrder, current \in Targets,
         pc \in {"consider", "key", "protocol"}
  PROVE  /\ CallErrors(current) = {}
         /\ TooSmall(current) = (Unmeasured \/ ~Fits(request, Row))
         /\ TooSmall(current) => GivenUp(current) = {"context_length_exceeded"}
         /\ ~TooSmall(current) =>
              /\ Row.key = "mismatch" => GivenUp(current) = {"auth_failed"}
              /\ Row.key = "missing" => GivenUp(current) = {"internal_error"}
              /\ (Row.key = "found" /\ Row.wire = "auto") =>
                   GivenUp(current) =
                     {"protocol_not_supported", "internal_error"} \cup ProbeErrors
<1>1. \A i \in DOMAIN attempts : attempts[i].target < current
  BY DEF FailedInOrder
<1>2. current \in Nat
  BY CallAssumption DEF Targets
<1>3. \A i \in DOMAIN attempts : attempts[i].target # current
  BY <1>1, <1>2
<1>4. CallErrors(current) = {}
  BY <1>3 DEF CallErrors
<1>5. TooSmall(current) = (Unmeasured \/ ~Fits(request, Row))
  BY DEF TooSmall, Unmeasured, Row
<1> QED
  BY <1>4, <1>5 DEF GivenUp, Row

\* A refusal, or a pass to the next target, for one of the reasons of the target
\* at hand.
LEMMA GivenUpNow ==
  ASSUME CallTypeOK, NEW t \in Targets, current = t, ~Over, pc \notin {"log", "archive"},
         Answering, UNCHANGED <<inputs, stored, archived>>,
         \A u \in Targets : u < t => Passable(u)',
         NEW kind, PassOver(kind) \/ Refuse(kind),
         kind \in GivenUp(t)',
         PassOver(kind) => Passable(t)',
         Refuse(kind) =>
           kind \notin Eligible \/ (CallErrors(t)' = {} /\ target[t].wire = "auto")
  PROVE  Refusing' /\ RefusalIsOfTheLast'
<1>1. t \in Nat /\ t >= 1 /\ t <= TargetCount /\ TargetCount \in Nat /\ Targets \subseteq Nat
  BY CallAssumption DEF Targets
<1>2. CASE PassOver(kind)
  <2>1. pc' = "consider" /\ current' = t + 1 /\ lastError' = kind
    BY <1>2 DEF PassOver
  <2>2. current' - 1 = t
    BY <1>1, <2>1
  <2>3. lastError' \in GivenUp(current - 1)'
    BY <2>1, <2>2
  <2>4. \A u \in Targets : u < current' => Passable(u)'
    BY <1>1, <1>2, <2>1
  <2> QED BY <2>1, <2>3, <2>4 DEF Refusing, RefusalIsOfTheLast
<1>3. CASE Refuse(kind)
  <2>1. pc' = "done" /\ current' = t /\ answer' = kind /\ target' = target
    BY <1>3 DEF Refuse, inputs
  <2>2. stored' = 0 /\ archived' = NotArchived
    BY DEF Answering, Over
  <2>3. (IF current' > TargetCount THEN TargetCount ELSE current') = t
    BY <1>1, <2>1
  <2>4. RefusalIsOfTheLast'
    BY <1>3, <2>1, <2>2, <2>3 DEF RefusalIsOfTheLast, NotArchived
  <2> QED BY <2>1, <2>4 DEF Refusing
<1> QED BY <1>2, <1>3

LEMMA RefusingStep ==
  ASSUME CallTypeOK, Bounded, SentInOrder, FailedInOrder, Answering, Refusing,
         RefusalIsOfTheLast, CallStep
  PROVE  Refusing' /\ RefusalIsOfTheLast'
<1>0. /\ TargetCount \in Nat \ {0} /\ Targets = 1 .. TargetCount
      /\ current \in 1 .. TargetCount + 1 /\ attempts \in Seq(Attempt)
  BY CallAssumption DEF Targets, CallTypeOK
<1>a. \A t \in Targets : t < current => Passable(t)'
  BY EarlierStay
<1> USE DEF inputs, traces, Goto, Over
<1>1. ASSUME pc' \notin {"consider", "key", "protocol"}, UNCHANGED current,
             pc' = "done" => answer' = "answered"
      PROVE  Refusing' /\ RefusalIsOfTheLast'
  BY <1>a, <1>1 DEF Refusing, RefusalIsOfTheLast
<1>2. ASSUME NEW t \in Targets, current = t, UNCHANGED <<server, target, request, attempts>>
      PROVE  /\ GivenUp(t)' = GivenUp(t) /\ Passable(t)' = Passable(t)
             /\ CallErrors(t)' = CallErrors(t)
  <2>1. CallErrors(t)' = CallErrors(t)
    BY <1>2 DEF CallErrors
  <2> QED BY <1>2, <2>1, ReasonsStay
<1>3. CASE NoWindow
  <2>1. PICK t \in Targets : current = t /\ pc = "consider"
    BY <1>3 DEF NoWindow, Considering
  <2>2. /\ GivenUp(t) = {"context_length_exceeded"} /\ CallErrors(t) = {} /\ TooSmall(t)
        /\ server.public /\ target[t].window = None
    BY <1>3, <2>1, GivenUpAtRow DEF NoWindow, Unmeasured, Row
  <2>3. Passable(t)
    BY <2>2 DEF Passable
  <2>4. "context_length_exceeded" \in GivenUp(t)' /\ Passable(t)'
    BY <1>2, <1>3, <2>1, <2>2, <2>3 DEF NoWindow
  <2> QED BY <1>a, <1>3, <2>1, <2>4, GivenUpNow DEF NoWindow, PassOver, Refuse
<1>4. CASE Overflows
  <2>1. PICK t \in Targets : current = t /\ pc = "consider"
    BY <1>4 DEF Overflows, Considering
  <2>2. GivenUp(t) = {"context_length_exceeded"} /\ CallErrors(t) = {} /\ TooSmall(t)
    BY <1>4, <2>1, GivenUpAtRow DEF Overflows
  <2>3. target[t].fallback => Passable(t)
    BY <2>2 DEF Passable
  <2>4. "context_length_exceeded" \in GivenUp(t)' /\ Passable(t)' = Passable(t)
    BY <1>2, <1>4, <2>1, <2>2 DEF Overflows
  <2>5. "context_length_exceeded" \notin Eligible
    BY DEF Eligible
  <2>6. \/ PassOver("context_length_exceeded") /\ Passable(t)' /\ pc' = "consider"
        \/ Refuse("context_length_exceeded") /\ pc' = "done"
    BY <1>4, <2>1, <2>3, <2>4 DEF Overflows, PassOver, Refuse, Row
  <2> QED BY <1>a, <1>4, <2>1, <2>4, <2>5, <2>6, GivenUpNow DEF Overflows, PassOver, Refuse
<1>5. CASE FitsTarget
  <2>1. current' = current
    BY <1>5 DEF FitsTarget
  <2> QED BY <1>a, <1>5, <2>1 DEF FitsTarget, Refusing, RefusalIsOfTheLast, Unmeasured, Row
<1>6. CASE KeyFound
  <2>1. current' = current
    BY <1>6 DEF KeyFound
  <2> QED BY <1>a, <1>6, <2>1 DEF KeyFound, Refusing, RefusalIsOfTheLast, Unmeasured, Row
<1>7. CASE KeyRefused
  <2>1. PICK t \in Targets : current = t /\ pc = "key"
    BY <1>7 DEF KeyRefused, Bounded, AtRow
  <2>2. ~TooSmall(t)
    BY <2>1, GivenUpAtRow DEF Refusing, SentInOrder
  <2>3. GivenUp(t)' = GivenUp(t)
    BY <1>2, <1>7, <2>1 DEF KeyRefused
  <2>4. \/ Refuse("auth_failed") /\ GivenUp(t) = {"auth_failed"}
        \/ Refuse("internal_error") /\ GivenUp(t) = {"internal_error"}
    BY <1>7, <2>1, <2>2, GivenUpAtRow DEF KeyRefused
  <2>5. "auth_failed" \notin Eligible /\ "internal_error" \notin Eligible
    BY DEF Eligible
  <2>6. \A kind : Refuse(kind) => ~PassOver(kind)
    BY DEF Refuse, PassOver
  <2> QED BY <1>a, <1>7, <2>1, <2>3, <2>4, <2>5, <2>6, GivenUpNow DEF KeyRefused
<1>8. CASE ProtocolFails
  <2>1. PICK t \in Targets : current = t /\ pc = "protocol" /\ target[t].wire = "auto"
    BY <1>8 DEF ProtocolFails, Bounded, AtRow, Row
  <2>2. /\ GivenUp(t) = {"protocol_not_supported", "internal_error"} \cup ProbeErrors
        /\ CallErrors(t) = {}
    BY <2>1, GivenUpAtRow DEF Refusing, SentInOrder, Row
  <2>3. GivenUp(t)' = GivenUp(t) /\ CallErrors(t)' = {}
    BY <1>2, <1>8, <2>1, <2>2 DEF ProtocolFails
  <2>4. \E kind \in GivenUp(t) : Refuse(kind)
    BY <1>8, <2>2 DEF ProtocolFails
  <2>5. UNCHANGED <<server, target, request, attempts, stored, archived>>
    BY <1>8 DEF ProtocolFails
  <2>6. \A kind : Refuse(kind) => ~PassOver(kind)
    BY DEF Refuse, PassOver
  <2> QED BY <1>a, <2>1, <2>3, <2>4, <2>5, <2>6, GivenUpNow
<1>9. CASE ToolsUnsupported
  <2>1. PICK t \in Targets : current = t /\ pc = "protocol" /\ target[t].wire = "auto"
    BY <1>9 DEF ToolsUnsupported, Bounded, AtRow, Row
  <2>2. /\ GivenUp(t) = {"protocol_not_supported", "internal_error"} \cup ProbeErrors
        /\ CallErrors(t) = {} /\ ~TooSmall(t) /\ target[t].key = "found"
    BY <2>1, GivenUpAtRow DEF Refusing, SentInOrder, Row
  <2>3. Passable(t)
    BY <1>9, <2>1, <2>2 DEF Passable, ToolsUnsupported
  <2>4. GivenUp(t)' = GivenUp(t) /\ Passable(t)'
    BY <1>2, <1>9, <2>1, <2>3 DEF ToolsUnsupported
  <2> QED BY <1>a, <1>9, <2>1, <2>2, <2>4, GivenUpNow DEF ToolsUnsupported, PassOver, Refuse
<1>10. CASE CallTarget \/ HandleMissing \/ Succeeds \/ StoreResponse \/ LogSuccess
       \/ Answer \/ CallerLeaves
  BY <1>1, <1>10 DEF CallTarget, HandleMissing, Succeeds, StoreResponse, LogSuccess,
                     Answer, CallerLeaves
<1>11. CASE CallFails
  <2>1. PICK t \in Targets : current = t /\ pc \in {"call", "retry"}
    BY <1>11 DEF CallFails, Bounded, AtRow
  <2>2. PICK kind \in UpstreamErrors, entry \in Kinds \cup {"upstream_error"} : Fail(kind, entry)
    <3>1. \A kind \in {"upstream_unavailable", "upstream_timeout"} : kind \in UpstreamErrors
      BY DEF UpstreamErrors, Eligible
    <3> QED BY <1>11, <3>1 DEF CallFails, Kinds
  <2>3. attempts' = Append(attempts, [target |-> t, kind |-> kind])
        /\ IF kind \in Eligible THEN PassOver(kind) ELSE Refuse(kind)
    BY <2>1, <2>2 DEF Fail
  <2>4. [target |-> t, kind |-> kind] \in Attempt
    BY DEF Attempt, Kinds
  <2>5. /\ DOMAIN attempts' = DOMAIN attempts \cup {Len(attempts) + 1}
        /\ attempts'[Len(attempts) + 1] = [target |-> t, kind |-> kind]
        /\ \A i \in DOMAIN attempts : attempts'[i] = attempts[i]
    BY <1>0, <2>3, <2>4, Appended
  <2>6. \A i \in DOMAIN attempts : attempts'[i].target # t
    BY <1>0, <2>1, <2>5 DEF FailedInOrder
  <2>7. CallErrors(t)' = {kind}
    <3>1. {j \in DOMAIN attempts' : attempts'[j].target = t} = {Len(attempts) + 1}
      BY <2>5, <2>6
    <3> QED BY <2>5, <3>1 DEF CallErrors
  <2>8. kind \in GivenUp(t)' /\ (kind \in Eligible => Passable(t)')
    BY <2>7 DEF GivenUp, Passable
  <2>9. (PassOver(kind) => kind \in Eligible) /\ (Refuse(kind) => kind \notin Eligible)
    BY <2>3 DEF PassOver, Refuse
  <2> QED BY <1>a, <1>11, <2>1, <2>3, <2>8, <2>9, GivenUpNow DEF CallFails
<1>12. CASE Exhausted
  <2>1. /\ pc = "consider" /\ current = TargetCount + 1 /\ pc' = "done"
        /\ answer' = lastError /\ current' = current
        /\ UNCHANGED <<server, target, request, attempts, stored, archived>>
    BY <1>0, <1>12 DEF Exhausted, Refuse
  <2>2. current - 1 = TargetCount /\ current > 1 /\ TargetCount \in Targets
        /\ current' \notin Targets /\ current' > TargetCount
    BY <1>0, <2>1
  <2>3. lastError \in GivenUp(TargetCount)
    BY <2>1, <2>2 DEF Refusing
  <2>4. GivenUp(TargetCount)' = GivenUp(TargetCount)
    BY <2>1, ReasonsStay DEF CallErrors
  <2>5. stored' = 0 /\ archived' = NotArchived
    BY <2>1 DEF Answering
  <2>6. RefusalIsOfTheLast'
    BY <1>a, <2>1, <2>2, <2>3, <2>4, <2>5 DEF RefusalIsOfTheLast, NotArchived
  <2> QED BY <1>a, <2>1, <2>6 DEF Refusing
<1> QED
  BY <1>3, <1>4, <1>5, <1>6, <1>7, <1>8, <1>9, <1>10, <1>11, <1>12 DEF CallStep

-----------------------------------------------------------------------------
(* CallInv is inductive, and survives what the rest of the system does.     *)

LEMMA CallInvInit == CallInit => CallInv
<1> SUFFICES ASSUME CallInit PROVE CallInv
  OBVIOUS
<1> USE DEF CallInit
<1>0. TargetCount \in Nat \ {0} /\ MaxFaults \in Nat
  BY CallAssumption
<1>1. NotArchived \in [winner : 0 .. TargetCount, attempts : Seq(Attempt)]
  BY <1>0 DEF NotArchived
<1>2. CallTypeOK
  BY <1>0, <1>1 DEF CallTypeOK
<1>3. Bounded /\ SentInOrder
  BY <1>0 DEF Bounded, SentInOrder, AtRow, Sent
<1>4. CallsFit /\ FailedInOrder
  BY DEF CallsFit, FailedInOrder
<1>5. AttemptsMirrorCalls
  BY DEF AttemptsMirrorCalls, Trying
<1>6. Answering /\ Refusing /\ RefusalIsOfTheLast
  BY <1>0 DEF Answering, Refusing, RefusalIsOfTheLast, Over, Targets
<1> QED BY <1>2, <1>3, <1>4, <1>5, <1>6 DEF CallInv

LEMMA CallInvStep == CallInv /\ CallStep => CallInv'
  BY TypeStep, BoundedStep, SentStep, AttemptsStep, AnsweringStep, RefusingStep DEF CallInv

\* Another fault, elsewhere, changes nothing that is said of the call.
LEMMA CallInvKept ==
  ASSUME CallInv, faults' \in 0 .. MaxFaults, faults' = 0 => faults = 0,
         UNCHANGED <<inputs, pc, current, lastError, traces, answer>>
  PROVE  CallInv'
<1> USE DEF inputs, traces, CallInv
<1>1. CallTypeOK'
  BY DEF CallTypeOK
<1>2. Bounded' /\ FailedInOrder'
  BY DEF Bounded, FailedInOrder, Over
<1>3. SentInOrder' /\ CallsFit'
  <2>1. Fits(request, Row)' = Fits(request, Row) /\ ByHandle' = ByHandle
    BY DEF Fits, WithinLimit, Estimate, RequestedOutput, Asked, SafeBudget, Margin, Row,
           ByHandle, Continues
  <2> QED BY <2>1 DEF SentInOrder, CallsFit, Margin
<1>4. AttemptsMirrorCalls'
  <2>1. (IF Trying' THEN {current'} ELSE {}) = (IF Trying THEN {current} ELSE {})
    BY DEF Trying
  <2> QED BY <2>1 DEF AttemptsMirrorCalls
<1>5. Answering'
  BY DEF Answering, Over, ArchiveRecord, NotArchived
<1>6. Refusing' /\ RefusalIsOfTheLast'
  <2>1. \A t : CallErrors(t)' = CallErrors(t)
    BY DEF CallErrors
  <2>2. \A t : GivenUp(t)' = GivenUp(t) /\ Passable(t)' = Passable(t)
    BY <2>1, ReasonsStay
  <2> QED BY <2>1, <2>2 DEF Refusing, RefusalIsOfTheLast, Unmeasured, Row, NotArchived
<1> QED BY <1>1, <1>2, <1>3, <1>4, <1>5, <1>6

\* After the answer the call takes no step.
LEMMA AnsweredIsOver ==
  ASSUME Answering, answer = "answered"
  PROVE  ~CallStep
<1>1. pc = "done"
  BY DEF Answering
<1> QED
  BY <1>1 DEF CallStep, NoWindow, Overflows, FitsTarget, KeyFound, KeyRefused, ProtocolFails,
     ToolsUnsupported, CallTarget, HandleMissing, CallFails, Succeeds, StoreResponse,
     LogSuccess, Answer, Exhausted, CallerLeaves, Considering, Goto

-----------------------------------------------------------------------------
(* The inductive invariant of Compaction.                                   *)

\* A step of the compaction leaves the call as it was, faults apart.
LEMMA CompactKeepsCall ==
  ASSUME CallTypeOK, CompactStep
  PROVE  /\ UNCHANGED <<inputs, pc, current, lastError, traces, answer>>
         /\ faults' \in 0 .. MaxFaults /\ (faults' = 0 => faults = 0)
         /\ UNCHANGED mode
<1>0. MaxFaults \in Nat /\ faults \in 0 .. MaxFaults
  BY CallAssumption DEF CallTypeOK
<1> USE <1>0 DEF callVars, Unchanged
<1>1. CASE Compact \/ LoadSource \/ PassTarget \/ CallCompact \/ CompactFails \/ CompactSucceeds
  BY <1>1 DEF Compact, LoadSource, PassTarget, CallCompact, CompactFails, CompactSucceeds
<1>2. CASE SourceMissing \/ ResolveFails \/ RecordNative
  BY <1>2 DEF SourceMissing, ResolveFails, RecordNative, Fault, Refused, traces, inputs
<1>3. CASE NativeExhausted \/ NothingToSummarise
  BY <1>3 DEF NativeExhausted, NothingToSummarise
<1>4. CASE Summarise \/ RecordSummary
  BY <1>4 DEF Summarise, RecordSummary, Fault
<1> QED
  BY <1>1, <1>2, <1>3, <1>4 DEF CompactStep

LEMMA TypeCompact ==
  ASSUME TypeOK, CallTypeOK', Compacting, CompactStep
  PROVE  TypeOK'
<1>0. TargetCount \in Nat \ {0} /\ Targets = 1 .. TargetCount /\ stored \in 0 .. TargetCount
  BY CallAssumption DEF Targets, TypeOK, CallTypeOK
<1>1. /\ UpstreamErrors \subseteq Kinds /\ Eligible \subseteq Kinds /\ ProbeErrors \subseteq Kinds
      /\ {"internal_error", "request_invalid", "protocol_not_supported"} \subseteq Kinds
  BY DEF Kinds, ProbeErrors, UpstreamErrors, Eligible
<1>2. mode' = mode
  BY CompactKeepsCall DEF TypeOK
<1>3. ASSUME NEW kind \in Kinds \cup {"none", "state_not_found"}, Refused(kind)
      PROVE  /\ phase' = "over"
             /\ result' \in Kinds \cup {"none", "native", "summary", "state_not_found"}
  BY <1>3 DEF Refused
<1>4. ASSUME NEW m \in {"native_responses", "local_summary"}, NEW t \in Targets,
             InsertLineage(m, Space[t])
      PROVE  lineage' \in Seq(Lineage)
  <2>1. [method |-> m, space |-> Space[t], source |-> source] \in Lineage
    BY DEF Lineage, TypeOK
  <2> QED BY <1>4, <2>1, Appended DEF InsertLineage, TypeOK
<1> USE <1>2 DEF TypeOK, Unchanged
<1>5. CASE Compact \/ CompactSucceeds
  BY <1>5 DEF Compact, CompactSucceeds
<1>6. CASE LoadSource
  BY <1>6, <1>0 DEF LoadSource
<1>7. CASE SourceMissing
  BY <1>1, <1>3, <1>7 DEF SourceMissing
<1>8. CASE PassTarget
  BY <1>0, <1>8 DEF PassTarget, AtTarget
<1>9. CASE ResolveFails
  BY <1>1, <1>3, <1>9 DEF ResolveFails
<1>10. CASE CallCompact
  <2>1. next \in Targets
    BY <1>10 DEF CallCompact, AtTarget
  <2>2. compacted' \in Seq(Targets)
    BY <1>10, <2>1, Appended DEF CallCompact
  <2> QED BY <1>10, <2>2 DEF CallCompact
<1>11. CASE CompactFails
  BY <1>0, <1>1, <1>3, <1>11 DEF CompactFails, Compacting
<1>12. CASE RecordNative
  <2>1. next \in Targets
    BY <1>12 DEF RecordNative, Compacting
  <2>2. lineage' \in Seq(Lineage)
    BY <1>4, <1>12, <2>1 DEF RecordNative
  <2> QED BY <1>12, <2>2 DEF RecordNative
<1>13. CASE NativeExhausted
  BY <1>1, <1>3, <1>13 DEF NativeExhausted
<1>14. CASE NothingToSummarise
  BY <1>1, <1>3, <1>14 DEF NothingToSummarise
<1>15. CASE Summarise
  BY <1>1, <1>3, <1>15 DEF Summarise
<1>16. CASE RecordSummary
  <2>1. source \in Targets
    BY <1>0, <1>16 DEF RecordSummary, Compacting
  <2>2. lineage' \in Seq(Lineage)
    BY <1>4, <1>16, <2>1 DEF RecordSummary
  <2> QED BY <1>1, <1>3, <1>16, <2>2 DEF RecordSummary
<1> QED
  BY <1>5, <1>6, <1>7, <1>8, <1>9, <1>10, <1>11, <1>12, <1>13, <1>14, <1>15, <1>16
  DEF CompactStep

\* A source is only taken from the stored row, a target is only asked when it
\* matches it, and lineage is written by the last step.
LEMMA CompactingStep ==
  ASSUME TypeOK, Answering, Compacting, CompactStep
  PROVE  Compacting'
<1>0. compacted \in Seq(Targets)
  BY DEF TypeOK
<1>1. UNCHANGED <<answer, stored>>
  BY CompactKeepsCall DEF TypeOK, traces
<1> USE <1>1 DEF Compacting, Unchanged, Refused
<1>2. CASE Compact \/ LoadSource \/ SourceMissing
  BY <1>2 DEF Compact, LoadSource, SourceMissing
<1>3. CASE PassTarget \/ ResolveFails
  BY <1>3 DEF PassTarget, ResolveFails, AtTarget
<1>4. CASE CallCompact
  <2>1. /\ phase = "native" /\ phase' = "call" /\ next \in Targets
        /\ compacted' = Append(compacted, next)
        /\ UNCHANGED <<source, next, lineage, result>>
        /\ source # 0 => Space[next] = Space[source]
    BY <1>4 DEF CallCompact, AtTarget, MatchesSource
  <2>2. /\ compacted' # <<>> /\ Len(compacted') = Len(compacted) + 1
        /\ DOMAIN compacted' = DOMAIN compacted \cup {Len(compacted) + 1}
        /\ \A i \in DOMAIN compacted : compacted'[i] = compacted[i]
        /\ compacted'[Len(compacted) + 1] = next
    BY <1>0, <2>1, Appended
  <2> QED BY <2>1, <2>2
<1>5. CASE CompactFails \/ CompactSucceeds \/ RecordNative
  BY <1>5 DEF CompactFails, CompactSucceeds, RecordNative
<1>6. CASE NativeExhausted \/ NothingToSummarise \/ Summarise \/ RecordSummary
  BY <1>6 DEF NativeExhausted, NothingToSummarise, Summarise, RecordSummary
<1> QED
  BY <1>2, <1>3, <1>4, <1>5, <1>6 DEF CompactStep

\* The lineage of a compaction is there when it ends.
LEMMA LineageStep ==
  ASSUME TypeOK, CallInv, Compacting, LineageTold, CompactStep
  PROVE  LineageTold'
<1>0. /\ UNCHANGED <<stored, calls>> /\ faults \in Nat
      /\ lineage \in Seq(Lineage)
  BY CallAssumption, CompactKeepsCall DEF TypeOK, CallTypeOK, traces
<1>1. ASSUME phase' # "over"
      PROVE  LineageTold'
  BY <1>1 DEF LineageTold
<1>2. ASSUME NEW kind \in Kinds \cup {"state_not_found"}, Refused(kind), phase # "over",
             UNCHANGED lineage
      PROVE  LineageTold'
  <2>1. kind # "summary" /\ kind # "native"
    BY DEF Kinds, ProbeErrors, UpstreamErrors, Eligible
  <2> QED BY <1>2, <2>1 DEF LineageTold, Refused, Compacting
<1>3. /\ UpstreamErrors \subseteq Kinds /\ Eligible \subseteq Kinds /\ ProbeErrors \subseteq Kinds
      /\ {"internal_error", "request_invalid", "protocol_not_supported"} \subseteq Kinds
      /\ failed \in Kinds \cup {"none"}
  BY DEF Kinds, ProbeErrors, UpstreamErrors, Eligible, TypeOK
<1> USE DEF Unchanged
<1>4. CASE Compact \/ LoadSource \/ PassTarget \/ CallCompact \/ CompactSucceeds
  BY <1>1, <1>4 DEF Compact, LoadSource, PassTarget, CallCompact, CompactSucceeds, AtTarget
<1>5. CASE SourceMissing \/ ResolveFails
  BY <1>2, <1>3, <1>5 DEF SourceMissing, ResolveFails, AtTarget
<1>6. CASE CompactFails
  BY <1>1, <1>2, <1>3, <1>6 DEF CompactFails
<1>7. CASE RecordNative
  <2>1. /\ phase = "record" /\ phase' = "over" /\ result' = "native"
        /\ UNCHANGED compacted /\ lineage = <<>>
        /\ compacted[Len(compacted)] = next
    BY <1>7 DEF RecordNative, Compacting
  <2>2. CASE InsertLineage("native_responses", Space[next])
    <3>1. lineage' = <<[method |-> "native_responses", space |-> Space[next], source |-> source]>>
      BY <2>1, <2>2 DEF InsertLineage
    <3> QED BY <2>1, <3>1 DEF LineageTold
  <2>3. CASE Fault /\ UNCHANGED lineage
    BY <1>0, <2>1, <2>3 DEF LineageTold, Fault
  <2> QED BY <1>7, <2>2, <2>3 DEF RecordNative
<1>8. CASE NativeExhausted
  BY <1>1, <1>2, <1>3, <1>8 DEF NativeExhausted
<1>9. CASE NothingToSummarise \/ Summarise
  BY <1>1, <1>2, <1>3, <1>9 DEF NothingToSummarise, Summarise
<1>10. CASE RecordSummary
  <2>1. CASE InsertLineage("local_summary", Space[source]) /\ phase' = "over" /\ result' = "summary"
    <3>1. /\ source # 0 /\ source = stored /\ lineage = <<>> /\ answer = "answered"
      BY <1>10 DEF RecordSummary, Compacting
    <3>2. stored = calls[Len(calls)].target
      BY <3>1 DEF CallInv, Answering
    <3>3. lineage' = <<[method |-> "local_summary", space |-> Space[source], source |-> source]>>
      BY <2>1, <3>1 DEF InsertLineage
    <3> QED BY <1>0, <2>1, <3>1, <3>2, <3>3 DEF LineageTold
  <2> QED BY <1>2, <1>3, <1>10, <2>1 DEF RecordSummary
<1> QED
  BY <1>4, <1>5, <1>6, <1>7, <1>8, <1>9, <1>10 DEF CompactStep

\* The invariant holds of the handler of a request and of a compaction after it.
THEOREM Invariant == Spec => []IInv
<1>1. Init => IInv
  <2> SUFFICES ASSUME Init PROVE IInv
    OBVIOUS
  <2>0. TargetCount \in Nat \ {0}
    BY CallAssumption
  <2>1. CallInv
    BY CallInvInit DEF Init
  <2>2. TypeOK
    BY <2>0, <2>1 DEF Init, TypeOK, CallInv
  <2>3. Compacting /\ LineageTold
    BY DEF Init, Compacting, LineageTold
  <2> QED BY <2>1, <2>2, <2>3 DEF IInv
<1>2. IInv /\ [Next]_vars => IInv'
  <2> SUFFICES ASSUME IInv, [Next]_vars PROVE IInv'
    OBVIOUS
  <2>1. CASE CallStep /\ UNCHANGED compactVars
    <3>1. CallInv'
      BY <2>1, CallInvStep DEF IInv
    <3>2. TypeOK'
      BY <2>1, <3>1 DEF IInv, TypeOK, CallInv, compactVars
    <3>3. phase = "idle"
      BY <2>1, AnsweredIsOver DEF IInv, CallInv, Compacting
    <3>4. Compacting' /\ LineageTold'
      BY <2>1, <3>3 DEF IInv, Compacting, LineageTold, compactVars
    <3> QED BY <3>1, <3>2, <3>4 DEF IInv
  <2>2. CASE CompactStep
    <3>1. CallInv'
      BY <2>2, CompactKeepsCall, CallInvKept DEF IInv, CallInv
    <3>2. TypeOK' /\ Compacting' /\ LineageTold'
      BY <2>2, <3>1, TypeCompact, CompactingStep, LineageStep DEF IInv, CallInv
    <3> QED BY <3>1, <3>2 DEF IInv
  <2>3. CASE UNCHANGED vars
    <3>1. CallInv'
      <4>1. faults \in 0 .. MaxFaults
        BY DEF IInv, CallInv, CallTypeOK
      <4> QED BY <2>3, <4>1, CallInvKept DEF IInv, vars, callVars
    <3>2. TypeOK' /\ Compacting' /\ LineageTold'
      BY <2>3, <3>1 DEF IInv, CallInv, TypeOK, Compacting, LineageTold, vars, callVars,
                        compactVars, traces
    <3> QED BY <3>1, <3>2 DEF IInv
  <2> QED BY <2>1, <2>2, <2>3 DEF Next
<1> QED BY <1>1, <1>2, PTL DEF Spec

-----------------------------------------------------------------------------
(* What follows from it.                                                    *)

\* Type correctness of the handler of a request and of a compaction.
THEOREM TypeCorrect == Spec => []TypeOK
<1>1. IInv => TypeOK
  BY DEF IInv
<1> QED BY <1>1, Invariant, PTL

\* Whatever try_target sends fits the window of its target, the retry without the
\* handle included.
THEOREM EveryCallFits == Spec => []CallsFit
<1>1. IInv => CallsFit
  BY DEF IInv, CallInv
<1> QED BY <1>1, Invariant, PTL

\* routing_attempts names the targets that were called, and the request log agrees.
THEOREM AttemptsAreCalls == Spec => []AttemptsMirrorCalls
<1>1. IInv => AttemptsMirrorCalls
  BY DEF IInv, CallInv
<1> QED BY <1>1, Invariant, PTL

\* Row, archive, log and attempts of an answered request name the target that
\* answered.
THEOREM AnswersAccounted == Spec => []AnswerAccounted
<1>1. IInv => AnswerAccounted
  BY Accounted DEF IInv, CallInv
<1> QED BY <1>1, Invariant, PTL

\* The error a caller gets is about the last target that was looked at.
THEOREM RefusalsOfTheLast == Spec => []RefusalIsOfTheLast
<1>1. IInv => RefusalIsOfTheLast
  BY DEF IInv, CallInv
<1> QED BY <1>1, Invariant, PTL

\* A named response is compacted in the namespace of the target that answered it.
THEOREM CompactionsStayHome == Spec => []CompactedWhereAnswered
<1>1. IInv => CompactedWhereAnswered
  <2> SUFFICES ASSUME IInv, compacted # <<>>, source # 0, NEW i \in DOMAIN compacted
               PROVE  Space[compacted[i]] = Space[calls[Len(calls)].target]
    BY DEF CompactedWhereAnswered
  <2>1. Space[compacted[i]] = Space[source] /\ source = stored
    BY DEF IInv, Compacting
  <2>2. answer = "answered"
    BY DEF IInv, Compacting
  <2>3. stored = calls[Len(calls)].target
    BY <2>1, <2>2 DEF IInv, CallInv, Answering
  <2> QED BY <2>1, <2>3
<1> QED BY <1>1, Invariant, PTL

\* A compaction that is over has told its lineage, one insert that failed apart.
THEOREM LineageIsTold == Spec => []LineageTold
<1>1. IInv => LineageTold
  BY DEF IInv
<1> QED BY <1>1, Invariant, PTL
=============================================================================
