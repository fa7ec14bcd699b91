-------------------------- MODULE StreamRelayProofs --------------------------
(***************************************************************************)
(* Proofs about StreamRelay, for every number of targets, set of items,    *)
(* channel capacity and stream length.                                     *)
(***************************************************************************)
EXTENDS StreamRelay, TLAPS, SequenceTheorems, FiniteSetTheorems

-----------------------------------------------------------------------------
(* The inductive invariant.                                                 *)

\* Where the worker may be when the handler is at hpc, and what `committed`,
\* `ready` and `sent` say of one another.
WorkerRuns == wpc \in {"connect", "top", "wait", "send", "flush", "persist"}

Phase ==
  /\ hpc \in {"start", "select", "refused"}
       => sent = <<>> /\ wpc \in {"idle", "failed", "panicked"}
  /\ hpc \in {"await", "streaming"} => cur <= TargetCount
  /\ hpc = "streaming" => committed
  /\ WorkerRuns => committed \/ ready = "pending"
  /\ wpc = "connect" => ~committed
  /\ wpc \in {"flush", "persist", "done"} => committed
  /\ wpc = "failed" => ~committed
  /\ wpc = "aborted" => client = "gone"
  /\ wpc = "send" => out # <<>>
  /\ committed <=> sent # <<>>
  /\ committed <=> ready = "ok"

IInv == TypeOK /\ Phase

-----------------------------------------------------------------------------
(* Lemmas about the operators of the model.                                 *)

\* Events appended to a stream leave what was sent as its prefix.
LEMMA PrefixOfConcat ==
  ASSUME NEW S, NEW s \in Seq(S), NEW t \in Seq(S)
  PROVE  IsPrefix(s, s \o t) /\ IsPrefix(s, s)
  BY DEF IsPrefix

\* The stream's vocabulary.
LEMMA EventMembers ==
  /\ Created \in Event /\ Completed \in Event /\ Failed \in Event
  /\ \A i \in Items : Added(i) \in Event /\ Delta(i) \in Event /\ Done(i) \in Event
  /\ \A e \in Event : e.type \in {"added", "delta", "done"} => e.item \in Items
  BY DEF Event, Created, Completed, Failed, Added, Delta, Done

LEMMA EmptyStream == <<>> \in Seq(Event)
  OBVIOUS

\* A function on 1..n is a sequence.
LEMMA SeqOfFunction ==
  ASSUME NEW S, NEW n \in Nat, NEW f \in [1..n -> S]
  PROVE  f \in Seq(S)
  OBVIOUS

\* The closing events of a set of items form a sequence of done events.
LEMMA DoneEventsType ==
  ASSUME NEW items \in SUBSET Items, NEW t \in DoneEvents(items)
  PROVE  /\ t \in Seq(Event)
         /\ \A k \in DOMAIN t : t[k].type = "done"
<1>1. IsFiniteSet(items)
  BY StreamRelayAssumption, FS_Union, FS_Subset DEF Items
<1>2. Cardinality(items) \in Nat
  BY <1>1, FS_CardinalityType
<1>3. PICK s \in SetToSeqs(items) : t = [k \in DOMAIN s |-> Done(s[k])]
  BY DEF DoneEvents
<1>4. s \in [1..Cardinality(items) -> items]
  BY <1>3 DEF SetToSeqs
<1>5. \A k \in 1..Cardinality(items) : Done(s[k]) \in Event
  BY <1>4, EventMembers
<1>6. t \in [1..Cardinality(items) -> Event]
  BY <1>3, <1>4, <1>5
<1>7. t \in Seq(Event)
  BY <1>2, <1>6, SeqOfFunction
<1> QED
  BY <1>3, <1>4, <1>7 DEF Done

\* What ends a stream cleanly: closing events, and response.completed unless the
\* upstream sent it.
LEMMA SynthesizedEndType ==
  ASSUME text \subseteq Items, tools \subseteq Items,
         NEW tail \in SynthesizedEnd
  PROVE  /\ tail \in Seq(Event)
         /\ \A k \in DOMAIN tail : tail[k] # Failed
         /\ ~sawCompleted => \E k \in DOMAIN tail : tail[k] = Completed
<1>1. PICK t \in MissingTextDones, u \in MissingToolDones :
        tail = t \o u \o MissingCompleted
  BY DEF SynthesizedEnd
<1>2. /\ t \in Seq(Event) /\ \A k \in DOMAIN t : t[k].type = "done"
      /\ u \in Seq(Event) /\ \A k \in DOMAIN u : u[k].type = "done"
  <2>1. text \ doneItems \in SUBSET Items /\ tools \ doneItems \in SUBSET Items
    OBVIOUS
  <2> QED
    BY <1>1, <2>1, DoneEventsType DEF MissingTextDones, MissingToolDones
<1>4. MissingCompleted \in Seq(Event)
  BY EventMembers DEF MissingCompleted
<1> DEFINE tu == t \o u
<1>5. /\ tu \in Seq(Event)
      /\ \A k \in DOMAIN tu : tu[k].type = "done"
  BY <1>2
<1>6. tail = tu \o MissingCompleted
  BY <1>1
<1> HIDE DEF tu
<1>7. tail \in Seq(Event)
  BY <1>4, <1>5, <1>6
<1>8. \A k \in DOMAIN tail : tail[k].type = "done" \/ tail[k] = Completed
  BY <1>4, <1>5, <1>6 DEF MissingCompleted
<1>9. ~sawCompleted
        => tail[Len(tu) + 1] = Completed /\ Len(tu) + 1 \in DOMAIN tail
  BY <1>4, <1>5, <1>6 DEF MissingCompleted
<1> QED
  BY <1>7, <1>8, <1>9 DEF Failed, Completed

-----------------------------------------------------------------------------
(* The invariant holds initially and every step preserves it.               *)

LEMMA InitIInv == Init => IInv
<1> SUFFICES ASSUME Init PROVE IInv
  OBVIOUS
<1>1. record \in [status : {"none", "completed", "failed"},
                  target : 0..TargetCount, output : SUBSET Items,
                  whole : BOOLEAN]
  BY StreamRelayAssumption DEF Init, NoRecord
<1>2. FlagsOK
  BY DEF Init, FlagsOK
<1>3. TypeOK
  BY StreamRelayAssumption, EmptyStream, <1>1, <1>2 DEF Init, TypeOK
<1>4. Phase
  BY DEF Init, Phase, WorkerRuns
<1> QED
  BY <1>3, <1>4 DEF IInv

\* No step gives a flag another value than TRUE and FALSE.
LEMMA FlagsStep ==
  ASSUME FlagsOK, [Next]_vars
  PROVE  FlagsOK'
<1> USE DEF FlagsOK, handlerVars, itemVars, workerVars, clientVars
<1>1. CASE LoadRequest
  BY <1>1 DEF LoadRequest
<1>2. CASE \E kind \in SkipErrors : SkipTarget(kind)
  BY <1>2 DEF SkipTarget
<1>3. CASE \E kind \in GuardErrors \cup ProbeErrors : RefuseTarget(kind)
  BY <1>3 DEF RefuseTarget
<1>4. CASE StartWorker
  BY <1>4 DEF StartWorker
<1>5. CASE Exhausted
  BY <1>5 DEF Exhausted
<1>6. CASE AwaitReady
  BY <1>6 DEF AwaitReady
<1>7. CASE Connect
  BY <1>7 DEF Connect
<1>8. CASE LoopTop
  BY <1>8 DEF LoopTop
<1>9. CASE StreamEnds
  BY <1>9 DEF StreamEnds
<1>10. CASE \E kind \in StreamErrors : StreamBreaks(kind)
  BY <1>10 DEF StreamBreaks, EndWithError
<1>11. CASE FrameAfterDisconnect
  BY <1>11 DEF FrameAfterDisconnect
<1>12. CASE \E reportsFailure \in BOOLEAN : FrameIgnored(reportsFailure)
  BY <1>12 DEF FrameIgnored
<1>13. CASE FrameMalformed
  BY <1>13 DEF FrameMalformed, EndWithError
<1>14. CASE FrameHidden
  BY <1>14 DEF FrameHidden
<1>23. CASE FramePanics
  BY <1>23 DEF FramePanics
<1>15. CASE \E e \in UpstreamEvent : FrameEvent(e)
  BY <1>15 DEF FrameEvent, CollectItems
<1>16. CASE SendFails
  BY <1>16 DEF SendFails
<1>17. CASE SendEvent
  BY <1>17 DEF SendEvent
<1>18. CASE SendLast
  BY <1>18 DEF SendLast
<1>19. CASE Persist
  BY <1>19 DEF Persist
<1>20. CASE ClientReads
  BY <1>20 DEF ClientReads
<1>21. CASE ClientLeaves
  BY <1>21 DEF ClientLeaves
<1>22. CASE UNCHANGED vars
  BY <1>22 DEF vars
<1> QED
  BY <1>1, <1>2, <1>3, <1>4, <1>5, <1>6, <1>7, <1>8, <1>9, <1>10, <1>11,
     <1>12, <1>13, <1>14, <1>15, <1>16, <1>17, <1>18, <1>19, <1>20, <1>21,
     <1>22, <1>23 DEF Next, Handler, Worker, WaitEnds

\* The steps of the handler.
LEMMA HandlerIInv ==
  ASSUME IInv, FlagsOK', Handler
  PROVE  IInv'
<1> USE StreamRelayAssumption
        DEF IInv, Phase, WorkerRuns, HandlerAt, NextTarget, handlerVars,
            itemVars, workerVars, clientVars
<1>1. CASE LoadRequest
  BY <1>1 DEF LoadRequest, TypeOK, ErrorKinds
<1>2. ASSUME NEW kind \in SkipErrors, SkipTarget(kind)
      PROVE  IInv'
  BY <1>2 DEF SkipTarget, TypeOK, ErrorKinds
<1>3. ASSUME NEW kind \in GuardErrors \cup ProbeErrors, RefuseTarget(kind)
      PROVE  IInv'
  BY <1>3 DEF RefuseTarget, TypeOK, ErrorKinds
<1>4. CASE StartWorker
  <2>1. TypeOK'
    BY <1>4, EmptyStream DEF StartWorker, TypeOK
  <2>2. Phase'
    BY <1>4 DEF StartWorker
  <2> QED
    BY <2>1, <2>2
<1>5. CASE Exhausted
  BY <1>5 DEF Exhausted, TypeOK, ErrorKinds, SkipErrors, ProbeErrors,
              FallbackEligible
<1>6. CASE AwaitReady
  BY <1>6 DEF AwaitReady, TypeOK, FallbackEligible
<1> QED
  BY <1>1, <1>2, <1>3, <1>4, <1>5, <1>6, Handler DEF Handler

\* What the worker writes for one upstream event.
LEMMA WrittenForEvent ==
  ASSUME NEW e \in Event
  PROVE  LET w == MissingCreated(e) \o MissingAdded(e) \o <<e>>
         IN  w \in Seq(Event) /\ w # <<>>
<1>1. MissingCreated(e) \in Seq(Event)
  BY EventMembers DEF MissingCreated
<1>2. MissingAdded(e) \in Seq(Event)
  BY EventMembers DEF MissingAdded
<1>3. <<e>> \in Seq(Event) /\ Len(<<e>>) = 1
  OBVIOUS
<1> DEFINE w == MissingCreated(e) \o MissingAdded(e) \o <<e>>
<1>4. w \in Seq(Event) /\ Len(w) > 0
  BY <1>1, <1>2, <1>3
<1> QED
  BY <1>4, EmptySeq

\* Ending the wait keeps the types and the phase.
LEMMA EndIInv ==
  ASSUME IInv, FlagsOK', wpc = "wait",
         \/ EndCleanly /\ UNCHANGED postFailed
         \/ \E kind \in StreamErrors : EndWithError(kind),
         frames' \in 0..MaxFrames,
         UNCHANGED <<handlerVars, committed, emitted, created, itemVars,
                     inBand, clientVars, record>>
  PROVE  IInv'
<1> USE StreamRelayAssumption
        DEF IInv, handlerVars, itemVars, clientVars
<1>1. {"upstream_unavailable", "upstream_timeout"} \subseteq ErrorKinds
  BY DEF ErrorKinds, ConnectErrors
<1>2. CASE MayFallBack /\ \E kind \in StreamErrors \cup {"upstream_unavailable"} :
             Notify(kind) /\ UNCHANGED out
  <2>1. TypeOK'
    BY <1>1, <1>2 DEF TypeOK, Notify, StreamErrors
  <2>2. Phase'
    BY <1>2 DEF Phase, WorkerRuns, MayFallBack, Notify, StreamErrors
  <2> QED
    BY <2>1, <2>2
<1>3. CASE ~MayFallBack /\ out' \in Seq(Event) /\ wpc' = "flush" /\ UNCHANGED ready
  <2>1. TypeOK'
    BY <1>3 DEF TypeOK
  <2>2. Phase'
    BY <1>3 DEF Phase, WorkerRuns, MayFallBack
  <2> QED
    BY <2>1, <2>2
<1>4. \A tail \in SynthesizedEnd : tail \in Seq(Event)
  BY SynthesizedEndType DEF TypeOK, Items
<1>5. <<Failed>> \in Seq(Event)
  BY EventMembers
<1>6. CASE EndCleanly
  BY <1>2, <1>3, <1>4, <1>6 DEF EndCleanly
<1>7. CASE \E kind \in StreamErrors : EndWithError(kind)
  BY <1>2, <1>3, <1>5, <1>7 DEF EndWithError
<1> QED
  BY <1>6, <1>7

\* The steps of the worker that end its wait for the upstream.
LEMMA WaitEndsIInv ==
  ASSUME IInv, FlagsOK', WaitEnds
  PROVE  IInv'
<1> USE StreamRelayAssumption
        DEF IInv, Phase, WorkerRuns, handlerVars, itemVars, workerVars,
            clientVars
<1>1. CASE StreamEnds
  BY <1>1, EndIInv DEF StreamEnds, TypeOK
<1>2. ASSUME NEW kind \in StreamErrors, StreamBreaks(kind)
      PROVE  IInv'
  BY <1>2, EndIInv DEF StreamBreaks, TypeOK
<1>3. CASE FrameAfterDisconnect
  BY <1>3 DEF FrameAfterDisconnect, FrameArrives, Abort, SenderDropped,
              TypeOK, ErrorKinds, ProbeErrors, FallbackEligible
<1>4. ASSUME NEW reportsFailure \in BOOLEAN, FrameIgnored(reportsFailure)
      PROVE  IInv'
  BY <1>4 DEF FrameIgnored, FrameArrives, TypeOK
<1>5. CASE FrameMalformed
  <2>1. \E kind \in StreamErrors : EndWithError(kind)
    BY <1>5 DEF FrameMalformed, StreamErrors
  <2>2. frames' \in 0..MaxFrames
    BY <1>5 DEF FrameMalformed, FrameArrives, TypeOK
  <2> QED
    BY <1>5, <2>1, <2>2, EndIInv DEF FrameMalformed, FrameArrives
<1>6. CASE FrameHidden
  BY <1>6 DEF FrameHidden, FrameArrives, TypeOK
<1>8. CASE FramePanics
  BY <1>8 DEF FramePanics, FrameArrives, SenderDropped, TypeOK, ErrorKinds,
              ProbeErrors, FallbackEligible
<1>7. ASSUME NEW e \in UpstreamEvent, FrameEvent(e)
      PROVE  IInv'
  <2>1. e \in Event
    BY DEF UpstreamEvent
  <2>2. out' \in Seq(Event) /\ out' # <<>>
    BY <1>7, <2>1, WrittenForEvent DEF FrameEvent
  <2>3. /\ added' \subseteq Items /\ doneItems' \subseteq Items
        /\ text' \subseteq TextItems /\ tools' \subseteq ToolItems
    BY <1>7, <2>1, EventMembers DEF FrameEvent, CollectItems, TypeOK
  <2>4. TypeOK'
    BY <1>7, <2>2, <2>3 DEF FrameEvent, FrameArrives, TypeOK
  <2>5. Phase'
    BY <1>7, <2>2 DEF FrameEvent, FrameArrives
  <2> QED
    BY <2>4, <2>5
<1> QED
  BY <1>1, <1>2, <1>3, <1>4, <1>5, <1>6, <1>7, <1>8, WaitEnds DEF WaitEnds

\* What Deliver does to the stream.
LEMMA DeliverStream ==
  ASSUME TypeOK, Deliver
  PROVE  /\ sent' \in Seq(Event) /\ out' \in Seq(Event)
         /\ queued' \in 0..ChannelCap
         /\ out # <<>> \/ sent # <<>> => sent' # <<>>
         /\ IsPrefix(sent, sent')
<1>1. sent' = sent \o out /\ out' = <<>>
  BY DEF Deliver
<1>2. sent \in Seq(Event) /\ out \in Seq(Event)
  BY DEF TypeOK
<1>3. queued' \in 0..ChannelCap
  BY StreamRelayAssumption DEF Deliver, TypeOK
<1>4. sent' \in Seq(Event) /\ out' \in Seq(Event)
  BY <1>1, <1>2, EmptyStream
<1>5. out # <<>> \/ sent # <<>> => sent' # <<>>
  BY <1>1, <1>2, ConcatEqualIffEmpty
<1>6. IsPrefix(sent, sent')
  BY <1>1, <1>2, PrefixOfConcat
<1> QED
  BY <1>3, <1>4, <1>5, <1>6

\* The other steps of the worker.
LEMMA WorkerIInv ==
  ASSUME IInv, FlagsOK', Worker
  PROVE  IInv'
<1> USE StreamRelayAssumption
        DEF IInv, Phase, WorkerRuns, handlerVars, itemVars, workerVars,
            clientVars
<1>1. CASE Connect
  BY <1>1 DEF Connect, Notify, TypeOK, ErrorKinds, ConnectErrors
<1>2. CASE LoopTop
  BY <1>2 DEF LoopTop, Abort, SenderDropped, TypeOK, ErrorKinds, ConnectErrors
<1>3. CASE WaitEnds
  BY <1>3, WaitEndsIInv
<1>4. CASE SendFails
  BY <1>4 DEF SendFails, Abort, SenderDropped, TypeOK, ErrorKinds, ConnectErrors
<1>5. CASE SendEvent
  <2>1. /\ sent' \in Seq(Event) /\ out' \in Seq(Event)
        /\ queued' \in 0..ChannelCap /\ sent' # <<>>
    BY <1>5, DeliverStream DEF SendEvent
  <2>2. TypeOK'
    BY <1>5, <2>1 DEF SendEvent, TypeOK
  <2>3. Phase'
    BY <1>5, <2>1 DEF SendEvent
  <2> QED
    BY <2>2, <2>3
<1>6. CASE SendLast
  <2>1. /\ sent' \in Seq(Event) /\ out' \in Seq(Event)
        /\ queued' \in 0..ChannelCap /\ sent' # <<>>
    BY <1>6, DeliverStream DEF SendLast, TypeOK
  <2>2. TypeOK'
    BY <1>6, <2>1 DEF SendLast, TypeOK
  <2>3. Phase'
    BY <1>6, <2>1 DEF SendLast
  <2> QED
    BY <2>2, <2>3
<1>7. CASE Persist
  <2>1. record' \in [status : {"none", "completed", "failed"},
                     target : 0..TargetCount, output : SUBSET Items,
                     whole : BOOLEAN]
    <3>1. DoneItemsOf(sent) \subseteq Items
      BY EventMembers DEF DoneItemsOf, ToSet, TypeOK
    <3>2. cur \in 0..TargetCount
      BY <1>7 DEF Persist, TypeOK
    <3>3. RecordStatus \in {"none", "completed", "failed"}
      BY DEF RecordStatus
    <3>4. ASSUME NEW stored \in SUBSET DoneItemsOf(sent),
                 record' = [status |-> RecordStatus, target |-> cur,
                            output |-> stored,
                            whole |-> stored = DoneItemsOf(sent)]
          PROVE  record' \in [status : {"none", "completed", "failed"},
                              target : 0..TargetCount, output : SUBSET Items,
                              whole : BOOLEAN]
      <4>1. (stored = DoneItemsOf(sent)) \in BOOLEAN /\ stored \in SUBSET Items
        BY <3>1
      <4> QED
        BY <3>2, <3>3, <3>4, <4>1
    <3> QED
      BY <1>7, <3>4 DEF Persist, TypeOK
  <2>2. TypeOK'
    BY <1>7, <2>1 DEF Persist, TypeOK
  <2>3. Phase'
    BY <1>7 DEF Persist
  <2> QED
    BY <2>2, <2>3
<1> QED
  BY <1>1, <1>2, <1>3, <1>4, <1>5, <1>6, <1>7, Worker DEF Worker

\* The steps of the client, and stuttering.
LEMMA ClientIInv ==
  ASSUME IInv, FlagsOK', ClientReads \/ ClientLeaves \/ UNCHANGED vars
  PROVE  IInv'
<1> USE DEF IInv, Phase, WorkerRuns, handlerVars, itemVars, workerVars,
            clientVars
<1>1. CASE ClientReads
  BY <1>1, StreamRelayAssumption DEF ClientReads, TypeOK
<1>2. CASE ClientLeaves
  BY <1>2 DEF ClientLeaves, TypeOK
<1>3. CASE UNCHANGED vars
  BY <1>3 DEF vars, TypeOK
<1> QED
  BY <1>1, <1>2, <1>3

THEOREM Inductive == Spec => []IInv
<1>1. Init => IInv
  BY InitIInv
<1>2. IInv /\ [Next]_vars => IInv'
  <2> SUFFICES ASSUME IInv, [Next]_vars PROVE IInv'
    OBVIOUS
  <2>1. FlagsOK'
    BY FlagsStep DEF IInv, TypeOK
  <2> QED
    BY <2>1, HandlerIInv, WorkerIInv, ClientIInv DEF Next
<1> QED
  BY <1>1, <1>2, PTL DEF Spec

-----------------------------------------------------------------------------
(* What the invariant gives.                                                *)

\* The variables keep the types TypeOK states.
THEOREM TypeCorrect == Spec => []TypeOK
<1>1. IInv => TypeOK
  BY DEF IInv
<1> QED
  BY <1>1, Inductive, PTL

\* A request is answered with an error or with a stream, never both, and the
\* stream is the one whose commit the handler was told of.
THEOREM OneAnswerHolds == Spec => []OneAnswer
<1>1. IInv => OneAnswer
  BY DEF IInv, Phase, TypeOK, OneAnswer
<1> QED
  BY <1>1, Inductive, PTL

\* From the first event on the target is fixed, no error answer follows, and the
\* stream only grows: no fallback after a commit.
THEOREM CommitIsFinal == Spec => CommitBindsTarget
<1>1. ASSUME IInv, [Next]_vars, sent # <<>>
      PROVE  cur' = cur /\ hpc' # "refused" /\ IsPrefix(sent, sent')
  <2>1. hpc \in {"await", "streaming"} /\ ready = "ok"
    BY <1>1 DEF IInv, Phase, TypeOK
  <2>2. IsPrefix(sent, sent)
    BY <1>1, PrefixOfConcat DEF IInv, TypeOK
  <2> USE <1>1, <2>1, <2>2 DEF handlerVars, clientVars
  <2>3. CASE Handler
    BY <2>3 DEF Handler, HandlerAt, LoadRequest, SkipTarget, RefuseTarget,
                StartWorker, Exhausted, AwaitReady, FallbackEligible
  <2>4. CASE Connect \/ LoopTop \/ WaitEnds \/ SendFails \/ Persist
    BY <2>4 DEF Connect, LoopTop, WaitEnds, StreamEnds, StreamBreaks,
                FrameAfterDisconnect, FrameIgnored, FrameMalformed,
                FrameHidden, FramePanics, FrameEvent, SendFails, Persist
  <2>5. CASE SendEvent \/ SendLast
    BY <2>5, DeliverStream DEF SendEvent, SendLast, IInv
  <2>6. CASE ClientReads \/ ClientLeaves \/ UNCHANGED vars
    BY <2>6 DEF ClientReads, ClientLeaves, vars
  <2> QED
    BY <2>3, <2>4, <2>5, <2>6 DEF Next, Worker
<1>2. IInv /\ [Next]_vars => [StaysCommitted]_vars
  BY <1>1 DEF StaysCommitted
<1> QED
  BY <1>2, Inductive, PTL DEF Spec, CommitBindsTarget

\* The safety half of RequestAnswered and WorkerEnds: a handler that waits for
\* ready_rx has a worker that runs, or its answer; and a worker that finds the channel
\* full has a client that can read it, or a handler about to hand it over.
Unblocked ==
  /\ hpc = "await" => WorkerRuns \/ ready # "pending"
  /\ queued = ChannelCap => hpc = "streaming" \/ (hpc = "await" /\ ready = "ok")

\* Handler, worker and client never wait for one another in a circle: every way
\* out of the worker resolves ready_rx, and nothing fills the channel before it is
\* resolved (relay_streaming_response_stream_scoped, run_streaming_target_worker).
THEOREM NobodyWaitsInVain == Spec => []Unblocked
<1> DEFINE Waits == /\ hpc = "await" => WorkerRuns \/ ready # "pending"
                    /\ queued > 0 => sent # <<>>
<1>1. Init => Waits
  BY DEF Init
<1>2. ASSUME IInv, Waits, [Next]_vars PROVE Waits'
  <2>1. CASE Handler
    BY <1>2, <2>1 DEF WorkerRuns, Handler, HandlerAt, LoadRequest, SkipTarget, RefuseTarget,
                StartWorker, Exhausted, AwaitReady, clientVars, workerVars, FallbackEligible
  <2>2. CASE Connect \/ LoopTop \/ WaitEnds \/ SendFails \/ Persist
    <3>1. UNCHANGED <<hpc, sent, queued>>
      BY <2>2 DEF Connect, LoopTop, WaitEnds, StreamEnds, StreamBreaks,
                  FrameAfterDisconnect, FrameIgnored, FrameMalformed, FrameHidden,
                  FramePanics, FrameEvent, SendFails, Persist, handlerVars, clientVars
    <3>2. WorkerRuns' \/ ready' # "pending"
      BY <1>2, <2>2
         DEF WorkerRuns, IInv, Phase, Connect, LoopTop, WaitEnds, StreamEnds, StreamBreaks,
             EndCleanly, EndWithError, Notify, Abort, SenderDropped,
             FrameAfterDisconnect, FrameIgnored, FrameMalformed, FrameHidden,
             FramePanics, FrameEvent, SendFails, Persist, ConnectErrors, StreamErrors
    <3> QED BY <1>2, <3>1, <3>2
  <2>3. CASE SendEvent \/ SendLast
    <3>1. (ready' = "ok" \/ WorkerRuns') /\ hpc' = hpc
      BY <2>3 DEF SendEvent, SendLast, handlerVars, WorkerRuns
    <3>2. sent' # <<>> \/ UNCHANGED <<sent, queued>>
      <4>1. CASE out # <<>> /\ Deliver
        BY <1>2, <4>1, DeliverStream DEF IInv
      <4>2. CASE UNCHANGED <<sent, queued, out>>
        BY <4>2
      <4>3. CASE SendEvent
        <5>1. out # <<>> /\ Deliver
          BY <1>2, <4>3 DEF SendEvent, IInv, Phase
        <5> QED BY <4>1, <5>1
      <4>4. CASE SendLast
        BY <4>1, <4>2, <4>4 DEF SendLast
      <4> QED BY <2>3, <4>3, <4>4
    <3>3. (hpc = "await" => WorkerRuns \/ ready # "pending")'
      BY <3>1
    <3>4. (queued > 0 => sent # <<>>)'
      BY <1>2, <3>2
    <3> QED BY <3>3, <3>4 DEF WorkerRuns
  <2>4. CASE ClientReads \/ ClientLeaves \/ UNCHANGED vars
    <3>1. /\ UNCHANGED <<hpc, wpc, ready, sent>>
          /\ queued' = queued \/ (queued' = queued - 1 /\ queued > 0)
      BY <2>4 DEF ClientReads, ClientLeaves, vars, handlerVars, clientVars
    <3>2. queued \in 0 .. ChannelCap /\ ChannelCap \in Nat
      BY <1>2, StreamRelayAssumption DEF IInv, TypeOK
    <3> QED BY <1>2, <3>1, <3>2 DEF WorkerRuns
  <2> QED BY <1>2, <2>1, <2>2, <2>3, <2>4 DEF Next, Worker
<1>3. IInv /\ Waits => Unblocked
  BY StreamRelayAssumption DEF IInv, Phase, TypeOK, Unblocked
<1> QED BY <1>1, <1>2, <1>3, Inductive, PTL DEF Spec

-----------------------------------------------------------------------------
(* How a stream ends.                                                       *)

Writes(e) == \E k \in DOMAIN out : out[k] = e

\* What the worker knows of the end of the stream: response.failed is written
\* for the failures only, at the very end, and response.completed has been
\* sent, or is about to be, once the upstream or the synthesis produced it.
Verdict ==
  /\ wpc # "done" => record = NoRecord
  /\ wpc \in {"idle", "connect", "top", "wait", "send"} => ~postFailed
  /\ wpc \notin {"persist", "done"} => ~Says(Failed)
  /\ wpc = "send" => ~Writes(Failed)
  /\ wpc = "flush" => (postFailed <=> Writes(Failed))
  /\ wpc = "flush" /\ ~postFailed => Says(Completed) \/ Writes(Completed)
  /\ wpc \in {"connect", "top", "wait", "send"} /\ sawCompleted
       => Says(Completed) \/ (wpc = "send" /\ Writes(Completed))
  /\ wpc \in {"persist", "done"} =>
       /\ postFailed <=> Says(Failed)
       /\ Says(Completed) \/ Says(Failed)

\* Delivering what is written makes the stream say it.
LEMMA DeliverSays ==
  ASSUME TypeOK, Deliver, NEW e
  PROVE  /\ Says(e)' <=> Says(e) \/ Writes(e)
         /\ ~Writes(e)'
<1>1. sent' = sent \o out /\ out' = <<>>
  BY DEF Deliver
<1>2. sent \in Seq(Event) /\ out \in Seq(Event)
  BY DEF TypeOK
<1>3. ASSUME NEW k \in DOMAIN sent
      PROVE  k \in DOMAIN sent' /\ sent'[k] = sent[k]
  BY <1>1, <1>2, <1>3
<1>4. ASSUME NEW k \in DOMAIN out
      PROVE  Len(sent) + k \in DOMAIN sent' /\ sent'[Len(sent) + k] = out[k]
  BY <1>1, <1>2, <1>4
<1>5. ASSUME NEW k \in DOMAIN sent'
      PROVE  \/ k \in DOMAIN sent /\ sent'[k] = sent[k]
             \/ k - Len(sent) \in DOMAIN out /\ sent'[k] = out[k - Len(sent)]
  BY <1>1, <1>2, <1>5
<1>6. Says(e)' => Says(e) \/ Writes(e)
  BY <1>5 DEF Says, Writes
<1>7. Says(e) \/ Writes(e) => Says(e)'
  BY <1>3, <1>4 DEF Says, Writes
<1>8. ~Writes(e)'
  BY <1>1 DEF Writes
<1> QED
  BY <1>6, <1>7, <1>8

\* A step that leaves the stream alone does not change what it says.
LEMMA SaysUnchanged ==
  ASSUME UNCHANGED sent, NEW e
  PROVE  Says(e)' <=> Says(e)
  BY DEF Says

LEMMA WritesUnchanged ==
  ASSUME UNCHANGED out, NEW e
  PROVE  Writes(e)' <=> Writes(e)
  BY DEF Writes

LEMMA InitVerdict == Init => Verdict
  BY DEF Init, Verdict, Says, Writes

LEMMA HandlerVerdict ==
  ASSUME IInv, Verdict, Handler
  PROVE  Verdict'
<1> USE DEF Verdict, IInv, Phase, handlerVars, workerVars, itemVars, clientVars
<1>1. UNCHANGED <<sent, record>>
  BY DEF Handler, LoadRequest, SkipTarget, RefuseTarget, StartWorker,
         Exhausted, AwaitReady
<1>2. \A e : Says(e)' <=> Says(e)
  BY <1>1, SaysUnchanged
<1>3. CASE StartWorker
  <2>1. wpc' = "connect" /\ postFailed' = FALSE /\ sawCompleted' = FALSE
    BY <1>3 DEF StartWorker
  <2>2. wpc \in {"idle", "failed", "panicked"}
    BY <1>3 DEF StartWorker, HandlerAt
  <2> QED
    BY <1>1, <1>2, <2>1, <2>2
<1>4. CASE UNCHANGED <<wpc, out, postFailed, sawCompleted>>
  <2>1. \A e : Writes(e)' <=> Writes(e)
    BY <1>4, WritesUnchanged
  <2> QED
    BY <1>1, <1>2, <1>4, <2>1
<1>5. StartWorker \/ UNCHANGED <<wpc, out, postFailed, sawCompleted>>
  BY DEF Handler, LoadRequest, SkipTarget, RefuseTarget, Exhausted, AwaitReady
<1> QED
  BY <1>3, <1>4, <1>5

\* Leaving the wait: the worker gives up, goes on, or writes the end.
LEMMA WaitVerdict ==
  ASSUME IInv, Verdict, WaitEnds
  PROVE  Verdict'
<1> USE DEF Verdict, handlerVars, itemVars, clientVars
<1>1. UNCHANGED <<sent, record>> /\ wpc = "wait"
  BY DEF WaitEnds, StreamEnds, StreamBreaks, FrameArrives, FrameAfterDisconnect,
         FrameIgnored, FrameMalformed, FrameHidden, FramePanics, FrameEvent
<1>2. \A e : Says(e)' <=> Says(e)
  BY <1>1, SaysUnchanged
<1>3. ~Says(Failed) /\ ~postFailed /\ (sawCompleted => Says(Completed))
  BY <1>1
<1>4. CASE wpc' \in {"failed", "aborted", "panicked"}
  BY <1>1, <1>2, <1>3, <1>4
<1>5. CASE wpc' = "top" /\ UNCHANGED <<postFailed, sawCompleted>>
  BY <1>1, <1>2, <1>3, <1>5
<1>6. CASE \E kind \in StreamErrors : EndWithError(kind) /\ wpc' = "flush"
  <2>1. out' = <<Failed>> /\ postFailed'
    BY <1>6 DEF EndWithError, Notify
  <2>2. Writes(Failed)'
    BY <2>1 DEF Writes
  <2> QED
    BY <1>1, <1>2, <1>3, <1>6, <2>1, <2>2
<1>7. CASE EndCleanly /\ wpc' = "flush" /\ UNCHANGED postFailed
  <2>1. out' \in SynthesizedEnd
    BY <1>7 DEF EndCleanly, Notify
  <2>2. text \subseteq Items /\ tools \subseteq Items
    BY DEF IInv, TypeOK, Items
  <2>3. ~Writes(Failed)' /\ (~sawCompleted => Writes(Completed)')
    BY <2>1, <2>2, SynthesizedEndType DEF Writes
  <2> QED
    BY <1>1, <1>2, <1>3, <1>7, <2>3
<1>8. ASSUME NEW e \in UpstreamEvent, FrameEvent(e)
      PROVE  Verdict'
  <2>1. e \in Event /\ e # Failed
    BY DEF UpstreamEvent
  <2>2. \A w \in Seq(Event), v \in Seq(Event) :
          out' = w \o v \o <<e>> => Writes(e)'
    <3> SUFFICES ASSUME NEW w \in Seq(Event), NEW v \in Seq(Event),
                        out' = w \o v \o <<e>>
                 PROVE  Writes(e)'
      OBVIOUS
    <3>1. Len(w) + Len(v) + 1 \in DOMAIN out' /\ out'[Len(w) + Len(v) + 1] = e
      BY <2>1
    <3> QED
      BY <3>1 DEF Writes
  <2>3. MissingCreated(e) \in Seq(Event) /\ MissingAdded(e) \in Seq(Event)
    BY <2>1, EventMembers DEF MissingCreated, MissingAdded
  <2>4. Writes(e)'
    BY <1>8, <2>2, <2>3 DEF FrameEvent
  <2>5. ~Writes(Failed)'
    BY <1>8, <2>1, <2>3 DEF FrameEvent, Writes, MissingCreated, MissingAdded,
                            Created, Added, Failed
  <2>6. wpc' = "send" /\ (sawCompleted' <=> sawCompleted \/ e = Completed)
        /\ UNCHANGED postFailed
    BY <1>8 DEF FrameEvent, CollectItems
  <2> QED
    BY <1>1, <1>2, <1>3, <2>4, <2>5, <2>6
<1> QED
  BY <1>4, <1>5, <1>6, <1>7, <1>8, WaitEnds
     DEF WaitEnds, StreamEnds, StreamBreaks, FrameAfterDisconnect, FrameIgnored,
         FrameMalformed, FrameHidden, FramePanics, EndCleanly, EndWithError, Notify, Abort,
         StreamErrors

LEMMA WorkerVerdict ==
  ASSUME IInv, Verdict, Worker
  PROVE  Verdict'
<1> USE DEF Verdict, handlerVars, itemVars, workerVars, clientVars
<1>1. CASE Connect \/ LoopTop \/ SendFails
  <2>1. UNCHANGED <<sent, out, record, postFailed, sawCompleted>>
    BY <1>1 DEF Connect, LoopTop, SendFails
  <2>2. \A e : (Says(e)' <=> Says(e)) /\ (Writes(e)' <=> Writes(e))
    BY <2>1, SaysUnchanged, WritesUnchanged
  <2>3. \/ wpc' \in {"failed", "aborted"}
           /\ wpc \in {"connect", "top", "send", "flush"}
        \/ wpc \in {"connect", "top"} /\ wpc' \in {"top", "wait"}
    BY <1>1 DEF Connect, LoopTop, SendFails, Notify, Abort
  <2> QED
    BY <2>1, <2>2, <2>3
<1>2. CASE WaitEnds
  BY <1>2, WaitVerdict
<1>3. CASE SendEvent
  <2>1. \A e : (Says(e)' <=> Says(e) \/ Writes(e)) /\ ~Writes(e)'
    BY <1>3, DeliverSays DEF SendEvent, IInv
  <2>2. /\ wpc = "send" /\ wpc' = "top"
        /\ UNCHANGED <<record, postFailed, sawCompleted>>
    BY <1>3 DEF SendEvent
  <2> QED
    BY <2>1, <2>2
<1>4. CASE SendLast
  <2>1. /\ wpc = "flush" /\ wpc' = "persist"
        /\ UNCHANGED <<record, postFailed, sawCompleted>>
    BY <1>4 DEF SendLast
  <2>2. \A e : Says(e)' <=> Says(e) \/ Writes(e)
    <3>1. CASE out = <<>>
      <4>1. \A e : Says(e)' <=> Says(e)
        BY <1>4, <3>1, SaysUnchanged DEF SendLast
      <4>2. \A e : ~Writes(e)
        BY <3>1 DEF Writes
      <4> QED
        BY <4>1, <4>2
    <3>2. CASE Deliver
      BY <3>2, DeliverSays DEF IInv
    <3> QED
      BY <1>4, <3>1, <3>2 DEF SendLast
  <2> QED
    BY <2>1, <2>2
<1>5. CASE Persist
  <2>1. wpc = "persist" /\ wpc' = "done" /\ UNCHANGED <<sent, postFailed>>
    BY <1>5 DEF Persist
  <2>2. \A e : Says(e)' <=> Says(e)
    BY <2>1, SaysUnchanged
  <2> QED
    BY <2>1, <2>2
<1> QED
  BY <1>1, <1>2, <1>3, <1>4, <1>5, Worker DEF Worker

LEMMA VerdictStep ==
  ASSUME IInv, Verdict, [Next]_vars
  PROVE  Verdict'
<1>1. CASE ClientReads \/ ClientLeaves \/ UNCHANGED vars
  <2>1. UNCHANGED <<sent, out, record, wpc, postFailed, sawCompleted>>
    BY <1>1 DEF ClientReads, ClientLeaves, vars, workerVars, itemVars, clientVars
  <2>2. \A e : (Says(e)' <=> Says(e)) /\ (Writes(e)' <=> Writes(e))
    BY <2>1, SaysUnchanged, WritesUnchanged
  <2> QED
    BY <2>1, <2>2 DEF Verdict
<1> QED
  BY <1>1, HandlerVerdict, WorkerVerdict DEF Next

THEOREM VerdictHolds == Spec => []Verdict
<1>1. IInv /\ Verdict /\ [Next]_vars => Verdict'
  BY VerdictStep
<1> QED
  BY <1>1, InitVerdict, Inductive, PTL DEF Spec

-----------------------------------------------------------------------------
(* The relay implements the contract.                                       *)

Kinds(s) == [k \in DOMAIN s |-> s[k].type]

\* Appending events appends their kinds.
LEMMA KindsGrow ==
  ASSUME NEW s \in Seq(Event), NEW t \in Seq(Event)
  PROVE  /\ Kinds(s) \in Seq(Contract!EventTypes)
         /\ Kinds(s \o t) \in Seq(Contract!EventTypes)
         /\ IsPrefix(Kinds(s), Kinds(s \o t))
<1>1. \A e \in Event : e.type \in Contract!EventTypes
  BY DEF Event, Contract!EventTypes
<1>2. ASSUME NEW u \in Seq(Event)
      PROVE  Kinds(u) \in Seq(Contract!EventTypes) /\ Len(Kinds(u)) = Len(u)
  <2>1. Kinds(u) \in [1..Len(u) -> Contract!EventTypes]
    BY <1>1, <1>2 DEF Kinds
  <2> QED
    BY <2>1, SeqOfFunction, LenProperties
<1>3. s \o t \in Seq(Event)
  OBVIOUS
<1>4. \A k \in 1..Len(s) : Kinds(s \o t)[k] = Kinds(s)[k]
  BY <1>3 DEF Kinds
<1>5. Len(s) <= Len(s \o t)
  OBVIOUS
<1> DEFINE a == Kinds(s)
           b == Kinds(s \o t)
<1>6. /\ a \in Seq(Contract!EventTypes) /\ b \in Seq(Contract!EventTypes)
      /\ Len(a) <= Len(b) /\ \A k \in 1..Len(a) : b[k] = a[k]
  BY <1>2, <1>3, <1>4, <1>5
<1> HIDE DEF a, b
<1>7. IsPrefix(a, b)
  BY <1>6 DEF IsPrefix
<1> QED
  BY <1>6, <1>7 DEF a, b

LEMMA OccursSays ==
  ASSUME sent \in Seq(Event)
  PROVE  /\ Contract!Occurs("completed") <=> Says(Completed)
         /\ Contract!Occurs("failed") <=> Says(Failed)
<1>1. \A e \in Event : /\ e.type = "completed" <=> e = Completed
                       /\ e.type = "failed" <=> e = Failed
  BY DEF Event, Completed, Failed
<1>2. \A k \in DOMAIN sent : sent[k] \in Event
  OBVIOUS
<1> QED
  BY <1>1, <1>2 DEF Contract!Occurs, Says

\* A step that leaves the contract's view alone is a stutter of it.
View == <<cur, hpc = "refused", sent, record>>

LEMMA ViewUnchanged ==
  ASSUME UNCHANGED View
  PROVE  UNCHANGED Contract!cvars
  BY DEF View, Contract!cvars

LEMMA StepRefines ==
  ASSUME IInv, Verdict, [Next]_vars
  PROVE  [Contract!Next]_(Contract!cvars)
<1> USE DEF handlerVars, itemVars, workerVars, clientVars
<1>1. CASE Handler
  <2>1. UNCHANGED <<sent, record>> /\ hpc # "refused"
    BY <1>1 DEF Handler, HandlerAt, LoadRequest, SkipTarget, RefuseTarget,
                StartWorker, Exhausted, AwaitReady
  <2>2. CASE hpc' # "refused" /\ cur' = cur
    BY <2>1, <2>2, ViewUnchanged DEF View
  <2>3. CASE hpc' # "refused" /\ cur' = cur + 1
    <3>1. sent = <<>> /\ cur <= TargetCount
      BY <1>1, <2>3 DEF Handler, HandlerAt, LoadRequest, SkipTarget,
                  RefuseTarget, StartWorker, Exhausted, AwaitReady, NextTarget,
                  IInv, Phase, TypeOK, FallbackEligible
    <3>2. Contract!NextAttempt
      BY <2>1, <2>3, <3>1 DEF Contract!NextAttempt, Contract!Undecided
    <3> QED
      BY <3>2 DEF Contract!Next
  <2>4. CASE hpc' = "refused" /\ cur' = cur
    <3>1. sent = <<>>
      BY <1>1, <2>4 DEF Handler, HandlerAt, LoadRequest, SkipTarget,
                  RefuseTarget, StartWorker, Exhausted, AwaitReady,
                  IInv, Phase, TypeOK, FallbackEligible
    <3>2. Contract!Refuse
      BY <2>1, <2>4, <3>1 DEF Contract!Refuse
    <3> QED
      BY <3>2 DEF Contract!Next
  <2> QED
    BY <1>1, <2>2, <2>3, <2>4
       DEF Handler, HandlerAt, LoadRequest, SkipTarget, RefuseTarget,
           StartWorker, Exhausted, AwaitReady, NextTarget
<1>2. CASE Connect \/ LoopTop \/ WaitEnds \/ SendFails
  <2>1. UNCHANGED <<cur, hpc, sent, record>>
    BY <1>2 DEF Connect, LoopTop, WaitEnds, StreamEnds, StreamBreaks,
                FrameAfterDisconnect, FrameIgnored, FrameMalformed,
                FrameHidden, FramePanics, FrameEvent, SendFails
  <2> QED
    BY <2>1, ViewUnchanged DEF View
<1>3. CASE Deliver /\ wpc \in {"send", "flush"} /\ UNCHANGED <<hpc, cur, record>>
  <2>1. /\ sent' = sent \o out
        /\ sent \in Seq(Event) /\ out \in Seq(Event)
    BY <1>3 DEF Deliver, IInv, TypeOK
  <2>2. hpc # "refused" /\ cur <= TargetCount /\ record.status = "none"
    BY <1>3 DEF IInv, TypeOK, Phase, Verdict, NoRecord
  <2>3. /\ Kinds(sent') \in Seq(Contract!EventTypes)
        /\ IsPrefix(Kinds(sent), Kinds(sent'))
    BY <2>1, KindsGrow
  <2>4. Contract!Emit
    BY <1>3, <2>2, <2>3 DEF Contract!Emit, Contract!IsPrefix, IsPrefix, Kinds
  <2> QED
    BY <2>4 DEF Contract!Next
<1>4. CASE SendEvent
  BY <1>3, <1>4 DEF SendEvent
<1>5. CASE SendLast
  <2>1. CASE UNCHANGED <<sent, queued, out>>
    BY <1>5, <2>1, ViewUnchanged DEF SendLast, View
  <2> QED
    BY <1>3, <1>5, <2>1 DEF SendLast
<1>6. CASE Persist
  <2>1. CASE UNCHANGED record
    BY <1>6, <2>1, ViewUnchanged DEF Persist, View
  <2>2. ASSUME NEW stored \in SUBSET DoneItemsOf(sent),
               record' = [status |-> RecordStatus, target |-> cur,
                          output |-> stored, whole |-> stored = DoneItemsOf(sent)]
        PROVE  Contract!Next
    <3>1. record.status = "none" /\ record'.status = RecordStatus
      BY <1>6, <2>2 DEF Persist, Verdict, NoRecord
    <3>2. (postFailed <=> Says(Failed)) /\ (Says(Completed) \/ Says(Failed))
      BY <1>6 DEF Persist, Verdict
    <3>3. UNCHANGED <<cur, hpc, sent>>
      BY <1>6 DEF Persist
    <3>4. /\ Contract!Occurs("completed") <=> Says(Completed)
          /\ Contract!Occurs("failed") <=> Says(Failed)
      BY OccursSays DEF IInv, TypeOK
    <3>5. Contract!Store
      BY <3>1, <3>2, <3>3, <3>4 DEF Contract!Store, RecordStatus
    <3> QED
      BY <3>5 DEF Contract!Next
  <2> QED
    BY <1>6, <2>1, <2>2 DEF Persist
<1>7. CASE ClientReads \/ ClientLeaves \/ UNCHANGED vars
  <2>1. UNCHANGED <<cur, hpc, sent, record>>
    BY <1>7 DEF ClientReads, ClientLeaves, vars
  <2> QED
    BY <2>1, ViewUnchanged DEF View
<1> QED
  BY <1>1, <1>2, <1>4, <1>5, <1>6, <1>7 DEF Next, Worker

\* The relay loop and its workers, put together, do what ResponseContract
\* promises the caller.
THEOREM RelayRefinesContract == Spec => ImplementsContract
<1>1. Init => Contract!Init
  BY DEF Init, Contract!Init, NoRecord
<1>2. IInv /\ Verdict /\ [Next]_vars => [Contract!Next]_(Contract!cvars)
  BY StepRefines
<1> QED
  BY <1>1, <1>2, Inductive, VerdictHolds, PTL
     DEF Spec, ImplementsContract, Contract!Spec

-----------------------------------------------------------------------------
(* What a streamed response says, event by event: the stream a client gets  *)
(* is well formed, each item in it is closed, and the row stored for it      *)
(* repeats what the client saw.  The inductive invariant of it.             *)

\* e is one of the events of s.
In(s, e) == \E k \in DOMAIN s : s[k] = e

\* The worker's stream: what it has sent and what it has written.
Stream == sent \o out

\* Every delta of s comes after its item was announced.
Announced(s) ==
  \A k \in DOMAIN s : s[k].type = "delta"
    => \E j \in 1..(k - 1) : s[j] \in {Added(s[k].item), Done(s[k].item)}

\* Each item s shows content of is closed in s.
Closed(s) == \A i \in Items : In(s, Delta(i)) => In(s, Done(i))

\* What the worker's sets and flags know of its stream.  Every conjunct is
\* needed for the steps to come: what was announced decides whether the next
\* delta is, and an item shown and neither open nor done could not be closed at
\* the end.
Content ==
  /\ wpc \in {"connect", "top", "wait", "persist", "done"} => out = <<>>
  /\ created <=> Stream # <<>>
  /\ Stream # <<>> => Stream[1] = Created
  /\ Announced(Stream)
  /\ \A i \in added : In(Stream, Added(i)) \/ In(Stream, Done(i))
  /\ \A i \in doneItems : In(Stream, Done(i))
  /\ wpc \in {"connect", "top", "wait", "send"} =>
       \A i \in Items : In(Stream, Delta(i)) => i \in text \cup tools \cup doneItems
  /\ \A k \in DOMAIN Stream : Stream[k] = Failed => k = Len(Stream)
  /\ wpc \in {"flush", "persist", "done"} /\ ~postFailed => Closed(Stream)

\* What persist_response_shell stored is still what it stored.
Stored ==
  record # NoRecord =>
    /\ record.target = cur
    /\ record.status = RecordStatus
    /\ record.output \subseteq DoneItemsOf(sent)
    /\ record.whole => record.output = DoneItemsOf(sent)

-----------------------------------------------------------------------------
(* Lemmas about streams.                                                    *)

\* Where the events of two joined streams are.
LEMMA ConcatAt ==
  ASSUME NEW s \in Seq(Event), NEW t \in Seq(Event)
  PROVE  /\ s \o t \in Seq(Event)
         /\ Len(s \o t) = Len(s) + Len(t)
         /\ \A k \in DOMAIN s : k \in DOMAIN (s \o t) /\ (s \o t)[k] = s[k]
         /\ \A k \in DOMAIN t : /\ Len(s) + k \in DOMAIN (s \o t)
                                /\ (s \o t)[Len(s) + k] = t[k]
         /\ \A k \in DOMAIN (s \o t) :
              \/ k \in DOMAIN s /\ (s \o t)[k] = s[k]
              \/ /\ k > Len(s)
                 /\ k - Len(s) \in DOMAIN t
                 /\ (s \o t)[k] = t[k - Len(s)]
<1> DEFINE st == s \o t
<1>1. /\ st \in Seq(Event) /\ Len(st) = Len(s) + Len(t)
      /\ \A k \in 1..(Len(s) + Len(t)) :
           st[k] = IF k <= Len(s) THEN s[k] ELSE t[k - Len(s)]
  BY ConcatProperties
<1>2. /\ DOMAIN s = 1..Len(s) /\ DOMAIN t = 1..Len(t)
      /\ DOMAIN st = 1..(Len(s) + Len(t))
      /\ Len(s) \in Nat /\ Len(t) \in Nat
  BY <1>1, LenProperties
<1> HIDE DEF st
<1>3. \A k \in DOMAIN s : k \in DOMAIN st /\ st[k] = s[k]
  BY <1>1, <1>2
<1>4. \A k \in DOMAIN t : Len(s) + k \in DOMAIN st /\ st[Len(s) + k] = t[k]
  BY <1>1, <1>2
<1>5. \A k \in DOMAIN st :
        \/ k \in DOMAIN s /\ st[k] = s[k]
        \/ k > Len(s) /\ k - Len(s) \in DOMAIN t /\ st[k] = t[k - Len(s)]
  BY <1>1, <1>2
<1> QED
  BY <1>1, <1>3, <1>4, <1>5, Zenon DEF st

\* Joined streams say what each of them says.
LEMMA ConcatIn ==
  ASSUME NEW s \in Seq(Event), NEW t \in Seq(Event), NEW e
  PROVE  In(s \o t, e) <=> In(s, e) \/ In(t, e)
<1> DEFINE st == s \o t
<1>1. /\ \A k \in DOMAIN s : k \in DOMAIN st /\ st[k] = s[k]
      /\ \A k \in DOMAIN t : Len(s) + k \in DOMAIN st /\ st[Len(s) + k] = t[k]
      /\ \A k \in DOMAIN st :
           \/ k \in DOMAIN s /\ st[k] = s[k]
           \/ k - Len(s) \in DOMAIN t /\ st[k] = t[k - Len(s)]
  BY ConcatAt
<1> HIDE DEF st
<1>2. In(st, e) => In(s, e) \/ In(t, e)
  BY <1>1 DEF In
<1>3. In(s, e) \/ In(t, e) => In(st, e)
  BY <1>1 DEF In
<1> QED
  BY <1>2, <1>3 DEF st

\* A stream goes on well if each delta of what is appended belongs to an item
\* announced before.
LEMMA AnnouncedConcat ==
  ASSUME NEW s \in Seq(Event), NEW t \in Seq(Event), Announced(s),
         \A k \in DOMAIN t : t[k].type = "delta"
           => In(s, Added(t[k].item)) \/ In(s, Done(t[k].item))
  PROVE  Announced(s \o t)
<1> DEFINE st == s \o t
<1> SUFFICES ASSUME NEW k \in DOMAIN st, st[k].type = "delta"
             PROVE  \E j \in 1..(k - 1) :
                      st[j] \in {Added(st[k].item), Done(st[k].item)}
  BY DEF Announced
<1>1. CASE k \in DOMAIN s /\ st[k] = s[k]
  <2>1. PICK j \in 1..(k - 1) : s[j] \in {Added(s[k].item), Done(s[k].item)}
    BY <1>1 DEF Announced
  <2>2. j \in DOMAIN s
    BY <1>1, <2>1
  <2>3. st[j] = s[j]
    BY <2>2, ConcatAt
  <2> QED
    BY <1>1, <2>1, <2>3
<1>2. CASE k > Len(s) /\ k - Len(s) \in DOMAIN t /\ st[k] = t[k - Len(s)]
  <2>1. PICK j \in DOMAIN s : s[j] \in {Added(st[k].item), Done(st[k].item)}
    BY <1>2 DEF In
  <2>2. j \in 1..(k - 1) /\ st[j] = s[j]
    <3>1. st[j] = s[j]
      BY ConcatAt
    <3>2. j \in 1..Len(s) /\ Len(s) \in Nat /\ k \in Int
      BY <1>2, ConcatAt
    <3> QED
      BY <1>2, <3>1, <3>2
  <2> QED
    BY <2>1, <2>2
<1>3. k \in DOMAIN (s \o t)
  OBVIOUS
<1> QED
  BY <1>1, <1>2, <1>3, ConcatAt

\* The closing events of a set of items close each of them.
LEMMA DoneEventsIn ==
  ASSUME NEW items \in SUBSET Items, NEW t \in DoneEvents(items),
         NEW i \in items
  PROVE  In(t, Done(i))
<1>1. IsFiniteSet(items)
  BY StreamRelayAssumption, FS_Union, FS_Subset DEF Items
<1>2. PICK s \in SetToSeqs(items) : t = [k \in DOMAIN s |-> Done(s[k])]
  BY DEF DoneEvents
<1> DEFINE n == Cardinality(items)
<1>3. /\ s \in [1..n -> items]
      /\ \A j, k \in 1..n : j # k => s[j] # s[k]
  BY <1>2 DEF SetToSeqs
<1>4. n \in Nat
  BY <1>1, FS_CardinalityType
<1>5. \E k \in 1..n : s[k] = i
  <2> SUFFICES ASSUME \A k \in 1..n : s[k] # i PROVE FALSE
    OBVIOUS
  <2>1. s \in [1..n -> items \ {i}]
    BY <1>3
  <2>2. IsFiniteSet(items \ {i}) /\ Cardinality(items \ {i}) = n - 1
    BY <1>1, FS_RemoveElement
  <2>3. IsFiniteSet(1..n) /\ Cardinality(1..n) = n
    BY <1>4, FS_Interval
  <2> DEFINE D == 1..n
             rest == items \ {i}
  <2>4. /\ IsFiniteSet(D) /\ IsFiniteSet(rest)
        /\ Cardinality(rest) < Cardinality(D) /\ s \in [D -> rest]
    BY <1>4, <2>1, <2>2, <2>3
  <2> HIDE DEF D, rest
  <2>5. \E j, k \in D : j # k /\ s[j] = s[k]
    BY <2>4, FS_PigeonHole
  <2> QED
    BY <1>3, <2>5 DEF D
<1> QED
  BY <1>2, <1>3, <1>5 DEF In

\* The synthesized end closes the items that are open.
LEMMA SynthesizedEndCloses ==
  ASSUME text \subseteq Items, tools \subseteq Items,
         NEW tail \in SynthesizedEnd
  PROVE  /\ tail \in Seq(Event)
         /\ \A k \in DOMAIN tail : tail[k].type \notin {"delta", "failed"}
         /\ \A i \in (text \cup tools) \ doneItems : In(tail, Done(i))
<1>1. PICK t \in MissingTextDones, u \in MissingToolDones :
        tail = t \o u \o MissingCompleted
  BY DEF SynthesizedEnd
<1>2. text \ doneItems \in SUBSET Items /\ tools \ doneItems \in SUBSET Items
  OBVIOUS
<1>3. /\ t \in Seq(Event) /\ \A k \in DOMAIN t : t[k].type = "done"
      /\ u \in Seq(Event) /\ \A k \in DOMAIN u : u[k].type = "done"
  BY <1>1, <1>2, DoneEventsType DEF MissingTextDones, MissingToolDones
<1>4. /\ \A i \in text \ doneItems : In(t, Done(i))
      /\ \A i \in tools \ doneItems : In(u, Done(i))
  BY <1>1, <1>2, DoneEventsIn DEF MissingTextDones, MissingToolDones
<1> DEFINE c == MissingCompleted
<1>5. c \in Seq(Event) /\ \A k \in DOMAIN c : c[k].type = "completed"
  BY EventMembers DEF MissingCompleted, Completed
<1>6. tail = t \o u \o c
  BY <1>1
<1> HIDE DEF c
<1>7. /\ t \o u \in Seq(Event)
      /\ \A k \in DOMAIN (t \o u) : (t \o u)[k].type = "done"
  BY <1>3, ConcatAt
<1>8. /\ tail \in Seq(Event)
      /\ \A k \in DOMAIN tail : tail[k].type \in {"done", "completed"}
  BY <1>5, <1>6, <1>7, ConcatAt
<1>9. \A i \in Items : In(t, Done(i)) \/ In(u, Done(i)) => In(tail, Done(i))
  BY <1>3, <1>5, <1>6, <1>7, ConcatIn
<1> QED
  BY <1>4, <1>8, <1>9, <1>2

-----------------------------------------------------------------------------
(* The invariant holds initially and every step preserves it.               *)

LEMMA InitContent == Init => Content
<1> SUFFICES ASSUME Init PROVE Content
  OBVIOUS
<1>1. sent = <<>> /\ out = <<>> /\ created = FALSE /\ added = {} /\ doneItems = {}
      /\ wpc = "idle"
  BY DEF Init
<1>2. Stream = <<>>
  BY <1>1, EmptyStream, ConcatEmptySeq DEF Stream
<1> QED
  BY <1>1, <1>2 DEF Content, Announced, In

\* A step that writes nothing and collects nothing.
LEMMA ContentKept ==
  ASSUME Content, UNCHANGED <<Stream, created, itemVars, postFailed>>,
         wpc' \in {"connect", "top", "wait", "persist", "done"} => out' = <<>>,
         wpc' \in {"connect", "top", "wait", "send"}
           => wpc \in {"connect", "top", "wait", "send"},
         wpc' \in {"flush", "persist", "done"}
           => wpc \in {"flush", "persist", "done"}
  PROVE  Content'
  BY DEF Content, itemVars, Announced, Closed, In

\* The channel accepts what is written: the stream stays what it was.
LEMMA DeliverKeepsStream ==
  ASSUME TypeOK, Deliver
  PROVE  Stream' = Stream /\ out' = <<>>
<1>1. sent \in Seq(Event) /\ out \in Seq(Event)
  BY DEF TypeOK
<1>2. sent' = sent \o out /\ out' = <<>>
  BY DEF Deliver
<1>3. sent \o out \in Seq(Event)
  BY <1>1
<1> QED
  BY <1>2, <1>3, ConcatEmptySeq DEF Stream

LEMMA HandlerContent ==
  ASSUME IInv, Content, Handler
  PROVE  Content'
<1> USE DEF handlerVars, workerVars, itemVars, clientVars
<1>1. CASE StartWorker
  <2>1. sent = <<>>
    BY <1>1 DEF StartWorker, HandlerAt, IInv, Phase
  <2>2. /\ sent' = <<>> /\ out' = <<>> /\ created' = FALSE /\ added' = {}
        /\ doneItems' = {} /\ wpc' = "connect"
    BY <1>1, <2>1 DEF StartWorker
  <2>3. Stream' = <<>>
    BY <2>2, EmptyStream, ConcatEmptySeq DEF Stream
  <2> QED
    BY <2>2, <2>3 DEF Content, Announced, In
<1>2. CASE UNCHANGED <<wpc, sent, out, created, itemVars, postFailed>>
  <2>1. Stream' = Stream
    BY <1>2 DEF Stream
  <2>2. wpc' \in {"connect", "top", "wait", "persist", "done"} => out' = <<>>
    BY <1>2 DEF Content
  <2> QED
    BY <1>2, <2>1, <2>2, ContentKept
<1>3. StartWorker \/ UNCHANGED <<wpc, sent, out, created, itemVars, postFailed>>
  BY DEF Handler, LoadRequest, SkipTarget, RefuseTarget, Exhausted, AwaitReady
<1> QED
  BY <1>1, <1>2, <1>3

\* What the stream becomes when the worker, with nothing left to send, writes
\* events.
LEMMA StreamGrows ==
  ASSUME TypeOK, Content, out = <<>>, UNCHANGED sent,
         NEW w \in Seq(Event), out' = w
  PROVE  /\ Stream = sent /\ Stream' = sent \o w
         /\ \A e : In(Stream, e)' <=> In(Stream, e) \/ In(w, e)
         /\ sent # <<>> => Stream' # <<>> /\ Stream'[1] = Created
         /\ (\A k \in DOMAIN w : w[k].type # "delta") => Announced(Stream)'
<1>1. sent \in Seq(Event)
  BY DEF TypeOK
<1>2. Stream = sent /\ Stream' = sent \o w
  BY <1>1, ConcatEmptySeq DEF Stream
<1>3. \A e : In(Stream, e)' <=> In(Stream, e) \/ In(w, e)
  <2>1. \A e : In(sent \o w, e) <=> In(sent, e) \/ In(w, e)
    BY <1>1, ConcatIn
  <2> QED
    BY <1>2, <2>1 DEF In
<1>4. ASSUME sent # <<>> PROVE Stream' # <<>> /\ Stream'[1] = Created
  <2>1. 1 \in DOMAIN sent /\ sent[1] = Created
    BY <1>1, <1>2, <1>4, EmptySeq, LenProperties DEF Content
  <2>2. (sent \o w)[1] = Created
    BY <1>1, <2>1, ConcatAt
  <2> QED
    BY <1>1, <1>2, <1>4, <2>2, ConcatEqualIffEmpty
<1>5. ASSUME \A k \in DOMAIN w : w[k].type # "delta"
      PROVE  Announced(Stream)'
  <2>1. Announced(sent)
    BY <1>2 DEF Content
  <2>2. Announced(sent \o w)
    BY <1>1, <1>5, <2>1, AnnouncedConcat
  <2> QED
    BY <1>2, <2>2 DEF Announced
<1> QED
  BY <1>2, <1>3, <1>4, <1>5

\* Before its end was written the stream holds no response.failed, and after it
\* only as its last event.
LEMMA FailedLast ==
  ASSUME TypeOK, ~Says(Failed), out = <<>>, UNCHANGED sent,
         NEW w \in Seq(Event), out' = w,
         \A k \in DOMAIN w : w[k] = Failed => k = Len(w)
  PROVE  \A k \in DOMAIN Stream' : Stream'[k] = Failed => k = Len(Stream')
<1>1. sent \in Seq(Event) /\ Stream' = sent \o w
  BY DEF TypeOK, Stream
<1>2. \A k \in DOMAIN sent : sent[k] # Failed
  BY DEF Says
<1> DEFINE st == sent \o w
<1>3. /\ Len(st) = Len(sent) + Len(w)
      /\ \A k \in DOMAIN st :
           \/ k \in DOMAIN sent /\ st[k] = sent[k]
           \/ /\ k > Len(sent)
              /\ k - Len(sent) \in DOMAIN w
              /\ st[k] = w[k - Len(sent)]
      /\ DOMAIN st \subseteq Int /\ Len(sent) \in Nat /\ Len(w) \in Nat
  BY <1>1, ConcatAt
<1> HIDE DEF st
<1>4. \A k \in DOMAIN st : st[k] = Failed => k = Len(st)
  BY <1>2, <1>3
<1> QED
  BY <1>1, <1>4 DEF st

\* The worker fails downstream: response.failed ends the stream.
LEMMA FailedContent ==
  ASSUME IInv, Verdict, Content, wpc = "wait", committed,
         out' = <<Failed>>, postFailed', wpc' = "flush",
         UNCHANGED <<sent, created, itemVars>>
  PROVE  Content'
<1> DEFINE w == <<Failed>>
<1>1. w \in Seq(Event) /\ \A k \in DOMAIN w : w[k] = Failed /\ k = Len(w)
  BY EventMembers
<1>2. out' = w /\ out = <<>> /\ sent # <<>> /\ ~Says(Failed)
  BY DEF Content, IInv, Phase, Verdict
<1>3. \A k \in DOMAIN w : w[k].type # "delta"
  BY <1>1 DEF Failed
<1> HIDE DEF w
<1>4. /\ Stream = sent /\ Stream' # <<>> /\ Stream'[1] = Created
      /\ \A e : In(Stream, e) => In(Stream, e)'
      /\ Announced(Stream)'
  BY <1>1, <1>2, <1>3, StreamGrows DEF IInv
<1>5. \A k \in DOMAIN Stream' : Stream'[k] = Failed => k = Len(Stream')
  BY <1>1, <1>2, FailedLast DEF IInv
<1> QED
  BY <1>2, <1>4, <1>5 DEF Content, itemVars

\* The stream ends cleanly: what is open is closed.
LEMMA EndedContent ==
  ASSUME IInv, Verdict, Content, wpc = "wait", committed,
         out' \in SynthesizedEnd, wpc' = "flush",
         UNCHANGED <<sent, created, itemVars>>
  PROVE  Content'
<1>1. PICK w \in SynthesizedEnd : out' = w
  OBVIOUS
<1>2. /\ w \in Seq(Event)
      /\ \A k \in DOMAIN w : w[k].type \notin {"delta", "failed"}
      /\ \A i \in (text \cup tools) \ doneItems : In(w, Done(i))
  BY SynthesizedEndCloses DEF IInv, TypeOK, Items
<1>3. out = <<>> /\ sent # <<>> /\ ~Says(Failed)
  BY DEF Content, IInv, Phase, Verdict
<1>4. \A k \in DOMAIN w : w[k] # Failed /\ w[k].type # "delta"
  BY <1>2 DEF Failed
<1>5. /\ Stream = sent /\ Stream' # <<>> /\ Stream'[1] = Created
      /\ \A e : In(Stream, e)' <=> In(Stream, e) \/ In(w, e)
      /\ Announced(Stream)'
  BY <1>1, <1>2, <1>3, <1>4, StreamGrows DEF IInv
<1>6. \A k \in DOMAIN Stream' : Stream'[k] = Failed => k = Len(Stream')
  BY <1>1, <1>2, <1>3, <1>4, FailedLast DEF IInv
<1>7. Closed(Stream)'
  <2> SUFFICES ASSUME NEW i \in Items, In(Stream, Delta(i))'
               PROVE  In(Stream, Done(i))'
    BY DEF Closed
  <2>1. ~In(w, Delta(i))
    BY <1>4 DEF In, Delta
  <2>2. i \in text \cup tools \cup doneItems
    BY <1>5, <2>1 DEF Content
  <2>3. i \in doneItems => In(Stream, Done(i))
    BY DEF Content
  <2> QED
    BY <1>2, <1>5, <2>2, <2>3
<1> QED
  BY <1>3, <1>5, <1>6, <1>7 DEF Content, itemVars

\* An event that belongs to an item is told by its type and its item.
LEMMA EventShape ==
  ASSUME NEW e \in Event
  PROVE  /\ e.type = "added" => e = Added(e.item)
         /\ e.type = "delta" => e = Delta(e.item)
         /\ e.type = "done"  => e = Done(e.item)
         /\ e.type = "created" => e = Created
         /\ e.item \in Items => e.type \in {"added", "delta", "done"}
         /\ e.type \in {"added", "delta", "done"} => e.item \in Items
  BY StreamRelayAssumption
     DEF Event, Added, Delta, Done, Created, Items

\* A stream of one event.
LEMMA SingleStream ==
  ASSUME NEW x \in Event
  PROVE  /\ <<x>> \in Seq(Event)
         /\ \A k \in DOMAIN <<x>> : <<x>>[k] = x
         /\ \A y : In(<<x>>, y) <=> y = x
         /\ \A y : ~In(<<>>, y)
  BY DEF In

\* What is written for an upstream event: the event, what announces it, and
\* nothing else.
LEMMA WrittenEvents ==
  ASSUME NEW e \in UpstreamEvent, NEW w,
         w = MissingCreated(e) \o MissingAdded(e) \o <<e>>
  PROVE  /\ w \in Seq(Event) /\ w # <<>>
         /\ \A x : In(w, x) <=> \/ In(MissingCreated(e), x)
                                \/ In(MissingAdded(e), x)
                                \/ x = e
         /\ ~In(w, Failed)
         /\ ~created => w[1] = Created
<1> DEFINE c == MissingCreated(e)
           a == MissingAdded(e)
           l == <<e>>
<1>1. e \in Event /\ e # Failed
  BY DEF UpstreamEvent
<1>2. /\ c \in Seq(Event) /\ \A x : In(c, x) => x = Created
      /\ ~created /\ e # Created => c = <<Created>>
      /\ e = Created => c = <<>> /\ a = <<>>
  BY EventMembers, SingleStream DEF MissingCreated, MissingAdded, Created
<1>3. a \in Seq(Event) /\ \A x : In(a, x) => x = Added(e.item)
  BY <1>1, EventMembers, EventShape, SingleStream DEF MissingAdded
<1>4. l \in Seq(Event) /\ (\A x : In(l, x) <=> x = e) /\ l # <<>> /\ l[1] = e
  BY <1>1, SingleStream
<1>5. w = c \o a \o l
  OBVIOUS
<1> HIDE DEF c, a, l
<1> DEFINE ca == c \o a
<1>6. ca \in Seq(Event) /\ \A x : In(ca, x) <=> In(c, x) \/ In(a, x)
  BY <1>2, <1>3, ConcatAt, ConcatIn
<1>7. w = ca \o l
  BY <1>5
<1> HIDE DEF ca
<1>8. /\ w \in Seq(Event) /\ w # <<>>
      /\ \A x : In(w, x) <=> In(ca, x) \/ In(l, x)
  <2>1. w \in Seq(Event)
    BY <1>4, <1>6, <1>7, ConcatAt
  <2>2. \A x : In(w, x) <=> In(ca, x) \/ In(l, x)
    <3>1. ca \in Seq(Event) /\ l \in Seq(Event)
      BY <1>4, <1>6
    <3>2. \A x : In(ca \o l, x) <=> In(ca, x) \/ In(l, x)
      BY <3>1, ConcatIn
    <3> QED
      BY <1>7, <3>2
  <2>3. w # <<>>
    BY <1>1, <1>4, <2>2, SingleStream
  <2> QED
    BY <2>1, <2>2, <2>3
<1>9. ~In(w, Failed)
  BY <1>1, <1>2, <1>3, <1>4, <1>6, <1>8 DEF Failed, Created, Added
<1>10. ASSUME ~created PROVE w[1] = Created
  <2>1. CASE e = Created
    <3>1. w = l
      BY <1>2, <1>4, <1>5, <2>1, EmptyStream, ConcatEmptySeq
    <3> QED
      BY <1>4, <2>1, <3>1
  <2>2. CASE e # Created
    <3>1. c = <<Created>>
      BY <1>2, <1>10, <2>2
    <3>2. 1 \in DOMAIN c /\ c[1] = Created
      BY <3>1
    <3>3. 1 \in DOMAIN ca /\ ca[1] = Created
      BY <1>2, <1>3, <3>2, ConcatAt DEF ca
    <3> QED
      BY <1>4, <1>6, <1>7, <3>3, ConcatAt
  <2> QED
    BY <2>1, <2>2
<1> QED
  BY <1>6, <1>8, <1>9, <1>10, <1>4 DEF c, a

\* An upstream event goes on well from a stream that announces what it should.
LEMMA EventAnnounced ==
  ASSUME NEW e \in UpstreamEvent, NEW s \in Seq(Event), Announced(s),
         \A i \in added : In(s, Added(i)) \/ In(s, Done(i))
  PROVE  Announced(s \o (MissingCreated(e) \o MissingAdded(e) \o <<e>>))
<1> DEFINE c == MissingCreated(e)
           a == MissingAdded(e)
           l == <<e>>
<1>1. e \in Event
  BY DEF UpstreamEvent
<1>2. c \in Seq(Event) /\ \A k \in DOMAIN c : c[k].type # "delta"
  BY EventMembers DEF MissingCreated, Created
<1>3. a \in Seq(Event) /\ \A k \in DOMAIN a : a[k].type # "delta"
  BY <1>1, EventMembers, EventShape DEF MissingAdded, Added
<1>4. e.type = "delta" /\ e.item \notin added => In(a, Added(e.item))
  BY <1>1, EventMembers, EventShape, SingleStream DEF MissingAdded
<1>5. l \in Seq(Event) /\ \A k \in DOMAIN l : l[k] = e
  BY <1>1
<1> HIDE DEF c, a, l
<1> DEFINE sc == s \o c
           sca == sc \o a
<1>6. sc \in Seq(Event) /\ Announced(sc) /\ \A x : In(s, x) => In(sc, x)
  BY <1>2, ConcatAt, ConcatIn, AnnouncedConcat
<1> HIDE DEF sc
<1>7. /\ sca \in Seq(Event) /\ Announced(sca)
      /\ \A x : In(sc, x) \/ In(a, x) => In(sca, x)
  BY <1>3, <1>6, ConcatAt, ConcatIn, AnnouncedConcat
<1> HIDE DEF sca
<1>8. e.type = "delta" => In(sca, Added(e.item)) \/ In(sca, Done(e.item))
  BY <1>4, <1>6, <1>7
<1>9. Announced(sca \o l)
  BY <1>5, <1>7, <1>8, AnnouncedConcat
<1>10. sca \o l = s \o (c \o a \o l)
  <2>1. c \o a \in Seq(Event)
    BY <1>2, <1>3
  <2>2. sca = s \o (c \o a)
    BY <1>2, <1>3, ConcatAssociative DEF sca, sc
  <2> DEFINE ca == c \o a
  <2>3. ca \in Seq(Event) /\ sca = s \o ca
    BY <2>1, <2>2
  <2> HIDE DEF ca
  <2>4. (s \o ca) \o l = s \o (ca \o l)
    BY <1>5, <2>3, ConcatAssociative
  <2> QED
    BY <2>3, <2>4 DEF ca
<1> QED
  BY <1>9, <1>10 DEF c, a, l

\* An upstream event is written with what announces it.
LEMMA EventContent ==
  ASSUME IInv, Verdict, Content, NEW e \in UpstreamEvent, FrameEvent(e)
  PROVE  Content'
<1> DEFINE w == MissingCreated(e) \o MissingAdded(e) \o <<e>>
<1>1. e \in Event /\ e # Failed
  BY DEF UpstreamEvent
<1>2. /\ wpc = "wait" /\ wpc' = "send" /\ out' = w /\ created' = TRUE
      /\ UNCHANGED sent /\ CollectItems(e)
  BY DEF FrameEvent, FrameArrives, clientVars
<1>3. out = <<>> /\ ~Says(Failed) /\ sent \in Seq(Event)
  BY <1>2 DEF Content, Verdict, IInv, TypeOK
<1>4. /\ w \in Seq(Event) /\ w # <<>>
      /\ \A x : In(w, x) <=> \/ In(MissingCreated(e), x)
                             \/ In(MissingAdded(e), x)
                             \/ x = e
      /\ ~In(w, Failed)
      /\ ~created => w[1] = Created
  BY WrittenEvents
<1>5. Announced(sent \o w)
  <2>1. Stream = sent
    BY <1>3, ConcatEmptySeq DEF Stream
  <2> QED
    BY <1>3, <2>1, EventAnnounced DEF Content
<1> HIDE DEF w
<1>6. /\ Stream = sent /\ Stream' = sent \o w
      /\ \A x : In(Stream, x)' <=> In(Stream, x) \/ In(w, x)
      /\ sent # <<>> => Stream' # <<>> /\ Stream'[1] = Created
  BY <1>2, <1>3, <1>4, StreamGrows DEF IInv
<1>7. Stream' # <<>> /\ Stream'[1] = Created
  <2>1. CASE sent = <<>>
    <3>1. ~created
      BY <1>6, <2>1 DEF Content
    <3>2. Stream' = w
      BY <1>4, <1>6, <2>1, ConcatEmptySeq
    <3> QED
      BY <1>4, <3>1, <3>2
  <2> QED
    BY <1>6, <2>1
<1>8. Announced(Stream)'
  BY <1>5, <1>6 DEF Announced
<1>9. \A k \in DOMAIN Stream' : Stream'[k] = Failed => k = Len(Stream')
  <2>1. \A k \in DOMAIN w : w[k] # Failed
    BY <1>4 DEF In
  <2> QED
    BY <1>2, <1>3, <1>4, <2>1, FailedLast DEF IInv
<1>10. e.type = "delta" /\ e.item \notin added => In(MissingAdded(e), Added(e.item))
  BY <1>1, EventMembers, EventShape, SingleStream DEF MissingAdded
<1>11. \A i \in added' : In(Stream, Added(i))' \/ In(Stream, Done(i))'
  <2> SUFFICES ASSUME NEW i \in added'
               PROVE  In(Stream, Added(i))' \/ In(Stream, Done(i))'
    OBVIOUS
  <2>1. CASE i \in added
    BY <1>6, <2>1 DEF Content
  <2>2. CASE i \notin added
    <3>1. i = e.item /\ e.item \in Items
      BY <1>2, <2>2 DEF CollectItems
    <3>2. e \in {Added(i), Done(i)} \/ e.type = "delta"
      BY <1>1, <3>1, EventShape
    <3> QED
      BY <1>4, <1>6, <1>10, <2>2, <3>1, <3>2
  <2> QED
    BY <2>1, <2>2
<1>12. \A i \in doneItems' : In(Stream, Done(i))'
  <2> SUFFICES ASSUME NEW i \in doneItems' PROVE In(Stream, Done(i))'
    OBVIOUS
  <2>1. i \in doneItems \/ e = Done(i)
    BY <1>1, <1>2, EventShape DEF CollectItems
  <2> QED
    BY <1>4, <1>6, <2>1 DEF Content
<1>13. ASSUME NEW i \in Items, In(Stream, Delta(i))'
       PROVE  i \in text' \cup tools' \cup doneItems'
  <2>1. CASE In(Stream, Delta(i))
    <3>1. i \in text \cup tools \cup doneItems
      BY <1>2, <2>1 DEF Content
    <3> QED
      BY <1>2, <3>1 DEF CollectItems
  <2>2. CASE In(w, Delta(i))
    <3>1. e = Delta(i)
      BY <1>1, <1>4, <2>2, EventMembers, EventShape, SingleStream
         DEF MissingCreated, MissingAdded, Created, Added, Delta
    <3> QED
      BY <1>2, <3>1 DEF CollectItems, Delta, Items
  <2> QED
    BY <1>6, <1>13, <2>1, <2>2
<1> QED
  BY <1>2, <1>7, <1>8, <1>9, <1>11, <1>12, <1>13 DEF Content

\* Leaving the wait: the worker gives up, goes on, or writes.
LEMMA WaitContent ==
  ASSUME IInv, Verdict, Content, WaitEnds
  PROVE  Content'
<1> USE DEF handlerVars, itemVars, clientVars
<1>1. wpc = "wait" /\ UNCHANGED sent
  BY DEF WaitEnds, StreamEnds, StreamBreaks, FrameArrives, FrameAfterDisconnect,
         FrameIgnored, FrameMalformed, FrameHidden, FramePanics, FrameEvent
<1>2. CASE /\ wpc' \in {"failed", "aborted", "panicked", "top"}
           /\ UNCHANGED <<out, created, itemVars, postFailed>>
  <2>1. Stream' = Stream /\ out = <<>>
    BY <1>1, <1>2 DEF Stream, Content
  <2> QED
    BY <1>1, <1>2, <2>1, ContentKept
<1>3. ASSUME NEW kind \in StreamErrors, EndWithError(kind),
             UNCHANGED <<committed, created, itemVars>>
      PROVE  Content'
  <2>1. CASE MayFallBack
    BY <1>2, <1>3, <2>1 DEF EndWithError, Notify
  <2>2. CASE ~MayFallBack
    BY <1>1, <1>3, <2>2, FailedContent DEF EndWithError, MayFallBack, IInv,
       TypeOK, FlagsOK
  <2> QED
    BY <2>1, <2>2
<1>4. CASE StreamEnds
  <2>1. CASE MayFallBack
    BY <1>2, <1>4, <2>1 DEF StreamEnds, EndCleanly, Notify
  <2>2. CASE ~MayFallBack
    BY <1>1, <1>4, <2>2, EndedContent DEF StreamEnds, EndCleanly, MayFallBack,
       IInv, TypeOK, FlagsOK
  <2> QED
    BY <2>1, <2>2
<1>5. CASE \E kind \in StreamErrors : StreamBreaks(kind)
  BY <1>3, <1>5 DEF StreamBreaks
<1>6. CASE FrameMalformed
  BY <1>3, <1>6 DEF FrameMalformed, StreamErrors
<1>7. CASE \/ FrameAfterDisconnect
           \/ \E reportsFailure \in BOOLEAN : FrameIgnored(reportsFailure)
           \/ FrameHidden \/ FramePanics
  BY <1>2, <1>7 DEF FrameAfterDisconnect, FrameIgnored, FrameHidden,
                    FramePanics, Abort
<1>8. CASE \E e \in UpstreamEvent : FrameEvent(e)
  BY <1>8, EventContent
<1> QED
  BY <1>4, <1>5, <1>6, <1>7, <1>8, WaitEnds DEF WaitEnds

LEMMA WorkerContent ==
  ASSUME IInv, Verdict, Content, Worker
  PROVE  Content'
<1> USE DEF handlerVars, itemVars, workerVars, clientVars
<1>1. CASE Connect \/ LoopTop \/ SendFails \/ Persist
  <2>1. UNCHANGED <<sent, out, created, itemVars, postFailed>>
    BY <1>1 DEF Connect, LoopTop, SendFails, Persist
  <2>2. \/ wpc' \in {"failed", "aborted"}
        \/ wpc \in {"connect", "top"} /\ wpc' \in {"top", "wait"}
        \/ wpc = "persist" /\ wpc' = "done"
    BY <1>1 DEF Connect, LoopTop, SendFails, Persist, Notify, Abort
  <2>3. Stream' = Stream
    BY <2>1 DEF Stream
  <2>4. wpc' \in {"connect", "top", "wait", "persist", "done"} => out' = <<>>
    BY <2>1, <2>2 DEF Content
  <2> QED
    BY <2>1, <2>2, <2>3, <2>4, ContentKept
<1>2. CASE WaitEnds
  BY <1>2, WaitContent
<1>3. CASE SendEvent
  <2>1. Stream' = Stream /\ out' = <<>>
    BY <1>3, DeliverKeepsStream DEF SendEvent, IInv
  <2> QED
    BY <1>3, <2>1, ContentKept DEF SendEvent
<1>4. CASE SendLast
  <2>1. Stream' = Stream /\ out' = <<>>
    <3>1. CASE out = <<>>
      BY <1>4, <3>1 DEF SendLast, Stream
    <3>2. CASE Deliver
      BY <3>2, DeliverKeepsStream DEF IInv
    <3> QED
      BY <1>4, <3>1, <3>2 DEF SendLast
  <2> QED
    BY <1>4, <2>1, ContentKept DEF SendLast
<1> QED
  BY <1>1, <1>2, <1>3, <1>4, Worker DEF Worker

LEMMA ContentStep ==
  ASSUME IInv, Verdict, Content, [Next]_vars
  PROVE  Content'
<1>1. CASE ClientReads \/ ClientLeaves \/ UNCHANGED vars
  <2>1. UNCHANGED <<sent, out, created, itemVars, postFailed, wpc>>
    BY <1>1 DEF ClientReads, ClientLeaves, vars, workerVars, itemVars, clientVars
  <2>2. Stream' = Stream
    BY <2>1 DEF Stream
  <2>3. wpc' \in {"connect", "top", "wait", "persist", "done"} => out' = <<>>
    BY <2>1 DEF Content
  <2> QED
    BY <2>1, <2>2, <2>3, ContentKept
<1> QED
  BY <1>1, HandlerContent, WorkerContent DEF Next

\* What the worker knows of its stream is true, whatever the upstream sends and
\* whenever the client leaves.
THEOREM ContentHolds == Spec => []Content
<1>1. IInv /\ Verdict /\ Content /\ [Next]_vars => Content'
  BY ContentStep
<1> QED
  BY <1>1, InitContent, Inductive, VerdictHolds, PTL DEF Spec

-----------------------------------------------------------------------------
(* What the client gets is the beginning of the worker's stream.            *)

LEMMA SentStarts ==
  ASSUME TypeOK
  PROVE  /\ Len(Stream) \in Nat /\ Len(sent) \in Nat
         /\ \A k \in DOMAIN sent : /\ k \in DOMAIN Stream /\ k \in 1..Len(sent)
                                   /\ Stream[k] = sent[k]
         /\ DOMAIN Stream = 1..Len(Stream)
         /\ out = <<>> => Stream = sent
<1>1. sent \in Seq(Event) /\ out \in Seq(Event)
  BY DEF TypeOK
<1>2. Stream \in Seq(Event)
  BY <1>1, ConcatAt DEF Stream
<1> QED
  BY <1>1, <1>2, ConcatAt, ConcatEmptySeq, LenProperties DEF Stream

\* The stream a client gets begins with response.created, announces each item
\* before its first delta, and says nothing after response.failed: whatever the
\* upstream leaves out, and whichever prefix of the stream the client got.
THEOREM StreamIsWellFormed == Spec => []StreamWellFormed
<1>1. ASSUME TypeOK, Content PROVE StreamWellFormed
  <2>1. ASSUME sent # <<>> PROVE sent[1] = Created
    <3>1. 1 \in DOMAIN sent
      BY <1>1, <2>1, EmptySeq, LenProperties DEF TypeOK
    <3>2. Stream # <<>>
      BY <1>1, <2>1, ConcatEqualIffEmpty DEF Stream, TypeOK
    <3> QED
      BY <1>1, <3>1, <3>2, SentStarts DEF Content
  <2>2. ASSUME NEW k \in DOMAIN sent, sent[k].type = "delta"
        PROVE  \E j \in 1..(k - 1) : sent[j] \in {Added(sent[k].item),
                                                   Done(sent[k].item)}
    <3>1. k \in DOMAIN Stream /\ Stream[k] = sent[k] /\ k \in 1..Len(sent)
      BY <1>1, SentStarts
    <3>2. PICK j \in 1..(k - 1) : Stream[j] \in {Added(sent[k].item),
                                                  Done(sent[k].item)}
      BY <1>1, <2>2, <3>1 DEF Content, Announced
    <3>3. j \in DOMAIN sent
      BY <1>1, <3>1, <3>2, LenProperties DEF TypeOK
    <3>4. Stream[j] = sent[j]
      BY <1>1, <3>3, SentStarts
    <3> QED
      BY <3>2, <3>4
  <2>3. ASSUME NEW k \in DOMAIN sent, sent[k] = Failed PROVE k = Len(sent)
    <3>1. /\ k \in DOMAIN Stream /\ Stream[k] = sent[k] /\ k \in 1..Len(sent)
          /\ Len(Stream) \in Nat /\ Len(sent) \in Nat
      BY <1>1, SentStarts
    <3>2. k = Len(Stream)
      BY <1>1, <2>3, <3>1 DEF Content
    <3>3. Len(sent) <= Len(Stream)
      BY <1>1, ConcatAt DEF Stream, TypeOK
    <3> QED
      BY <3>1, <3>2, <3>3
  <2> QED
    BY <2>1, <2>2, <2>3 DEF StreamWellFormed
<1>2. IInv /\ Content => StreamWellFormed
  BY <1>1 DEF IInv
<1> QED
  BY <1>2, Inductive, ContentHolds, PTL

\* In a finished stream that did not fail each item shown is closed.
LEMMA FinishedCloses ==
  ASSUME IInv, Verdict, Content, wpc \in {"persist", "done"}, ~Says(Failed),
         NEW k \in DOMAIN sent, sent[k].type = "delta"
  PROVE  sent[k].item \in Items /\ Says(Done(sent[k].item))
<1>1. Stream = sent /\ Closed(sent)
  <2>1. out = <<>> /\ ~postFailed /\ Closed(Stream)
    BY DEF Content, Verdict
  <2> QED
    BY <2>1, SentStarts DEF IInv, Closed
<1>2. sent[k] \in Event
  BY DEF IInv, TypeOK
<1>3. sent[k].item \in Items /\ sent[k] = Delta(sent[k].item)
  BY <1>2, EventShape
<1> QED
  BY <1>1, <1>3 DEF Closed, In, Says

\* A stream the worker finished on has told how it ended, and closed what it had
\* shown unless it failed.
THEOREM StreamIsTerminated == Spec => []StreamTerminated
<1>1. IInv /\ Verdict /\ Content => StreamTerminated
  BY FinishedCloses DEF StreamTerminated, Verdict
<1> QED
  BY <1>1, Inductive, VerdictHolds, ContentHolds, PTL

-----------------------------------------------------------------------------
(* The row repeats what the client saw.                                     *)

LEMMA StoredStep ==
  ASSUME IInv, Verdict, Stored, [Next]_vars
  PROVE  Stored'
<1> USE DEF handlerVars, itemVars, workerVars, clientVars
<1>1. CASE Persist
  <2>1. record = NoRecord /\ UNCHANGED <<sent, cur, postFailed>>
    BY <1>1 DEF Persist, Verdict
  <2>2. ASSUME NEW stored \in SUBSET DoneItemsOf(sent),
               record' = [status |-> RecordStatus, target |-> cur,
                          output |-> stored, whole |-> stored = DoneItemsOf(sent)]
        PROVE  Stored'
    <3> DEFINE items == DoneItemsOf(sent)
               status == RecordStatus
               b == stored = items
    <3>1. b \in BOOLEAN
      OBVIOUS
    <3>2. b => stored = items
      OBVIOUS
    <3>3. items' = items /\ status' = status
      BY <2>1 DEF DoneItemsOf, RecordStatus
    <3>4. record' = [status |-> status, target |-> cur, output |-> stored,
                     whole |-> b]
      BY <2>2
    <3> HIDE DEF items, status, b
    <3>5. /\ record'.target = cur' /\ record'.status = status'
          /\ record'.output \subseteq items'
          /\ record'.whole => record'.output = items'
      BY <2>1, <2>2, <3>1, <3>2, <3>3, <3>4 DEF items
    <3> QED
      BY <3>5 DEF Stored, items, status
  <2> QED
    BY <1>1, <2>1, <2>2 DEF Stored, Persist
<1>2. CASE ~Persist
  <2>1. UNCHANGED record
    BY <1>2 DEF Next, Handler, LoadRequest, SkipTarget, RefuseTarget,
       StartWorker, Exhausted, AwaitReady, Worker, Connect, LoopTop, SendFails,
       SendEvent, SendLast, WaitEnds, StreamEnds, StreamBreaks,
       FrameAfterDisconnect, FrameIgnored, FrameMalformed, FrameHidden,
       FramePanics, FrameEvent, ClientReads, ClientLeaves, vars
  <2>2. ASSUME record # NoRecord PROVE UNCHANGED <<sent, cur, postFailed>>
    <3>1. /\ wpc = "done" /\ sent # <<>>
          /\ hpc \notin {"start", "select"} /\ ready = "ok"
      BY <2>2 DEF Verdict, IInv, Phase, TypeOK
    <3>2. ~Worker
      BY <1>2, <3>1 DEF Worker, Connect, LoopTop, SendFails, SendEvent, SendLast,
         WaitEnds, StreamEnds, StreamBreaks, FrameArrives, FrameAfterDisconnect,
         FrameIgnored, FrameMalformed, FrameHidden, FramePanics, FrameEvent
    <3>3. CASE Handler
      BY <3>1, <3>3 DEF Handler, HandlerAt, LoadRequest, SkipTarget,
         RefuseTarget, StartWorker, Exhausted, AwaitReady, FallbackEligible
    <3> QED
      BY <3>2, <3>3 DEF Next, ClientReads, ClientLeaves, vars
  <2> QED
    BY <2>1, <2>2 DEF Stored, RecordStatus, DoneItemsOf
<1> QED
  BY <1>1, <1>2

\* The row stored for a stream names the target that produced it, has the status
\* the stream ended with, and holds items the client saw finished: each one it
\* was shown content of, if the response completed and every INSERT succeeded.
THEOREM RecordIsOfStream == Spec => []RecordMatchesStream
<1>1. Init => Stored
  BY DEF Init, Stored
<1>2. IInv /\ Verdict /\ Stored /\ [Next]_vars => Stored'
  BY StoredStep
<1>3. ASSUME IInv, Verdict, Content, Stored PROVE RecordMatchesStream
  <2> SUFFICES ASSUME record # NoRecord
               PROVE  /\ record.target = cur
                      /\ record.status = "failed" <=> Says(Failed)
                      /\ \A i \in record.output : Says(Done(i))
                      /\ record.status = "completed" /\ record.whole =>
                           \A k \in DOMAIN sent : sent[k].type = "delta" =>
                             sent[k].item \in record.output
    BY DEF RecordMatchesStream
  <2>1. wpc = "done" /\ (postFailed <=> Says(Failed))
    BY <1>3 DEF Verdict
  <2>2. /\ record.target = cur
        /\ record.status = "failed" <=> Says(Failed)
    BY <1>3, <2>1 DEF Stored, RecordStatus, IInv, TypeOK, FlagsOK
  <2>3. \A i : i \in DoneItemsOf(sent) <=> Says(Done(i))
    <3>1. \A k \in DOMAIN sent : sent[k] \in Event
      BY <1>3 DEF IInv, TypeOK
    <3>2. \A k \in DOMAIN sent : sent[k].type = "done" => sent[k] = Done(sent[k].item)
      BY <3>1, EventShape
    <3>3. \A i : Done(i).type = "done" /\ Done(i).item = i
      BY DEF Done
    <3> QED
      BY <3>2, <3>3 DEF DoneItemsOf, ToSet, Says
  <2>4. \A i \in record.output : Says(Done(i))
    BY <1>3, <2>3 DEF Stored
  <2>5. ASSUME record.status = "completed", record.whole,
               NEW k \in DOMAIN sent, sent[k].type = "delta"
        PROVE  sent[k].item \in record.output
    <3>1. ~Says(Failed)
      BY <2>2, <2>5
    <3>2. Says(Done(sent[k].item))
      BY <1>3, <2>1, <2>5, <3>1, FinishedCloses
    <3> QED
      BY <1>3, <2>3, <2>5, <3>2 DEF Stored
  <2> QED
    BY <2>2, <2>4, <2>5
<1>4. IInv /\ Verdict /\ Content /\ Stored => RecordMatchesStream
  BY <1>3
<1> QED
  BY <1>1, <1>2, <1>4, Inductive, VerdictHolds, ContentHolds, PTL DEF Spec

=============================================================================
