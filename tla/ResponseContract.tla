--------------------------- MODULE ResponseContract ---------------------------
(***************************************************************************)
(* What the caller of a streaming request may rely on, whatever happens    *)
(* behind the relay: the targets are attempted one after the other until   *)
(* the first event is sent; from then on the attempt is fixed, the events  *)
(* only accumulate, and nothing is sent after the response's record is     *)
(* stored; the record is stored at most once, after a terminal event, and  *)
(* says "failed" exactly when the caller was told so.                      *)
(***************************************************************************)
EXTENDS Naturals, Sequences, SequencesExt

CONSTANT TargetCount

VARIABLES
  attempt,     \* the target under consideration, TargetCount + 1 for none
  refused,     \* the request was answered with an error
  transcript,  \* types of the events sent to the caller, in order
  outcome      \* status of the stored record, "none" before it is stored

cvars == <<attempt, refused, transcript, outcome>>

EventTypes == {"created", "added", "delta", "done", "completed", "failed"}

Occurs(type) == \E k \in DOMAIN transcript : transcript[k] = type

Init ==
  /\ attempt = 1
  /\ refused = FALSE
  /\ transcript = <<>>
  /\ outcome = "none"

Undecided == ~refused /\ transcript = <<>> /\ attempt <= TargetCount

NextAttempt ==
  /\ Undecided
  /\ attempt' = attempt + 1
  /\ UNCHANGED <<refused, transcript, outcome>>

Refuse ==
  /\ ~refused /\ transcript = <<>>
  /\ refused' = TRUE
  /\ UNCHANGED <<attempt, transcript, outcome>>

Emit ==
  /\ ~refused /\ attempt <= TargetCount /\ outcome = "none"
  /\ transcript' \in Seq(EventTypes)
  /\ IsPrefix(transcript, transcript')
  /\ UNCHANGED <<attempt, refused, outcome>>

Store ==
  /\ outcome = "none"
  /\ Occurs("completed") \/ Occurs("failed")
  /\ outcome' = IF Occurs("failed") THEN "failed" ELSE "completed"
  /\ UNCHANGED <<attempt, refused, transcript>>

Next == NextAttempt \/ Refuse \/ Emit \/ Store

Spec == Init /\ [][Next]_cvars
=============================================================================
