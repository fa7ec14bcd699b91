------------------------------- MODULE Janitor -------------------------------
(***************************************************************************)
(* The background task that deletes expired responses: main.rs builds a    *)
(* Janitor at startup and at every tick of a 5 minute timer and runs one   *)
(* cleanup.  The reads and the deletes are separate statements, in no      *)
(* transaction, so requests run between them.  A failing statement is      *)
(* logged and the cleanup goes on with what it has.                        *)
(*                                                                         *)
(* Left out: expired probe results (ProbeCache) and request logs, which    *)
(* nothing reads back, VACUUM, and the counters of the report.             *)
(***************************************************************************)
EXTENDS ResponseStore

CONSTANT Ttl   \* state_ttl, in ticks of the clock

ASSUME JanitorAssumption == Ttl \in Nat

VARIABLES
  cleaning,    \* what the cleanup does next
  cutoff,      \* time of the cleanup's cutoff, before state_ttl is taken off
  doomed       \* responses the cleanup is going to delete

janitor == <<cleaning, cutoff, doomed>>

JanitorTypeOK ==
  /\ cleaning \in {"idle", "select", "protect", "items", "handles", "rows"}
  /\ cutoff \in 0 .. MaxTime
  /\ doomed \in SUBSET Turns

JanitorInit == cleaning = "idle" /\ cutoff = 0 /\ doomed = {}

\* Mutant: a response expires the moment it may.
ExpiredAtOnce(n, time) == Stored(n) /\ responses[n].at + Ttl <= time

\* completed_at < cutoff, where cutoff = time - state_ttl.
Expired(n, time) == Stored(n) /\ responses[n].at + Ttl < time

Step(here, there) == cleaning = here /\ cleaning' = there

\* The locals of the cleanup are dropped at its end.
Finish == cleaning' = "idle" /\ cutoff' = 0 /\ doomed' = {}

\* A tick of the timer, then find_expired_response_ids: the cutoff and the first
\* statement.  Nothing to delete, or an error, ends the cleanup.
SelectExpired ==
  /\ Step("idle", "protect")
  /\ \E n \in Turns : Expired(n, now)
  /\ cutoff' = now
  /\ doomed' = {n \in Turns : Expired(n, now)}
  /\ UNCHANGED <<store, now, faults>>

\* A response is spared when a response that has not expired names it.  Those the relay
\* stores name a handle of the upstream or nothing (StoreRow of ResponseChain), so
\* this spares none of them.
Referenced ==
  {n \in doomed : \E m \in Turns :
     Stored(m) /\ ~Expired(m, cutoff) /\ responses[m].prev = Response(n)}

ProtectReferenced ==
  /\ Step("protect", "items")
  /\ doomed' = doomed \ Referenced
  /\ UNCHANGED <<store, now, faults, cutoff>>

\* `unwrap_or_default`, `unwrap_or(None)`: a failing read protects nothing.
ProtectFails ==
  /\ Step("protect", "items") /\ Fault
  /\ UNCHANGED <<store, now, cutoff, doomed>>

CleanItems ==
  /\ Step("items", "handles")
  /\ \/ DeleteItems(doomed) /\ UNCHANGED faults
     \/ Fault /\ UNCHANGED items
  /\ UNCHANGED <<responses, handles, now, cutoff, doomed>>

CleanHandles ==
  /\ Step("handles", "rows")
  /\ \/ DeleteHandles(doomed) /\ UNCHANGED faults
     \/ Fault /\ UNCHANGED handles
  /\ UNCHANGED <<responses, items, now, cutoff, doomed>>

CleanRows ==
  /\ cleaning = "rows" /\ Finish
  /\ \/ DeleteRows(doomed) /\ UNCHANGED faults
     \/ Fault /\ UNCHANGED store
  /\ UNCHANGED now

Clean ==
  \/ SelectExpired \/ ProtectReferenced \/ ProtectFails
  \/ CleanItems \/ CleanHandles \/ CleanRows
=============================================================================
