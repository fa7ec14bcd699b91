-------------------------- MODULE ProbeCacheProofs --------------------------
(***************************************************************************)
(* Proofs about ProbeCache, for every set of requests, every forced api    *)
(* and any number of disturbances.                                         *)
(***************************************************************************)
EXTENDS ProbeCache, TLAPS

-----------------------------------------------------------------------------
(* The inductive invariant.                                                 *)

\* What an entry or row may claim of the upstream.
Claims(e, apis, tools) == e.api \in apis /\ (e.tools => tools)
Earned(e) == Claims(e, Expected, tooling)

CachesEarned ==
  /\ mem # None => Claims(mem, Expected, tooling)
  /\ row # None => (row.status = "success" => Claims(row, Expected, tooling))

\* A protocol is passed over only because it is not served.
PassedOver ==
  \A r \in Requests :
    /\ \A j \in 1..(candidate[r] - 1) : Apis[j] \notin serves
    /\ pc[r] = "storeFailure" => serves = {}
    /\ result[r] = "unsupported" => serves = {}

\* Where a request must have resolved to something.
Resolving(r) ==
  \/ pc[r] \in {"rowHit", "recheckHit", "store", "remember", "forceRemember",
                "forceStore", "toolProbe", "toolRemember", "toolStore"}
  \/ pc[r] \in {"release", "remove"} /\ result[r] = "pending"
  \/ result[r] \in {"ok", "skipped"}

FoundEarned ==
  \A r \in Requests :
    /\ found[r] # None => Claims(found[r], Expected, tooling)
    /\ Resolving(r) => found[r] # None

\* How far a request has come when its result is known.
ResultsInOrder ==
  \A r \in Requests :
    /\ result[r] # "pending"
         => pc[r] \in {"release", "remove", "forceRemember", "forceStore", "gone",
                       "done"}
    /\ result[r] \in {"ok", "skipped"}
         => pc[r] \in {"forceRemember", "forceStore", "gone", "done"}
    /\ pc[r] \in {"force", "forceRemember", "forceStore"} => kind[r] = "forced"
    /\ kind[r] = "forced" => Forced # NoApi
    /\ pc[r] = "lock" => mutex[r] # None

ToolsServed ==
  \A r \in Requests : result[r] = "ok" /\ kind[r] = "tools" => tooling

IInv ==
  /\ TypeOK /\ CachesEarned /\ PassedOver /\ FoundEarned /\ ResultsInOrder
  /\ ToolsServed
  /\ HeldByTheLiving

-----------------------------------------------------------------------------
(* Lemmas.                                                                  *)

\* Every entry and row the code writes is one of the model's.
LEMMA EntryTypes ==
  /\ \A a \in Api : Unprobed(a) \in Entry
  /\ \A w \in Row : w.api \in Api => FromRow(w) \in Entry
  /\ \A e \in Entry : SuccessRow(e) \in Row /\ ToolRow(e) \in Row
  /\ FailureRow \in Row
  /\ tooling \in BOOLEAN =>
       \A r \in Requests : found[r] \in Entry => ToolAnswer(r) \in Entry
  BY DEF Unprobed, FromRow, SuccessRow, ToolRow, FailureRow, ToolAnswer, Entry, Row

\* What they claim: an unprobed entry claims no tools, the others what they are
\* made from.
LEMMA EntryClaims ==
  /\ \A a \in Api : a \in Expected => Earned(Unprobed(a))
  /\ \A w \in Row : Earned(w) => Earned(FromRow(w))
  /\ \A e \in Entry : Earned(e) => Earned(SuccessRow(e)) /\ Earned(ToolRow(e))
  /\ \A r \in Requests : found[r] \in Entry /\ Earned(found[r])
                           => Earned(ToolAnswer(r))
  BY DEF Earned, Claims, Unprobed, FromRow, SuccessRow, ToolRow, ToolAnswer, Entry,
         Row

\* What may be expected of an upstream is a protocol, and a candidate that is
\* served after others that are not may be.
LEMMA ExpectedApis ==
  /\ Expected \subseteq Api
  /\ \A k \in DOMAIN Apis :
       /\ Apis[k] \in Api
       /\ Apis[k] \in serves /\ (\A j \in 1..(k - 1) : Apis[j] \notin serves)
            => Apis[k] \in Expected
  BY DEF Expected, FirstServed, Api

\* Where a request goes with what it resolved, and how it ends.
LEMMA Verdicts ==
  ASSUME NEW r \in Requests, NEW e \in Entry
  PROVE  /\ \/ After(r, e) = "toolProbe" /\ Verdict(r, e) = "pending"
            \/ After(r, e) = "done" /\ Verdict(r, e) \in {"ok", "skipped"}
         /\ Earned(e) /\ kind[r] = "tools" /\ Verdict(r, e) = "ok" => tooling
<1>1. CASE After(r, e) = "toolProbe"
  <2>1. Verdict(r, e) = "pending"
    BY <1>1, Zenon DEF Verdict
  <2> QED BY <1>1, <2>1
<1>2. CASE After(r, e) # "toolProbe"
  <2>1. After(r, e) = "done"
    BY <1>2 DEF After
  <2>2. CASE kind[r] = "tools" /\ ~e.tools
    <3>1. Verdict(r, e) = "skipped"
      BY <1>2, <2>2, Zenon DEF Verdict
    <3> QED BY <2>1, <3>1
  <2>3. CASE ~(kind[r] = "tools" /\ ~e.tools)
    <3>1. Verdict(r, e) = "ok"
      BY <1>2, <2>3, Zenon DEF Verdict
    <3>2. Earned(e) /\ kind[r] = "tools" => tooling
      BY <2>3, Zenon DEF Earned, Claims
    <3> QED BY <2>1, <3>1, <3>2
  <2> QED BY <2>2, <2>3
<1> QED BY <1>1, <1>2

-----------------------------------------------------------------------------
(* The invariant is inductive.                                              *)

\* At the start nothing is cached and no request has begun.
LEMMA InitIInv == Init => IInv
<1> SUFFICES ASSUME Init PROVE IInv
  OBVIOUS
<1>1. TypeOK
  BY ProbeCacheAssumption DEF Init, TypeOK, Points, Results, Apis
<1>2. CachesEarned /\ PassedOver /\ ResultsInOrder /\ ToolsServed
  BY DEF Init, CachesEarned, PassedOver, ResultsInOrder, ToolsServed
<1>3. FoundEarned
  BY DEF Init, FoundEarned, Resolving
<1>4. HeldByTheLiving
  BY ProbeCacheAssumption DEF Init, HeldByTheLiving
<1> QED
  BY <1>1, <1>2, <1>3, <1>4 DEF IInv


\* A request that resolves at `here` and lets go of the lock keeps the parts of
\* the invariant that speak of requests.
LEMMA ResolveKeeps ==
  ASSUME IInv, NEW r \in Requests,
         NEW here \in {"mem", "recheck", "rowHit", "recheckHit", "remove"},
         NEW e \in Entry, Earned(e), Resolve(r, here, e), result[r] = "pending",
         UNCHANGED <<world, kind, mutex, candidate>>,
         DropGuard(r) \/ (here = "remove" /\ UNCHANGED holder)
  PROVE  /\ pc' \in [Requests -> Points] /\ found' \in [Requests -> Entry \cup {None}]
         /\ result' \in [Requests -> Results]
         /\ holder' \in [Requests -> Requests \cup {None}]
         /\ PassedOver' /\ FoundEarned' /\ ResultsInOrder' /\ ToolsServed'
         /\ HeldByTheLiving'
<1> DEFINE there == After(r, e)
           res == Verdict(r, e)
<1>1. /\ \/ there = "toolProbe" /\ res = "pending"
         \/ there = "done" /\ res \in {"ok", "skipped"}
      /\ kind[r] = "tools" /\ res = "ok" => tooling
  BY Verdicts
<1>2. /\ TypeOK /\ PassedOver /\ FoundEarned /\ ResultsInOrder /\ ToolsServed
      /\ HeldByTheLiving
  BY DEF IInv
<1>3. /\ pc[r] = here /\ pc' = [pc EXCEPT ![r] = there]
      /\ found' = [found EXCEPT ![r] = e]
      /\ result' = [result EXCEPT ![r] = res]
      /\ serves' = serves /\ tooling' = tooling /\ kind' = kind /\ mutex' = mutex
      /\ candidate' = candidate
  BY DEF Resolve, Goto, world
<1> HIDE DEF there, res
<1>4. /\ pc' \in [Requests -> Points] /\ found' \in [Requests -> Entry \cup {None}]
      /\ result' \in [Requests -> Results]
  BY <1>1, <1>2, <1>3 DEF TypeOK, Points, Results
<1>5. holder' \in [Requests -> Requests \cup {None}]
  BY <1>2 DEF TypeOK, DropGuard
<1>6. PassedOver'
  BY <1>1, <1>2, <1>3 DEF TypeOK, PassedOver
<1>7. FoundEarned'
  <2>1. Expected' = Expected
    BY <1>3 DEF Expected, FirstServed
  <2>2. \A q \in Requests :
          found'[q] # None => Claims(found'[q], Expected, tooling)
    BY <1>2, <1>3 DEF TypeOK, FoundEarned, Earned
  <2>3. \A q \in Requests : Resolving(q)' => found'[q] # None
    BY <1>1, <1>2, <1>3, ProbeCacheAssumption DEF TypeOK, FoundEarned, Resolving
  <2> QED BY <1>3, <2>1, <2>2, <2>3 DEF FoundEarned
<1>8. ResultsInOrder'
  BY <1>1, <1>2, <1>3 DEF TypeOK, ResultsInOrder
<1>9. ToolsServed'
  BY <1>1, <1>2, <1>3 DEF TypeOK, ToolsServed
<1>10. HeldByTheLiving'
  BY <1>1, <1>2, <1>3, ProbeCacheAssumption DEF TypeOK, HeldByTheLiving, DropGuard
<1> QED
  BY <1>4, <1>5, <1>6, <1>7, <1>8, <1>9, <1>10

\* A request arrives.
LEMMA ArriveKeeps ==
  ASSUME IInv, NEW r \in Requests, Arrive(r)
  PROVE  IInv'
<1> USE ProbeCacheAssumption
<1>1. /\ TypeOK /\ CachesEarned /\ PassedOver /\ FoundEarned
      /\ ResultsInOrder /\ ToolsServed /\ HeldByTheLiving
  BY DEF IInv
<1>2. Expected' = Expected
  BY DEF Arrive, Expected, FirstServed, world
<1>3. TypeOK'
  BY <1>1 DEF TypeOK, Points, Results, Arrive, Goto, world, shared
<1>4. CachesEarned'
  BY <1>1, <1>2 DEF CachesEarned, Arrive, Goto, world, shared
<1>5. PassedOver'
  BY <1>1 DEF TypeOK, PassedOver, Arrive, Goto, world, shared
<1>6. FoundEarned'
  BY <1>1, <1>2
     DEF TypeOK, FoundEarned, Resolving, Arrive, Goto, world, shared
<1>7. ResultsInOrder'
  BY <1>1 DEF TypeOK, ResultsInOrder, Arrive, Goto, world, shared
<1>8. ToolsServed'
  BY <1>1 DEF TypeOK, ToolsServed, ResultsInOrder, Arrive, Goto, world, shared
<1>9. HeldByTheLiving'
  BY <1>1
     DEF TypeOK, HeldByTheLiving, ResultsInOrder, Arrive, Goto, world, shared
<1> QED
  BY <1>3, <1>4, <1>5, <1>6, <1>7, <1>8, <1>9 DEF IInv

\* A forced target resolves to the forced api.
LEMMA ForcedKeeps ==
  ASSUME IInv, NEW r \in Requests, ResolveForced(r)
  PROVE  IInv'
<1> USE ProbeCacheAssumption
<1>1. /\ TypeOK /\ CachesEarned /\ PassedOver /\ FoundEarned
      /\ ResultsInOrder /\ ToolsServed /\ HeldByTheLiving
  BY DEF IInv
<1>2. Expected' = Expected
  BY DEF ResolveForced, Expected, FirstServed, world
<1>3. /\ Forced \in Expected /\ Unprobed(Forced) \in Entry
      /\ Claims(Unprobed(Forced), Expected, tooling)
  <2>1. Forced \in Api /\ Forced \in Expected
    BY <1>1 DEF ResultsInOrder, ResolveForced, Goto, Expected
  <2> QED BY <2>1, EntryTypes, EntryClaims DEF Earned
<1>4. TypeOK'
  BY <1>1, <1>3
     DEF TypeOK, Points, Results, ResolveForced, Goto, EndsWith, world,
         shared
<1>5. CachesEarned'
  BY <1>1, <1>2, <1>3
     DEF CachesEarned, ResolveForced, Goto, EndsWith, world, shared
<1>6. PassedOver'
  BY <1>1, <1>3
     DEF TypeOK, PassedOver, ResolveForced, Goto, EndsWith, world, shared
<1>7. FoundEarned'
  BY <1>1, <1>2, <1>3
     DEF TypeOK, FoundEarned, Resolving, ResolveForced, Goto, EndsWith,
         world, shared
<1>8. ResultsInOrder'
  BY <1>1, <1>3
     DEF TypeOK, ResultsInOrder, ResolveForced, Goto, EndsWith, world,
         shared
<1>9. ToolsServed'
  BY <1>1, <1>3
     DEF TypeOK, ToolsServed, ResultsInOrder, ResolveForced, Goto, EndsWith,
         world, shared
<1>10. HeldByTheLiving'
  BY <1>1, <1>3
     DEF TypeOK, HeldByTheLiving, ResultsInOrder, ResolveForced, Goto,
         EndsWith, world, shared
<1> QED
  BY <1>4, <1>5, <1>6, <1>7, <1>8, <1>9, <1>10 DEF IInv

\* Its row is stored.
LEMMA StoreForcedKeeps ==
  ASSUME IInv, NEW r \in Requests, StoreForced(r)
  PROVE  IInv'
<1> USE ProbeCacheAssumption
<1>1. /\ TypeOK /\ CachesEarned /\ PassedOver /\ FoundEarned
      /\ ResultsInOrder /\ ToolsServed /\ HeldByTheLiving
  BY DEF IInv
<1>2. Expected' = Expected
  BY DEF StoreForced, Expected, FirstServed, world
<1>3. found[r] \in Entry /\ Claims(found[r], Expected, tooling)
  BY <1>1 DEF TypeOK, FoundEarned, Resolving, StoreForced, Goto
<1>4. SuccessRow(found[r]) \in Row /\ Claims(SuccessRow(found[r]), Expected, tooling)
  BY <1>3, EntryTypes, EntryClaims DEF Earned
<1>5. TypeOK'
  BY <1>1, <1>3, <1>4
     DEF TypeOK, Points, Results, StoreForced, Goto, Disturbed, world, local
<1>6. CachesEarned'
  BY <1>1, <1>2, <1>3, <1>4
     DEF CachesEarned, StoreForced, Goto, Disturbed, world, local
<1>7. PassedOver'
  BY <1>1, <1>3, <1>4
     DEF TypeOK, PassedOver, StoreForced, Goto, Disturbed, world, local
<1>8. FoundEarned'
  BY <1>1, <1>2, <1>3, <1>4
     DEF TypeOK, FoundEarned, Resolving, StoreForced, Goto, Disturbed, world,
         local
<1>9. ResultsInOrder'
  BY <1>1, <1>3, <1>4
     DEF TypeOK, ResultsInOrder, StoreForced, Goto, Disturbed, world, local
<1>10. ToolsServed'
  BY <1>1, <1>3, <1>4
     DEF TypeOK, ToolsServed, ResultsInOrder, StoreForced, Goto, Disturbed,
         world, local
<1>11. HeldByTheLiving'
  BY <1>1, <1>3, <1>4
     DEF TypeOK, HeldByTheLiving, ResultsInOrder, StoreForced, Goto,
         Disturbed, world, local
<1> QED
  BY <1>5, <1>6, <1>7, <1>8, <1>9, <1>10, <1>11 DEF IInv

\* Steps that move a request and the lock on and resolve nothing.
LEMMA WalkKeeps ==
  ASSUME IInv, NEW r \in Requests,
         \/ \E here \in {"mem", "recheck"} :
              MemoryMiss(r, here) \/ MemoryExpired(r, here)
         \/ RowMiss(r) \/ RowMissWithLock(r) \/ EnterLock(r) \/ AcquireLock(r)
         \/ Release(r)
  PROVE  IInv'
<1> USE ProbeCacheAssumption
<1>1. /\ TypeOK /\ CachesEarned /\ PassedOver /\ FoundEarned
      /\ ResultsInOrder /\ ToolsServed /\ HeldByTheLiving
  BY DEF IInv
<1>2. Expected' = Expected
  BY DEF MemoryMiss, MemoryExpired, RowMiss, RowMissWithLock, EnterLock,
         AcquireLock, Release, Expected, FirstServed, world
<1>3. TypeOK'
  BY <1>1
     DEF TypeOK, Points, Results, MemoryMiss, MemoryExpired, RowMiss,
         RowMissWithLock, EnterLock, AcquireLock, Release, Goto, DropGuard,
         world, shared, local
<1>4. CachesEarned'
  BY <1>1, <1>2
     DEF CachesEarned, MemoryMiss, MemoryExpired, RowMiss, RowMissWithLock,
         EnterLock, AcquireLock, Release, Goto, DropGuard, world, shared,
         local
<1>5. PassedOver'
  BY <1>1
     DEF TypeOK, PassedOver, MemoryMiss, MemoryExpired, RowMiss,
         RowMissWithLock, EnterLock, AcquireLock, Release, Goto, DropGuard,
         world, shared, local
<1>6. FoundEarned'
  BY <1>1, <1>2
     DEF TypeOK, FoundEarned, Resolving, MemoryMiss, MemoryExpired, RowMiss,
         RowMissWithLock, EnterLock, AcquireLock, Release, Goto, DropGuard,
         world, shared, local
<1>7. ResultsInOrder'
  BY <1>1
     DEF TypeOK, ResultsInOrder, MemoryMiss, MemoryExpired, RowMiss,
         RowMissWithLock, EnterLock, AcquireLock, Release, Goto, DropGuard,
         world, shared, local
<1>8. ToolsServed'
  BY <1>1
     DEF TypeOK, ToolsServed, ResultsInOrder, MemoryMiss, MemoryExpired,
         RowMiss, RowMissWithLock, EnterLock, AcquireLock, Release, Goto,
         DropGuard, world, shared, local
<1>9. HeldByTheLiving'
  BY <1>1
     DEF TypeOK, HeldByTheLiving, ResultsInOrder, MemoryMiss, MemoryExpired,
         RowMiss, RowMissWithLock, EnterLock, AcquireLock, Release, Goto,
         DropGuard, world, shared, local
<1> QED
  BY <1>3, <1>4, <1>5, <1>6, <1>7, <1>8, <1>9 DEF IInv

\* A query or a probe fails.
LEMMA FailureKeeps ==
  ASSUME IInv, NEW r \in Requests,
         \/ \E here \in {"db", "recheckDb"} : RowFails(r, here)
         \/ ProbeFails(r)
  PROVE  IInv'
<1> USE ProbeCacheAssumption
<1>1. /\ TypeOK /\ CachesEarned /\ PassedOver /\ FoundEarned
      /\ ResultsInOrder /\ ToolsServed /\ HeldByTheLiving
  BY DEF IInv
<1>2. Expected' = Expected
  BY DEF RowFails, ProbeFails, Expected, FirstServed, world
<1>3. TypeOK'
  BY <1>1
     DEF TypeOK, Points, Results, RowFails, ProbeFails, Goto, EndsWith,
         DropGuard, Disturbed, world, shared
<1>4. CachesEarned'
  BY <1>1, <1>2
     DEF CachesEarned, RowFails, ProbeFails, Goto, EndsWith, DropGuard,
         Disturbed, world, shared
<1>5. PassedOver'
  BY <1>1
     DEF TypeOK, PassedOver, RowFails, ProbeFails, Goto, EndsWith, DropGuard,
         Disturbed, world, shared
<1>6. FoundEarned'
  BY <1>1, <1>2
     DEF TypeOK, FoundEarned, Resolving, RowFails, ProbeFails, Goto, EndsWith,
         DropGuard, Disturbed, world, shared
<1>7. ResultsInOrder'
  BY <1>1
     DEF TypeOK, ResultsInOrder, RowFails, ProbeFails, Goto, EndsWith,
         DropGuard, Disturbed, world, shared
<1>8. ToolsServed'
  BY <1>1
     DEF TypeOK, ToolsServed, ResultsInOrder, RowFails, ProbeFails, Goto,
         EndsWith, DropGuard, Disturbed, world, shared
<1>9. HeldByTheLiving'
  BY <1>1
     DEF TypeOK, HeldByTheLiving, ResultsInOrder, RowFails, ProbeFails, Goto,
         EndsWith, DropGuard, Disturbed, world, shared
<1> QED
  BY <1>3, <1>4, <1>5, <1>6, <1>7, <1>8, <1>9 DEF IInv

\* The upstream serves the candidate: it is the first it serves.
LEMMA SupportedKeeps ==
  ASSUME IInv, NEW r \in Requests, ProbeSupported(r)
  PROVE  IInv'
<1> USE ProbeCacheAssumption
<1>1. /\ TypeOK /\ CachesEarned /\ PassedOver /\ FoundEarned
      /\ ResultsInOrder /\ ToolsServed /\ HeldByTheLiving
  BY DEF IInv
<1>2. Expected' = Expected
  BY DEF ProbeSupported, Expected, FirstServed, world
<1>3. /\ Unprobed(Candidate(r)) \in Entry
      /\ Claims(Unprobed(Candidate(r)), Expected, tooling)
  <2>1. Candidate(r) \in Api /\ Candidate(r) \in Expected
    BY <1>1, ExpectedApis DEF TypeOK, PassedOver, ProbeSupported, Candidate
  <2> QED BY <2>1, EntryTypes, EntryClaims DEF Earned
<1>4. TypeOK'
  BY <1>1, <1>3
     DEF TypeOK, Points, Results, ProbeSupported, Goto, world, shared,
         Candidate
<1>5. CachesEarned'
  BY <1>1, <1>2, <1>3
     DEF CachesEarned, ProbeSupported, Goto, world, shared, Candidate
<1>6. PassedOver'
  BY <1>1, <1>3
     DEF TypeOK, PassedOver, ProbeSupported, Goto, world, shared, Candidate
<1>7. FoundEarned'
  BY <1>1, <1>2, <1>3
     DEF TypeOK, FoundEarned, Resolving, ProbeSupported, Goto, world, shared,
         Candidate
<1>8. ResultsInOrder'
  BY <1>1, <1>3
     DEF TypeOK, ResultsInOrder, ProbeSupported, Goto, world, shared,
         Candidate
<1>9. ToolsServed'
  BY <1>1, <1>3
     DEF TypeOK, ToolsServed, ResultsInOrder, ProbeSupported, Goto, world,
         shared, Candidate
<1>10. HeldByTheLiving'
  BY <1>1, <1>3
     DEF TypeOK, HeldByTheLiving, ResultsInOrder, ProbeSupported, Goto, world,
         shared, Candidate
<1> QED
  BY <1>4, <1>5, <1>6, <1>7, <1>8, <1>9, <1>10 DEF IInv

\* It does not: the candidate is passed over.
LEMMA UnsupportedKeeps ==
  ASSUME IInv, NEW r \in Requests, ProbeUnsupported(r)
  PROVE  IInv'
<1> USE ProbeCacheAssumption
<1>1. /\ TypeOK /\ CachesEarned /\ PassedOver /\ FoundEarned
      /\ ResultsInOrder /\ ToolsServed /\ HeldByTheLiving
  BY DEF IInv
<1>2. Expected' = Expected
  BY DEF ProbeUnsupported, Expected, FirstServed, world
<1>3. TypeOK'
  BY <1>1
     DEF TypeOK, Points, Results, Apis, ProbeUnsupported, Goto, world, shared,
         Candidate, NextCandidate, TryNext
<1>4. CachesEarned'
  BY <1>1, <1>2
     DEF CachesEarned, ProbeUnsupported, Goto, world, shared, Candidate,
         NextCandidate, TryNext
<1>5. PassedOver'
  BY <1>1
     DEF TypeOK, PassedOver, Apis, Api, ProbeUnsupported, Goto, world, shared,
         Candidate, NextCandidate, TryNext
<1>6. FoundEarned'
  BY <1>1, <1>2
     DEF TypeOK, FoundEarned, Resolving, ProbeUnsupported, Goto, world,
         shared, Candidate, NextCandidate, TryNext
<1>7. ResultsInOrder'
  BY <1>1
     DEF TypeOK, ResultsInOrder, ProbeUnsupported, Goto, world, shared,
         Candidate, NextCandidate, TryNext
<1>8. ToolsServed'
  BY <1>1
     DEF TypeOK, ToolsServed, ResultsInOrder, ProbeUnsupported, Goto, world,
         shared, Candidate, NextCandidate, TryNext
<1>9. HeldByTheLiving'
  BY <1>1
     DEF TypeOK, HeldByTheLiving, ResultsInOrder, ProbeUnsupported, Goto,
         world, shared, Candidate, NextCandidate, TryNext
<1> QED
  BY <1>3, <1>4, <1>5, <1>6, <1>7, <1>8, <1>9 DEF IInv

\* The result of a probe is stored.
LEMMA StoreProbeKeeps ==
  ASSUME IInv, NEW r \in Requests, StoreProbe(r)
  PROVE  IInv'
<1> USE ProbeCacheAssumption
<1>1. /\ TypeOK /\ CachesEarned /\ PassedOver /\ FoundEarned
      /\ ResultsInOrder /\ ToolsServed /\ HeldByTheLiving
  BY DEF IInv
<1>2. Expected' = Expected
  BY DEF StoreProbe, Expected, FirstServed, world
<1>3. found[r] \in Entry /\ Claims(found[r], Expected, tooling)
  BY <1>1 DEF TypeOK, FoundEarned, Resolving, StoreProbe, Goto
<1>4. SuccessRow(found[r]) \in Row /\ Claims(SuccessRow(found[r]), Expected, tooling)
  BY <1>3, EntryTypes, EntryClaims DEF Earned
<1>5. TypeOK'
  BY <1>1, <1>3, <1>4
     DEF TypeOK, Points, Results, StoreProbe, Goto, EndsWith, Disturbed, world
<1>6. CachesEarned'
  BY <1>1, <1>2, <1>3, <1>4
     DEF CachesEarned, StoreProbe, Goto, EndsWith, Disturbed, world
<1>7. PassedOver'
  BY <1>1, <1>3, <1>4
     DEF TypeOK, PassedOver, StoreProbe, Goto, EndsWith, Disturbed, world
<1>8. FoundEarned'
  BY <1>1, <1>2, <1>3, <1>4
     DEF TypeOK, FoundEarned, Resolving, StoreProbe, Goto, EndsWith,
         Disturbed, world
<1>9. ResultsInOrder'
  BY <1>1, <1>3, <1>4
     DEF TypeOK, ResultsInOrder, StoreProbe, Goto, EndsWith, Disturbed, world
<1>10. ToolsServed'
  BY <1>1, <1>3, <1>4
     DEF TypeOK, ToolsServed, ResultsInOrder, StoreProbe, Goto, EndsWith,
         Disturbed, world
<1>11. HeldByTheLiving'
  BY <1>1, <1>3, <1>4
     DEF TypeOK, HeldByTheLiving, ResultsInOrder, StoreProbe, Goto, EndsWith,
         Disturbed, world
<1> QED
  BY <1>5, <1>6, <1>7, <1>8, <1>9, <1>10, <1>11 DEF IInv

\* What a probe found is put in the memory cache.
LEMMA RememberKeeps ==
  ASSUME IInv, NEW r \in Requests,
         RememberProbe(r) \/ ToolRemember(r) \/ RememberForced(r)
  PROVE  IInv'
<1> USE ProbeCacheAssumption
<1>1. /\ TypeOK /\ CachesEarned /\ PassedOver /\ FoundEarned
      /\ ResultsInOrder /\ ToolsServed /\ HeldByTheLiving
  BY DEF IInv
<1>2. Expected' = Expected
  BY DEF RememberProbe, ToolRemember, RememberForced, Expected, FirstServed, world
<1>3. found[r] \in Entry /\ Claims(found[r], Expected, tooling)
  BY <1>1
     DEF TypeOK, FoundEarned, Resolving, RememberProbe, ToolRemember, RememberForced, Goto
<1>4. TypeOK'
  BY <1>1, <1>3
     DEF TypeOK, Points, Results, RememberProbe, ToolRemember, RememberForced, Goto, Remember,
         world, local
<1>5. CachesEarned'
  BY <1>1, <1>2, <1>3
     DEF CachesEarned, RememberProbe, ToolRemember, RememberForced, Goto, Remember, world,
         local
<1>6. PassedOver'
  BY <1>1, <1>3
     DEF TypeOK, PassedOver, RememberProbe, ToolRemember, RememberForced, Goto, Remember,
         world, local
<1>7. FoundEarned'
  BY <1>1, <1>2, <1>3
     DEF TypeOK, FoundEarned, Resolving, RememberProbe, ToolRemember, RememberForced, Goto,
         Remember, world, local
<1>8. ResultsInOrder'
  BY <1>1, <1>3
     DEF TypeOK, ResultsInOrder, RememberProbe, ToolRemember, RememberForced, Goto, Remember,
         world, local
<1>9. ToolsServed'
  BY <1>1, <1>3
     DEF TypeOK, ToolsServed, ResultsInOrder, RememberProbe, ToolRemember, RememberForced,
         Goto, Remember, world, local
<1>10. HeldByTheLiving'
  BY <1>1, <1>3
     DEF TypeOK, HeldByTheLiving, ResultsInOrder, RememberProbe, ToolRemember, RememberForced,
         Goto, Remember, world, local
<1> QED
  BY <1>4, <1>5, <1>6, <1>7, <1>8, <1>9, <1>10 DEF IInv

\* No protocol is supported.
LEMMA StoreFailureKeeps ==
  ASSUME IInv, NEW r \in Requests, StoreFailure(r)
  PROVE  IInv'
<1> USE ProbeCacheAssumption
<1>1. /\ TypeOK /\ CachesEarned /\ PassedOver /\ FoundEarned
      /\ ResultsInOrder /\ ToolsServed /\ HeldByTheLiving
  BY DEF IInv
<1>2. Expected' = Expected
  BY DEF StoreFailure, Expected, FirstServed, world
<1>3. FailureRow \in Row /\ FailureRow.status # "success"
  BY EntryTypes DEF FailureRow
<1>4. TypeOK'
  BY <1>1, <1>3
     DEF TypeOK, Points, Results, StoreFailure, Goto, EndsWith, Disturbed,
         world
<1>5. CachesEarned'
  BY <1>1, <1>2, <1>3
     DEF CachesEarned, StoreFailure, Goto, EndsWith, Disturbed, world
<1>6. PassedOver'
  BY <1>1, <1>3
     DEF TypeOK, PassedOver, StoreFailure, Goto, EndsWith, Disturbed, world
<1>7. FoundEarned'
  BY <1>1, <1>2, <1>3
     DEF TypeOK, FoundEarned, Resolving, StoreFailure, Goto, EndsWith,
         Disturbed, world
<1>8. ResultsInOrder'
  BY <1>1, <1>3
     DEF TypeOK, ResultsInOrder, StoreFailure, Goto, EndsWith, Disturbed,
         world
<1>9. ToolsServed'
  BY <1>1, <1>3
     DEF TypeOK, ToolsServed, ResultsInOrder, StoreFailure, Goto, EndsWith,
         Disturbed, world
<1>10. HeldByTheLiving'
  BY <1>1, <1>3
     DEF TypeOK, HeldByTheLiving, ResultsInOrder, StoreFailure, Goto,
         EndsWith, Disturbed, world
<1> QED
  BY <1>4, <1>5, <1>6, <1>7, <1>8, <1>9, <1>10 DEF IInv

\* A tool probe.
LEMMA ToolProbeKeeps ==
  ASSUME IInv, NEW r \in Requests, ToolProbe(r)
  PROVE  IInv'
<1> USE ProbeCacheAssumption
<1>1. /\ TypeOK /\ CachesEarned /\ PassedOver /\ FoundEarned
      /\ ResultsInOrder /\ ToolsServed /\ HeldByTheLiving
  BY DEF IInv
<1>2. Expected' = Expected
  BY DEF ToolProbe, Expected, FirstServed, world
<1>3. found[r] \in Entry /\ Claims(found[r], Expected, tooling)
  BY <1>1 DEF TypeOK, FoundEarned, Resolving, ToolProbe, Goto
<1>4. ToolAnswer(r) \in Entry /\ Claims(ToolAnswer(r), Expected, tooling)
  BY <1>1, <1>3, EntryTypes, EntryClaims DEF Earned, TypeOK
<1>5. TypeOK'
  BY <1>1, <1>3, <1>4
     DEF TypeOK, Points, Results, ToolProbe, Goto, EndsWith, Disturbed, world,
         shared
<1>6. CachesEarned'
  BY <1>1, <1>2, <1>3, <1>4
     DEF CachesEarned, ToolProbe, Goto, EndsWith, Disturbed, world, shared
<1>7. PassedOver'
  BY <1>1, <1>3, <1>4
     DEF TypeOK, PassedOver, ToolProbe, Goto, EndsWith, Disturbed, world,
         shared
<1>8. FoundEarned'
  BY <1>1, <1>2, <1>3, <1>4
     DEF TypeOK, FoundEarned, Resolving, ToolProbe, Goto, EndsWith, Disturbed,
         world, shared
<1>9. ResultsInOrder'
  BY <1>1, <1>3, <1>4
     DEF TypeOK, ResultsInOrder, ToolProbe, Goto, EndsWith, Disturbed, world,
         shared
<1>10. ToolsServed'
  BY <1>1, <1>3, <1>4
     DEF TypeOK, ToolsServed, ResultsInOrder, ToolProbe, Goto, EndsWith,
         Disturbed, world, shared
<1>11. HeldByTheLiving'
  BY <1>1, <1>3, <1>4
     DEF TypeOK, HeldByTheLiving, ResultsInOrder, ToolProbe, Goto, EndsWith,
         Disturbed, world, shared
<1> QED
  BY <1>5, <1>6, <1>7, <1>8, <1>9, <1>10, <1>11 DEF IInv

\* Its result is stored and judged.
LEMMA ToolStoreKeeps ==
  ASSUME IInv, NEW r \in Requests, ToolStore(r)
  PROVE  IInv'
<1> USE ProbeCacheAssumption
<1>1. /\ TypeOK /\ CachesEarned /\ PassedOver /\ FoundEarned
      /\ ResultsInOrder /\ ToolsServed /\ HeldByTheLiving
  BY DEF IInv
<1>2. Expected' = Expected
  BY DEF ToolStore, Expected, FirstServed, world
<1>3. found[r] \in Entry /\ Claims(found[r], Expected, tooling)
  BY <1>1 DEF TypeOK, FoundEarned, Resolving, ToolStore, Goto
<1>4. ToolRow(found[r]) \in Row /\ Claims(ToolRow(found[r]), Expected, tooling)
  BY <1>3, EntryTypes, EntryClaims DEF Earned
<1>5. /\ Verdict(r, found[r]) \in {"pending", "ok", "skipped"}
      /\ kind[r] = "tools" /\ Verdict(r, found[r]) = "ok" => tooling
  BY <1>3, Verdicts DEF Earned
<1>6. TypeOK'
  BY <1>1, <1>3, <1>4, <1>5
     DEF TypeOK, Points, Results, ToolStore, Goto, EndsWith, Disturbed, world
<1>7. CachesEarned'
  BY <1>1, <1>2, <1>3, <1>4, <1>5
     DEF CachesEarned, ToolStore, Goto, EndsWith, Disturbed, world
<1>8. PassedOver'
  BY <1>1, <1>3, <1>4, <1>5
     DEF TypeOK, PassedOver, ToolStore, Goto, EndsWith, Disturbed, world
<1>9. FoundEarned'
  BY <1>1, <1>2, <1>3, <1>4, <1>5
     DEF TypeOK, FoundEarned, Resolving, ToolStore, Goto, EndsWith, Disturbed,
         world
<1>10. ResultsInOrder'
  BY <1>1, <1>3, <1>4, <1>5
     DEF TypeOK, ResultsInOrder, ToolStore, Goto, EndsWith, Disturbed, world
<1>11. ToolsServed'
  BY <1>1, <1>3, <1>4, <1>5
     DEF TypeOK, ToolsServed, ResultsInOrder, ToolStore, Goto, EndsWith,
         Disturbed, world
<1>12. HeldByTheLiving'
  BY <1>1, <1>3, <1>4, <1>5
     DEF TypeOK, HeldByTheLiving, ResultsInOrder, ToolStore, Goto, EndsWith,
         Disturbed, world
<1> QED
  BY <1>6, <1>7, <1>8, <1>9, <1>10, <1>11, <1>12 DEF IInv

\* A client goes away.
LEMMA AbandonKeeps ==
  ASSUME IInv, NEW r \in Requests, Abandon(r)
  PROVE  IInv'
<1> USE ProbeCacheAssumption
<1>1. /\ TypeOK /\ CachesEarned /\ PassedOver /\ FoundEarned
      /\ ResultsInOrder /\ ToolsServed /\ HeldByTheLiving
  BY DEF IInv
<1>2. Expected' = Expected
  BY DEF Abandon, Expected, FirstServed, world
<1>3. TypeOK'
  BY <1>1
     DEF TypeOK, Points, Results, Abandon, DropGuard, Disturbed, world,
         shared, local, AwaitPoints
<1>4. CachesEarned'
  BY <1>1, <1>2
     DEF CachesEarned, Abandon, DropGuard, Disturbed, world, shared, local,
         AwaitPoints
<1>5. PassedOver'
  BY <1>1
     DEF TypeOK, PassedOver, Abandon, DropGuard, Disturbed, world, shared,
         local, AwaitPoints
<1>6. FoundEarned'
  BY <1>1, <1>2
     DEF TypeOK, FoundEarned, Resolving, Abandon, DropGuard, Disturbed, world,
         shared, local, AwaitPoints
<1>7. ResultsInOrder'
  BY <1>1
     DEF TypeOK, ResultsInOrder, Abandon, DropGuard, Disturbed, world, shared,
         local, AwaitPoints
<1>8. ToolsServed'
  BY <1>1
     DEF TypeOK, ToolsServed, ResultsInOrder, Abandon, DropGuard, Disturbed,
         world, shared, local, AwaitPoints
<1>9. HeldByTheLiving'
  BY <1>1
     DEF TypeOK, HeldByTheLiving, ResultsInOrder, Abandon, DropGuard,
         Disturbed, world, shared, local, AwaitPoints
<1> QED
  BY <1>3, <1>4, <1>5, <1>6, <1>7, <1>8, <1>9 DEF IInv

\* Expiry, a refresh, a restart.
LEMMA EnvironmentKeeps ==
  ASSUME IInv, Environment
  PROVE  IInv'
<1> USE ProbeCacheAssumption
<1>1. /\ TypeOK /\ CachesEarned /\ PassedOver /\ FoundEarned
      /\ ResultsInOrder /\ ToolsServed /\ HeldByTheLiving
  BY DEF IInv
<1>2. Expected' = Expected
  BY DEF Environment, ExpireEntry, ExpireRow, RefreshCache, RefreshLocks,
         RefreshRows, Restart, Expected, FirstServed, world
<1>3. mem # None => /\ [mem EXCEPT !.fresh = FALSE] \in Entry
                    /\ Claims([mem EXCEPT !.fresh = FALSE], Expected, tooling)
  BY <1>1 DEF TypeOK, Entry, CachesEarned, Claims
<1>4. row # None =>
        LET w == [row EXCEPT !.fresh = FALSE]
        IN  /\ w \in Row /\ w.status = row.status
            /\ row.status = "success" => Claims(w, Expected, tooling)
  BY <1>1 DEF TypeOK, Row, CachesEarned, Claims
<1>5. TypeOK'
  <2>1. CASE ExpireEntry
    BY <1>1, <1>3, <2>1 DEF TypeOK, ExpireEntry, Disturbed, world, local
  <2>2. CASE ExpireRow
    BY <1>1, <1>4, <2>2 DEF TypeOK, ExpireRow, Disturbed, world, local
  <2>3. CASE RefreshCache \/ RefreshLocks \/ RefreshRows
    BY <1>1, <2>3 DEF TypeOK, RefreshCache, RefreshLocks, RefreshRows, Disturbed,
                      Remember, world, local
  <2>4. CASE Restart
    BY <1>1, <2>4 DEF TypeOK, Points, Restart, Disturbed, world, local
  <2> QED BY <2>1, <2>2, <2>3, <2>4 DEF Environment
<1>6. CachesEarned'
  BY <1>1, <1>2, <1>3, <1>4
     DEF CachesEarned, Environment, ExpireEntry, ExpireRow, RefreshCache,
         RefreshLocks, RefreshRows, Restart, Disturbed, Remember, world, local
<1>7. PassedOver'
  BY <1>1, <1>3, <1>4
     DEF TypeOK, PassedOver, Environment, ExpireEntry, ExpireRow,
         RefreshCache, RefreshLocks, RefreshRows, Restart, Disturbed,
         Remember, world, local
<1>8. FoundEarned'
  BY <1>1, <1>2, <1>3, <1>4
     DEF TypeOK, FoundEarned, Resolving, Environment, ExpireEntry, ExpireRow,
         RefreshCache, RefreshLocks, RefreshRows, Restart, Disturbed,
         Remember, world, local
<1>9. ResultsInOrder'
  BY <1>1, <1>3, <1>4
     DEF TypeOK, ResultsInOrder, Environment, ExpireEntry, ExpireRow,
         RefreshCache, RefreshLocks, RefreshRows, Restart, Disturbed,
         Remember, world, local
<1>10. ToolsServed'
  BY <1>1, <1>3, <1>4
     DEF TypeOK, ToolsServed, ResultsInOrder, Environment, ExpireEntry,
         ExpireRow, RefreshCache, RefreshLocks, RefreshRows, Restart,
         Disturbed, Remember, world, local
<1>11. HeldByTheLiving'
  BY <1>1, <1>3, <1>4
     DEF TypeOK, HeldByTheLiving, ResultsInOrder, Environment, ExpireEntry,
         ExpireRow, RefreshCache, RefreshLocks, RefreshRows, Restart,
         Disturbed, Remember, world, local
<1> QED
  BY <1>5, <1>6, <1>7, <1>8, <1>9, <1>10, <1>11 DEF IInv

\* A row is read: what it claims is carried along.
LEMMA RowReadKeeps ==
  ASSUME IInv, NEW r \in Requests, NEW here \in {"db", "recheckDb"},
         RowRead(r, here)
  PROVE  IInv'
<1> USE ProbeCacheAssumption
<1>1. /\ TypeOK /\ CachesEarned /\ PassedOver /\ FoundEarned
      /\ ResultsInOrder /\ ToolsServed /\ HeldByTheLiving
  BY DEF IInv
<1>2. Expected' = Expected
  BY DEF RowRead, Expected, FirstServed, world
<1>3. FromRow(row) \in Entry /\ Claims(FromRow(row), Expected, tooling)
  <2>1. row \in Row /\ Earned(row)
    BY <1>1 DEF TypeOK, CachesEarned, Earned, RowRead, RowCounts
  <2> QED BY <2>1, EntryTypes, EntryClaims, ExpectedApis DEF Earned, Claims
<1>4. TypeOK'
  BY <1>1, <1>3 DEF TypeOK, Points, Results, RowRead, Goto, world, shared
<1>5. CachesEarned'
  BY <1>1, <1>2 DEF CachesEarned, RowRead, Goto, world, shared
<1>6. PassedOver'
  BY <1>1 DEF TypeOK, PassedOver, RowRead, Goto, world, shared
<1>7. FoundEarned'
  BY <1>1, <1>2, <1>3
     DEF TypeOK, FoundEarned, Resolving, RowRead, Goto, world, shared
<1>8. ResultsInOrder'
  BY <1>1 DEF TypeOK, ResultsInOrder, RowRead, Goto, world, shared
<1>9. ToolsServed'
  BY <1>1 DEF TypeOK, ToolsServed, RowRead, Goto, world, shared
<1>10. HeldByTheLiving'
  BY <1>1 DEF TypeOK, HeldByTheLiving, RowRead, Goto, world, shared
<1> QED
  BY <1>4, <1>5, <1>6, <1>7, <1>8, <1>9, <1>10 DEF IInv

\* A cache hit resolves to what the cache claims, and a finished probe to what
\* it found.
LEMMA HitKeeps ==
  ASSUME IInv, NEW r \in Requests,
         \/ \E here \in {"mem", "recheck"} : MemoryHit(r, here)
         \/ \E here \in {"rowHit", "recheckHit"} : RowHit(r, here)
         \/ RemoveLock(r)
  PROVE  IInv'
<1> USE ProbeCacheAssumption
<1>1. /\ TypeOK /\ CachesEarned /\ PassedOver /\ FoundEarned
      /\ ResultsInOrder /\ ToolsServed /\ HeldByTheLiving
  BY DEF IInv
<1>2. ASSUME NEW here \in {"mem", "recheck"}, MemoryHit(r, here) PROVE IInv'
  <2>1. mem \in Entry /\ Earned(mem) /\ result[r] = "pending"
    BY <1>1, <1>2 DEF TypeOK, CachesEarned, Earned, ResultsInOrder, MemoryHit,
                      Resolve, Goto
  <2>2. /\ Resolve(r, here, mem) /\ DropGuard(r)
        /\ UNCHANGED <<world, shared, kind, mutex, candidate, adminPc, probes,
                       faults>>
    BY <1>2 DEF MemoryHit
  <2>3. /\ pc' \in [Requests -> Points] /\ found' \in [Requests -> Entry \cup {None}]
        /\ result' \in [Requests -> Results]
        /\ holder' \in [Requests -> Requests \cup {None}]
        /\ PassedOver' /\ FoundEarned' /\ ResultsInOrder' /\ ToolsServed'
        /\ HeldByTheLiving'
    BY <2>1, <2>2, ResolveKeeps
  <2>4. TypeOK' /\ CachesEarned'
    BY <1>1, <2>2, <2>3 DEF TypeOK, CachesEarned, world, shared, Expected,
                            FirstServed
  <2> QED BY <2>3, <2>4 DEF IInv
<1>3. ASSUME NEW here \in {"rowHit", "recheckHit"}, RowHit(r, here) PROVE IInv'
  <2>1. found[r] \in Entry /\ Earned(found[r]) /\ result[r] = "pending"
    BY <1>1, <1>3 DEF TypeOK, FoundEarned, Resolving, Earned, ResultsInOrder,
                      RowHit, Resolve, Goto
  <2>2. /\ Resolve(r, here, found[r]) /\ DropGuard(r) /\ mem' = found[r]
        /\ UNCHANGED <<world, row, lockEntry, kind, mutex, candidate, adminPc,
                       probes, faults>>
    BY <1>3 DEF RowHit, Remember
  <2>3. /\ pc' \in [Requests -> Points] /\ found' \in [Requests -> Entry \cup {None}]
        /\ result' \in [Requests -> Results]
        /\ holder' \in [Requests -> Requests \cup {None}]
        /\ PassedOver' /\ FoundEarned' /\ ResultsInOrder' /\ ToolsServed'
        /\ HeldByTheLiving'
    BY <2>1, <2>2, ResolveKeeps
  <2>4. TypeOK' /\ CachesEarned'
    BY <1>1, <2>1, <2>2, <2>3 DEF TypeOK, CachesEarned, world, Expected,
                                  FirstServed, Earned
  <2> QED BY <2>3, <2>4 DEF IInv
<1>4. ASSUME RemoveLock(r), result[r] = "pending" PROVE IInv'
  <2>1. /\ Resolve(r, "remove", found[r]) /\ lockEntry' = None
        /\ UNCHANGED <<world, mem, row, holder, kind, mutex, candidate, adminPc,
                       probes, faults>>
    BY <1>4 DEF RemoveLock
  <2>2. found[r] \in Entry /\ Earned(found[r])
    BY <1>1, <1>4, <2>1 DEF TypeOK, FoundEarned, Resolving, Earned, Resolve, Goto
  <2>3. /\ pc' \in [Requests -> Points] /\ found' \in [Requests -> Entry \cup {None}]
        /\ result' \in [Requests -> Results]
        /\ holder' \in [Requests -> Requests \cup {None}]
        /\ PassedOver' /\ FoundEarned' /\ ResultsInOrder' /\ ToolsServed'
        /\ HeldByTheLiving'
    BY <1>4, <2>1, <2>2, ResolveKeeps
  <2>4. TypeOK' /\ CachesEarned'
    BY <1>1, <2>1, <2>3 DEF TypeOK, CachesEarned, world, Expected, FirstServed
  <2> QED BY <2>3, <2>4 DEF IInv
<1>5. ASSUME RemoveLock(r), result[r] # "pending" PROVE IInv'
  <2>1. /\ pc[r] = "remove" /\ pc' = [pc EXCEPT ![r] = "done"]
        /\ lockEntry' = None
        /\ UNCHANGED <<world, mem, row, holder, kind, mutex, candidate, adminPc,
                       probes, faults, found, result>>
    BY <1>5 DEF RemoveLock, Goto
  <2>2. TypeOK'
    BY <1>1, <2>1 DEF TypeOK, Points, world
  <2>3. CachesEarned' /\ PassedOver' /\ ToolsServed'
    BY <1>1, <2>1 DEF TypeOK, CachesEarned, PassedOver, ToolsServed, world,
                      Expected, FirstServed
  <2>4. Expected' = Expected
    BY <2>1 DEF world, Expected, FirstServed
  <2>5. FoundEarned'
    BY <1>1, <1>5, <2>1, <2>4 DEF TypeOK, FoundEarned, Resolving, world
  <2>6. ResultsInOrder' /\ HeldByTheLiving'
    BY <1>1, <2>1 DEF TypeOK, ResultsInOrder, HeldByTheLiving
  <2> QED BY <2>2, <2>3, <2>5, <2>6 DEF IInv
<1> QED
  BY <1>2, <1>3, <1>4, <1>5

\* Every step preserves the invariant.
LEMMA NextIInv == IInv /\ [Next]_vars => IInv'
<1> SUFFICES ASSUME IInv, [Next]_vars PROVE IInv'
  OBVIOUS
<1>1. ASSUME NEW r \in Requests, Arrive(r) \/ Abandon(r) PROVE IInv'
  BY <1>1, ArriveKeeps, AbandonKeeps
<1>2. ASSUME NEW r \in Requests, Lookup(r) PROVE IInv'
  BY <1>2, HitKeeps, RowReadKeeps, WalkKeeps, FailureKeeps DEF Lookup
<1>3. ASSUME NEW r \in Requests, Probe(r) PROVE IInv'
  BY <1>3, SupportedKeeps, UnsupportedKeeps, FailureKeeps, StoreProbeKeeps,
     RememberKeeps, StoreFailureKeeps DEF Probe
<1>4. ASSUME NEW r \in Requests, Step(r) PROVE IInv'
  BY <1>2, <1>3, <1>4, ForcedKeeps, StoreForcedKeeps, WalkKeeps, HitKeeps,
     ToolProbeKeeps, RememberKeeps, ToolStoreKeeps DEF Step
<1>5. CASE UNCHANGED vars
  <2>1. Expected' = Expected
    BY <1>5 DEF vars, world, Expected, FirstServed
  <2>2. TypeOK' /\ CachesEarned'
    BY <1>5, <2>1 DEF vars, world, shared, local, IInv, TypeOK, CachesEarned
  <2>3. PassedOver' /\ ResultsInOrder' /\ ToolsServed' /\ HeldByTheLiving'
    BY <1>5 DEF vars, world, shared, local, IInv, PassedOver, ResultsInOrder,
                ToolsServed, HeldByTheLiving
  <2>4. FoundEarned'
    BY <1>5, <2>1 DEF vars, world, local, IInv, FoundEarned, Resolving
  <2> QED BY <2>2, <2>3, <2>4 DEF IInv
<1> QED
  BY <1>1, <1>4, <1>5, EnvironmentKeeps DEF Next

-----------------------------------------------------------------------------
(* Theorems.                                                                *)

\* The invariant holds in every reachable state.
THEOREM Inductive == Spec => []IInv
  BY InitIInv, NextIInv, PTL DEF Spec

\* The caches, locks and requests keep their types.
THEOREM TypeCorrect == Spec => []TypeOK
<1>1. IInv => TypeOK
  BY DEF IInv
<1> QED
  BY <1>1, Inductive, PTL

\* However requests, failures, expiry, refreshes and restarts interleave, an auto
\* target resolves to the first protocol its upstream serves or to a forced one.
THEOREM ResolutionHolds == Spec => []ResolvesToFirstServed
<1>1. IInv => ResolvesToFirstServed
  BY DEF IInv, FoundEarned, Resolving, Claims, ResolvesToFirstServed
<1> QED
  BY <1>1, Inductive, PTL

\* A target is called unusable, or usable for tools, only if it is.
THEOREM VerdictsHold == Spec => []VerdictsAreEarned
<1>1. IInv => VerdictsAreEarned
  BY DEF IInv, PassedOver, ToolsServed, VerdictsAreEarned
<1> QED
  BY <1>1, Inductive, PTL

\* No mutex stays locked by a request that failed, ended or was cancelled.
THEOREM LockHolds == Spec => []HeldByTheLiving
<1>1. IInv => HeldByTheLiving
  BY DEF IInv
<1> QED
  BY <1>1, Inductive, PTL

-----------------------------------------------------------------------------
(* One probe sequence: what holds while nothing disturbs the requests.      *)

Calm == faults = 0 /\ serves # {}

\* Where a probe runs or has run, where its lock is held, and where a probe may
\* begin or has begun.
Probing == {"probe", "store", "remember"}
Holding == {"recheck", "recheckDb", "recheckHit"} \cup Probing
MayProbe == {"recheckDb"} \cup Probing

\* Until something is remembered there is one mutex: nobody has come so far as to
\* remove it from probe_locks.
OneMutex ==
  mem = None => \A r \in Requests :
    /\ pc[r] \in {"lock"} \cup Holding => mutex[r] = lockEntry
    /\ pc[r] \notin {"release", "remove"}

Guarded ==
  \A r \in Requests :
    pc[r] \in Holding => mutex[r] # None /\ holder[mutex[r]] = r

\* Whoever missed the memory cache with the lock is alone with that.  Once
\* something is remembered, nobody joins it.
OneProber ==
  \A q, r \in Requests : pc[q] \in MayProbe /\ pc[r] \in MayProbe => q = r

ProbeCounted ==
  /\ probes <= 1
  /\ \A r \in Requests : pc[r] = "recheckDb" => probes = 0
  /\ mem = None /\ probes # 0 => \E p \in Requests : pc[p] \in Probing

SingleProbe ==
  Calm => adminPc = "idle" /\ OneMutex /\ Guarded /\ OneProber /\ ProbeCounted

\* A state that nothing has disturbed comes from one, by a step that disturbs
\* nothing.
LEMMA CalmSteps ==
  ASSUME IInv, [Next]_vars, Calm'
  PROVE  Calm /\ ~Disturbed
<1>1. faults \in Nat /\ serves' = serves
  BY DEF IInv, TypeOK, Next, Step, Lookup, Probe, Environment, vars, world, Arrive,
         ResolveForced, RememberForced, StoreForced, MemoryHit, MemoryMiss,
         MemoryExpired, RowRead, RowHit, RowMiss, RowMissWithLock, RowFails,
         EnterLock, AcquireLock, ProbeSupported, ProbeUnsupported, ProbeFails,
         StoreProbe, RememberProbe, StoreFailure, Release, RemoveLock, ToolProbe,
         ToolRemember, ToolStore, Abandon, ExpireEntry, ExpireRow, RefreshCache,
         RefreshLocks, RefreshRows, Restart
<1>2. ~Disturbed
  BY <1>1 DEF Disturbed, Calm
<1>3. faults' = faults
  BY <1>2 DEF Next, Step, Lookup, Probe, Environment, vars, Arrive,
         ResolveForced, RememberForced, StoreForced, MemoryHit, MemoryMiss,
         MemoryExpired, RowRead, RowHit, RowMiss, RowMissWithLock, RowFails,
         EnterLock, AcquireLock, ProbeSupported, ProbeUnsupported, ProbeFails,
         StoreProbe, RememberProbe, StoreFailure, Release, RemoveLock, ToolProbe,
         ToolRemember, ToolStore, Abandon, ExpireEntry, ExpireRow, RefreshCache,
         RefreshLocks, RefreshRows, Restart
<1> QED
  BY <1>1, <1>2, <1>3 DEF Calm

\* A request that keeps away from the lock, the probe and their way out, whatever
\* it remembers.
LEMMA AsideKeepsSingle ==
  ASSUME IInv, SingleProbe, Calm, NEW r \in Requests, NEW there,
         pc' = [pc EXCEPT ![r] = there],
         pc[r] \notin Probing \/ mem' # None,
         there \notin {"lock", "release", "remove"} \cup Holding,
         mem # None => mem' # None,
         holder' = holder \/ DropGuard(r),
         UNCHANGED <<lockEntry, mutex, adminPc, probes>>
  PROVE  SingleProbe'
<1>1. /\ TypeOK /\ adminPc = "idle" /\ OneMutex /\ Guarded /\ OneProber
      /\ ProbeCounted
  BY DEF IInv, SingleProbe
<1>2. \A q \in Requests : pc'[q] = IF q = r THEN there ELSE pc[q]
  BY <1>1 DEF TypeOK
<1>3. OneMutex'
  BY <1>1, <1>2 DEF OneMutex
<1>4. Guarded'
  BY <1>1, <1>2, ProbeCacheAssumption DEF TypeOK, Guarded, DropGuard
<1>5. OneProber'
  BY <1>1, <1>2 DEF OneProber, MayProbe, Holding
<1>6. ProbeCounted'
  BY <1>1, <1>2 DEF ProbeCounted, Holding
<1> QED
  BY <1>1, <1>3, <1>4, <1>5, <1>6 DEF SingleProbe

\* A request under the lock goes from one place there to another, no nearer to a
\* probe than it was.
LEMMA InsideKeepsSingle ==
  ASSUME IInv, SingleProbe, Calm, NEW r \in Requests, NEW there \in Holding,
         pc[r] \in Holding, pc' = [pc EXCEPT ![r] = there],
         there \in MayProbe => pc[r] \in Probing /\ there \in Probing,
         pc[r] \in Probing => there \in Probing,
         UNCHANGED <<mem, lockEntry, mutex, holder, adminPc, probes>>
  PROVE  SingleProbe'
<1>1. /\ TypeOK /\ adminPc = "idle" /\ OneMutex /\ Guarded /\ OneProber
      /\ ProbeCounted
  BY DEF IInv, SingleProbe
<1>2. \A q \in Requests : pc'[q] = IF q = r THEN there ELSE pc[q]
  BY <1>1 DEF TypeOK
<1>3. OneMutex'
  BY <1>1, <1>2 DEF OneMutex, Holding, Probing
<1>4. Guarded'
  BY <1>1, <1>2 DEF Guarded
<1>5. OneProber'
  BY <1>1, <1>2 DEF OneProber, MayProbe
<1>6. ProbeCounted'
  BY <1>1, <1>2 DEF ProbeCounted, MayProbe, Probing
<1> QED
  BY <1>1, <1>3, <1>4, <1>5, <1>6 DEF SingleProbe

\* A request queues for the lock: while nothing is remembered, for the mutex that
\* everyone has.
LEMMA QueueKeepsSingle ==
  ASSUME IInv, SingleProbe, Calm, NEW r \in Requests, EnterLock(r) \/ AcquireLock(r)
  PROVE  SingleProbe'
<1>1. /\ TypeOK /\ ResultsInOrder /\ adminPc = "idle" /\ OneMutex /\ Guarded
      /\ OneProber /\ ProbeCounted
  BY DEF IInv, SingleProbe
<1> USE ProbeCacheAssumption
<1>2. UNCHANGED <<mem, adminPc, probes>>
  BY DEF EnterLock, AcquireLock, shared
<1>3. CASE EnterLock(r)
  <2>1. /\ pc[r] = "enter"
        /\ \A q \in Requests : pc'[q] = IF q = r THEN "lock" ELSE pc[q]
        /\ \A q \in Requests : mutex'[q] = IF q = r THEN lockEntry' ELSE mutex[q]
        /\ lockEntry' = (IF lockEntry = None THEN r ELSE lockEntry)
        /\ holder' = holder
    BY <1>1, <1>3 DEF EnterLock, Goto, TypeOK
  <2>2. OneMutex'
    BY <1>1, <1>2, <2>1 DEF OneMutex, Guarded, ResultsInOrder, Holding, Probing
  <2>3. Guarded'
    BY <1>1, <2>1 DEF Guarded, Holding, Probing
  <2>4. OneProber' /\ ProbeCounted'
    BY <1>1, <1>2, <2>1 DEF OneProber, ProbeCounted, MayProbe, Probing
  <2> QED
    BY <1>1, <1>2, <2>2, <2>3, <2>4 DEF SingleProbe
<1>4. CASE AcquireLock(r)
  <2>1. /\ pc[r] = "lock" /\ holder[mutex[r]] = None /\ mutex[r] \in Requests
        /\ \A q \in Requests : pc'[q] = IF q = r THEN "recheck" ELSE pc[q]
        /\ \A m \in Requests : holder'[m] = IF m = mutex[r] THEN r ELSE holder[m]
        /\ mutex' = mutex /\ lockEntry' = lockEntry
    BY <1>1, <1>4 DEF AcquireLock, Goto, TypeOK, ResultsInOrder, shared, local
  <2>2. OneMutex'
    BY <1>1, <1>2, <2>1 DEF OneMutex, Holding, Probing
  <2>3. Guarded'
    BY <1>1, <2>1 DEF Guarded, Holding, Probing, TypeOK
  <2>4. OneProber' /\ ProbeCounted'
    BY <1>1, <1>2, <2>1 DEF OneProber, ProbeCounted, MayProbe, Probing
  <2> QED
    BY <1>1, <1>2, <2>2, <2>3, <2>4 DEF SingleProbe
<1> QED
  BY <1>3, <1>4

\* Whoever misses the memory cache with the lock meets no probe, now or earlier:
\* with nothing remembered its prober would hold the same mutex.
LEMMA MissKeepsSingle ==
  ASSUME IInv, SingleProbe, Calm, NEW r \in Requests, MemoryMiss(r, "recheck")
  PROVE  SingleProbe'
<1>1. /\ TypeOK /\ adminPc = "idle" /\ OneMutex /\ Guarded /\ OneProber
      /\ ProbeCounted
  BY DEF IInv, SingleProbe
<1>2. /\ pc[r] = "recheck" /\ mem = None /\ mem' = None
      /\ \A q \in Requests : pc'[q] = IF q = r THEN "recheckDb" ELSE pc[q]
      /\ UNCHANGED <<lockEntry, mutex, holder, adminPc, probes>>
  BY <1>1 DEF MemoryMiss, Goto, TypeOK, shared, local
<1>3. \A q \in Requests : pc[q] \in Holding => q = r
  BY <1>1, <1>2 DEF OneMutex, Guarded, Holding
<1>4. probes = 0
  BY <1>1, <1>2, <1>3 DEF ProbeCounted, Holding, Probing
<1>5. OneMutex' /\ Guarded'
  BY <1>1, <1>2 DEF OneMutex, Guarded, Holding
<1>6. OneProber'
  BY <1>2, <1>3 DEF OneProber, MayProbe, Holding
<1>7. ProbeCounted'
  BY <1>2, <1>4 DEF ProbeCounted
<1> QED
  BY <1>1, <1>2, <1>5, <1>6, <1>7 DEF SingleProbe

\* The one that misses the row as well is the first to probe.
LEMMA ProbeKeepsSingle ==
  ASSUME IInv, SingleProbe, Calm, NEW r \in Requests, RowMissWithLock(r)
  PROVE  SingleProbe'
<1>1. /\ TypeOK /\ adminPc = "idle" /\ OneMutex /\ Guarded /\ OneProber
      /\ ProbeCounted
  BY DEF IInv, SingleProbe
<1>2. /\ pc[r] = "recheckDb" /\ probes' = probes + 1
      /\ \A q \in Requests : pc'[q] = IF q = r THEN "probe" ELSE pc[q]
      /\ UNCHANGED <<mem, lockEntry, mutex, holder, adminPc>>
  BY <1>1 DEF RowMissWithLock, Goto, TypeOK, shared, local
<1>3. OneMutex' /\ Guarded'
  BY <1>1, <1>2 DEF OneMutex, Guarded, Holding, Probing
<1>4. OneProber'
  BY <1>1, <1>2 DEF OneProber, MayProbe, Probing
<1>5. ProbeCounted'
  BY <1>1, <1>2 DEF ProbeCounted, OneProber, MayProbe, Probing
<1> QED
  BY <1>1, <1>2, <1>3, <1>4, <1>5 DEF SingleProbe

\* It remembers what it found before it lets go of the lock and removes it.
LEMMA LeaveKeepsSingle ==
  ASSUME IInv, SingleProbe, Calm, NEW r \in Requests,
         pc[r] \in {"remember", "release", "remove"},
         \A q \in Requests \ {r} : pc'[q] = pc[q],
         pc'[r] \notin {"lock"} \cup Holding,
         mem' # None,
         holder' = holder \/ DropGuard(r),
         UNCHANGED <<mutex, adminPc, probes>>
  PROVE  SingleProbe'
<1>1. /\ TypeOK /\ adminPc = "idle" /\ OneMutex /\ Guarded /\ OneProber
      /\ ProbeCounted
  BY DEF IInv, SingleProbe
<1>2. OneMutex'
  BY DEF OneMutex
<1>3. Guarded'
  BY <1>1, ProbeCacheAssumption DEF TypeOK, Guarded, DropGuard
<1>4. OneProber' /\ ProbeCounted'
  BY <1>1 DEF OneProber, ProbeCounted, MayProbe, Holding
<1> QED
  BY <1>1, <1>2, <1>3, <1>4 DEF SingleProbe

\* What a step that resolves something says of where it goes.
LEMMA AfterPoints ==
  ASSUME NEW r \in Requests, NEW e
  PROVE  After(r, e) \in {"toolProbe", "done"}
  BY DEF After

\* Every step keeps to one probe sequence: those that could begin a second one have
\* passed the lock, those that fail are disturbances, and an upstream that serves
\* something is never probed to the end of the candidates.
LEMMA SingleStep ==
  ASSUME IInv, IInv', SingleProbe, [Next]_vars
  PROVE  SingleProbe'
<1> SUFFICES ASSUME Calm' PROVE SingleProbe'
  BY DEF SingleProbe
<1>1. Calm /\ ~Disturbed
  BY CalmSteps
<1>2. TypeOK /\ adminPc = "idle" /\ FoundEarned /\ PassedOver'
  BY <1>1 DEF IInv, SingleProbe
<1>3. ASSUME NEW r \in Requests,
             \/ Arrive(r) \/ ResolveForced(r) \/ RememberForced(r) \/ StoreForced(r)
             \/ \E here \in {"mem", "recheck"} :
                  MemoryHit(r, here) \/ MemoryExpired(r, here)
             \/ MemoryMiss(r, "mem") \/ RowRead(r, "db") \/ RowMiss(r)
             \/ \E here \in {"rowHit", "recheckHit"} : RowHit(r, here)
             \/ ToolProbe(r) \/ ToolRemember(r) \/ ToolStore(r)
      PROVE  SingleProbe'
  <2> DEFINE there == pc'[r]
  <2>1. /\ pc' = [pc EXCEPT ![r] = there]
        /\ pc[r] \notin Probing
        /\ there \notin {"lock", "release", "remove"} \cup Holding
    BY <1>1, <1>2, <1>3, AfterPoints
       DEF TypeOK, Arrive, ResolveForced, RememberForced, StoreForced, MemoryHit,
           MemoryExpired, MemoryMiss, RowRead, RowMiss, RowHit, ToolProbe,
           ToolRemember, ToolStore, Goto, Resolve, Probing, Holding
  <2>2. mem # None => mem' # None
    BY <1>2, <1>3
       DEF TypeOK, FoundEarned, Resolving, Arrive, ResolveForced, RememberForced,
           StoreForced, MemoryHit, MemoryExpired, MemoryMiss, RowRead, RowMiss,
           RowHit, ToolProbe, ToolRemember, ToolStore, Goto, Resolve, Remember, shared
  <2>3. /\ holder' = holder \/ DropGuard(r)
        /\ UNCHANGED <<lockEntry, mutex, adminPc, probes>>
    BY <1>3
       DEF Arrive, ResolveForced, RememberForced, StoreForced, MemoryHit,
           MemoryExpired, MemoryMiss, RowRead, RowMiss, RowHit, ToolProbe,
           ToolRemember, ToolStore, shared, local
  <2> HIDE DEF there
  <2> QED
    BY <1>1, <2>1, <2>2, <2>3, AsideKeepsSingle
<1>4. ASSUME NEW r \in Requests,
             RowRead(r, "recheckDb") \/ ProbeSupported(r) \/ ProbeUnsupported(r)
             \/ StoreProbe(r)
      PROVE  SingleProbe'
  <2>1. pc'[r] # "storeFailure"
    BY <1>1, <1>2 DEF PassedOver, Calm
  <2> DEFINE there == pc'[r]
  <2>2. /\ pc[r] \in Holding /\ there \in Holding
        /\ pc' = [pc EXCEPT ![r] = there]
        /\ there \in MayProbe => pc[r] \in Probing /\ there \in Probing
        /\ pc[r] \in Probing => there \in Probing
    BY <1>1, <1>2, <1>4, <2>1
       DEF TypeOK, RowRead, ProbeSupported, ProbeUnsupported, NextCandidate, TryNext,
           StoreProbe, Goto, Holding, MayProbe, Probing
  <2>3. UNCHANGED <<mem, lockEntry, mutex, holder, adminPc, probes>>
    BY <1>4 DEF RowRead, ProbeSupported, ProbeUnsupported, StoreProbe, shared
  <2> HIDE DEF there
  <2> QED
    BY <1>1, <2>2, <2>3, InsideKeepsSingle
<1>5. ASSUME NEW r \in Requests, RememberProbe(r) \/ Release(r) \/ RemoveLock(r)
      PROVE  SingleProbe'
  <2>1. /\ pc[r] \in {"remember", "release", "remove"}
        /\ \A q \in Requests \ {r} : pc'[q] = pc[q]
        /\ pc'[r] \notin {"lock"} \cup Holding
    BY <1>2, <1>5, AfterPoints
       DEF TypeOK, RememberProbe, Release, RemoveLock, Goto, Resolve, Holding, Probing
  <2>2. mem' # None
    BY <1>1, <1>2, <1>5
       DEF FoundEarned, Resolving, SingleProbe, OneMutex, RememberProbe, Remember,
           Release, RemoveLock, Goto, Resolve, shared
  <2>3. (holder' = holder \/ DropGuard(r)) /\ UNCHANGED <<mutex, adminPc, probes>>
    BY <1>5 DEF RememberProbe, Release, RemoveLock, local
  <2> QED
    BY <1>1, <2>1, <2>2, <2>3, LeaveKeepsSingle
<1>6. ASSUME NEW r \in Requests, StoreFailure(r)
      PROVE  FALSE
  BY <1>1, <1>6 DEF IInv, PassedOver, StoreFailure, Goto, Calm
<1>7. ASSUME NEW r \in Requests,
             \/ \E here \in {"db", "recheckDb"} : RowFails(r, here)
             \/ ProbeFails(r) \/ Abandon(r)
      PROVE  FALSE
  BY <1>1, <1>7 DEF RowFails, ProbeFails, Abandon
<1>8. ~Environment
  BY <1>1, <1>2 DEF Environment, ExpireEntry, ExpireRow, RefreshCache, RefreshLocks,
                    RefreshRows, Restart
<1>9. CASE UNCHANGED vars
  BY <1>1, <1>9 DEF vars, shared, local, world, SingleProbe, OneMutex, Guarded,
                    OneProber, ProbeCounted
<1>10. ASSUME NEW r \in Requests, Lookup(r) PROVE SingleProbe'
  BY <1>1, <1>3, <1>4, <1>7, <1>10, MissKeepsSingle, ProbeKeepsSingle DEF Lookup
<1>11. ASSUME NEW r \in Requests, Probe(r) PROVE SingleProbe'
  BY <1>4, <1>5, <1>6, <1>7, <1>11 DEF Probe
<1>12. ASSUME NEW r \in Requests, Step(r) PROVE SingleProbe'
  BY <1>1, <1>3, <1>5, <1>10, <1>11, <1>12, QueueKeepsSingle DEF Step
<1> QED
  BY <1>3, <1>7, <1>8, <1>9, <1>12 DEF Next

\* While nothing fails, expires, restarts or is refreshed, requests that miss the
\* caches share one probe sequence (resolve_target_protocol).
THEOREM SharedProbe == Spec => []ProbedOnce
<1>1. Init => SingleProbe
  BY DEF Init, SingleProbe, OneMutex, Guarded, OneProber, ProbeCounted, Holding,
         MayProbe, Probing
<1>2. IInv /\ IInv' /\ SingleProbe /\ [Next]_vars => SingleProbe'
  BY SingleStep
<1>3. SingleProbe => ProbedOnce
  BY DEF SingleProbe, Calm, ProbeCounted, ProbedOnce
<1> QED
  BY <1>1, <1>2, <1>3, Inductive, PTL DEF Spec

=============================================================================
