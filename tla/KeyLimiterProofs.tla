-------------------------- MODULE KeyLimiterProofs --------------------------
(***************************************************************************)
(* Proofs about KeyLimiter, for every set of requests, every limit and     *)
(* every length of the rate window.                                        *)
(***************************************************************************)
EXTENDS KeyLimiter, TLAPS, FiniteSetTheorems

-----------------------------------------------------------------------------
(* The inductive invariant.                                                 *)

\* With times f: the requests charged at or after s, and those charged in the
\* Window ticks before s.
Since(f, s) == {r \in Requests : f[r] # Never /\ f[r] >= s}
Before(f, s) ==
  {r \in Requests : f[r] # Never /\ f[r] < s /\ s - f[r] <= Window}

\* What the open window says of the requests charged so far.
WindowCounts(f, w, n) ==
  /\ w.start <= n
  /\ w.count <= KeyLimit
  /\ \A r \in Requests : f[r] # Never => f[r] <= n /\ f[r] < w.start + Window
  /\ Cardinality(Since(f, w.start)) = w.count
  /\ Cardinality(Before(f, w.start)) <= KeyLimit

Uncharged ==
  \A r \in Requests : pc[r] \in {"idle", "identified"} => chargedAt[r] = Never

RateCounts ==
  IF keyRate = NoWindow
  THEN \A r \in Requests : chargedAt[r] = Never
  ELSE WindowCounts(chargedAt, keyRate, now)

IInv == TypeOK /\ SlotsAccountedFor /\ Uncharged /\ RateCounts /\ RateCapped

-----------------------------------------------------------------------------
(* Lemmas.                                                                  *)

Times == [Requests -> Time \cup {Never}]

\* Every set of requests the counters count is finite.
LEMMA FiniteRequests ==
  ASSUME NEW S \in SUBSET Requests
  PROVE  IsFiniteSet(S) /\ Cardinality(S) \in Nat
  BY KeyLimiterAssumption, FS_Subset, FS_CardinalityType

\* A request that moves leaves one class for another and no other class changes.
LEMMA Moved ==
  ASSUME NEW r \in Requests, NEW from \in State, NEW to \in State, from # to,
         pc \in [Requests -> State], Goto(r, from, to)
  PROVE  /\ pc' \in [Requests -> State]
         /\ At(from)' = At(from) \ {r} /\ r \in At(from)
         /\ At(to)' = At(to) \cup {r} /\ r \notin At(to)
         /\ \A s \in State \ {from, to} : At(s)' = At(s)
  BY DEF Goto, At

\* Any Window ticks that include the time n see the charges of at most two
\* windows.
LEMMA TwoWindows ==
  ASSUME NEW f \in Times, NEW w \in Rate, NEW n \in Time, WindowCounts(f, w, n),
         NEW t \in Time, n \in t..(t + Window - 1),
         NEW C \in SUBSET Requests,
         \A r \in C : f[r] # Never /\ f[r] \in t..(t + Window - 1)
  PROVE  Cardinality(C) <= 2 * KeyLimit
<1> DEFINE S == Since(f, w.start)
           B == Before(f, w.start)
<1>1. C \subseteq S \cup B
  <2> SUFFICES ASSUME NEW r \in C, f[r] < w.start
               PROVE  w.start - f[r] <= Window
    BY KeyLimiterAssumption DEF Since, Before, Times, Time, Never, Rate
  <2> QED
    BY KeyLimiterAssumption DEF WindowCounts, Times, Time, Never, Rate
<1>2. /\ IsFiniteSet(S) /\ Cardinality(S) \in Nat
      /\ IsFiniteSet(B) /\ Cardinality(B) \in Nat
      /\ Cardinality(S \cap B) \in Nat
      /\ Cardinality(C) \in Nat
      /\ IsFiniteSet(S \cup B) /\ Cardinality(S \cup B) \in Nat
  BY FiniteRequests DEF Since, Before
<1>3. Cardinality(S \cup B)
        = Cardinality(S) + Cardinality(B) - Cardinality(S \cap B)
  BY <1>2, FS_Union
<1>4. Cardinality(C) <= Cardinality(S \cup B)
  BY <1>1, <1>2, FS_Subset
<1>5. Cardinality(S) <= KeyLimit /\ Cardinality(B) <= KeyLimit
  BY DEF WindowCounts
<1> HIDE DEF S, B
<1> QED
  BY <1>2, <1>3, <1>4, <1>5, KeyLimiterAssumption

\* A charge: the request had not been charged before and is charged now.
LEMMA ChargeCounts ==
  ASSUME NEW r \in Requests, TypeOK, Uncharged, RateCounts,
         pc[r] = "identified", ChargeKey(r)
  PROVE  /\ keyRate' \in Rate
         /\ chargedAt' \in Times
         /\ WindowCounts(chargedAt', keyRate', now)
<1> DEFINE f == chargedAt
           g == [chargedAt EXCEPT ![r] = now]
<1>1. /\ f \in Times /\ g \in Times /\ now \in Time /\ f[r] = Never
      /\ chargedAt' = g /\ keyRate' = Charged(keyRate)
      /\ Current(keyRate).count < KeyLimit
  BY DEF TypeOK, Times, Uncharged, ChargeKey, HasRoom
<1>2. CASE Over(keyRate)
  <2>1. keyRate' = [start |-> now, count |-> 1] /\ keyRate' \in Rate /\ 1 <= KeyLimit
    BY <1>1, <1>2, KeyLimiterAssumption DEF Charged, Current, Rate, Time
  <2>2. \A q \in Requests : f[q] # Never =>
          /\ keyRate # NoWindow
          /\ f[q] < keyRate.start + Window
          /\ keyRate.start + Window <= now
    BY <1>1, <1>2, KeyLimiterAssumption
       DEF Over, RateCounts, WindowCounts, TypeOK, Rate, Time
  <2>3. Since(g, now) = {r}
    BY <1>1, <2>2, KeyLimiterAssumption
       DEF Since, Times, Time, Never, TypeOK, Rate
  <2>4. Cardinality(Before(g, now)) <= KeyLimit
    <3>1. CASE keyRate = NoWindow
      <4>1. Before(g, now) = {}
        BY <1>1, <2>2, <3>1, KeyLimiterAssumption DEF Before, Times, Time, Never
      <4>2. Cardinality(Before(g, now)) = 0
        BY <4>1, FS_EmptySet, Zenon
      <4> QED
        BY <4>2, <2>1, KeyLimiterAssumption
    <3>2. CASE keyRate # NoWindow
      <4>1. Before(g, now) \subseteq Since(f, keyRate.start)
        BY <1>1, <2>2, <3>2, KeyLimiterAssumption
           DEF Before, Since, Times, Time, Never, TypeOK, Rate
      <4>2. /\ Cardinality(Since(f, keyRate.start)) = keyRate.count
            /\ keyRate.count <= KeyLimit /\ keyRate.count \in Nat
        BY <3>2 DEF RateCounts, WindowCounts, TypeOK, Rate
      <4>3. /\ IsFiniteSet(Since(f, keyRate.start))
            /\ Cardinality(Before(g, now)) \in Nat
        BY FiniteRequests DEF Before, Since
      <4>4. Cardinality(Before(g, now)) <= Cardinality(Since(f, keyRate.start))
        BY <4>1, <4>3, FS_Subset
      <4> QED
        BY <4>2, <4>3, <4>4, KeyLimiterAssumption
    <3> QED BY <3>1, <3>2
  <2>5. Cardinality(Since(g, now)) = 1
    BY <2>3, FS_Singleton
  <2>6. \A q \in Requests : g[q] # Never => g[q] <= now /\ g[q] < now + Window
    BY <1>1, <2>2, KeyLimiterAssumption DEF Times, Time, Never, TypeOK, Rate
  <2> QED
    BY <1>1, <2>1, <2>4, <2>5, <2>6, KeyLimiterAssumption DEF WindowCounts, Time
<1>3. CASE ~Over(keyRate)
  <2>1. /\ keyRate \in Rate /\ keyRate # NoWindow
        /\ now - keyRate.start < Window
        /\ WindowCounts(f, keyRate, now)
    BY <1>1, <1>3, KeyLimiterAssumption
       DEF Over, RateCounts, TypeOK, Rate, Time
  <2>2. /\ keyRate' \in Rate /\ keyRate'.start = keyRate.start
        /\ keyRate'.count = keyRate.count + 1 /\ keyRate.count < KeyLimit
    BY <1>1, <1>3, <2>1 DEF Charged, Current, Rate
  <2>3. /\ Since(g, keyRate.start) = Since(f, keyRate.start) \cup {r}
        /\ r \notin Since(f, keyRate.start)
        /\ Before(g, keyRate.start) = Before(f, keyRate.start)
    BY <1>1, <2>1, KeyLimiterAssumption
       DEF Since, Before, WindowCounts, Times, Time, Never, Rate
  <2>4. Cardinality(Since(g, keyRate.start)) = keyRate.count + 1
    <3>1. IsFiniteSet(Since(f, keyRate.start))
      BY FiniteRequests DEF Since
    <3> QED
      BY <2>1, <2>3, <3>1, FS_AddElement DEF WindowCounts
  <2>5. Cardinality(Before(g, keyRate.start)) <= KeyLimit
    BY <2>1, <2>3 DEF WindowCounts
  <2>6. \A q \in Requests :
          g[q] # Never => g[q] <= now /\ g[q] < keyRate.start + Window
    BY <1>1, <2>1, KeyLimiterAssumption DEF WindowCounts, Times, Time, Never, Rate
  <2> QED
    BY <1>1, <2>1, <2>2, <2>4, <2>5, <2>6, KeyLimiterAssumption
       DEF WindowCounts, Rate, Time
<1> QED BY <1>2, <1>3

\* A charge keeps the key below twice its limit in any Window ticks.
LEMMA ChargeCapped ==
  ASSUME NEW r \in Requests, TypeOK, Uncharged, RateCounts, RateCapped,
         pc[r] = "identified", ChargeKey(r), now' = now
  PROVE  RateCapped'
<1> SUFFICES ASSUME NEW t \in Time
             PROVE  Cardinality(ChargedIn(t, t + Window - 1)') <= 2 * KeyLimit
  BY DEF RateCapped
<1>1. /\ keyRate' \in Rate /\ chargedAt' \in Times
      /\ WindowCounts(chargedAt', keyRate', now) /\ now \in Time
  BY ChargeCounts DEF TypeOK
<1>2. CASE now \in t..(t + Window - 1)
  <2> DEFINE C == ChargedIn(t, t + Window - 1)'
  <2>1. C \subseteq Requests
    BY DEF ChargedIn
  <2>2. \A q \in C : chargedAt'[q] # Never /\ chargedAt'[q] \in t..(t + Window - 1)
    BY DEF ChargedIn
  <2> HIDE DEF C
  <2>3. Cardinality(C) <= 2 * KeyLimit
    BY <1>1, <1>2, <2>1, <2>2, TwoWindows
  <2> QED BY <2>3 DEF C
<1>3. CASE now \notin t..(t + Window - 1)
  <2>1. chargedAt' = [chargedAt EXCEPT ![r] = now] /\ chargedAt[r] = Never
        /\ chargedAt \in Times
    BY DEF ChargeKey, Uncharged, TypeOK, Times
  <2>2. ChargedIn(t, t + Window - 1)' = ChargedIn(t, t + Window - 1)
    BY <1>3, <2>1 DEF ChargedIn, Times
  <2> QED BY <2>2 DEF RateCapped
<1> QED BY <1>2, <1>3

\* How a step changes the two classes of requests that hold a slot.
LEMMA SlotHolders ==
  /\ IsFiniteSet(At("handling")) /\ Cardinality(At("handling")) \in Nat
  /\ IsFiniteSet(At("abandoned")) /\ Cardinality(At("abandoned")) \in Nat
  BY FiniteRequests DEF At

-----------------------------------------------------------------------------
(* The invariant is inductive.                                              *)

\* It holds at the start: nothing is charged and nothing is in flight.
LEMMA InitIInv == Init => IInv
<1> SUFFICES ASSUME Init PROVE IInv
  OBVIOUS
<1>1. TypeOK /\ Uncharged /\ RateCounts
  BY KeyLimiterAssumption
     DEF Init, TypeOK, Uncharged, RateCounts, State, Time, Never
<1>2. At("handling") = {} /\ At("abandoned") = {}
  BY DEF Init, At
<1>3. SlotsAccountedFor
  BY <1>2, FS_EmptySet DEF SlotsAccountedFor, Init
<1>4. RateCapped
  <2>1. \A t \in Time : ChargedIn(t, t + Window - 1) = {}
    BY DEF Init, ChargedIn
  <2>2. \A t \in Time : Cardinality(ChargedIn(t, t + Window - 1)) = 0
    BY <2>1, FS_EmptySet, Zenon
  <2> QED
    BY <2>2, KeyLimiterAssumption DEF RateCapped
<1> QED
  BY <1>1, <1>3, <1>4 DEF IInv

\* What only the rate counters decide survives a step that leaves them alone.
LEMMA RateKept ==
  ASSUME IInv, UNCHANGED <<keyRate, chargedAt>>, now' \in Time, now <= now',
         \A r \in Requests : pc'[r] \in {"idle", "identified"}
                               => pc[r] \in {"idle", "identified"}
  PROVE  Uncharged' /\ RateCounts' /\ RateCapped'
<1>1. Uncharged'
  BY DEF IInv, Uncharged
<1>2. RateCounts'
  <2> SUFFICES ASSUME keyRate # NoWindow
               PROVE  WindowCounts(chargedAt, keyRate, now')
    BY DEF IInv, RateCounts
  <2>1. WindowCounts(chargedAt, keyRate, now) /\ keyRate \in Rate
        /\ now \in Time /\ chargedAt \in Times
    BY DEF IInv, RateCounts, TypeOK, Times
  <2> QED
    BY <2>1, KeyLimiterAssumption DEF WindowCounts, Rate, Times, Time, Never
<1>3. RateCapped'
  BY DEF IInv, RateCapped, ChargedIn
<1> QED
  BY <1>1, <1>2, <1>3

\* The slots are the same if no request enters or leaves their two classes.
LEMMA SlotsKept ==
  ASSUME SlotsAccountedFor, inFlight' = inFlight,
         At("handling")' = At("handling"), At("abandoned")' = At("abandoned")
  PROVE  SlotsAccountedFor'
  BY DEF SlotsAccountedFor

\* Every step preserves it.
LEMMA NextIInv == IInv /\ [Next]_vars => IInv'
<1> SUFFICES ASSUME IInv, [Next]_vars PROVE IInv'
  OBVIOUS
<1> USE KeyLimiterAssumption
<1>0. TypeOK /\ SlotsAccountedFor /\ Uncharged /\ RateCounts /\ RateCapped
  BY DEF IInv
<1>1. ASSUME NEW r \in Requests, EnterFromClient(r) PROVE IInv'
  <2>1. pc[r] = "idle" /\ pc' = [pc EXCEPT ![r] = "identified"]
    BY <1>1 DEF EnterFromClient, Goto
  <2>2. /\ pc' \in [Requests -> State]
        /\ At("handling")' = At("handling") /\ At("abandoned")' = At("abandoned")
    BY <1>0, <2>1 DEF TypeOK, State, At
  <2>3. ipRate' \in Rate
    BY <1>0, <1>1 DEF EnterFromClient, Charged, Current, TypeOK, Rate, Time, Over
  <2>4. TypeOK'
    BY <1>0, <1>1, <2>2, <2>3 DEF TypeOK, EnterFromClient
  <2>5. SlotsAccountedFor'
    BY <1>0, <1>1, <2>2, SlotsKept DEF EnterFromClient
  <2>6. \A q \in Requests : pc'[q] \in {"idle", "identified"}
                              => pc[q] \in {"idle", "identified"}
    BY <1>0, <2>1 DEF TypeOK
  <2>7. Uncharged' /\ RateCounts' /\ RateCapped'
    BY <1>0, <1>1, <2>6, RateKept DEF EnterFromClient, TypeOK, Time
  <2> QED BY <2>4, <2>5, <2>7 DEF IInv
<1>2. ASSUME NEW r \in Requests, RefuseClient(r) \/ RefuseKey(r) \/ RefuseRate(r)
      PROVE  IInv'
  <2>1. /\ pc[r] \in {"idle", "identified"} /\ pc' = [pc EXCEPT ![r] = "refused"]
        /\ UNCHANGED <<now, ipRate, keyRate, inFlight, chargedAt>>
    BY <1>2 DEF RefuseClient, RefuseKey, RefuseRate, Goto
  <2>2. /\ pc' \in [Requests -> State]
        /\ At("handling")' = At("handling") /\ At("abandoned")' = At("abandoned")
    BY <1>0, <2>1 DEF TypeOK, State, At
  <2>3. TypeOK'
    BY <1>0, <2>1, <2>2 DEF TypeOK
  <2>4. SlotsAccountedFor'
    BY <1>0, <2>1, <2>2, SlotsKept
  <2>5. \A q \in Requests : pc'[q] \in {"idle", "identified"}
                              => pc[q] \in {"idle", "identified"}
    BY <1>0, <2>1 DEF TypeOK
  <2>6. Uncharged' /\ RateCounts' /\ RateCapped'
    BY <1>0, <2>1, <2>5, RateKept DEF TypeOK, Time
  <2> QED BY <2>3, <2>4, <2>6 DEF IInv
<1>3. ASSUME NEW r \in Requests, RefuseSlot(r) \/ Admit(r)
      PROVE  Uncharged' /\ RateCounts' /\ RateCapped'
             /\ keyRate' \in Rate /\ chargedAt' \in Times
  <2>1. ChargeKey(r) /\ pc[r] = "identified" /\ now' = now
    BY <1>3 DEF RefuseSlot, Admit, Goto
  <2>2. /\ keyRate' \in Rate /\ chargedAt' \in Times
        /\ WindowCounts(chargedAt', keyRate', now)
    BY <1>0, <2>1, ChargeCounts
  <2>3. RateCounts'
    BY <2>1, <2>2 DEF RateCounts
  <2>4. RateCapped'
    BY <1>0, <2>1, ChargeCapped
  <2>5. Uncharged'
    BY <1>0, <1>3 DEF Uncharged, RefuseSlot, Admit, ChargeKey, Goto, TypeOK
  <2> QED BY <2>2, <2>3, <2>4, <2>5
<1>4. ASSUME NEW r \in Requests, RefuseSlot(r) PROVE IInv'
  <2>1. /\ pc[r] = "identified" /\ pc' = [pc EXCEPT ![r] = "refused"]
        /\ UNCHANGED <<now, ipRate, inFlight>>
    BY <1>4 DEF RefuseSlot, Goto
  <2>2. /\ pc' \in [Requests -> State]
        /\ At("handling")' = At("handling") /\ At("abandoned")' = At("abandoned")
    BY <1>0, <2>1 DEF TypeOK, State, At
  <2>3. TypeOK'
    BY <1>0, <1>3, <1>4, <2>1, <2>2 DEF TypeOK, Times
  <2>4. SlotsAccountedFor'
    BY <1>0, <2>1, <2>2, SlotsKept
  <2> QED BY <1>3, <1>4, <2>3, <2>4 DEF IInv
<1>5. ASSUME NEW r \in Requests, Admit(r) PROVE IInv'
  <2>1. /\ Goto(r, "identified", "handling")
        /\ inFlight < SlotLimit /\ inFlight' = inFlight + 1
        /\ UNCHANGED <<now, ipRate>>
    BY <1>5 DEF Admit, Reserve
  <2>2. /\ pc' \in [Requests -> State]
        /\ At("handling")' = At("handling") \cup {r} /\ r \notin At("handling")
        /\ At("abandoned")' = At("abandoned")
    BY <1>0, <2>1, Moved DEF TypeOK, State
  <2>3. TypeOK'
    BY <1>0, <1>3, <1>5, <2>1, <2>2 DEF TypeOK, Times
  <2>4. Cardinality(At("handling")') = Cardinality(At("handling")) + 1
    BY <2>2, SlotHolders, FS_AddElement
  <2>5. SlotsAccountedFor'
    BY <1>0, <2>1, <2>2, <2>4, SlotHolders DEF SlotsAccountedFor
  <2> QED BY <1>3, <1>5, <2>3, <2>5 DEF IInv
<1>6. ASSUME NEW r \in Requests, NEW body \in Handled, Respond(r, body)
      PROVE  IInv'
  <2>1. /\ Goto(r, "handling", body) /\ body \in {"streaming", "served"}
        /\ inFlight' = IF inFlight = 0 THEN 0 ELSE inFlight - 1
        /\ UNCHANGED <<now, ipRate, keyRate, chargedAt>>
    BY <1>6 DEF Respond, Release, Handled
  <2>2. /\ pc' \in [Requests -> State]
        /\ At("handling")' = At("handling") \ {r} /\ r \in At("handling")
        /\ At("abandoned")' = At("abandoned")
    BY <1>0, <2>1, Moved DEF TypeOK, State
  <2>3. TypeOK'
    BY <1>0, <2>1, <2>2 DEF TypeOK
  <2>4. Cardinality(At("handling")') = Cardinality(At("handling")) - 1
    BY <2>2, SlotHolders, FS_RemoveElement
  <2>5. Cardinality(At("handling")') \in Nat
    BY FiniteRequests, <2>2 DEF At
  <2>6. SlotsAccountedFor'
    BY <1>0, <2>1, <2>2, <2>4, <2>5, SlotHolders DEF SlotsAccountedFor
  <2>7. \A q \in Requests : pc'[q] \in {"idle", "identified"}
                              => pc[q] \in {"idle", "identified"}
    BY <1>0, <2>1 DEF TypeOK, Goto
  <2>8. Uncharged' /\ RateCounts' /\ RateCapped'
    BY <1>0, <2>1, <2>7, RateKept DEF TypeOK, Time
  <2> QED BY <2>3, <2>6, <2>8 DEF IInv
<1>7. ASSUME NEW r \in Requests, StreamEnds(r) PROVE IInv'
  <2>1. /\ pc[r] = "streaming" /\ pc' = [pc EXCEPT ![r] = "served"]
        /\ UNCHANGED <<now, ipRate, keyRate, inFlight, chargedAt>>
    BY <1>7 DEF StreamEnds, Goto
  <2>2. /\ pc' \in [Requests -> State]
        /\ At("handling")' = At("handling") /\ At("abandoned")' = At("abandoned")
    BY <1>0, <2>1 DEF TypeOK, State, At
  <2>3. TypeOK'
    BY <1>0, <2>1, <2>2 DEF TypeOK
  <2>4. SlotsAccountedFor'
    BY <1>0, <2>1, <2>2, SlotsKept
  <2>5. \A q \in Requests : pc'[q] \in {"idle", "identified"}
                              => pc[q] \in {"idle", "identified"}
    BY <1>0, <2>1 DEF TypeOK
  <2>6. Uncharged' /\ RateCounts' /\ RateCapped'
    BY <1>0, <2>1, <2>5, RateKept DEF TypeOK, Time
  <2> QED BY <2>3, <2>4, <2>6 DEF IInv
<1>8. ASSUME NEW r \in Requests, Abandon(r) PROVE IInv'
  <2>1. /\ Goto(r, "handling", "abandoned")
        /\ UNCHANGED <<now, ipRate, keyRate, inFlight, chargedAt>>
    BY <1>8 DEF Abandon
  <2>2. /\ pc' \in [Requests -> State]
        /\ At("handling")' = At("handling") \ {r} /\ r \in At("handling")
        /\ At("abandoned")' = At("abandoned") \cup {r} /\ r \notin At("abandoned")
    BY <1>0, <2>1, Moved DEF TypeOK, State
  <2>3. TypeOK'
    BY <1>0, <2>1, <2>2 DEF TypeOK
  <2>4. /\ Cardinality(At("handling")') = Cardinality(At("handling")) - 1
        /\ Cardinality(At("abandoned")') = Cardinality(At("abandoned")) + 1
    BY <2>2, SlotHolders, FS_RemoveElement, FS_AddElement
  <2>5. SlotsAccountedFor'
    BY <1>0, <2>1, <2>4, SlotHolders DEF SlotsAccountedFor
  <2>6. \A q \in Requests : pc'[q] \in {"idle", "identified"}
                              => pc[q] \in {"idle", "identified"}
    BY <1>0, <2>1 DEF TypeOK, Goto
  <2>7. Uncharged' /\ RateCounts' /\ RateCapped'
    BY <1>0, <2>1, <2>6, RateKept DEF TypeOK, Time
  <2> QED BY <2>3, <2>5, <2>7 DEF IInv
<1>9. CASE Tick
  <2>1. /\ now' \in Time /\ now <= now'
        /\ UNCHANGED <<ipRate, keyRate, inFlight, pc, chargedAt>>
    BY <1>0, <1>9 DEF Tick, TypeOK, Time
  <2>2. TypeOK'
    BY <1>0, <2>1 DEF TypeOK
  <2>3. SlotsAccountedFor'
    BY <1>0, <2>1 DEF SlotsAccountedFor, At
  <2>4. Uncharged' /\ RateCounts' /\ RateCapped'
    BY <2>1, RateKept
  <2> QED BY <2>2, <2>3, <2>4 DEF IInv
<1>10. CASE UNCHANGED vars
  BY <1>0, <1>10
     DEF vars, IInv, TypeOK, SlotsAccountedFor, Uncharged, RateCounts, RateCapped,
         At, ChargedIn, WindowCounts
<1> QED
  BY <1>1, <1>2, <1>4, <1>5, <1>6, <1>7, <1>8, <1>9, <1>10 DEF Next, Enforce

-----------------------------------------------------------------------------
(* Theorems.                                                                *)

\* The invariant holds in every reachable state.
THEOREM Inductive == Spec => []IInv
  BY InitIInv, NextIInv, PTL DEF Spec

\* The counters and windows keep their types; inFlight stays within
\* max_concurrency.
THEOREM TypeCorrect == Spec => []TypeOK
<1>1. IInv => TypeOK
  BY DEF IInv
<1> QED
  BY <1>1, Inductive, PTL

\* in_flight counts the handlers that run and those whose client left.
THEOREM SlotsCounted == Spec => []SlotsAccountedFor
<1>1. IInv => SlotsAccountedFor
  BY DEF IInv
<1> QED
  BY <1>1, Inductive, PTL

\* A key never has more handlers at work than max_concurrency.
THEOREM ConcurrencyHolds == Spec => []ConcurrencyCapped
<1>1. IInv => ConcurrencyCapped
  BY SlotHolders, KeyLimiterAssumption
     DEF IInv, TypeOK, SlotsAccountedFor, ConcurrencyCapped
<1> QED
  BY <1>1, Inductive, PTL

\* Any Window consecutive ticks see a key charged at most twice its limit.
THEOREM RateHolds == Spec => []RateCapped
<1>1. IInv => RateCapped
  BY DEF IInv
<1> QED
  BY <1>1, Inductive, PTL

\* A refusal for the rate comes only when the limit is spent: the requests the
\* open window counted are all among those of the last Window ticks.
THEOREM RefusalsJustified == Spec => RefusedRateIsSpent
<1>1. ASSUME IInv, NEW r \in Requests, RefuseRate(r)
      PROVE  Cardinality({q \in Requests : /\ chargedAt[q] # Never
                                           /\ now - chargedAt[q] < Window}) >= KeyLimit
  <2> DEFINE R == {q \in Requests : chargedAt[q] # Never /\ now - chargedAt[q] < Window}
  <2>1. Cardinality(R) \in Nat /\ IsFiniteSet(R)
    BY FiniteRequests
  <2>2. ~(Current(keyRate).count < KeyLimit)
    BY <1>1 DEF RefuseRate, HasRoom
  <2>3. CASE Over(keyRate)
    BY <2>1, <2>2, <2>3, KeyLimiterAssumption DEF Current
  <2>4. CASE ~Over(keyRate)
    <3>1. /\ keyRate \in Rate /\ keyRate # NoWindow /\ now \in Time
          /\ chargedAt \in Times
          /\ now - keyRate.start < Window
          /\ WindowCounts(chargedAt, keyRate, now)
      BY <1>1, <2>4, KeyLimiterAssumption
         DEF IInv, TypeOK, RateCounts, Over, Rate, Time, Times
    <3>2. Since(chargedAt, keyRate.start) \subseteq R
      BY <3>1, KeyLimiterAssumption DEF Since, Rate, Time, Times, Never
    <3>3. /\ Cardinality(Since(chargedAt, keyRate.start)) = keyRate.count
          /\ keyRate.count \in Nat /\ ~(keyRate.count < KeyLimit)
      BY <2>2, <2>4, <3>1 DEF WindowCounts, Rate, Current
    <3>4. Cardinality(Since(chargedAt, keyRate.start)) <= Cardinality(R)
      BY <2>1, <3>2, FS_Subset
    <3> HIDE DEF R
    <3>5. Cardinality(R) >= KeyLimit
      BY <2>1, <3>3, <3>4, KeyLimiterAssumption
    <3> QED BY <3>5 DEF R
  <2> QED BY <2>3, <2>4
<1>2. IInv => [\A r \in Requests : RefuseRate(r) =>
                 Cardinality({q \in Requests :
                                /\ chargedAt[q] # Never
                                /\ now - chargedAt[q] < Window}) >= KeyLimit]_vars
  BY <1>1
<1> QED
  BY <1>2, Inductive, PTL DEF RefusedRateIsSpent

=============================================================================
