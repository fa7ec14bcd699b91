------------------------------ MODULE KeyLimiter ------------------------------
(***************************************************************************)
(* The request limiter of the data plane: the middleware `auth` charges    *)
(* each request to a per-client window and to the counters of its relay    *)
(* key, runs the handler, and gives the key's slot back.                   *)
(*                                                                         *)
(* One client identity and one key with both limits set.  Each limiter     *)
(* call holds the DashMap entry it changes, so it is one step; nothing     *)
(* orders the steps of different requests.                                 *)
(*                                                                         *)
(* Abstracted: seconds are ticks, a window lasts Window of them; what the  *)
(* handler does (StreamRelay).                                             *)
(***************************************************************************)
EXTENDS Naturals, FiniteSets

CONSTANTS
  Requests,     \* the requests that arrive
  IpLimit,      \* security.ip_requests_per_minute
  KeyLimit,     \* requests_per_minute of the relay key
  SlotLimit,    \* max_concurrency of the relay key
  Window,       \* ticks a rate window lasts, 60 seconds in the code
  NoWindow,     \* no charge made yet
  MaxTime       \* bound of the model: the clock stops there

Time == 0..MaxTime
Rate == [start : Time, count : Nat]

ASSUME KeyLimiterAssumption ==
  /\ IsFiniteSet(Requests)
  /\ IpLimit \in Nat /\ KeyLimit \in Nat /\ SlotLimit \in Nat
  /\ Window \in Nat \ {0}
  /\ MaxTime \in Nat
  /\ NoWindow \notin Rate

VARIABLES
  now,        \* current_unix_secs()
  ipRate,     \* the KeyRateLimitState of the client
  keyRate,    \* the one of the key, counters.rate
  inFlight,   \* counters.in_flight
  pc,         \* where each request is
  chargedAt   \* history: when the key's window was charged, Never before that

vars == <<now, ipRate, keyRate, inFlight, pc, chargedAt>>

-----------------------------------------------------------------------------
Never == MaxTime + 1

State == {"idle", "identified", "handling", "streaming", "served", "abandoned",
          "refused"}

Init ==
  /\ now = 0
  /\ ipRate = NoWindow
  /\ keyRate = NoWindow
  /\ inFlight = 0
  /\ pc = [r \in Requests |-> "idle"]
  /\ chargedAt = [r \in Requests |-> Never]

\* The first charge starts a window (KeyLimiterCounters::default starts it then,
\* the derived KeyRateLimitState::default at the epoch, long over), and so does
\* a charge that finds the window over.
Over(w) == w = NoWindow \/ now - w.start >= Window

\* Fault: a new window keeps the count of the old one.
CurrentKeepingCount(w) ==
  CASE w = NoWindow -> [start |-> now, count |-> 0]
    [] w # NoWindow /\ Over(w) -> [w EXCEPT !.start = now]
    [] OTHER -> w

Current(w) == IF Over(w) THEN [start |-> now, count |-> 0] ELSE w

\* Fault: off by one.
HasRoomOneMore(w, limit) == Current(w).count <= limit
HasRoom(w, limit) == Current(w).count < limit

Charged(w) == [Current(w) EXCEPT !.count = @ + 1]

Goto(r, here, there) == pc[r] = here /\ pc' = [pc EXCEPT ![r] = there]

-----------------------------------------------------------------------------
(* enforce_ip_rate_limit, before authentication.                            *)

EnterFromClient(r) ==
  /\ HasRoom(ipRate, IpLimit)
  /\ Goto(r, "idle", "identified")
  /\ ipRate' = Charged(ipRate)
  /\ UNCHANGED <<now, keyRate, inFlight, chargedAt>>

\* A refusal never starts a window: a new one has room, unless the limit is 0,
\* and then the code refuses before it looks at the window.
RefuseClient(r) ==
  /\ ~HasRoom(ipRate, IpLimit)
  /\ Goto(r, "idle", "refused")
  /\ UNCHANGED <<now, ipRate, keyRate, inFlight, chargedAt>>

\* A request whose key is missing, malformed or unknown.
RefuseKey(r) ==
  /\ Goto(r, "identified", "refused")
  /\ UNCHANGED <<now, ipRate, keyRate, inFlight, chargedAt>>

(* enforce_key_limits: the rate first, then the slot.                       *)

RefuseRate(r) ==
  /\ ~HasRoom(keyRate, KeyLimit)
  /\ Goto(r, "identified", "refused")
  /\ UNCHANGED <<now, ipRate, keyRate, inFlight, chargedAt>>

ChargeKey(r) ==
  /\ HasRoom(keyRate, KeyLimit)
  /\ keyRate' = Charged(keyRate)
  /\ chargedAt' = [chargedAt EXCEPT ![r] = now]

\* A request refused for want of a slot has been charged all the same.
RefuseSlot(r) ==
  /\ ChargeKey(r)
  /\ inFlight >= SlotLimit
  /\ Goto(r, "identified", "refused")
  /\ UNCHANGED <<now, ipRate, inFlight>>

\* Fault: off by one.
ReserveOneMore == inFlight <= SlotLimit /\ inFlight' = inFlight + 1
Reserve == inFlight < SlotLimit /\ inFlight' = inFlight + 1

Admit(r) ==
  /\ ChargeKey(r)
  /\ Reserve
  /\ Goto(r, "identified", "handling")
  /\ UNCHANGED <<now, ipRate>>

-----------------------------------------------------------------------------
(* next.run(request).await and decrement_in_flight.  The response of a      *)
(* stream is complete, for the middleware, when its head is: the body goes  *)
(* on after it.                                                             *)

Handled == {"streaming", "served"}

\* Fault: a response that streams keeps the slot.
ReleaseUnlessStreaming(body) ==
  inFlight' = IF body = "streaming" \/ inFlight = 0 THEN inFlight
              ELSE inFlight - 1
Release(body) == inFlight' = IF inFlight = 0 THEN 0 ELSE inFlight - 1

Respond(r, body) ==
  /\ Goto(r, "handling", body)
  /\ Release(body)
  /\ UNCHANGED <<now, ipRate, keyRate, chargedAt>>

StreamEnds(r) ==
  /\ Goto(r, "streaming", "served")
  /\ UNCHANGED <<now, ipRate, keyRate, inFlight, chargedAt>>

\* The client leaves while the handler runs: hyper drops the future of the
\* whole middleware at its await, and what follows the await never runs.
Abandon(r) ==
  /\ Goto(r, "handling", "abandoned")
  /\ UNCHANGED <<now, ipRate, keyRate, inFlight, chargedAt>>

Tick ==
  /\ now < MaxTime
  /\ now' = now + 1
  /\ UNCHANGED <<ipRate, keyRate, inFlight, pc, chargedAt>>

Enforce(r) ==
  \/ EnterFromClient(r) \/ RefuseClient(r)
  \/ RefuseKey(r) \/ RefuseRate(r) \/ RefuseSlot(r) \/ Admit(r)

Next ==
  \/ \E r \in Requests :
       \/ Enforce(r)
       \/ \E body \in Handled : Respond(r, body)
       \/ StreamEnds(r)
       \/ Abandon(r)
  \/ Tick

Spec == Init /\ [][Next]_vars

-----------------------------------------------------------------------------
(* Properties.                                                              *)

At(state) == {r \in Requests : pc[r] = state}

TypeOK ==
  /\ now \in Time
  /\ ipRate \in Rate \cup {NoWindow} /\ keyRate \in Rate \cup {NoWindow}
  /\ inFlight \in 0..SlotLimit
  /\ pc \in [Requests -> State]
  /\ chargedAt \in [Requests -> Time \cup {Never}]

\* Never more handlers of a key run at once than max_concurrency, whatever the
\* order of arrivals, refusals, responses and disconnects.
ConcurrencyCapped == Cardinality(At("handling")) <= SlotLimit

\* The counter neither runs ahead of the handlers nor loses track of them: the
\* saturating subtraction never hides a slot given back twice, and only a
\* handler whose client left keeps one.
SlotsAccountedFor ==
  inFlight = Cardinality(At("handling")) + Cardinality(At("abandoned"))

ChargedIn(from, to) ==
  {r \in Requests : chargedAt[r] # Never /\ chargedAt[r] \in from..to}

\* The windows are fixed, not sliding: Window consecutive ticks see the key
\* charged for at most twice requests_per_minute.
RateCapped ==
  \A t \in Time :
    Cardinality(ChargedIn(t, t + Window - 1)) <= 2 * KeyLimit

\* An exhausted window opens again: a request is refused its rate only if the
\* last Window ticks saw the key charged for requests_per_minute requests.
RefusedRateIsSpent ==
  [][\A r \in Requests : RefuseRate(r) =>
       Cardinality({q \in Requests : /\ chargedAt[q] # Never
                                     /\ now - chargedAt[q] < Window}) >= KeyLimit]_vars

-----------------------------------------------------------------------------
(* What comments and documents say and the code does not do.                *)

\* "Decrement in-flight counter for a key after request completion": no slot
\* stays reserved once no request of the key is left.
SlotsReturned == At("handling") = {} => inFlight = 0

\* "When set, concurrent in-flight requests above this key cap are rejected":
\* a response that still streams is a request in flight.
StreamsCapped == Cardinality(At("handling") \cup At("streaming")) <= SlotLimit
=============================================================================
