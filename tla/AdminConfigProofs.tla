-------------------------- MODULE AdminConfigProofs ---------------------------
(***************************************************************************)
(* Proofs about AdminConfig, for every file, every number of calls and     *)
(* requests, and every number of faults unless a theorem says otherwise.   *)
(***************************************************************************)
EXTENDS AdminConfig, TLAPS

-----------------------------------------------------------------------------
(* What is true of a handler, whatever the tables hold.                     *)

Found == UNION {[D -> Payload] : D \in SUBSET TargetIds}
Handler == [call : DOMAIN Ops \cup {0}, step : Steps, row : ProviderRow \cup {None},
            found : Found, todo : SUBSET (Payload \cup TargetIds)]

Is(h, kind) == h.call # 0 /\ Ops[h.call].kind = kind

\* A provider the file gave a key in the clear.
FilePlain(p) ==
  p \in DOMAIN File.providers /\ ~File.providers[p].managed /\ File.providers[p].key

\* What it has to insert are targets; what it keeps of a provider's row was read from
\* the row it is going to write.
HandlerOK(h) ==
  /\ h \in Handler
  /\ h.step # "new" => h.call # 0
  /\ h.step \in {"refer", "targets"} => h.todo \subseteq Payload
  /\ h.step = "routes" => Is(h, "create_route") \/ Is(h, "update_route")
  /\ h.step = "refer" => ~Is(h, "update_provider")
  /\ (h.step = "clear" /\ Is(h, "update_route")) => Ops[h.call].with.targets # None
  /\ (h.step = "write" /\ Is(h, "update_provider")) =>
       /\ h.row \in ProviderRow
       /\ h.row.key = "plain" => FilePlain(Ops[h.call].id)

HandlersOK == admin \in [Admins -> Handler] /\ \A a \in Admins : HandlerOK(admin[a])

\* The history names a handler that creates this route.
MadeBy(h, r) ==
  /\ Is(h, "create_route") /\ Ops[h.call].id = r
  /\ h.step \in {"targets", "undo", "ok", "gone", "refused"}

MadeOK ==
  /\ made \in [Models -> Admins \cup {None}]
  /\ \A r \in Models : \A a \in Admins : made[r] = a =>
       MadeBy(admin[a], r) /\ (admin[a].step = "refused" => routes[r] = None)

\* An audit row was missed for a fault.
Audited == {"create_provider", "update_provider", "update_route", "import"}
AuditOK ==
  /\ audited \subseteq Admins /\ logged \subseteq Admins
  /\ \A a \in Admins : admin[a].step = "log" => faults > 0
  /\ MaxFaults < 2 => AuditedOrLogged

HInv == StoreTypeOK /\ HandlersOK /\ PlainKeysAreTheFiles /\ MadeOK /\ AuditOK

-----------------------------------------------------------------------------
(* Steps of a handler in general.                                           *)

\* The empty list of targets read.
LEMMA NothingFound == <<>> \in Found
<1>1. <<>> \in [{} -> Payload]
  OBVIOUS
<1> QED BY <1>1 DEF Found

LEMMA IdleOK ==
  ASSUME NEW a \in Admins, HandlersOK, NEW step \in {"ok", "refused", "gone"},
         admin[a].step # "new"
  PROVE  HandlerOK([Idle EXCEPT !.call = admin[a].call, !.step = step])
  BY NothingFound DEF HandlersOK, HandlerOK, Handler, Idle, Steps

\* One handler moves to h.
LEMMA Moves ==
  ASSUME HandlersOK, NEW a \in Admins, NEW h, HandlerOK(h), admin' = [admin EXCEPT ![a] = h]
  PROVE  HandlersOK' /\ admin'[a] = h /\ \A b \in Admins \ {a} : admin'[b] = admin[b]
  BY DEF HandlersOK, HandlerOK

\* The route a handler has made stays its own, or is gone.
LEMMA MadeMoves ==
  ASSUME MadeOK, HandlersOK, NEW a \in Admins, NEW h, admin' = [admin EXCEPT ![a] = h],
         made' = made,
         \A r \in Models : routes[r] = None => routes'[r] = None,
         \A r \in Models : made[r] = a /\ MadeBy(admin[a], r) =>
           MadeBy(h, r) /\ (h.step = "refused" => routes'[r] = None)
  PROVE  MadeOK'
<1>1. made' \in [Models -> Admins \cup {None}]
  BY DEF MadeOK
<1>2. ASSUME NEW r \in Models, NEW b \in Admins, made'[r] = b
      PROVE  MadeBy(admin'[b], r) /\ (admin'[b].step = "refused" => routes'[r] = None)
  <2>1. CASE b = a
    <3>1. admin'[b] = h
      BY <2>1 DEF HandlersOK
    <3> QED BY <1>2, <2>1, <3>1 DEF MadeOK
  <2>2. CASE b # a
    <3>1. admin'[b] = admin[b]
      BY <2>2 DEF HandlersOK
    <3> QED BY <1>2, <3>1 DEF MadeOK
  <2> QED BY <2>1, <2>2
<1> QED BY <1>1, <1>2 DEF MadeOK

\* A handler that does not end an audited call needs no trace of it.
LEMMA AuditMoves ==
  ASSUME AuditOK, HandlersOK, NEW a \in Admins, NEW h, admin' = [admin EXCEPT ![a] = h],
         audited' = audited, logged' = logged, StoreTypeOK,
         faults' \in {faults, faults + 1},
         h.step # "log", h.step = "ok" => h.call # 0 /\ Ops[h.call].kind \notin Audited
  PROVE  AuditOK'
<1>1. \A b \in Admins : admin'[b] = IF b = a THEN h ELSE admin[b]
  BY DEF HandlersOK
<1>2. faults \in Nat
  BY ConfigAssumption DEF StoreTypeOK
<1>3. MaxFaults < 2 => AuditedOrLogged'
  BY <1>1 DEF AuditOK, AuditedOrLogged, Audited, Op
<1> QED BY <1>1, <1>2, <1>3 DEF AuditOK

\* A handler that only reads, or ends.
LEMMA Looks ==
  ASSUME HInv, NEW a \in Admins, NEW h, HandlerOK(h), admin' = [admin EXCEPT ![a] = h],
         UNCHANGED <<tables, audited, logged, made>>,
         faults' \in {faults, faults + 1}, faults' \in 0 .. MaxFaults,
         h.step # "log", h.step = "ok" => Ops[h.call].kind \notin Audited,
         \A r \in Models : made[r] = a /\ MadeBy(admin[a], r) => MadeBy(h, r) /\ h.step # "refused"
  PROVE  HInv'
<1>1. HandlersOK'
  BY Moves DEF HInv
<1>2. MadeOK'
  BY MadeMoves DEF HInv, tables
<1>3. AuditOK'
  BY AuditMoves DEF HInv, HandlerOK, Handler, Steps
<1>4. StoreTypeOK' /\ PlainKeysAreTheFiles'
  BY DEF HInv, StoreTypeOK, PlainKeysAreTheFiles, Present, tables
<1> QED BY <1>1, <1>2, <1>3, <1>4 DEF HInv

\* A handler that is refused, where it has no route to take back.
LEMMA Refused ==
  ASSUME HInv, NEW a \in Admins, Refuses(a), admin[a].step \notin Ended \cup {"targets", "undo"}
  PROVE  HInv'
<1> DEFINE h == [Idle EXCEPT !.call = admin[a].call, !.step = "refused"]
<1>1. HandlerOK(h) /\ h.step = "refused"
  BY IdleOK DEF HInv, Ended, Idle
<1>2. \A r \in Models : ~MadeBy(admin[a], r)
  BY DEF MadeBy, Ended
<1>3. faults' \in {faults, faults + 1} /\ faults' \in 0 .. MaxFaults
  BY DEF Refuses, HInv, StoreTypeOK
<1> QED BY <1>1, <1>2, <1>3, Looks DEF Refuses, End

\* A handler that only takes a step.
LEMMA TakesStep ==
  ASSUME HInv, NEW a \in Admins, NEW step \in Steps, Then(a, step),
         UNCHANGED <<tables, audited, logged, made>>,
         faults' \in {faults, faults + 1}, faults' \in 0 .. MaxFaults,
         admin[a].step \notin Ended \cup {"targets", "undo"},
         step \notin {"new", "log", "ok", "refer", "targets", "routes", "write", "clear"}
  PROVE  HInv'
<1> DEFINE h == [admin[a] EXCEPT !.step = step]
<1>1. HandlerOK(h) /\ h.step = step
  BY DEF HInv, HandlersOK, HandlerOK, Handler, Ended
<1>2. \A r \in Models : ~MadeBy(admin[a], r)
  BY DEF MadeBy, Ended
<1> QED BY <1>1, <1>2, Looks DEF Then

-----------------------------------------------------------------------------
(* Handlers that read.                                                      *)

LEMMA ProviderIsNewKeeps ==
  ASSUME HInv, NEW a \in Admins, ProviderIsNew(a) \/ ProviderUnread(a)
  PROVE  HInv'
<1>1. admin[a].step = "exists"
  BY DEF ProviderIsNew, ProviderUnread, At
<1>2. admin[a].step \notin Ended \cup {"targets", "undo"}
  BY <1>1 DEF Ended
<1>3. faults' \in {faults, faults + 1} /\ faults' \in 0 .. MaxFaults
      /\ UNCHANGED <<tables, audited, logged, made>>
  BY ConfigAssumption DEF ProviderIsNew, ProviderUnread, Reads, Refuses, Fault, HInv, StoreTypeOK
<1>4. CASE Then(a, "insert")
  BY <1>2, <1>3, <1>4, TakesStep DEF Steps
<1>5. CASE End(a, "refused")
  <2> DEFINE h == [Idle EXCEPT !.call = admin[a].call, !.step = "refused"]
  <2>1. HandlerOK(h) /\ h.step = "refused"
    BY <1>1, IdleOK DEF HInv, Idle
  <2>2. \A r \in Models : ~MadeBy(admin[a], r)
    BY <1>1 DEF MadeBy
  <2> QED BY <1>3, <1>5, <2>1, <2>2, Looks DEF End
<1> QED BY <1>4, <1>5 DEF ProviderIsNew, ProviderUnread, Reads, Refuses

\* The key that is kept is one the row may have.
LEMMA ReadProviderKeeps ==
  ASSUME HInv, NEW a \in Admins, ReadProvider(a)
  PROVE  HInv'
<1>1. admin[a].step = "read" /\ Is(admin[a], "update_provider")
  BY DEF ReadProvider, At, Kind, Is, Op
<1>2. CASE Refuses(a)
  BY <1>1, <1>2, Refused DEF Ended
<1>3. CASE ~Refuses(a)
  <2> DEFINE p == Ops[admin[a].call].id
             h == [admin[a] EXCEPT !.step = "write", !.row = providers[p]]
  <2>1. providers[p] # None /\ admin' = [admin EXCEPT ![a] = h]
        /\ UNCHANGED <<tables, faults, audited, logged, made>>
    BY <1>3 DEF ReadProvider, Op, Wrote
  <2>2. p \in Providers
    BY <1>1, AdminAssumption DEF HInv, HandlersOK, Handler, WellFormed, Is
  <2>3. providers[p] \in ProviderRow
    BY <2>1, <2>2 DEF HInv, StoreTypeOK
  <2>4. providers[p].key = "plain" => FilePlain(p)
    BY <2>1, <2>2 DEF HInv, PlainKeysAreTheFiles, Present, FilePlain, StoreTypeOK
  <2>5. HandlerOK(h) /\ h.step = "write" /\ h.call = admin[a].call
    BY <1>1, <2>3, <2>4 DEF HInv, HandlersOK, HandlerOK, Handler, Steps, Is
  <2>6. \A r \in Models : ~MadeBy(admin[a], r)
    BY <1>1 DEF MadeBy
  <2>7. faults' = faults /\ faults \in 0 .. MaxFaults
    BY <2>1 DEF HInv, StoreTypeOK
  <2> QED BY <2>1, <2>5, <2>6, <2>7, Looks
<1> QED BY <1>2, <1>3

LEMMA ReadRouteKeeps ==
  ASSUME HInv, NEW a \in Admins, ReadRoute(a) \/ ReadTarget(a) \/ RereadTargets(a) \/ NothingToTarget(a)
  PROVE  HInv'
<1>1. admin[a].step \notin Ended \cup {"targets", "undo"}
  BY DEF ReadRoute, ReadTarget, RereadTargets, NothingToTarget, At, Ended
<1>2. CASE Refuses(a)
  BY <1>1, <1>2, Refused
<1>3. CASE ~Refuses(a)
  <2>1. PICK step \in {"read_targets", "route", "audit"} : Reads(a, step)
    BY <1>3 DEF ReadRoute, ReadTarget, RereadTargets, NothingToTarget
  <2>2. Then(a, step) /\ UNCHANGED <<tables, faults, audited, logged, made>>
    BY <2>1 DEF Reads
  <2>3. faults' = faults /\ faults \in 0 .. MaxFaults
    BY <2>2 DEF HInv, StoreTypeOK
  <2> QED BY <1>1, <2>2, <2>3, TakesStep DEF Steps
<1> QED BY <1>2, <1>3

\* The targets that were read.
LEMMA ReadTargetsKeeps ==
  ASSUME HInv, NEW a \in Admins, ReadTargets(a)
  PROVE  HInv'
<1> DEFINE found == TargetsOf(Op(a).id)
           next == IF Kind(a, "update_route") THEN "routes"
                   ELSE IF found = {} THEN "delete" ELSE "clear"
           h == [admin[a] EXCEPT !.found = Restrict(targets, found),
                                 !.todo = IF Kind(a, "delete_route") THEN found ELSE {},
                                 !.step = next]
<1>1. found \subseteq TargetIds
  BY DEF TargetsOf, Present, HInv, StoreTypeOK
<1>2. Restrict(targets, found) \in [found -> Payload]
  BY <1>1 DEF TargetsOf, Present, Restrict, HInv, StoreTypeOK
<1>3. Restrict(targets, found) \in Found
  BY <1>1, <1>2 DEF Found
<1>4. admin[a].step = "read_targets" /\ admin' = [admin EXCEPT ![a] = h]
      /\ UNCHANGED <<tables, faults, audited, logged, made>>
  BY DEF ReadTargets, At, Wrote
<1>5. HandlerOK(h) /\ h.step = next /\ h.call = admin[a].call
  <2>1. admin[a] \in Handler /\ admin[a].call # 0
    BY <1>4 DEF HInv, HandlersOK, HandlerOK
  <2>2. (IF Kind(a, "delete_route") THEN found ELSE {}) \subseteq Payload \cup TargetIds
    BY <1>1
  <2>3. h \in Handler /\ h.step = next /\ h.call = admin[a].call
    BY <1>3, <2>1, <2>2 DEF Handler, Steps
  <2>4. /\ next = "routes" => Is(h, "update_route")
        /\ next = "clear" => ~Is(h, "update_route")
    BY <2>1, <2>3 DEF Is, Kind, Op
  <2>5. next \in {"routes", "delete", "clear"}
    OBVIOUS
  <2> HIDE DEF h, next
  <2> QED BY <2>1, <2>3, <2>4, <2>5 DEF HandlerOK
<1>6. \A r \in Models : ~MadeBy(admin[a], r)
  BY <1>4 DEF MadeBy
<1>7. faults' = faults /\ faults \in 0 .. MaxFaults
  BY <1>4 DEF HInv, StoreTypeOK
<1>8. h.step \notin {"log", "ok"}
  BY <1>5
<1> HIDE DEF h
<1> QED BY <1>4, <1>5, <1>6, <1>7, <1>8, Looks

LEMMA ValidateRouteKeeps ==
  ASSUME HInv, NEW a \in Admins, ValidateRoute(a)
  PROVE  HInv'
<1>1. admin[a].step = "routes" /\ (Is(admin[a], "create_route") \/ Is(admin[a], "update_route"))
  BY DEF ValidateRoute, At, HInv, HandlersOK, HandlerOK, Handler
<1>2. CASE Refuses(a)
  BY <1>1, <1>2, Refused DEF Ended
<1>3. CASE ~Refuses(a)
  <2> DEFINE h == [admin[a] EXCEPT !.step = "refer", !.todo = Candidate(a)]
  <2>1. admin' = [admin EXCEPT ![a] = h] /\ UNCHANGED <<tables, faults, audited, logged, made>>
    BY <1>3 DEF ValidateRoute, Wrote
  <2>2. admin[a] \in Handler /\ admin[a].call \in DOMAIN Ops
    BY <1>1, AdminAssumption DEF HInv, HandlersOK, Handler, Is
  <2>3. Candidate(a) \subseteq Payload
    <3>1. CASE ~Replaces(a)
      <4>1. PICK D \in SUBSET TargetIds : admin[a].found \in [D -> Payload]
        BY <2>2 DEF Handler, Found
      <4> QED BY <3>1, <4>1 DEF Candidate, Range
    <3>2. CASE Replaces(a)
      BY <1>1, <2>2, <3>2, AdminAssumption DEF Candidate, Replaces, Op, WellFormed, Is
    <3> QED BY <3>1, <3>2
  <2>4. HandlerOK(h) /\ h.step = "refer" /\ h.call = admin[a].call
    BY <1>1, <2>2, <2>3 DEF HandlerOK, Handler, Steps, Is
  <2>5. \A r \in Models : ~MadeBy(admin[a], r)
    BY <1>1 DEF MadeBy
  <2>6. faults' = faults /\ faults \in 0 .. MaxFaults
    BY <2>1 DEF HInv, StoreTypeOK
  <2> HIDE DEF h
  <2> QED BY <2>1, <2>4, <2>5, <2>6, Looks
<1> QED BY <1>2, <1>3

LEMMA ReadForTargetKeeps ==
  ASSUME HInv, NEW a \in Admins, ReadForTarget(a)
  PROVE  HInv'
<1> DEFINE h == [admin[a] EXCEPT !.step = "refer", !.todo = {Op(a).with}]
<1>1. /\ admin[a].step \in {"read", "route"}
      /\ Is(admin[a], "create_target") \/ Is(admin[a], "update_target")
      /\ admin' = [admin EXCEPT ![a] = h] /\ UNCHANGED <<tables, faults, audited, logged, made>>
  BY DEF ReadForTarget, At, Kind, Is, Op, Wrote
<1>2. admin[a] \in Handler /\ admin[a].call \in DOMAIN Ops
  BY <1>1, AdminAssumption DEF HInv, HandlersOK, Handler, Is
<1>3. Op(a).with \in Payload
  BY <1>1, <1>2, AdminAssumption DEF Op, WellFormed, Is
<1>4. HandlerOK(h) /\ h.step = "refer" /\ h.call = admin[a].call
  BY <1>1, <1>2, <1>3 DEF HandlerOK, Handler, Steps, Is
<1>5. \A r \in Models : ~MadeBy(admin[a], r)
  BY <1>1 DEF MadeBy
<1>6. faults' = faults /\ faults \in 0 .. MaxFaults
  BY <1>1 DEF HInv, StoreTypeOK
<1> HIDE DEF h
<1> QED BY <1>1, <1>4, <1>5, <1>6, Looks

\* The step over a set of things to do.
LEMMA RestMoves ==
  ASSUME NEW a \in Admins, NEW x, NEW next, NEW left, HandlersOK, Rest(a, x, next, left)
  PROVE  \/ /\ admin[a].todo = {x}
            /\ admin' = [admin EXCEPT ![a] = [admin[a] EXCEPT !.todo = left, !.step = next]]
         \/ admin' = [admin EXCEPT ![a] = [admin[a] EXCEPT !.todo = admin[a].todo \ {x}]]
  BY DEF Rest, HandlersOK, Handler

LEMMA ValidateTargetKeeps ==
  ASSUME HInv, NEW a \in Admins, ValidateTarget(a)
  PROVE  HInv'
<1>1. /\ admin[a].step = "refer" /\ ~Is(admin[a], "update_provider")
      /\ admin[a] \in Handler /\ admin[a].call # 0 /\ admin[a].todo \subseteq Payload
  BY DEF ValidateTarget, At, HInv, HandlersOK, HandlerOK
<1>2. CASE Refuses(a)
  BY <1>1, <1>2, Refused DEF Ended
<1>3. CASE ~Refuses(a)
  <2> DEFINE next == IF Op(a).kind \in {"create_route", "create_target"} THEN "insert" ELSE "write"
  <2>0. next \in {"insert", "write"}
    OBVIOUS
  <2>1. PICK t \in admin[a].todo :
           Rest(a, t, next, {}) /\ UNCHANGED <<tables, faults, audited, logged, made>>
    BY <1>3 DEF ValidateTarget, Wrote
  <2> HIDE DEF next
  <2>2. PICK h : /\ admin' = [admin EXCEPT ![a] = h]
                 /\ \/ h = [admin[a] EXCEPT !.todo = {}, !.step = next]
                    \/ h = [admin[a] EXCEPT !.todo = admin[a].todo \ {t}]
    BY <2>1, RestMoves DEF HInv
  <2>3. HandlerOK(h) /\ h.step \in {"insert", "write", "refer"} /\ h.call = admin[a].call
    BY <1>1, <2>0, <2>2 DEF HandlerOK, Handler, Steps, Is
  <2>4. \A r \in Models : ~MadeBy(admin[a], r)
    BY <1>1 DEF MadeBy
  <2>5. faults' = faults /\ faults \in 0 .. MaxFaults
    BY <2>1 DEF HInv, StoreTypeOK
  <2> QED BY <2>1, <2>2, <2>3, <2>4, <2>5, Looks
<1> QED BY <1>2, <1>3

LEMMA StartKeeps ==
  ASSUME HInv, NEW a \in Admins, Start(a)
  PROVE  HInv'
<1>1. PICK k \in DOMAIN Ops : admin' = [admin EXCEPT ![a] = [admin[a] EXCEPT !.call = k, !.step =
         CASE Ops[k].kind = "create_provider" -> "exists"
           [] Ops[k].kind = "create_route" -> "routes"
           [] Ops[k].kind \in {"delete_provider", "delete_target"} -> "delete"
           [] Ops[k].kind = "delete_route" -> "read_targets"
           [] Ops[k].kind = "import" -> "apply"
           [] OTHER -> "read"]]
  BY DEF Start
<1>2. PICK step \in {"exists", "routes", "delete", "read_targets", "apply", "read"} :
         /\ admin' = [admin EXCEPT ![a] = [admin[a] EXCEPT !.call = k, !.step = step]]
         /\ step = "routes" => Ops[k].kind = "create_route"
  BY <1>1
<1> DEFINE h == [admin[a] EXCEPT !.call = k, !.step = step]
<1>3. admin[a].step = "new" /\ UNCHANGED <<tables, faults, audited, logged, made>>
  BY DEF Start, At, Wrote
<1>4. HandlerOK(h) /\ h.step = step
  BY <1>2, AdminAssumption DEF HInv, HandlersOK, HandlerOK, Handler, Steps, Is
<1>5. \A r \in Models : ~MadeBy(admin[a], r)
  BY <1>3 DEF MadeBy
<1>6. faults' = faults /\ faults \in 0 .. MaxFaults
  BY <1>3 DEF HInv, StoreTypeOK
<1>7. admin' = [admin EXCEPT ![a] = h]
  BY <1>2
<1> HIDE DEF h
<1> QED BY <1>3, <1>4, <1>5, <1>6, <1>7, Looks
-----------------------------------------------------------------------------
(* Handlers that write.                                                     *)

\* A handler writes the tables and goes on to h.
LEMMA Writes ==
  ASSUME HInv, NEW a \in Admins, NEW h, HandlerOK(h), admin' = [admin EXCEPT ![a] = h],
         UNCHANGED <<faults, audited, logged>>,
         h.step # "log", h.step = "ok" => h.call # 0 /\ Ops[h.call].kind \notin Audited,
         StoreTypeOK', PlainKeysAreTheFiles', MadeOK'
  PROVE  HInv'
<1>1. HandlersOK'
  BY Moves DEF HInv
<1>2. AuditOK'
  BY AuditMoves DEF HInv
<1> QED BY <1>1, <1>2 DEF HInv

\* The end of a handler that answers with success.
LEMMA EndsOK ==
  ASSUME HInv, NEW a \in Admins, End(a, "ok"), admin[a].step # "new",
         Op(a).kind \notin Audited
  PROVE  \E h : /\ HandlerOK(h) /\ h.step = "ok" /\ h.call = admin[a].call
                /\ admin' = [admin EXCEPT ![a] = h]
                /\ h.call # 0 /\ Ops[h.call].kind \notin Audited
<1> DEFINE h == [Idle EXCEPT !.call = admin[a].call, !.step = "ok"]
<1>1. HandlerOK(h) /\ h.step = "ok" /\ h.call = admin[a].call
  BY IdleOK DEF HInv, Idle
<1>2. admin[a].call # 0
  BY DEF HInv, HandlersOK, HandlerOK
<1> QED BY <1>1, <1>2 DEF End, Op

\* Rows of the providers: those that are not written stay.
LEMMA ProvidersSealed ==
  ASSUME PlainKeysAreTheFiles, NEW p,
         providers \in [Providers -> ProviderRow \cup {None}],
         \E row \in ProviderRow \cup {None} :
           /\ providers' = [providers EXCEPT ![p] = row]
           /\ row # None /\ row.key = "plain" => FilePlain(p)
  PROVE  PlainKeysAreTheFiles' /\ providers' \in [Providers -> ProviderRow \cup {None}]
  BY DEF PlainKeysAreTheFiles, Present, FilePlain

LEMMA RowIsRow ==
  ASSUME NEW config \in ProviderConfig, NEW kept \in {"none", "sealed", "plain"}
  PROVE  /\ RowOf(config, kept) \in ProviderRow
         /\ RowOf(config, kept).key = "plain" => kept = "plain"
  BY DEF RowOf, ProviderRow, ProviderConfig

\* No handler is at this statement with a route it may have to take back.
LEMMA NothingMade ==
  ASSUME HInv, NEW a \in Admins, NEW h, admin' = [admin EXCEPT ![a] = h], made' = made,
         \A r \in Models : routes[r] = None => routes'[r] = None,
         admin[a].step \notin {"targets", "undo", "ok", "gone", "refused"}
  PROVE  MadeOK'
<1>1. \A r \in Models : ~MadeBy(admin[a], r)
  BY DEF MadeBy
<1> QED BY <1>1, MadeMoves DEF HInv

LEMMA InsertProviderKeeps ==
  ASSUME HInv, NEW a \in Admins, InsertProvider(a)
  PROVE  HInv'
<1>1. admin[a].step = "insert" /\ Is(admin[a], "create_provider")
  BY DEF InsertProvider, At, Kind, Is, Op
<1>2. CASE Refuses(a)
  BY <1>1, <1>2, Refused DEF Ended
<1>3. CASE ~Refuses(a)
  <2> DEFINE h == [admin[a] EXCEPT !.step = "audit"]
             row == RowOf(Op(a).with, "none")
  <2>1. /\ providers' = [providers EXCEPT ![Op(a).id] = row]
        /\ admin' = [admin EXCEPT ![a] = h]
        /\ UNCHANGED <<routes, targets, made, faults, audited, logged>>
    BY <1>3 DEF InsertProvider, Then, Wrote
  <2>2. row \in ProviderRow /\ row.key # "plain"
    <3>1. Op(a).with \in ProviderConfig
      BY <1>1, AdminAssumption DEF HInv, HandlersOK, Handler, WellFormed, Is, Op
    <3> QED BY <3>1, RowIsRow
  <2>3. PlainKeysAreTheFiles' /\ providers' \in [Providers -> ProviderRow \cup {None}]
    <3> HIDE DEF row
    <3> QED BY <2>1, <2>2, ProvidersSealed DEF HInv, StoreTypeOK
  <2>4. StoreTypeOK'
    BY <2>1, <2>3 DEF HInv, StoreTypeOK
  <2>5. HandlerOK(h) /\ h.step = "audit"
    BY <1>1 DEF HInv, HandlersOK, HandlerOK, Handler, Steps, Is
  <2>6. MadeOK'
    BY <1>1, <2>1, NothingMade
  <2> HIDE DEF h
  <2> QED BY <2>1, <2>3, <2>4, <2>5, <2>6, Writes
<1> QED BY <1>2, <1>3

\* The key that is kept was read before: it is plain only where the file says so.
LEMMA WriteProviderKeeps ==
  ASSUME HInv, NEW a \in Admins, WriteProvider(a)
  PROVE  HInv'
<1>1. admin[a].step = "write" /\ Is(admin[a], "update_provider")
  BY DEF WriteProvider, At, Kind, Is, Op
<1>2. CASE Refuses(a)
  BY <1>1, <1>2, Refused DEF Ended
<1>3. CASE ~Refuses(a)
  <2> DEFINE h == [admin[a] EXCEPT !.step = "audit"]
             row == RowOf(Op(a).with, admin[a].row.key)
  <2>1. /\ providers' = [providers EXCEPT ![Op(a).id] = row]
        /\ admin' = [admin EXCEPT ![a] = h]
        /\ UNCHANGED <<routes, targets, made, faults, audited, logged>>
    BY <1>3 DEF WriteProvider, Then, Wrote
  <2>2. row \in ProviderRow /\ (row.key = "plain" => FilePlain(Op(a).id))
    <3>1. Op(a).with \in ProviderConfig
      BY <1>1, AdminAssumption DEF HInv, HandlersOK, Handler, WellFormed, Is, Op
    <3>2. admin[a].row \in ProviderRow /\ (admin[a].row.key = "plain" => FilePlain(Op(a).id))
      BY <1>1 DEF HInv, HandlersOK, HandlerOK, Op
    <3>3. admin[a].row.key \in {"none", "sealed", "plain"}
      BY <3>2 DEF ProviderRow
    <3> QED BY <3>1, <3>2, <3>3, RowIsRow
  <2>3. PlainKeysAreTheFiles' /\ providers' \in [Providers -> ProviderRow \cup {None}]
    <3> HIDE DEF row
    <3> QED BY <2>1, <2>2, ProvidersSealed DEF HInv, StoreTypeOK
  <2>4. StoreTypeOK'
    BY <2>1, <2>3 DEF HInv, StoreTypeOK
  <2>5. HandlerOK(h) /\ h.step = "audit"
    BY <1>1 DEF HInv, HandlersOK, HandlerOK, Handler, Steps, Is
  <2>6. MadeOK'
    BY <1>1, <2>1, NothingMade
  <2> HIDE DEF h
  <2> QED BY <2>1, <2>3, <2>4, <2>5, <2>6, Writes
<1> QED BY <1>2, <1>3

LEMMA DeleteProviderKeeps ==
  ASSUME HInv, NEW a \in Admins, DeleteProvider(a)
  PROVE  HInv'
<1>1. admin[a].step = "delete" /\ Is(admin[a], "delete_provider")
  BY DEF DeleteProvider, At, Kind, Is, Op
<1>2. CASE Refuses(a)
  BY <1>1, <1>2, Refused DEF Ended
<1>3. CASE ~Refuses(a)
  <2>1. /\ DeleteProviderRow(Op(a).id) /\ End(a, "ok")
        /\ UNCHANGED <<routes, made, faults, audited, logged>>
    BY <1>3 DEF DeleteProvider, Wrote
  <2>2. PICK h : /\ HandlerOK(h) /\ h.step = "ok" /\ h.call = admin[a].call
                 /\ admin' = [admin EXCEPT ![a] = h]
                 /\ h.call # 0 /\ Ops[h.call].kind \notin Audited
    BY <1>1, <2>1, EndsOK DEF Is, Op, Audited
  <2>3. StoreTypeOK'
    BY <2>1 DEF HInv, StoreTypeOK, DeleteProviderRow, Without
  <2>4. PlainKeysAreTheFiles'
    BY <2>1 DEF HInv, StoreTypeOK, PlainKeysAreTheFiles, DeleteProviderRow, Without, Present
  <2>5. MadeOK'
    BY <1>1, <2>1, <2>2, NothingMade
  <2> QED BY <2>1, <2>2, <2>3, <2>4, <2>5, Writes
<1> QED BY <1>2, <1>3

\* The route is the handler's to take back from here on.
LEMMA InsertRouteKeeps ==
  ASSUME HInv, NEW a \in Admins, InsertRoute(a)
  PROVE  HInv'
<1>1. admin[a].step = "insert" /\ Is(admin[a], "create_route")
  BY DEF InsertRoute, At, Kind, Is, Op
<1>2. CASE Refuses(a)
  BY <1>1, <1>2, Refused DEF Ended
<1>3. CASE ~Refuses(a)
  <2> DEFINE h == [admin[a] EXCEPT !.step = "targets", !.todo = Op(a).with.targets]
             row == [model |-> Op(a).with.model, enabled |-> Op(a).with.enabled]
  <2>1. /\ routes' = [routes EXCEPT ![Op(a).id] = row]
        /\ made' = [made EXCEPT ![Op(a).id] = a]
        /\ admin' = [admin EXCEPT ![a] = h]
        /\ UNCHANGED <<providers, targets, faults, audited, logged>>
    BY <1>3 DEF InsertRoute, Wrote
  <2>2. admin[a] \in Handler /\ admin[a].call \in DOMAIN Ops
    BY <1>1, AdminAssumption DEF HInv, HandlersOK, Handler, Is
  <2>3. Op(a).id \in Models /\ row \in RouteRow /\ Op(a).with.targets \subseteq Payload
    BY <1>1, <2>2, AdminAssumption DEF WellFormed, Is, Op, RouteRow
  <2>4. StoreTypeOK' /\ PlainKeysAreTheFiles'
    BY <2>1, <2>3 DEF HInv, StoreTypeOK, PlainKeysAreTheFiles, Present
  <2>5. HandlerOK(h) /\ h.step = "targets" /\ h.call = admin[a].call
    BY <1>1, <2>2, <2>3 DEF HandlerOK, Handler, Steps, Is
  <2>6. \A b \in Admins : admin'[b] = IF b = a THEN h ELSE admin[b]
    BY <2>1 DEF HInv, HandlersOK
  <2> HIDE DEF h, row
  <2>7. MadeOK'
    <3>1. made' \in [Models -> Admins \cup {None}]
      BY <2>1 DEF HInv, MadeOK
    <3>2. ASSUME NEW r \in Models, NEW b \in Admins, made'[r] = b
          PROVE  MadeBy(admin'[b], r) /\ (admin'[b].step = "refused" => routes'[r] = None)
      <4>1. CASE r = Op(a).id
        <5>1. b = a
          BY <2>1, <3>2, <4>1 DEF HInv, MadeOK
        <5> QED BY <1>1, <2>5, <2>6, <4>1, <5>1 DEF MadeBy, Is, Op
      <4>2. CASE r # Op(a).id
        <5>1. made[r] = b /\ routes'[r] = routes[r]
          BY <2>1, <3>2, <4>2 DEF HInv, MadeOK, StoreTypeOK
        <5>2. MadeBy(admin[b], r) /\ (admin[b].step = "refused" => routes[r] = None)
          BY <5>1 DEF HInv, MadeOK
        <5>3. b # a
          BY <1>1, <5>2 DEF MadeBy
        <5> QED BY <2>6, <5>1, <5>2, <5>3
      <4> QED BY <4>1, <4>2
    <3> QED BY <3>1, <3>2 DEF MadeOK
  <2> QED BY <2>1, <2>4, <2>5, <2>7, Writes
<1> QED BY <1>2, <1>3

LEMMA WriteRouteKeeps ==
  ASSUME HInv, NEW a \in Admins, WriteRoute(a)
  PROVE  HInv'
<1>1. admin[a].step = "write" /\ Is(admin[a], "update_route")
  BY DEF WriteRoute, At, Kind, Is, Op
<1>2. CASE Refuses(a)
  BY <1>1, <1>2, Refused DEF Ended
<1>3. CASE ~Refuses(a)
  <2> DEFINE old == DOMAIN admin[a].found
             step == IF ~Replaces(a) THEN "audit" ELSE IF old = {} THEN "targets" ELSE "clear"
             todo == IF ~Replaces(a) THEN {} ELSE IF old = {} THEN Op(a).with.targets ELSE old
             h == [admin[a] EXCEPT !.step = step, !.todo = todo]
             row == [model |-> Op(a).with.model, enabled |-> Op(a).with.enabled]
  <2>1. /\ routes[Op(a).id] # None /\ routes' = [routes EXCEPT ![Op(a).id] = row]
        /\ admin' = [admin EXCEPT ![a] = h]
        /\ UNCHANGED <<providers, targets, made, faults, audited, logged>>
    BY <1>3 DEF WriteRoute, Wrote
  <2>2. admin[a] \in Handler /\ admin[a].call \in DOMAIN Ops
    BY <1>1, AdminAssumption DEF HInv, HandlersOK, Handler, Is
  <2>3. row \in RouteRow /\ (Replaces(a) => Op(a).with.targets \subseteq Payload)
    BY <1>1, <2>2, AdminAssumption DEF WellFormed, Is, Op, RouteRow, Replaces
  <2>4. StoreTypeOK' /\ PlainKeysAreTheFiles'
    BY <2>1, <2>3 DEF HInv, StoreTypeOK, PlainKeysAreTheFiles, Present
  <2>5. old \subseteq TargetIds
    <3>1. PICK D \in SUBSET TargetIds : admin[a].found \in [D -> Payload]
      BY <2>2 DEF Handler, Found
    <3> QED BY <3>1
  <2>6. /\ step \in {"audit", "targets", "clear"} /\ todo \subseteq Payload \cup TargetIds
        /\ step = "targets" => todo \subseteq Payload
        /\ step = "clear" => Op(a).with.targets # None
    BY <2>3, <2>5 DEF Replaces
  <2>7. HandlerOK(h) /\ h.step = step
    <3> HIDE DEF step, todo
    <3> QED BY <1>1, <2>2, <2>6 DEF HandlerOK, Handler, Steps, Is, Op
  <2>8. h.step \notin {"log", "ok"}
    BY <2>6, <2>7
  <2> HIDE DEF h, row
  <2>9. MadeOK'
    <3>1. \A r \in Models : routes[r] = None => routes'[r] = None
      BY <2>1 DEF HInv, StoreTypeOK
    <3> QED BY <1>1, <2>1, <3>1, NothingMade
  <2> QED BY <2>1, <2>4, <2>7, <2>8, <2>9, Writes
<1> QED BY <1>2, <1>3

LEMMA ClearTargetsKeeps ==
  ASSUME HInv, NEW a \in Admins, ClearTargets(a)
  PROVE  HInv'
<1>1. /\ admin[a].step = "clear" /\ admin[a] \in Handler /\ admin[a].call # 0
      /\ UNCHANGED <<providers, routes, made, faults, audited, logged>>
  BY DEF ClearTargets, At, Wrote, HInv, HandlersOK, HandlerOK
<1>2. PICK i \in admin[a].todo :
        /\ targets' = Without(targets, {i})
        /\ IF Kind(a, "update_route") THEN Rest(a, i, "targets", Op(a).with.targets)
           ELSE Rest(a, i, "delete", {})
  BY DEF ClearTargets
<1>3. PICK next, left :
        /\ Rest(a, i, next, left) /\ left \subseteq Payload
        /\ next \in {"targets", "delete"}
  <2>1. CASE Kind(a, "update_route")
    <3>1. Op(a).with.targets \subseteq Payload
      BY <1>1, <2>1, AdminAssumption DEF HInv, HandlersOK, HandlerOK, Handler, Is, Kind, Op, WellFormed
    <3> QED BY <1>2, <2>1, <3>1
  <2>2. CASE ~Kind(a, "update_route")
    BY <1>2, <2>2
  <2> QED BY <2>1, <2>2
<1>4. PICK h : /\ admin' = [admin EXCEPT ![a] = h]
               /\ \/ h = [admin[a] EXCEPT !.todo = left, !.step = next]
                  \/ h = [admin[a] EXCEPT !.todo = admin[a].todo \ {i}]
  BY <1>3, RestMoves DEF HInv
<1>5. HandlerOK(h) /\ h.step \in {"targets", "delete", "clear"}
  <2>1. HandlerOK(admin[a])
    BY DEF HInv, HandlersOK
  <2> QED BY <1>1, <1>3, <1>4, <2>1 DEF HandlerOK, Handler, Steps, Is
<1>6. StoreTypeOK' /\ PlainKeysAreTheFiles'
  BY <1>1, <1>2 DEF HInv, StoreTypeOK, PlainKeysAreTheFiles, Present, Without
<1>7. MadeOK'
  BY <1>1, <1>4, NothingMade
<1> QED BY <1>1, <1>4, <1>5, <1>6, <1>7, Writes

LEMMA InsertTargetsKeeps ==
  ASSUME HInv, NEW a \in Admins, InsertTargets(a)
  PROVE  HInv'
<1>1. /\ admin[a].step = "targets" /\ admin[a] \in Handler /\ admin[a].call # 0
      /\ admin[a].todo \subseteq Payload /\ HandlerOK(admin[a])
  BY DEF InsertTargets, At, HInv, HandlersOK, HandlerOK
<1> DEFINE next == IF Kind(a, "create_route") THEN "ok" ELSE "reread"
<1>2. PICK t \in admin[a].todo :
        \/ /\ targets' = [targets EXCEPT ![RouteIdOf(Op(a).id, t)] = t]
           /\ Rest(a, t, next, {})
           /\ UNCHANGED <<providers, routes, made, faults, audited, logged>>
        \/ Kind(a, "create_route") /\ Reads(a, "undo")
        \/ ~Kind(a, "create_route") /\ Refuses(a)
  BY DEF InsertTargets, Wrote
<1>3. \A r \in Models : MadeBy(admin[a], r) => Kind(a, "create_route")
  BY DEF MadeBy, Is, Kind, Op
<1>4. CASE Rest(a, t, next, {})
           /\ targets' = [targets EXCEPT ![RouteIdOf(Op(a).id, t)] = t]
           /\ UNCHANGED <<providers, routes, made, faults, audited, logged>>
  <2>1. PICK h : /\ admin' = [admin EXCEPT ![a] = h]
                 /\ \/ h = [admin[a] EXCEPT !.todo = {}, !.step = next]
                    \/ h = [admin[a] EXCEPT !.todo = admin[a].todo \ {t}]
    BY <1>4, RestMoves DEF HInv
  <2>2. HandlerOK(h) /\ h.step \in {"targets", next} /\ h.call = admin[a].call
    BY <1>1, <2>1 DEF HandlerOK, Handler, Steps, Is
  <2>3. StoreTypeOK' /\ PlainKeysAreTheFiles'
    BY <1>1, <1>4 DEF HInv, StoreTypeOK, PlainKeysAreTheFiles, Present
  <2>4. \A r \in Models : MadeBy(admin[a], r) => MadeBy(h, r) /\ h.step # "refused"
    BY <1>3, <2>2 DEF MadeBy, Is
  <2>5. MadeOK'
    BY <1>4, <2>1, <2>4, MadeMoves DEF HInv
  <2>6. h.step # "log" /\ (h.step = "ok" => h.call # 0 /\ Ops[h.call].kind \notin Audited)
    BY <1>1, <2>2 DEF Kind, Op, Audited
  <2> QED BY <1>4, <2>1, <2>2, <2>3, <2>5, <2>6, Writes
<1>5. CASE Kind(a, "create_route") /\ Reads(a, "undo")
  <2> DEFINE h == [admin[a] EXCEPT !.step = "undo"]
  <2>1. admin' = [admin EXCEPT ![a] = h] /\ UNCHANGED <<tables, faults, audited, logged, made>>
    BY <1>5 DEF Reads, Then
  <2>2. HandlerOK(h) /\ h.step = "undo" /\ h.call = admin[a].call
    BY <1>1 DEF HandlerOK, Handler, Steps, Is
  <2>3. \A r \in Models : MadeBy(admin[a], r) => MadeBy(h, r) /\ h.step # "refused"
    BY <2>2 DEF MadeBy, Is
  <2>4. faults' = faults /\ faults \in 0 .. MaxFaults
    BY <2>1 DEF HInv, StoreTypeOK
  <2> HIDE DEF h
  <2> QED BY <2>1, <2>2, <2>3, <2>4, Looks
<1>6. CASE ~Kind(a, "create_route") /\ Refuses(a)
  <2> DEFINE h == [Idle EXCEPT !.call = admin[a].call, !.step = "refused"]
  <2>1. HandlerOK(h) /\ h.step = "refused"
    BY <1>1, IdleOK DEF HInv, Idle
  <2>2. admin' = [admin EXCEPT ![a] = h] /\ UNCHANGED <<tables, faults, audited, logged, made>>
    BY <1>6 DEF Refuses, End
  <2>3. faults' = faults /\ faults \in 0 .. MaxFaults
    BY <2>2 DEF HInv, StoreTypeOK
  <2> HIDE DEF h
  <2> QED BY <1>3, <1>6, <2>1, <2>2, <2>3, Looks
<1> QED BY <1>2, <1>4, <1>5, <1>6

\* The route that is taken back is the one the handler made.
LEMMA UndoRouteKeeps ==
  ASSUME HInv, NEW a \in Admins, UndoRoute(a)
  PROVE  HInv'
<1> DEFINE h == [Idle EXCEPT !.call = admin[a].call, !.step = "refused"]
<1>1. /\ admin[a].step = "undo" /\ DeleteRouteRow(Op(a).id)
      /\ admin' = [admin EXCEPT ![a] = h]
      /\ UNCHANGED <<providers, made, faults, audited, logged>>
  BY DEF UndoRoute, At, End, Wrote
<1>2. HandlerOK(h) /\ h.step = "refused" /\ h.call = admin[a].call
  BY <1>1, IdleOK DEF HInv, Idle
<1>3. StoreTypeOK' /\ PlainKeysAreTheFiles'
  BY <1>1 DEF HInv, StoreTypeOK, PlainKeysAreTheFiles, Present, DeleteRouteRow, Without
<1>4. \A r \in Models : routes[r] = None => routes'[r] = None
  BY <1>1 DEF HInv, StoreTypeOK, DeleteRouteRow, Without
<1>5. \A r \in Models : MadeBy(admin[a], r) =>
        MadeBy(h, r) /\ (h.step = "refused" => routes'[r] = None)
  BY <1>1, <1>2 DEF MadeBy, Is, Op, HInv, StoreTypeOK, DeleteRouteRow, Without
<1> HIDE DEF h
<1>6. MadeOK'
  <2>1. MadeOK /\ HandlersOK /\ made' = made /\ admin' = [admin EXCEPT ![a] = h]
    BY <1>1 DEF HInv
  <2> QED BY <1>4, <1>5, <2>1, MadeMoves
<1> QED BY <1>1, <1>2, <1>3, <1>6, Writes

LEMMA DeleteRouteKeeps ==
  ASSUME HInv, NEW a \in Admins, DeleteRoute(a)
  PROVE  HInv'
<1>1. admin[a].step = "delete" /\ Is(admin[a], "delete_route")
  BY DEF DeleteRoute, At, Kind, Is, Op
<1>2. CASE Refuses(a)
  BY <1>1, <1>2, Refused DEF Ended
<1>3. CASE ~Refuses(a)
  <2>1. /\ DeleteRouteRow(Op(a).id) /\ End(a, "ok")
        /\ UNCHANGED <<providers, made, faults, audited, logged>>
    BY <1>3 DEF DeleteRoute, Wrote
  <2>2. PICK h : /\ HandlerOK(h) /\ h.step = "ok" /\ h.call = admin[a].call
                 /\ admin' = [admin EXCEPT ![a] = h]
                 /\ h.call # 0 /\ Ops[h.call].kind \notin Audited
    BY <1>1, <2>1, EndsOK DEF Is, Op, Audited
  <2>3. StoreTypeOK' /\ PlainKeysAreTheFiles' /\ \A r \in Models : routes[r] = None => routes'[r] = None
    BY <2>1 DEF HInv, StoreTypeOK, PlainKeysAreTheFiles, Present, DeleteRouteRow, Without
  <2>4. MadeOK'
    BY <1>1, <2>1, <2>2, <2>3, NothingMade
  <2> QED BY <2>1, <2>2, <2>3, <2>4, Writes
<1> QED BY <1>2, <1>3

\* A handler that writes targets and ends.
LEMMA TargetsWritten ==
  ASSUME HInv, NEW a \in Admins, End(a, "ok"), admin[a].step \in {"insert", "write", "delete"},
         Op(a).kind \notin Audited,
         UNCHANGED <<providers, routes, made, faults, audited, logged>>,
         targets' \in [TargetIds -> Payload \cup {None}]
  PROVE  HInv'
<1>1. PICK h : /\ HandlerOK(h) /\ h.step = "ok" /\ h.call = admin[a].call
               /\ admin' = [admin EXCEPT ![a] = h]
               /\ h.call # 0 /\ Ops[h.call].kind \notin Audited
  BY EndsOK
<1>2. StoreTypeOK' /\ PlainKeysAreTheFiles'
  BY DEF HInv, StoreTypeOK, PlainKeysAreTheFiles, Present
<1>3. MadeOK'
  BY <1>1, NothingMade
<1> QED BY <1>1, <1>2, <1>3, Writes

LEMMA InsertTargetKeeps ==
  ASSUME HInv, NEW a \in Admins, InsertTarget(a)
  PROVE  HInv'
<1>1. admin[a].step = "insert" /\ Is(admin[a], "create_target")
  BY DEF InsertTarget, At, Kind, Is, Op
<1>2. CASE Refuses(a)
  BY <1>1, <1>2, Refused DEF Ended
<1>3. CASE ~Refuses(a)
  <2>1. /\ targets' = [targets EXCEPT ![RouteIdOf(Op(a).id, Op(a).with)] = Op(a).with]
        /\ End(a, "ok") /\ UNCHANGED <<providers, routes, made, faults, audited, logged>>
    BY <1>3 DEF InsertTarget, Wrote
  <2>2. Op(a).with \in Payload
    BY <1>1, AdminAssumption DEF HInv, HandlersOK, Handler, WellFormed, Is, Op
  <2>3. targets' \in [TargetIds -> Payload \cup {None}]
    BY <2>1, <2>2 DEF HInv, StoreTypeOK
  <2>4. Op(a).kind \notin Audited
    BY <1>1 DEF Is, Op, Audited
  <2> QED BY <1>1, <2>1, <2>3, <2>4, TargetsWritten
<1> QED BY <1>2, <1>3

LEMMA WriteTargetKeeps ==
  ASSUME HInv, NEW a \in Admins, WriteTarget(a)
  PROVE  HInv'
<1>1. admin[a].step = "write" /\ Is(admin[a], "update_target")
  BY DEF WriteTarget, At, Kind, Is, Op
<1>2. CASE Refuses(a)
  BY <1>1, <1>2, Refused DEF Ended
<1>3. CASE ~Refuses(a)
  <2>1. /\ targets' = [targets EXCEPT ![Op(a).id] = Op(a).with]
        /\ End(a, "ok") /\ UNCHANGED <<providers, routes, made, faults, audited, logged>>
    BY <1>3 DEF WriteTarget, Wrote
  <2>2. Op(a).with \in Payload
    BY <1>1, AdminAssumption DEF HInv, HandlersOK, Handler, WellFormed, Is, Op
  <2>3. targets' \in [TargetIds -> Payload \cup {None}]
    BY <2>1, <2>2 DEF HInv, StoreTypeOK
  <2>4. Op(a).kind \notin Audited
    BY <1>1 DEF Is, Op, Audited
  <2> QED BY <1>1, <2>1, <2>3, <2>4, TargetsWritten
<1> QED BY <1>2, <1>3

LEMMA DeleteTargetKeeps ==
  ASSUME HInv, NEW a \in Admins, DeleteTarget(a)
  PROVE  HInv'
<1>1. admin[a].step = "delete" /\ Is(admin[a], "delete_target")
  BY DEF DeleteTarget, At, Kind, Is, Op
<1>2. CASE Refuses(a)
  BY <1>1, <1>2, Refused DEF Ended
<1>3. CASE ~Refuses(a)
  <2>1. /\ targets' = Without(targets, {Op(a).id})
        /\ End(a, "ok") /\ UNCHANGED <<providers, routes, made, faults, audited, logged>>
    BY <1>3 DEF DeleteTarget, Wrote
  <2>2. targets' \in [TargetIds -> Payload \cup {None}]
    BY <2>1 DEF HInv, StoreTypeOK, Without
  <2>3. Op(a).kind \notin Audited
    BY <1>1 DEF Is, Op, Audited
  <2> QED BY <1>1, <2>1, <2>2, <2>3, TargetsWritten
<1> QED BY <1>2, <1>3

\* All rows come from a configuration.
LEMMA ReplacedAll ==
  ASSUME StoreTypeOK, NEW config, IsConfig(config), NEW key, ReplaceAll(config, key),
         faults' = faults,
         \A c \in ProviderConfig : key[c] \in {"none", "sealed", "plain"},
         \A p \in DOMAIN config.providers : key[config.providers[p]] = "plain" => FilePlain(p)
  PROVE  StoreTypeOK' /\ PlainKeysAreTheFiles'
<1>1. providers' \in [Providers -> ProviderRow \cup {None}] /\ PlainKeysAreTheFiles'
  BY ConfigAssumption DEF ReplaceAll, IsConfig, ProviderConfig, ProviderRow, PlainKeysAreTheFiles, Present, FilePlain
<1>2. routes' \in [Models -> RouteRow \cup {None}]
  BY DEF ReplaceAll, IsConfig, RouteConfig, RouteRow
<1>3. targets' \in [TargetIds -> Payload \cup {None}]
  <2>1. ASSUME NEW i \in TargetIds
        PROVE  targets'[i] \in Payload \cup {None}
    <3>1. CASE i.route \in DOMAIN config.routes
               /\ \E t \in config.routes[i.route].targets : i = RouteIdOf(i.route, t)
      <4>1. targets'[i] \in config.routes[i.route].targets
        BY <3>1 DEF ReplaceAll
      <4> QED BY <3>1, <4>1 DEF IsConfig, RouteConfig
    <3>2. CASE ~(i.route \in DOMAIN config.routes
                 /\ \E t \in config.routes[i.route].targets : i = RouteIdOf(i.route, t))
      BY <3>2 DEF ReplaceAll
    <3> QED BY <3>1, <3>2
  <2>2. targets' = [i \in TargetIds |-> targets'[i]]
    BY DEF ReplaceAll
  <2> QED BY <2>1, <2>2
<1> QED BY <1>1, <1>2, <1>3 DEF StoreTypeOK

\* Nothing is anyone's to take back.
LEMMA NobodysRoute ==
  ASSUME made' = [r \in Models |-> None]
  PROVE  MadeOK'
  BY AdminAssumption DEF MadeOK

LEMMA ImportKeeps ==
  ASSUME HInv, NEW a \in Admins, Import(a)
  PROVE  HInv'
<1> DEFINE h == [admin[a] EXCEPT !.step = "audit"]
           key == [c \in ProviderConfig |-> ImportedKey(c)]
<1>0. CASE Refuses(a)
  BY <1>0, Refused DEF Import, At, Ended
<1> SUFFICES ASSUME ~Refuses(a)
             PROVE  HInv'
  BY <1>0
<1>1. /\ admin[a].step = "apply" /\ Is(admin[a], "import")
      /\ ReplaceAll(Op(a).with, key) /\ made' = [r \in Models |-> None]
      /\ admin' = [admin EXCEPT ![a] = h] /\ UNCHANGED <<faults, audited, logged>>
  BY DEF Import, At, Kind, Is, Op, Then, Wrote
<1>2. IsConfig(Op(a).with)
  BY <1>1, AdminAssumption DEF HInv, HandlersOK, Handler, WellFormed, Is, Op
<1>3. \A c \in ProviderConfig : key[c] = "none"
  BY DEF ImportedKey
<1>4. \A p \in DOMAIN Op(a).with.providers : Op(a).with.providers[p] \in ProviderConfig
  BY <1>2 DEF IsConfig
<1> HIDE DEF key
<1>5. StoreTypeOK' /\ PlainKeysAreTheFiles'
  BY <1>1, <1>2, <1>3, <1>4, ReplacedAll DEF HInv
<1>6. HandlerOK(h) /\ h.step = "audit"
  BY <1>1 DEF HInv, HandlersOK, HandlerOK, Handler, Steps, Is
<1>7. MadeOK'
  BY <1>1, NobodysRoute
<1> HIDE DEF h
<1> QED BY <1>1, <1>5, <1>6, <1>7, Writes

-----------------------------------------------------------------------------
(* Audit, failures, and clients that leave.                                 *)

LEMMA AuditKeeps ==
  ASSUME HInv, NEW a \in Admins, Audit(a)
  PROVE  HInv'
<1>1. admin[a].step = "audit" /\ UNCHANGED <<tables, logged, made>> /\ faults \in Nat
  BY ConfigAssumption DEF Audit, At, HInv, StoreTypeOK
<1>2. PICK h : /\ HandlerOK(h) /\ admin' = [admin EXCEPT ![a] = h]
               /\ \/ h.step = "ok" /\ audited' = audited \cup {a} /\ faults' = faults
                  \/ h.step = "log" /\ audited' = audited /\ Fault
  <2>1. CASE audited' = audited \cup {a} /\ End(a, "ok") /\ UNCHANGED faults
    <3> DEFINE h == [Idle EXCEPT !.call = admin[a].call, !.step = "ok"]
    <3>1. HandlerOK(h) /\ h.step = "ok"
      BY <1>1, IdleOK DEF HInv, Idle
    <3> QED BY <2>1, <3>1 DEF End
  <2>2. CASE Fault /\ Then(a, "log") /\ UNCHANGED audited
    <3> DEFINE h == [admin[a] EXCEPT !.step = "log"]
    <3>1. HandlerOK(h) /\ h.step = "log"
      BY <1>1 DEF HInv, HandlersOK, HandlerOK, Handler, Steps, Is
    <3> QED BY <2>2, <3>1 DEF Then
  <2> QED BY <2>1, <2>2 DEF Audit
<1>3. HandlersOK' /\ \A b \in Admins : admin'[b] = IF b = a THEN h ELSE admin[b]
  BY <1>2, Moves DEF HInv
<1>4. MadeOK'
  BY <1>1, <1>2, NothingMade DEF tables
<1>5. StoreTypeOK' /\ PlainKeysAreTheFiles'
  BY <1>1, <1>2, ConfigAssumption DEF HInv, StoreTypeOK, PlainKeysAreTheFiles, Present, tables, Fault
<1>6. AuditOK'
  <2>1. audited' \subseteq Admins /\ logged' \subseteq Admins
    BY <1>1, <1>2 DEF HInv, AuditOK
  <2>2. \A b \in Admins : admin'[b].step = "log" => faults' > 0
    BY <1>1, <1>2, <1>3 DEF HInv, AuditOK, Fault
  <2>3. MaxFaults < 2 => AuditedOrLogged'
    BY <1>1, <1>2, <1>3 DEF HInv, AuditOK, AuditedOrLogged, Op
  <2> QED BY <2>1, <2>2, <2>3 DEF AuditOK
<1> QED BY <1>3, <1>4, <1>5, <1>6 DEF HInv

\* The log entry fails only with a second fault.
LEMMA LogMissingAuditKeeps ==
  ASSUME HInv, NEW a \in Admins, LogMissingAudit(a)
  PROVE  HInv'
<1> DEFINE h == [Idle EXCEPT !.call = admin[a].call, !.step = "ok"]
<1>1. /\ admin[a].step = "log" /\ admin' = [admin EXCEPT ![a] = h]
      /\ UNCHANGED <<tables, audited, made>> /\ faults \in Nat /\ faults > 0
      /\ \/ logged' = logged \cup {a} /\ faults' = faults
         \/ Fault /\ logged' = logged
  BY ConfigAssumption DEF LogMissingAudit, At, End, HInv, StoreTypeOK, AuditOK
<1>2. HandlerOK(h) /\ h.step = "ok"
  BY <1>1, IdleOK DEF HInv, Idle
<1> HIDE DEF h
<1>3. HandlersOK' /\ \A b \in Admins : admin'[b] = IF b = a THEN h ELSE admin[b]
  BY <1>1, <1>2, Moves DEF HInv
<1>4. MadeOK'
  BY <1>1, NothingMade DEF tables
<1>5. StoreTypeOK' /\ PlainKeysAreTheFiles'
  BY <1>1, ConfigAssumption DEF HInv, StoreTypeOK, PlainKeysAreTheFiles, Present, tables, Fault
<1>6. AuditOK'
  <2>1. audited' \subseteq Admins /\ logged' \subseteq Admins
    BY <1>1 DEF HInv, AuditOK
  <2>2. \A b \in Admins : admin'[b].step = "log" => faults' > 0
    BY <1>1, <1>2, <1>3 DEF HInv, AuditOK, Fault
  <2>3. MaxFaults < 2 => logged' = logged \cup {a}
    BY <1>1, ConfigAssumption DEF Fault
  <2>4. MaxFaults < 2 => AuditedOrLogged'
    BY <1>1, <1>3, <2>3 DEF HInv, AuditOK, AuditedOrLogged, Op
  <2> QED BY <2>1, <2>2, <2>4 DEF AuditOK
<1> QED BY <1>3, <1>4, <1>5, <1>6 DEF HInv

LEMMA StatementFailsKeeps ==
  ASSUME HInv, NEW a \in Admins, StatementFails(a)
  PROVE  HInv'
<1>1. /\ admin[a].step \notin Ended \cup {"exists", "audit", "log"} /\ HandlerOK(admin[a])
      /\ UNCHANGED <<tables, audited, logged>>
      /\ made' = IF admin[a].step = "undo" THEN [made EXCEPT ![Op(a).id] = None] ELSE made
      /\ faults' = faults + 1 /\ faults \in Nat /\ faults' \in 0 .. MaxFaults
  BY ConfigAssumption DEF StatementFails, At, HInv, StoreTypeOK, HandlersOK, Fault
<1>2. PICK h : /\ HandlerOK(h) /\ admin' = [admin EXCEPT ![a] = h] /\ h.call = admin[a].call
               /\ \/ h.step = "undo" /\ admin[a].step = "targets"
                  \/ /\ h.step = "refused"
                     /\ ~(admin[a].step = "targets" /\ Kind(a, "create_route"))
  <2>1. CASE At(a, "targets") /\ Kind(a, "create_route")
    <3> DEFINE h == [admin[a] EXCEPT !.step = "undo"]
    <3>1. HandlerOK(h) /\ h.step = "undo" /\ h.call = admin[a].call
      BY <1>1, <2>1 DEF HandlerOK, Handler, Steps, Is, At
    <3> QED BY <2>1, <3>1 DEF StatementFails, Then, At
  <2>2. CASE ~(At(a, "targets") /\ Kind(a, "create_route"))
    <3> DEFINE h == [Idle EXCEPT !.call = admin[a].call, !.step = "refused"]
    <3>1. HandlerOK(h) /\ h.step = "refused" /\ h.call = admin[a].call
      BY <1>1, IdleOK DEF HInv, Idle, Ended
    <3> QED BY <2>2, <3>1 DEF StatementFails, End, At
  <2> QED BY <2>1, <2>2
<1>3. HandlersOK' /\ \A b \in Admins : admin'[b] = IF b = a THEN h ELSE admin[b]
  BY <1>2, Moves DEF HInv
<1>4. AuditOK'
  BY <1>1, <1>2, AuditMoves DEF HInv
<1>5. StoreTypeOK' /\ PlainKeysAreTheFiles'
  BY <1>1 DEF HInv, StoreTypeOK, PlainKeysAreTheFiles, Present, tables
<1>6. MadeOK'
  <2>1. made' \in [Models -> Admins \cup {None}]
    BY <1>1 DEF HInv, MadeOK
  <2>2. ASSUME NEW r \in Models, NEW b \in Admins, made'[r] = b
        PROVE  MadeBy(admin'[b], r) /\ (admin'[b].step = "refused" => routes'[r] = None)
    <3>1. made[r] = b /\ (admin[a].step = "undo" => r # Op(a).id)
      BY <1>1, <2>2, AdminAssumption DEF HInv, MadeOK
    <3>2. MadeBy(admin[b], r) /\ (admin[b].step = "refused" => routes[r] = None)
      BY <3>1 DEF HInv, MadeOK
    <3>3. CASE b = a
      <4>1. admin[a].step = "targets" /\ Kind(a, "create_route")
        BY <1>1, <3>1, <3>2, <3>3 DEF MadeBy, Ended, Is, Op, Kind
      <4>2. h.step = "undo"
        BY <1>2, <4>1
      <4> QED BY <1>2, <1>3, <3>2, <3>3, <4>2 DEF MadeBy, Is
    <3>4. CASE b # a
      BY <1>1, <1>3, <3>2, <3>4 DEF tables
    <3> QED BY <3>3, <3>4
  <2> QED BY <2>1, <2>2 DEF MadeOK
<1> QED BY <1>3, <1>4, <1>5, <1>6 DEF HInv

LEMMA DroppedKeeps ==
  ASSUME HInv, NEW a \in Admins, Dropped(a)
  PROVE  HInv'
<1> DEFINE h == [Idle EXCEPT !.call = admin[a].call, !.step = "gone"]
<1>1. /\ admin[a].step \notin Ended /\ admin' = [admin EXCEPT ![a] = h]
      /\ UNCHANGED <<tables, audited, logged, made>>
      /\ faults' = faults + 1 /\ faults' \in 0 .. MaxFaults
  BY ConfigAssumption DEF Dropped, End, Fault, HInv, StoreTypeOK
<1>2. HandlerOK(h) /\ h.step = "gone" /\ h.call = admin[a].call
  BY <1>1, IdleOK DEF HInv, Idle, Ended
<1>3. \A r \in Models : MadeBy(admin[a], r) => MadeBy(h, r) /\ h.step # "refused"
  BY <1>2 DEF MadeBy, Is
<1> HIDE DEF h
<1> QED BY <1>1, <1>2, <1>3, Looks

\* What handlers do keeps the invariant of handlers and tables.
LEMMA HandleKeeps ==
  ASSUME HInv, NEW a \in Admins, Handle(a)
  PROVE  HInv'
<1>1. CASE \/ Start(a) \/ ProviderIsNew(a) \/ ProviderUnread(a)
           \/ ReadProvider(a) \/ ReadRoute(a) \/ ReadTargets(a) \/ ValidateRoute(a)
           \/ ReadForTarget(a) \/ NothingToTarget(a) \/ ReadTarget(a) \/ ValidateTarget(a)
           \/ RereadTargets(a)
  BY <1>1, StartKeeps, ProviderIsNewKeeps, ReadProviderKeeps, ReadRouteKeeps, ReadTargetsKeeps,
     ValidateRouteKeeps, ReadForTargetKeeps, ValidateTargetKeeps
<1>2. CASE \/ InsertProvider(a) \/ WriteProvider(a) \/ DeleteProvider(a)
           \/ InsertRoute(a) \/ WriteRoute(a) \/ ClearTargets(a) \/ InsertTargets(a)
           \/ UndoRoute(a) \/ DeleteRoute(a)
           \/ InsertTarget(a) \/ WriteTarget(a) \/ DeleteTarget(a) \/ Import(a)
  BY <1>2, InsertProviderKeeps, WriteProviderKeeps, DeleteProviderKeeps, InsertRouteKeeps,
     WriteRouteKeeps, ClearTargetsKeeps, InsertTargetsKeeps, UndoRouteKeeps, DeleteRouteKeeps,
     InsertTargetKeeps, WriteTargetKeeps, DeleteTargetKeeps, ImportKeeps
<1>3. CASE Audit(a) \/ LogMissingAudit(a) \/ StatementFails(a) \/ Dropped(a)
  BY <1>3, AuditKeeps, LogMissingAuditKeeps, StatementFailsKeeps, DroppedKeeps
<1> QED BY <1>1, <1>2, <1>3 DEF Handle

-----------------------------------------------------------------------------
(* Requests.                                                                *)

\* A seed stores a plain key only where the file says so.
LEMMA SeedKeeps ==
  ASSUME HInv, NEW q \in Requests, Seed(q), CanReplaceAll(File), UNCHANGED <<admin, audited, logged>>
  PROVE  HInv'
<1> DEFINE key == [c \in ProviderConfig |-> SeededKey(c)]
<1>1. ReplaceAll(File, key) /\ made' = [r \in Models |-> None] /\ faults' = faults
  BY DEF Seed
<1>2. \A c \in ProviderConfig : key[c] \in {"none", "sealed", "plain"}
  BY DEF SeededKey
<1>3. \A p \in DOMAIN File.providers : key[File.providers[p]] = "plain" => FilePlain(p)
  BY ConfigAssumption DEF SeededKey, FilePlain, IsConfig
<1> HIDE DEF key
<1>4. StoreTypeOK' /\ PlainKeysAreTheFiles'
  BY <1>1, <1>2, <1>3, ConfigAssumption, ReplacedAll DEF HInv
<1>5. MadeOK'
  BY <1>1, NobodysRoute
<1>6. HandlersOK' /\ AuditOK'
  BY <1>1 DEF HInv, HandlersOK, AuditOK, AuditedOrLogged, Op
<1> QED BY <1>4, <1>5, <1>6 DEF HInv

LEMMA ServeKeeps ==
  ASSUME HInv, NEW q \in Requests, Serve(q)
  PROVE  HInv'
<1>1. UNCHANGED <<admin, audited, logged>>
  BY DEF Serve
<1>2. CASE Seed(q) /\ CanReplaceAll(File)
  BY <1>1, <1>2, SeedKeeps
<1>3. CASE ~(Seed(q) /\ CanReplaceAll(File))
  <2>1. UNCHANGED <<tables, made>> /\ (faults' = faults \/ Fault)
    BY <1>3 DEF Serve, Seed, Arrive, Check, Acquire, Recheck, ReadRouteRow, ReadTargetRows,
                ReadProviderRows, RequestFails, NoWrite
  <2>2. StoreTypeOK' /\ PlainKeysAreTheFiles' /\ faults \in Nat
    BY <2>1, ConfigAssumption DEF HInv, StoreTypeOK, PlainKeysAreTheFiles, Present, tables, Fault
  <2>3. HandlersOK' /\ MadeOK'
    BY <1>1, <2>1 DEF HInv, HandlersOK, MadeOK, tables
  <2>4. AuditOK'
    BY <1>1, <2>1, <2>2 DEF HInv, AuditOK, AuditedOrLogged, Op, Fault
  <2> QED BY <2>2, <2>3, <2>4 DEF HInv
<1> QED BY <1>2, <1>3

LEMMA InitHInv == Init => HInv
<1> SUFFICES ASSUME Init
             PROVE  HInv
  OBVIOUS
<1>1. StoreTypeOK /\ PlainKeysAreTheFiles
  BY ConfigAssumption DEF Init, StoreInit, StoreTypeOK, PlainKeysAreTheFiles, Present
<1>2. \A a \in Admins : admin[a] = Idle
  BY DEF Init
<1>3. HandlersOK
  <2>1. HandlerOK(Idle)
    BY NothingFound, AdminAssumption DEF HandlerOK, Handler, Idle, Steps, Is
  <2> QED BY <2>1 DEF Init, HandlersOK, HandlerOK
<1>4. MadeOK
  BY AdminAssumption DEF Init, MadeOK
<1>5. AuditOK
  BY <1>2 DEF Init, AuditOK, AuditedOrLogged, Idle
<1> QED BY <1>1, <1>3, <1>4, <1>5 DEF HInv

LEMMA HInvStutters == HInv /\ UNCHANGED vars => HInv'
  BY DEF HInv, vars, tables, handlers, clients, StoreTypeOK, HandlersOK, PlainKeysAreTheFiles, Present,
         MadeOK, AuditOK, AuditedOrLogged, Op

\* Tables, handlers, stored keys, half made routes and audit traces fit together,
\* whatever handlers and requests do between two statements of each other.
THEOREM Invariant == Spec => []HInv
<1>1. HInv /\ [Next]_vars => HInv'
  <2> SUFFICES ASSUME HInv, [Next]_vars
               PROVE  HInv'
    OBVIOUS
  <2>1. CASE \E a \in Admins : Handle(a)
    BY <2>1, HandleKeeps
  <2>2. CASE \E q \in Requests : Serve(q)
    BY <2>2, ServeKeeps
  <2>3. CASE UNCHANGED vars
    BY <2>3, HInvStutters
  <2> QED BY <2>1, <2>2, <2>3 DEF Next
<1> QED BY <1>1, InitHInv, PTL DEF Spec
\* Types: what the invariant says of tables and handlers, and what requests hold.
RequestSteps == {"new", "check", "lock", "recheck", "seed", "route", "targets",
                 "providers", "served", "not_found", "unavailable", "error", "gone"}
Request == [model : Asked, step : RequestSteps, id : Models \cup {None},
            read : SUBSET Providers]
RequestsOK ==
  /\ request \in [Requests -> Request]
  /\ \A q \in Requests : request[q].step = "targets" => request[q].id \in Models
  /\ lock \in Requests \cup {None}

\* Whoever may fill the tables holds the lock, and has looked since it was taken.
Locked == \A q \in Requests :
  /\ request[q].step \in {"recheck", "seed"} => lock = q
  /\ request[q].step = "seed" => filled = "no"

\* Tables that were filled have routes until an administrator deletes the last one.
Filled == filled \in {"no", "yes"} /\ (filled = "yes" => AnyRoute)

Once == RequestsOK /\ Locked /\ Filled

\* One request moves to a request of the same shape.
LEMMA RequestMoves ==
  ASSUME RequestsOK, NEW q \in Requests, NEW w \in Request,
         request' = [request EXCEPT ![q] = w]
  PROVE  /\ request' \in [Requests -> Request] /\ request'[q] = w
         /\ \A p \in Requests \ {q} : request'[p] = request[p]
  BY DEF RequestsOK

\* What a step does to the request that takes it, whatever step it is.
LEMMA RequestStep ==
  ASSUME RequestsOK, StoreTypeOK, NEW q \in Requests, Serve(q)
  PROVE  \E w \in Request :
           /\ request' = [request EXCEPT ![q] = w]
           /\ w.step = "targets" => w.id \in Models
           /\ w.step # "new"
           /\ request[q].step # "new" => w.model = request[q].model
<1>1. request[q] \in Request
  BY DEF RequestsOK
<1>2. CASE Arrive(q)
  <2>1. PICK m \in Asked : request' = [request EXCEPT ![q].step = "check", ![q].model = m]
    BY <1>2 DEF Arrive
  <2> DEFINE w == [request[q] EXCEPT !.step = "check", !.model = m]
  <2>2. request' = [request EXCEPT ![q] = w]
    BY <2>1
  <2>3. w \in Request /\ w.step = "check"
    BY <1>1 DEF Request, RequestSteps
  <2> HIDE DEF w
  <2> QED BY <1>2, <2>2, <2>3 DEF Arrive
<1>3. ASSUME NEW step \in RequestSteps \ {"new", "targets"}, NEW here, On(q, here, step)
      PROVE  \E w \in Request : /\ request' = [request EXCEPT ![q] = w]
                                /\ w.step = step /\ w.model = request[q].model
  <2> DEFINE w == [request[q] EXCEPT !.step = step]
  <2>1. w \in Request /\ w.step = step /\ w.model = request[q].model
    BY <1>1 DEF Request
  <2>2. request' = [request EXCEPT ![q] = w]
    BY <1>3 DEF On
  <2> HIDE DEF w
  <2> QED BY <2>1, <2>2
<1>4. ASSUME NEW step \in RequestSteps \ {"new", "targets"}, NEW here, Leaves(q, here, step)
      PROVE  \E w \in Request : /\ request' = [request EXCEPT ![q] = w]
                                /\ w.step = step /\ w.model = request[q].model
  <2> DEFINE w == [request[q] EXCEPT !.step = step, !.id = None, !.read = {}]
  <2>1. w \in Request /\ w.step = step /\ w.model = request[q].model
    BY <1>1 DEF Request
  <2>2. request' = [request EXCEPT ![q] = w]
    BY <1>4 DEF Leaves
  <2> HIDE DEF w
  <2> QED BY <2>1, <2>2
<1>5. CASE Check(q) \/ Acquire(q) \/ Recheck(q) \/ Seed(q)
  <2>1. \E step \in {"route", "lock", "recheck", "seed", "error"} :
          \E here : On(q, here, step) \/ Leaves(q, here, step)
    BY <1>5 DEF Check, Acquire, Recheck, Seed
  <2> QED BY <1>3, <1>4, <2>1 DEF RequestSteps
<1>6. CASE ReadRouteRow(q)
  <2>1. CASE Leaves(q, "route", "not_found")
    BY <1>4, <2>1 DEF RequestSteps
  <2>2. CASE \E r \in OnOffer(routes, request[q].model) :
               request' = [request EXCEPT ![q].step = "targets", ![q].id = r]
    <3>1. PICK r \in Models : request' = [request EXCEPT ![q].step = "targets", ![q].id = r]
      BY <2>2 DEF OnOffer, Present, StoreTypeOK
    <3> DEFINE w == [request[q] EXCEPT !.step = "targets", !.id = r]
    <3>2. w \in Request /\ w.step = "targets" /\ w.id = r /\ w.model = request[q].model
      BY <1>1 DEF Request, RequestSteps
    <3>3. request' = [request EXCEPT ![q] = w]
      BY <3>1
    <3> HIDE DEF w
    <3> QED BY <3>2, <3>3
  <2> QED BY <1>6, <2>1, <2>2 DEF ReadRouteRow
<1>7. CASE ReadTargetRows(q)
  <2> DEFINE read == {targets[i].provider : i \in
                        {i \in TargetsOf(request[q].id) : targets[i].enabled}}
             w == [request[q] EXCEPT !.step = "providers", !.read = read]
  <2>1. read \subseteq Providers
    BY DEF TargetsOf, Present, StoreTypeOK, Payload
  <2>2. w \in Request /\ w.step = "providers" /\ w.model = request[q].model
    BY <1>1, <2>1 DEF Request, RequestSteps
  <2>3. request' = [request EXCEPT ![q] = w]
    BY <1>7 DEF ReadTargetRows
  <2> HIDE DEF w
  <2> QED BY <2>2, <2>3
<1>8. CASE ReadProviderRows(q) \/ RequestFails(q)
  <2>1. \E step \in {"unavailable", "served", "error", "gone"} : \E here : Leaves(q, here, step)
    BY <1>8 DEF ReadProviderRows, RequestFails
  <2> QED BY <1>4, <2>1 DEF RequestSteps
<1> QED BY <1>2, <1>5, <1>6, <1>7, <1>8 DEF Serve

\* The lock: a step takes it, keeps it, or gives its own back.
LEMMA ServeLocks ==
  ASSUME Once, StoreTypeOK, NEW q \in Requests, Serve(q)
  PROVE  /\ RequestsOK'
         /\ \A p \in Requests \ {q} : request'[p] = request[p]
         /\ \A p \in Requests \ {q} : request[p].step \in {"recheck", "seed"} => lock' = lock
         /\ request'[q].step \in {"recheck", "seed"} => lock' = q
         /\ request'[q].step = "seed" => ~Seeded /\ UNCHANGED <<tables, filled>>
<1>1. PICK w \in Request :
        /\ request' = [request EXCEPT ![q] = w]
        /\ w.step = "targets" => w.id \in Models
  BY RequestStep DEF Once
<1>2. request' \in [Requests -> Request] /\ request'[q] = w
      /\ \A p \in Requests \ {q} : request'[p] = request[p]
  BY <1>1, RequestMoves DEF Once
<1>3. \/ lock' = lock
      \/ lock = None /\ lock' = q
      \/ lock = q /\ lock' = None
  BY DEF Serve, Arrive, Check, Acquire, Recheck, Seed, ReadRouteRow, ReadTargetRows,
         ReadProviderRows, RequestFails, Unlock
<1>4. RequestsOK'
  BY <1>1, <1>2, <1>3 DEF Once, RequestsOK
<1>5. \A p \in Requests \ {q} : request[p].step \in {"recheck", "seed"} => lock' = lock
  BY <1>3, AdminAssumption DEF Once, Locked
<1>6. request[q] \in Request
  BY DEF Once, RequestsOK
<1>7. ASSUME NEW here, NEW step, On(q, here, step)
      PROVE  request'[q].step = step
  BY <1>6, <1>7 DEF On, Once, RequestsOK, Request
<1>8. ASSUME NEW here, NEW step, Leaves(q, here, step)
      PROVE  request'[q].step = step
  BY <1>6, <1>8 DEF Leaves, Once, RequestsOK, Request
<1>9. ASSUME request'[q].step = "recheck"
      PROVE  lock' = q
  <2>1. ~Arrive(q) /\ ~ReadRouteRow(q) /\ ~ReadTargetRows(q)
    <3>1. ~Arrive(q)
      BY <1>6, <1>9 DEF Arrive, Once, RequestsOK, Request
    <3>2. ~ReadRouteRow(q)
      BY <1>6, <1>8, <1>9 DEF ReadRouteRow, Once, RequestsOK, Request
    <3>3. ~ReadTargetRows(q)
      BY <1>6, <1>9 DEF ReadTargetRows, Once, RequestsOK, Request
    <3> QED BY <3>1, <3>2, <3>3
  <2>2. ~Check(q) /\ ~Recheck(q) /\ ~Seed(q) /\ ~ReadProviderRows(q) /\ ~RequestFails(q)
    BY <1>7, <1>8, <1>9 DEF Check, Recheck, Seed, ReadProviderRows, RequestFails
  <2> QED BY <2>1, <2>2 DEF Serve, Acquire
<1>10. ASSUME request'[q].step = "seed"
       PROVE  lock' = q /\ ~Seeded /\ UNCHANGED <<tables, filled>>
  <2>1. ~Arrive(q) /\ ~ReadRouteRow(q) /\ ~ReadTargetRows(q)
    <3>1. ~Arrive(q)
      BY <1>6, <1>10 DEF Arrive, Once, RequestsOK, Request
    <3>2. ~ReadRouteRow(q)
      BY <1>6, <1>8, <1>10 DEF ReadRouteRow, Once, RequestsOK, Request
    <3>3. ~ReadTargetRows(q)
      BY <1>6, <1>10 DEF ReadTargetRows, Once, RequestsOK, Request
    <3> QED BY <3>1, <3>2, <3>3
  <2>2. ~Check(q) /\ ~Acquire(q) /\ ~Seed(q) /\ ~ReadProviderRows(q) /\ ~RequestFails(q)
    BY <1>7, <1>8, <1>10 DEF Check, Acquire, Seed, ReadProviderRows, RequestFails
  <2>3. Recheck(q)
    BY <2>1, <2>2 DEF Serve
  <2>4. ~Seeded /\ On(q, "recheck", "seed") /\ UNCHANGED lock /\ NoWrite
    BY <1>7, <1>8, <1>10, <2>3 DEF Recheck
  <2>5. lock = q
    BY <2>4 DEF On, Once, Locked
  <2> QED BY <2>4, <2>5 DEF NoWrite
<1> QED BY <1>2, <1>4, <1>5, <1>9, <1>10

\* A seed puts the routes of the file in.
LEMMA SeedFills ==
  ASSUME NEW q \in Requests, Seed(q), CanReplaceAll(File)
  PROVE  /\ \A m : InFile(m) => OnOffer(routes', m) # {}
         /\ DOMAIN File.routes # {} => AnyRoute'
<1>1. ASSUME NEW r \in DOMAIN File.routes
      PROVE  /\ r \in Present(routes')
             /\ routes'[r].model = File.routes[r].model
             /\ routes'[r].enabled = File.routes[r].enabled
  <2> DEFINE row == [model |-> File.routes[r].model, enabled |-> File.routes[r].enabled]
  <2>1. r \in Models /\ File.routes[r] \in RouteConfig
    BY ConfigAssumption DEF IsConfig
  <2>2. row \in RouteRow
    BY <2>1 DEF RouteConfig, RouteRow
  <2>3. routes'[r] = row /\ DOMAIN routes' = Models
    BY <2>1 DEF Seed, ReplaceAll
  <2>4. row.model = File.routes[r].model /\ row.enabled = File.routes[r].enabled
    OBVIOUS
  <2> HIDE DEF row
  <2>5. row # None
    BY <2>2, ConfigAssumption
  <2> QED BY <2>1, <2>3, <2>4, <2>5 DEF Present
<1>2. ASSUME NEW m, InFile(m)
      PROVE  OnOffer(routes', m) # {}
  BY <1>1, <1>2 DEF InFile, OnOffer
<1>3. DOMAIN File.routes # {} => AnyRoute'
  BY <1>1 DEF AnyRoute
<1> QED BY <1>2, <1>3

\* A seed that the tables refuse changes nothing.
LEMMA SeedRefused ==
  ASSUME RequestsOK, NEW q \in Requests, Seed(q), ~CanReplaceAll(File)
  PROVE  UNCHANGED <<tables, made, filled, faults>> /\ request'[q].step = "error"
<1>1. UNCHANGED <<tables, made, filled, faults>> /\ Leaves(q, "seed", "error")
  BY DEF Seed
<1> QED BY <1>1 DEF Leaves, RequestsOK, Request

LEMMA OnceKept ==
  ASSUME DOMAIN File.routes # {}, Once, StoreTypeOK, [Next]_vars
  PROVE  Once'
<1>1. CASE \E a \in Admins : Handle(a)
  <2>1. UNCHANGED <<request, lock>>
        /\ filled' = IF Present(routes') = {} /\ filled = "yes" THEN "no" ELSE filled
    BY <1>1 DEF Handle, clients
  <2>2. RequestsOK' /\ Locked'
    BY <2>1 DEF Once, RequestsOK, Locked, Filled
  <2>3. Filled'
    BY <2>1 DEF Once, Filled, AnyRoute
  <2> QED BY <2>2, <2>3 DEF Once
<1>2. CASE \E q \in Requests : Serve(q)
  <2>1. PICK q \in Requests : Serve(q)
    BY <1>2
  <2>2. /\ RequestsOK'
        /\ \A p \in Requests \ {q} : request'[p] = request[p]
        /\ \A p \in Requests \ {q} : request[p].step \in {"recheck", "seed"} => lock' = lock
        /\ request'[q].step \in {"recheck", "seed"} => lock' = q
        /\ request'[q].step = "seed" => ~Seeded /\ UNCHANGED <<tables, filled>>
    BY <2>1, ServeLocks
  <2>3. CASE Seed(q) /\ CanReplaceAll(File)
    <3>1. /\ request[q].step = "seed" /\ filled = "no" /\ filled' = "yes" /\ lock = q
      BY <2>3 DEF Seed, On, Once, Locked
    <3>2. AnyRoute'
      BY <2>3, SeedFills
    <3>3. request'[q].step = "route"
      BY <2>3 DEF Seed, On, Once, RequestsOK, Request
    <3>4. \A p \in Requests \ {q} : request[p].step # "seed"
      BY <3>1 DEF Once, Locked
    <3>5. Locked'
      BY <2>2, <3>3, <3>4 DEF Once, Locked
    <3> QED BY <2>2, <3>1, <3>2, <3>5 DEF Once, Filled
  <2>4. CASE ~(Seed(q) /\ CanReplaceAll(File))
    <3>1. UNCHANGED <<tables, filled>>
      BY <2>1, <2>4 DEF Serve, Seed, Arrive, Check, Acquire, Recheck, ReadRouteRow, ReadTargetRows,
                        ReadProviderRows, RequestFails, NoWrite
    <3>2. Filled'
      BY <3>1 DEF Once, Filled, AnyRoute, Present, tables
    <3>3. Locked'
      BY <2>2, <3>1 DEF Once, Locked, Filled, Seeded
    <3> QED BY <2>2, <3>2, <3>3 DEF Once
  <2> QED BY <2>3, <2>4
<1>3. CASE UNCHANGED vars
  BY <1>3 DEF vars, tables, handlers, clients, Once, RequestsOK, Locked, Filled, AnyRoute, Present
<1> QED BY <1>1, <1>2, <1>3 DEF Next

LEMMA InitOnce == Init => Once
<1> SUFFICES ASSUME Init
             PROVE  Once
  OBVIOUS
<1>1. (CHOOSE m \in Asked : TRUE) \in Asked
  BY AdminAssumption
<1> QED BY <1>1, AdminAssumption DEF Init, StoreInit, Once, RequestsOK, Request, RequestSteps, Locked,
           Filled

-----------------------------------------------------------------------------
(* A model of the file is found.                                            *)

\* What a request that is not excused may count on.
Offered == \A q \in Requests :
  q \notin gap /\ InFile(request[q].model) =>
    /\ request[q].step # "new" /\ AnyRoute => OnOffer(routes, request[q].model) # {}
    /\ request[q].step = "route" => OnOffer(routes, request[q].model) # {}
    /\ request[q].step # "not_found"

\* A request that goes on to look for the route has seen that there are routes.
LEMMA RoutesSeen ==
  ASSUME RequestsOK, StoreTypeOK, NEW q \in Requests, Serve(q),
         InFile(request[q].model),
         request'[q].step \in {"route", "not_found"}
  PROVE  /\ request'[q].step = "route" => AnyRoute'
         /\ request'[q].step = "not_found" =>
              request[q].step = "route" /\ OnOffer(routes, request[q].model) = {}
<1>1. request[q] \in Request
  BY DEF RequestsOK
<1>2. ASSUME NEW here, NEW step, On(q, here, step)
      PROVE  request'[q].step = step
  BY <1>1, <1>2 DEF On, RequestsOK, Request
<1>3. ASSUME NEW here, NEW step, Leaves(q, here, step)
      PROVE  request'[q].step = step
  BY <1>1, <1>3 DEF Leaves, RequestsOK, Request
<1>4. ~Arrive(q) /\ ~ReadTargetRows(q)
  <2>1. ~Arrive(q)
    BY <1>1 DEF Arrive, RequestsOK, Request
  <2>2. ~ReadTargetRows(q)
    BY <1>1 DEF ReadTargetRows, RequestsOK, Request
  <2> QED BY <2>1, <2>2
<1>5. ~Acquire(q) /\ ~ReadProviderRows(q) /\ ~RequestFails(q)
  BY <1>2, <1>3 DEF Acquire, ReadProviderRows, RequestFails
<1>6. CASE Check(q) \/ Recheck(q)
  <2>1. Seeded /\ NoWrite /\ request'[q].step = "route"
    BY <1>2, <1>3, <1>6 DEF Check, Recheck
  <2> QED BY <2>1 DEF Seeded, InFile, NoWrite, tables, AnyRoute, Present
<1>7. CASE Seed(q)
  <2>1. CASE CanReplaceAll(File)
    <3>1. request'[q].step = "route"
      BY <1>2, <1>7, <2>1 DEF Seed
    <3>2. AnyRoute'
      BY <1>7, <2>1, SeedFills DEF InFile
    <3> QED BY <3>1, <3>2
  <2>2. CASE ~CanReplaceAll(File)
    BY <1>7, <2>2, SeedRefused
  <2> QED BY <2>1, <2>2
<1>8. CASE ReadRouteRow(q)
  <2>1. CASE OnOffer(routes, request[q].model) = {} /\ Leaves(q, "route", "not_found")
    <3>1. request'[q].step = "not_found" /\ request[q].step = "route"
      BY <1>3, <2>1 DEF Leaves
    <3> QED BY <2>1, <3>1
  <2>2. CASE \E r \in OnOffer(routes, request[q].model) :
               request' = [request EXCEPT ![q].step = "targets", ![q].id = r]
    <3>1. request'[q].step = "targets"
      BY <1>1, <2>2 DEF RequestsOK, Request
    <3> QED BY <3>1
  <2> QED BY <1>8, <2>1, <2>2 DEF ReadRouteRow
<1> QED BY <1>4, <1>5, <1>6, <1>7, <1>8 DEF Serve

LEMMA OfferedKept ==
  ASSUME RequestsOK, StoreTypeOK, Offered, [Next]_vars
  PROVE  Offered'
<1>1. CASE UNCHANGED vars
  BY <1>1 DEF vars, tables, clients, Offered, AnyRoute, OnOffer, Present
<1>2. CASE Next
  <2> SUFFICES ASSUME NEW q \in Requests, q \notin gap', InFile(request'[q].model)
               PROVE  /\ request'[q].step # "new" /\ AnyRoute' =>
                           OnOffer(routes', request'[q].model) # {}
                      /\ request'[q].step = "route" => OnOffer(routes', request'[q].model) # {}
                      /\ request'[q].step # "not_found"
    BY DEF Offered
  <2>1. request'[q].step # "new" =>
          /\ q \notin gap
          /\ AnyRoute' => OnOffer(routes', request'[q].model) # {}
          /\ OnOffer(routes, request'[q].model) # {} => OnOffer(routes', request'[q].model) # {}
    BY <1>2 DEF Next, Watch
  <2>2. CASE request'[q] = request[q]
    BY <2>1, <2>2 DEF Offered
  <2>3. CASE request'[q] # request[q]
    <3>1. PICK p \in Requests : Serve(p)
      BY <1>2, <2>3 DEF Next, Handle, clients
    <3>2. PICK w \in Request :
            /\ request' = [request EXCEPT ![p] = w]
            /\ w.step # "new" /\ (request[p].step # "new" => w.model = request[p].model)
      BY <3>1, RequestStep
    <3>3. p = q /\ request'[q] = w
      BY <2>3, <3>2 DEF RequestsOK
    <3>4. CASE request[q].step = "new"
      <4>1. Arrive(q)
        BY <3>1, <3>3, <3>4 DEF Serve, Check, Acquire, Recheck, Seed, ReadRouteRow, ReadTargetRows,
                                ReadProviderRows, RequestFails, On, Leaves
      <4>2. request'[q].step = "check"
        BY <4>1 DEF Arrive, RequestsOK, Request
      <4> QED BY <2>1, <4>2
    <3>5. CASE request[q].step # "new" /\ request'[q].step \in {"route", "not_found"}
      <4>1. request'[q].model = request[q].model /\ q \notin gap
        BY <2>1, <3>2, <3>3, <3>5
      <4>2. request[q].step = "route" => OnOffer(routes, request[q].model) # {}
        BY <4>1 DEF Offered
      <4>3. /\ request'[q].step = "route" => AnyRoute'
            /\ request'[q].step = "not_found" =>
                 request[q].step = "route" /\ OnOffer(routes, request[q].model) = {}
        BY <3>1, <3>3, <3>5, <4>1, RoutesSeen
      <4> QED BY <2>1, <3>5, <4>2, <4>3
    <3>6. CASE request[q].step # "new" /\ request'[q].step \notin {"route", "not_found"}
      BY <2>1, <3>6
    <3> QED BY <3>4, <3>5, <3>6
  <2> QED BY <2>2, <2>3
<1> QED BY <1>1, <1>2

-----------------------------------------------------------------------------
(* The theorems.                                                            *)

\* The types of what requests hold.
RInv == RequestsOK /\ filled \in {"no", "yes", "twice"} /\ gap \subseteq Requests
        /\ secret \in BOOLEAN

\* They hold for every interleaving of ensure_operational_config_seeded and
\* snapshot_route with the handlers.
THEOREM RequestTypes == Spec => []RInv
<1>1. Init => RInv
  <2>1. (CHOOSE m \in Asked : TRUE) \in Asked
    BY AdminAssumption
  <2> QED BY <2>1 DEF Init, RInv, RequestsOK, Request, RequestSteps
<1>2. RInv /\ HInv /\ [Next]_vars => RInv'
  <2> SUFFICES ASSUME RInv, HInv, [Next]_vars
               PROVE  RInv'
    OBVIOUS
  <2>1. CASE \E a \in Admins : Handle(a) /\ Watch
    BY <2>1 DEF Handle, clients, Watch, RequestsOK, RInv
  <2>2. CASE \E q \in Requests : Serve(q) /\ Watch
    <3>1. PICK q \in Requests : Serve(q)
      BY <2>2
    <3>2. PICK w \in Request :
            request' = [request EXCEPT ![q] = w] /\ (w.step = "targets" => w.id \in Models)
      BY <3>1, RequestStep DEF HInv, RInv
    <3>3. lock' \in {lock, q, None}
      BY <3>1 DEF Serve, Arrive, Check, Acquire, Recheck, Seed, ReadRouteRow, ReadTargetRows,
                  ReadProviderRows, RequestFails, Unlock
    <3>4. RequestsOK'
      BY <3>2, <3>3 DEF RequestsOK, RInv
    <3>5. filled' \in {filled, "yes", "twice"} /\ secret' = secret
      BY <3>1 DEF Serve, Arrive, Check, Acquire, Recheck, Seed, ReadRouteRow, ReadTargetRows,
                  ReadProviderRows, RequestFails, NoWrite
    <3> QED BY <2>2, <3>4, <3>5 DEF Watch, RInv
  <2>3. CASE UNCHANGED vars
    BY <2>3 DEF vars, clients, RequestsOK, RInv
  <2> QED BY <2>1, <2>2, <2>3 DEF Next
<1> QED BY <1>1, <1>2, Invariant, PTL DEF Spec

\* Type correctness, for every file, call, and number of faults.
THEOREM TypeCorrect == Spec => []TypeOK
<1>1. HInv /\ RInv => TypeOK
  BY DEF HInv, RInv, TypeOK, HandlersOK, Handler, MadeOK, AuditOK, RequestsOK, Request, RequestSteps
<1> QED BY <1>1, RequestTypes, Invariant, PTL

\* No key is stored as it was given, but for those of the file's unmanaged providers.
THEOREM PlainKeysOfTheFile == Spec => []PlainKeysAreTheFiles
<1>1. HInv => PlainKeysAreTheFiles
  BY DEF HInv
<1> QED BY <1>1, Invariant, PTL

\* A route whose creation was refused is gone.
THEOREM FailedCreatesUndone == Spec => []FailedCreateUndone
<1>1. HInv => FailedCreateUndone
  BY DEF HInv, MadeOK, FailedCreateUndone
<1> QED BY <1>1, Invariant, PTL

\* One fault loses no trace of an audited change.
THEOREM TracesKept ==
  ASSUME MaxFaults < 2
  PROVE  Spec => []AuditedOrLogged
<1>1. HInv => AuditedOrLogged
  BY DEF HInv, AuditOK
<1> QED BY <1>1, Invariant, PTL

\* A file with a route is put in once, until an administrator has deleted every route.
THEOREM SeededOnlyOnce ==
  ASSUME DOMAIN File.routes # {}
  PROVE  Spec => []SeededOnce
<1>1. Init => Once
  BY InitOnce
<1>2. Once /\ HInv /\ [Next]_vars => Once'
  BY OnceKept DEF HInv
<1>3. Once => SeededOnce
  BY DEF Once, Filled, SeededOnce
<1> QED BY <1>1, <1>2, <1>3, RequestTypes, Invariant, PTL DEF Spec

\* A model of the file is found unless an administrator took it away meanwhile.
THEOREM Served == Spec => []ServedFromFile
<1>1. Init => Offered
  BY DEF Init, Offered
<1>2. Offered /\ RInv /\ HInv /\ [Next]_vars => Offered'
  BY OfferedKept DEF HInv, RInv
<1>3. Offered => ServedFromFile
  BY DEF Offered, ServedFromFile
<1> QED BY <1>1, <1>2, <1>3, RequestTypes, Invariant, PTL DEF Spec
=============================================================================
