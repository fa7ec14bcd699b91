------------------------- MODULE ResponseChainProofs --------------------------
(***************************************************************************)
(* Proofs about ResponseChain and its Janitor, for every number of turns,  *)
(* targets, credentials, faults and ticks of the clock: first what is      *)
(* stored and until when, then what a continued response was made from.    *)
(***************************************************************************)
EXTENDS ResponseChain, SequenceTheorems, FiniteSetTheorems, TLAPS

-----------------------------------------------------------------------------
(* The inductive invariant.                                                 *)

Loading == {"lookup", "walk", "items"}
Storing == {"store", "store_handle", "store_input", "store_output"}
Later == {"store_handle", "store_input", "store_output", "done"}

\* What the place of a turn says of its locals.
Place(n) ==
  /\ pc[n] \in Loading => ask[n].prev # 0
  /\ local[n].native => ask[n].prev # 0
  /\ local[n].cursor.kind = "response" => local[n].cursor.of # 0
  /\ responses[n].prev.kind # "response"
  /\ pc[n] \in {"call", "retry"} => local[n].target # None
  /\ pc[n] \in Storing => local[n].status # "none" /\ context[n] # <<>>

Places == \A n \in Turns : Place(n)

\* A row is inserted once, and what is gone left nothing behind.
Rows ==
  \A n \in Turns :
    /\ pc[n] \notin Later => n \notin written
    /\ Stored(n) => n \in written
    /\ ~Stored(n) => responses[n].at = 0

\* What the janitor is going to delete had expired when it looked.
Doomed ==
  /\ cutoff <= now
  /\ \A n \in doomed : n \in written /\ (Stored(n) => responses[n].at + Ttl < cutoff)

IInv == TypeOK /\ Places /\ Rows /\ Doomed

-----------------------------------------------------------------------------
(* Conversations.                                                           *)

LEMMA RenamedType ==
  ASSUME NEW s \in Seq(Piece), NEW calls, NEW id \in {"none", "downstream", "upstream"}
  PROVE  Renamed(s, calls, id) \in Seq(Piece)
<1>1. \A k \in 1 .. Len(s) : s[k] \in Piece
  OBVIOUS
<1>2. \A k \in 1 .. Len(s) :
        (IF s[k].kind = "result" /\ s[k].call \in calls
         THEN [s[k] EXCEPT !.id = id] ELSE s[k]) \in Piece
  BY <1>1 DEF Piece
<1>3. Len(s) \in Nat /\ DOMAIN s = 1 .. Len(s)
  OBVIOUS
<1> DEFINE f(k) == IF s[k].kind = "result" /\ s[k].call \in calls
                   THEN [s[k] EXCEPT !.id = id] ELSE s[k]
<1>4. \A k \in 1 .. Len(s) : f(k) \in Piece
  BY <1>2
<1> HIDE DEF f
<1>5. [k \in 1 .. Len(s) |-> f(k)] \in Seq(Piece)
  BY <1>3, <1>4, IsASeq
<1> QED BY <1>3, <1>5 DEF Renamed, f

LEMMA RemoveAtType ==
  ASSUME NEW s \in Seq(Piece), NEW k \in DOMAIN s
  PROVE  RemoveAt(s, k) \in Seq(Piece)
<1>1. /\ k \in 1 .. Len(s) /\ Len(s) \in Nat
      /\ SubSeq(s, 1, k - 1) \in Seq(Piece) /\ SubSeq(s, k + 1, Len(s)) \in Seq(Piece)
  BY SubSeqProperties
<1> QED BY <1>1, ConcatProperties DEF RemoveAt

LEMMA AnswerType ==
  ASSUME NEW n \in Turns, NEW kind \in {"message", "answer", "call", "result"},
         NEW id \in {"none", "downstream", "upstream"}
  PROVE  Answer(n, kind, id) \in Piece
BY StoreAssumption DEF Answer, Piece, Turns

LEMMA MappedType ==
  ASSUME NEW s \in Seq(Piece)
  PROVE  Mapped(s) \subseteq Turns
<1>1. \A k \in DOMAIN s : s[k] \in Piece
  OBVIOUS
<1>2. \A k \in DOMAIN s : s[k].call \in 0 .. MaxTurns
  BY <1>1 DEF Piece
<1> QED BY <1>2, StoreAssumption DEF Mapped, Turns

-----------------------------------------------------------------------------
(* Steps in general.                                                        *)

\* A step that leaves the rows and the janitor alone, and takes no turn back.
LEMMA KeptStill ==
  ASSUME TypeOK, Rows, Doomed, UNCHANGED <<responses, now, janitor, written>>,
         \A m \in Turns : pc[m] \in Later => pc'[m] \in Later
  PROVE  Rows' /\ Doomed'
BY DEF Rows, Doomed, Stored, store, janitor

\* A step of one turn moves no other.
LEMMA OthersStay ==
  ASSUME TypeOK, Places, NEW n \in Turns,
         \A m \in Turns \ {n} : /\ pc'[m] = pc[m] /\ ask'[m] = ask[m]
                                /\ local'[m] = local[m] /\ context'[m] = context[m]
                                /\ responses'[m] = responses[m],
         Place(n)'
  PROVE  Places'
BY DEF Places, Place

PlaceNames == {"new", "lookup", "walk", "items", "target", "call", "retry",
               "store", "store_handle", "store_input", "store_output", "done"}
Outcomes == {"none", "answered", "failed", "state_not_found", "state_not_continuable",
             "state_replay_failed", "tool_mapping_failed", "internal_error",
             "upstream_unavailable", "upstream_error"}
Account == [target : Targets \cup {None}, key : Keys \cup {None}]

\* A step of turn n that leaves the rows and the janitor alone.
LEMMA TablesStep ==
  ASSUME IInv, NEW n \in Turns,
         NEW place \in PlaceNames, pc' = Set(pc, n, place),
         NEW a \in Asks, ask' = Set(ask, n, a),
         NEW l \in Local, local' = Set(local, n, l),
         NEW o \in Outcomes, outcome' = Set(outcome, n, o),
         NEW c \in Seq(Piece), context' = Set(context, n, c),
         NEW x \in Account, account' = Set(account, n, x),
         faults' \in 0 .. MaxFaults, lost' \in SUBSET Turns,
         items' \in [Turns -> Items], handles' \in [Turns -> Keys \cup {None}],
         UNCHANGED <<responses, now, janitor, written>>,
         pc[n] \in Later => place \in Later,
         place \in Loading => a.prev # 0,
         l.native => a.prev # 0,
         l.cursor.kind = "response" => l.cursor.of # 0,
         place \in {"call", "retry"} => l.target # None,
         place \in Storing => l.status # "none" /\ c # <<>>
  PROVE  IInv'
<1>1. TypeOK'
  <2>1. /\ pc' \in [Turns -> PlaceNames] /\ ask' \in [Turns -> Asks]
        /\ local' \in [Turns -> Local] /\ outcome' \in [Turns -> Outcomes]
        /\ context' \in [Turns -> Seq(Piece)] /\ account' \in [Turns -> Account]
    BY DEF IInv, TypeOK, Set, PlaceNames, Outcomes, Account
  <2>2. StoreTypeOK' /\ JanitorTypeOK' /\ written' \in SUBSET Turns
    BY DEF IInv, TypeOK, StoreTypeOK, JanitorTypeOK, janitor
  <2> QED BY <2>1, <2>2 DEF TypeOK, PlaceNames, Outcomes, Account
<1>2. /\ pc'[n] = place /\ ask'[n] = a /\ local'[n] = l /\ context'[n] = c
      /\ \A m \in Turns \ {n} : /\ pc'[m] = pc[m] /\ ask'[m] = ask[m]
                                /\ local'[m] = local[m] /\ context'[m] = context[m]
  BY DEF IInv, TypeOK, Set
<1>3. Places'
  <2>1. Place(n)'
    BY <1>2 DEF IInv, Places, Place
  <2> QED BY <1>2, <2>1, OthersStay DEF IInv
<1>4. Rows' /\ Doomed'
  <2>1. \A m \in Turns : pc[m] \in Later => pc'[m] \in Later
    BY <1>2
  <2> QED BY <2>1, KeptStill DEF IInv
<1> QED BY <1>1, <1>3, <1>4 DEF IInv

\* A step of turn n that leaves the tables and the janitor alone.
LEMMA TurnStep ==
  ASSUME IInv, NEW n \in Turns,
         NEW place \in PlaceNames, pc' = Set(pc, n, place),
         NEW a \in Asks, ask' = Set(ask, n, a),
         NEW l \in Local, local' = Set(local, n, l),
         NEW o \in Outcomes, outcome' = Set(outcome, n, o),
         NEW c \in Seq(Piece), context' = Set(context, n, c),
         NEW x \in Account, account' = Set(account, n, x),
         faults' \in 0 .. MaxFaults, lost' \in SUBSET Turns,
         UNCHANGED <<store, now, janitor, written>>,
         pc[n] \in Later => place \in Later,
         place \in Loading => a.prev # 0,
         l.native => a.prev # 0,
         l.cursor.kind = "response" => l.cursor.of # 0,
         place \in {"call", "retry"} => l.target # None,
         place \in Storing => l.status # "none" /\ c # <<>>
  PROVE  IInv'
<1>1. items' \in [Turns -> Items] /\ handles' \in [Turns -> Keys \cup {None}]
  BY DEF IInv, TypeOK, StoreTypeOK, store
<1>2. UNCHANGED <<responses, now, janitor, written>>
  BY DEF store
<1> QED BY <1>1, <1>2, TablesStep

LEMMA NoLocalType == NoLocal \in Local
<1>1. <<>> \in Seq(Piece) /\ <<>> \in Seq(Turns)
  OBVIOUS
<1>2. NoRef \in Ref
  BY StoreAssumption DEF NoRef, Ref
<1> QED BY <1>1, <1>2 DEF NoLocal, Local

\* What a step leaves of turn n has its type.
LEMMA Same ==
  ASSUME TypeOK, NEW n \in Turns
  PROVE  /\ pc[n] \in PlaceNames /\ pc = Set(pc, n, pc[n])
         /\ ask[n] \in Asks /\ ask = Set(ask, n, ask[n])
         /\ local[n] \in Local /\ local = Set(local, n, local[n])
         /\ outcome[n] \in Outcomes /\ outcome = Set(outcome, n, outcome[n])
         /\ context[n] \in Seq(Piece) /\ context = Set(context, n, context[n])
         /\ account[n] \in Account /\ account = Set(account, n, account[n])
         /\ faults \in 0 .. MaxFaults /\ lost \in SUBSET Turns
<1>1. /\ pc[n] \in PlaceNames /\ pc = Set(pc, n, pc[n])
      /\ ask[n] \in Asks /\ ask = Set(ask, n, ask[n])
      /\ outcome[n] \in Outcomes /\ outcome = Set(outcome, n, outcome[n])
  BY DEF TypeOK, Set, PlaceNames, Outcomes
<1>2. /\ local[n] \in Local /\ local = Set(local, n, local[n])
      /\ context[n] \in Seq(Piece) /\ context = Set(context, n, context[n])
      /\ account[n] \in Account /\ account = Set(account, n, account[n])
  BY DEF TypeOK, Set, Account
<1>3. faults \in 0 .. MaxFaults /\ lost \in SUBSET Turns
  BY DEF TypeOK, StoreTypeOK
<1> QED BY <1>1, <1>2, <1>3

LEMMA Counted ==
  ASSUME TypeOK, Fault
  PROVE  faults' \in 0 .. MaxFaults
BY StoreAssumption DEF TypeOK, StoreTypeOK, Fault

\* A turn that only changes its locals and its place.
LEMMA LocalStep ==
  ASSUME IInv, NEW n \in Turns,
         NEW place \in PlaceNames, pc' = Set(pc, n, place),
         NEW l \in Local, local' = Set(local, n, l),
         UNCHANGED <<store, now, faults, janitor, ask, outcome, upstream, history>>,
         pc[n] \notin Later, place \notin Storing,
         place \in Loading => ask[n].prev # 0,
         l.native => ask[n].prev # 0,
         place \in {"call", "retry"} => l.target # None,
         l.cursor.kind = "response" => l.cursor.of # 0
  PROVE  IInv'
<1>1. /\ UNCHANGED <<store, now, faults, janitor, written, lost>>
      /\ UNCHANGED <<ask, outcome, context, account>>
  BY DEF upstream, history
<1>2. TypeOK
  BY DEF IInv
<1>3. /\ ask[n] \in Asks /\ ask' = Set(ask, n, ask[n])
      /\ outcome[n] \in Outcomes /\ outcome' = Set(outcome, n, outcome[n])
      /\ context[n] \in Seq(Piece) /\ context' = Set(context, n, context[n])
      /\ account[n] \in Account /\ account' = Set(account, n, account[n])
      /\ faults' \in 0 .. MaxFaults /\ lost' \in SUBSET Turns
  BY <1>1, <1>2, Same
<1> QED BY <1>1, <1>3, TurnStep

LEMMA RefuseStep ==
  ASSUME IInv, NEW n \in Turns, NEW kind \in Outcomes, Refuse(n, kind),
         UNCHANGED faults \/ Fault
  PROVE  IInv'
<1>1. /\ pc' = Set(pc, n, "done") /\ local' = Set(local, n, NoLocal)
      /\ outcome' = Set(outcome, n, kind)
      /\ UNCHANGED <<store, now, janitor, ask, context, account, written, lost>>
  BY DEF Refuse, Leave, upstream, history
<1>2. TypeOK
  BY DEF IInv
<1>3. /\ ask[n] \in Asks /\ ask' = Set(ask, n, ask[n])
      /\ context[n] \in Seq(Piece) /\ context' = Set(context, n, context[n])
      /\ account[n] \in Account /\ account' = Set(account, n, account[n])
      /\ faults' \in 0 .. MaxFaults /\ lost' \in SUBSET Turns
  BY <1>1, <1>2, Same, Counted
<1>4. ~NoLocal.native /\ NoLocal.cursor.kind = "none"
  BY DEF NoLocal, NoRef
<1>5. "done" \in PlaceNames /\ "done" \in Later /\ "done" \notin Loading /\ "done" \notin Storing
  BY DEF PlaceNames, Later, Loading, Storing
<1> QED BY <1>1, <1>3, <1>4, <1>5, NoLocalType, TurnStep

-----------------------------------------------------------------------------
(* The actions of a turn, up to its answer.                                 *)

LEMMA AskPreserves ==
  ASSUME IInv, NEW n \in Turns, Ask(n)
  PROVE  IInv'
<1>1. PICK p \in IF n = 1 THEN {0} ELSE {m \in Turns : outcome[m] \in {"answered", "failed"}},
           s \in BOOLEAN, k \in Keys :
        \E i \in {Message(n)} \cup {Result(n, c, "downstream") : c \in Seen(p)} :
          /\ ask' = Set(ask, n, [prev |-> p, late |-> FALSE,
                               early |-> p # 0 /\ pc[p] # "done"])
          /\ local' = Set(local, n, [NoLocal EXCEPT !.key = k, !.stream = s, !.given = <<i>>,
                         !.cursor = IF p = 0 THEN NoRef ELSE Response(p)])
          /\ Goto(n, "new", IF p = 0 THEN "target" ELSE "lookup")
  BY DEF Ask
<1>2. PICK i \in {Message(n)} \cup {Result(n, c, "downstream") : c \in Seen(p)} :
          /\ ask' = Set(ask, n, [prev |-> p, late |-> FALSE,
                               early |-> p # 0 /\ pc[p] # "done"])
          /\ local' = Set(local, n, [NoLocal EXCEPT !.key = k, !.stream = s, !.given = <<i>>,
                         !.cursor = IF p = 0 THEN NoRef ELSE Response(p)])
          /\ Goto(n, "new", IF p = 0 THEN "target" ELSE "lookup")
  BY <1>1
<1> DEFINE a == [prev |-> p, late |-> FALSE, early |-> p # 0 /\ pc[p] # "done"]
           cursor == IF p = 0 THEN NoRef ELSE Response(p)
           l == [NoLocal EXCEPT !.key = k, !.stream = s, !.given = <<i>>, !.cursor = cursor]
           place == IF p = 0 THEN "target" ELSE "lookup"
<1>3. TypeOK /\ UNCHANGED <<store, now, faults, janitor, outcome, context, account, written, lost>>
  BY DEF IInv, Ask, upstream, history
<1>4. p = 0 \/ p \in Turns
  OBVIOUS
<1>5. a \in Asks
  BY <1>4, StoreAssumption DEF Asks, Turns
<1>6. i \in Piece
  <2>1. Message(n) \in Piece
    BY StoreAssumption DEF Message, Piece, Turns
  <2>2. ASSUME NEW c \in Seen(p) PROVE Result(n, c, "downstream") \in Piece
    <3>1. p # 0
      BY <2>2 DEF Seen
    <3>2. context[p] \in Seq(Piece)
      BY <1>3, <1>4, <3>1, Same
    <3>3. \A j \in DOMAIN context[p] : context[p][j] \in Piece
      BY <3>2
    <3>4. c \in 0 .. MaxTurns
      BY <3>1, <3>3, <2>2 DEF Seen, Piece
    <3> QED BY <3>4 DEF Result, Piece
  <2> QED BY <2>1, <2>2
<1>7. cursor \in Ref /\ (cursor.kind = "response" => cursor.of # 0)
  BY <1>4, StoreAssumption DEF NoRef, Response, Ref, Turns
<1>8. l \in Local
  <2>1. <<i>> \in Seq(Piece)
    BY <1>6
  <2> HIDE DEF cursor
  <2> QED BY <2>1, <1>7, NoLocalType DEF Local
<1>9. ~l.native /\ l.cursor = cursor
  BY DEF NoLocal
<1>10. /\ outcome[n] \in Outcomes /\ outcome' = Set(outcome, n, outcome[n])
       /\ context[n] \in Seq(Piece) /\ context' = Set(context, n, context[n])
       /\ account[n] \in Account /\ account' = Set(account, n, account[n])
       /\ faults' \in 0 .. MaxFaults /\ lost' \in SUBSET Turns
  BY <1>3, Same
<1>11. /\ place \in PlaceNames /\ place \notin Storing \cup {"call", "retry"} /\ (place \in Loading => a.prev # 0)
       /\ pc[n] \notin Later /\ pc' = Set(pc, n, place)
  BY <1>2 DEF PlaceNames, Storing, Loading, Later, Goto
<1>12. ask' = Set(ask, n, a) /\ local' = Set(local, n, l)
  BY <1>2
<1> HIDE DEF a, l, place, cursor
<1> QED BY <1>3, <1>5, <1>7, <1>8, <1>9, <1>10, <1>11, <1>12, TurnStep

\* The fields of what TypeOK says of the locals and of the rows a turn reads.
LEMMA Fields ==
  ASSUME TypeOK, NEW n \in Turns
  PROVE  /\ local[n].cursor \in Ref /\ local[n].chain \in Seq(Turns)
         /\ local[n].replay \in Seq(Piece) /\ local[n].given \in Seq(Piece)
         /\ local[n].input \in Seq(Piece) /\ local[n].mapped \in SUBSET Turns
         /\ local[n].key \in Keys \cup {None} /\ local[n].target \in Targets \cup {None}
         /\ local[n].tried \in SUBSET Targets
         /\ local[n].status \in {"none", "completed", "failed"}
         /\ ask[n].prev \in 0 .. MaxTurns
         /\ responses[n].prev \in Ref /\ responses[n].target \in Targets \cup {None}
         /\ items[n].input \in Seq(Piece) /\ items[n].output \in Seq(Piece)
         /\ handles[n] \in Keys \cup {None}
<1>1. local[n] \in Local /\ ask[n] \in Asks
  BY DEF TypeOK
<1>2. responses[n] \in Row /\ items[n] \in Items /\ handles[n] \in Keys \cup {None}
  BY DEF TypeOK, StoreTypeOK
<1> QED BY <1>1, <1>2 DEF Local, Asks, Row, Items

LEMMA LookUpPreserves ==
  ASSUME IInv, NEW n \in Turns, LookUp(n)
  PROVE  IInv'
<1> DEFINE l == [local[n] EXCEPT !.previous = responses[ask[n].prev].target]
<1>1. /\ local' = Set(local, n, l) /\ pc' = Set(pc, n, "walk") /\ pc[n] = "lookup"
      /\ UNCHANGED <<store, now, faults, janitor, ask, outcome, upstream, history>>
  BY DEF LookUp, Goto, Set
<1>2. ask[n].prev # 0 /\ TypeOK
  BY <1>1 DEF IInv, Places, Place, Loading
<1>3. ask[n].prev \in Turns
  BY <1>2, Fields, StoreAssumption DEF Turns
<1>4. local[n] \in Local /\ responses[ask[n].prev].target \in Targets \cup {None}
  BY <1>2, <1>3, Fields, Same
<1>5. l \in Local /\ l.native = local[n].native /\ l.cursor = local[n].cursor
  BY <1>4 DEF Local
<1>6. /\ local[n].native => ask[n].prev # 0
      /\ local[n].cursor.kind = "response" => local[n].cursor.of # 0
  BY DEF IInv, Places, Place
<1> HIDE DEF l
<1> QED BY <1>1, <1>2, <1>5, <1>6, LocalStep DEF PlaceNames, Later, Storing

LEMMA WalkPreserves ==
  ASSUME IInv, NEW n \in Turns, Walk(n)
  PROVE  IInv'
<1> DEFINE c == local[n].cursor
           l == [local[n] EXCEPT !.chain = <<c.of>> \o @, !.cursor = responses[c.of].prev]
<1>1. /\ local' = Set(local, n, l) /\ pc[n] = "walk" /\ pc' = pc
      /\ UNCHANGED <<store, now, faults, janitor, ask, outcome, upstream, history>>
      /\ c.kind = "response"
  BY DEF Walk, Set, Found
<1>2. TypeOK /\ ask[n].prev # 0 /\ c.of # 0
  BY <1>1 DEF IInv, Places, Place, Loading
<1>3. c \in Ref /\ local[n] \in Local /\ local[n].chain \in Seq(Turns) /\ pc' = Set(pc, n, "walk")
  BY <1>1, <1>2, Fields, Same
<1>4. c.of \in Turns
  BY <1>2, <1>3, StoreAssumption DEF Ref, Turns
<1>5. responses[c.of].prev \in Ref /\ responses[c.of].prev.kind # "response"
  BY <1>2, <1>4, Fields DEF IInv, Places, Place
<1>6. <<c.of>> \o local[n].chain \in Seq(Turns)
  BY <1>3, <1>4, ConcatProperties
<1>7. l \in Local /\ l.native = local[n].native /\ l.cursor = responses[c.of].prev
  BY <1>3, <1>5, <1>6 DEF Local
<1> HIDE DEF l, c
<1> QED BY <1>1, <1>2, <1>3, <1>5, <1>7, LocalStep DEF PlaceNames, Later, Storing

LEMMA ChainWalkedPreserves ==
  ASSUME IInv, NEW n \in Turns, ChainWalked(n)
  PROVE  IInv'
<1>1. /\ pc[n] = "walk" /\ pc' = Set(pc, n, "items")
      /\ UNCHANGED <<store, now, faults, janitor, ask, local, outcome, upstream, history>>
  BY DEF ChainWalked, Goto
<1>2. TypeOK /\ ask[n].prev # 0
  BY <1>1 DEF IInv, Places, Place, Loading
<1>3. local[n] \in Local /\ local' = Set(local, n, local[n])
  BY <1>1, <1>2, Same
<1>4. local[n].cursor.kind = "response" => local[n].cursor.of # 0
  BY DEF IInv, Places, Place
<1> QED BY <1>1, <1>2, <1>3, <1>4, LocalStep DEF PlaceNames, Later, Storing

LEMMA ReadItemsPreserves ==
  ASSUME IInv, NEW n \in Turns, ReadItems(n)
  PROVE  IInv'
<1> DEFINE read == items[Head(local[n].chain)]
           l == [local[n] EXCEPT !.replay = @ \o read.input \o read.output,
                                 !.mapped = @ \cup Mapped(read.output), !.chain = Tail(@)]
<1>1. /\ local' = Set(local, n, l) /\ pc[n] = "items" /\ pc' = pc /\ local[n].chain # <<>>
      /\ UNCHANGED <<store, now, faults, janitor, ask, outcome, upstream, history>>
  BY DEF ReadItems, Set
<1>2. TypeOK /\ ask[n].prev # 0
  BY <1>1 DEF IInv, Places, Place, Loading
<1>3. /\ local[n] \in Local /\ local[n].chain \in Seq(Turns) /\ local[n].replay \in Seq(Piece)
      /\ local[n].mapped \in SUBSET Turns /\ pc' = Set(pc, n, "items")
  BY <1>1, <1>2, Fields, Same
<1>4. Head(local[n].chain) \in Turns /\ Tail(local[n].chain) \in Seq(Turns)
  BY <1>1, <1>3, HeadTailProperties
<1>5. read.input \in Seq(Piece) /\ read.output \in Seq(Piece)
  BY <1>2, <1>4, Fields
<1> HIDE DEF read
<1>6. (local[n].replay \o read.input) \o read.output \in Seq(Piece)
  BY <1>3, <1>5, ConcatProperties
<1>7. local[n].mapped \cup Mapped(read.output) \in SUBSET Turns
  BY <1>3, <1>5, MappedType
<1>8. l \in Local /\ l.native = local[n].native /\ l.cursor = local[n].cursor
  BY <1>3, <1>4, <1>6, <1>7 DEF Local
<1>9. local[n].cursor.kind = "response" => local[n].cursor.of # 0
  BY DEF IInv, Places, Place
<1> HIDE DEF l
<1> QED BY <1>1, <1>2, <1>3, <1>8, <1>9, LocalStep DEF PlaceNames, Later, Storing

LEMMA ReadHandlePreserves ==
  ASSUME IInv, NEW n \in Turns, ReadHandle(n)
  PROVE  IInv'
<1> DEFINE l == [local[n] EXCEPT !.handle = handles[ask[n].prev]]
           late == now > responses[ask[n].prev].at + Ttl
           a == [ask[n] EXCEPT !.late = late]
<1>1. /\ local' = Set(local, n, l) /\ ask' = Set(ask, n, a)
      /\ pc[n] = "items" /\ pc' = Set(pc, n, "target")
      /\ UNCHANGED <<store, now, faults, janitor, outcome, context, account, written, lost>>
  BY DEF ReadHandle, Goto, Set, upstream, history
<1>2. TypeOK /\ ask[n].prev # 0
  BY <1>1 DEF IInv, Places, Place, Loading
<1>3. ask[n].prev \in Turns /\ ask[n] \in Asks /\ local[n] \in Local
  BY <1>2, Fields, Same, StoreAssumption DEF Turns
<1>4. handles[ask[n].prev] \in Keys \cup {None}
  BY <1>2, <1>3, Fields
<1>5. l \in Local /\ l.cursor = local[n].cursor
  BY <1>3, <1>4 DEF Local
<1>6. a \in Asks /\ a.prev = ask[n].prev
  <2>1. late \in BOOLEAN
    OBVIOUS
  <2> HIDE DEF late
  <2> QED BY <1>3, <2>1 DEF Asks
<1>7. /\ outcome[n] \in Outcomes /\ outcome' = Set(outcome, n, outcome[n])
      /\ context[n] \in Seq(Piece) /\ context' = Set(context, n, context[n])
      /\ account[n] \in Account /\ account' = Set(account, n, account[n])
      /\ faults' \in 0 .. MaxFaults /\ lost' \in SUBSET Turns
  BY <1>1, <1>2, Same
<1>8. local[n].cursor.kind = "response" => local[n].cursor.of # 0
  BY DEF IInv, Places, Place
<1>9. "target" \in PlaceNames /\ "target" \notin Storing /\ pc[n] \notin Later
  BY <1>1 DEF PlaceNames, Storing, Later
<1> HIDE DEF l, a
<1> QED BY <1>1, <1>2, <1>5, <1>6, <1>7, <1>8, <1>9, TurnStep

LEMMA PickTargetPreserves ==
  ASSUME IInv, NEW n \in Turns, PickTarget(n)
  PROVE  IInv'
<1>1. PICK t \in Targets \ local[n].tried :
        LET sends == ask[n].prev # 0 /\ CanSendHandle(n, t) IN
        local' = [local EXCEPT ![n].target = t, ![n].native = sends,
                    ![n].input = IF sends
                                 THEN Renamed(local[n].given, local[n].mapped, "upstream")
                                 ELSE local[n].replay \o local[n].given]
  BY DEF PickTarget
<1> DEFINE sends == ask[n].prev # 0 /\ CanSendHandle(n, t)
           input == IF sends THEN Renamed(local[n].given, local[n].mapped, "upstream")
                    ELSE local[n].replay \o local[n].given
           l == [local[n] EXCEPT !.target = t, !.native = sends, !.input = input]
<1>2. /\ local' = Set(local, n, l) /\ pc[n] = "target" /\ pc' = Set(pc, n, "call")
      /\ UNCHANGED <<store, now, faults, janitor, ask, outcome, upstream, history>>
  BY <1>1 DEF PickTarget, Goto, Set
<1>3. TypeOK
  BY DEF IInv
<1>4. local[n] \in Local /\ local[n].given \in Seq(Piece) /\ local[n].replay \in Seq(Piece)
  BY <1>3, Same, Fields
<1>5. input \in Seq(Piece)
  BY <1>4, RenamedType, ConcatProperties
<1>6. sends \in BOOLEAN /\ (sends => ask[n].prev # 0)
  BY DEF CanSendHandle
<1> HIDE DEF input, sends
<1>7. /\ l \in Local /\ l.native = sends /\ l.cursor = local[n].cursor
      /\ l.target = t /\ t # None
  BY <1>4, <1>5, <1>6, StoreAssumption DEF Local
<1>8. local[n].cursor.kind = "response" => local[n].cursor.of # 0
  BY DEF IInv, Places, Place
<1> HIDE DEF l
<1> QED BY <1>2, <1>6, <1>7, <1>8, LocalStep DEF PlaceNames, Later, Storing, Loading

\* Every way to be refused, before a target and after it.
LEMMA RefusalPreserves ==
  ASSUME IInv, NEW n \in Turns,
         \/ NotFound(n) \/ NotContinuable(n) \/ ChainBroken(n) \/ LoadFails(n)
         \/ UnknownResult(n) \/ Exhausted(n) \/ CallFails(n)
  PROVE  IInv'
<1>1. \E kind \in {"state_not_found", "state_not_continuable", "state_replay_failed",
                   "internal_error", "tool_mapping_failed", "upstream_unavailable",
                   "upstream_error"} :
        Refuse(n, kind) /\ (UNCHANGED faults \/ Fault)
  BY DEF NotFound, NotContinuable, ChainBroken, LoadFails, UnknownResult, Exhausted, CallFails
<1> QED BY <1>1, RefuseStep DEF Outcomes

LEMMA AnswersPreserve ==
  ASSUME IInv, NEW n \in Turns, NEW sent \in Seq(Piece), pc[n] \in {"call", "retry"},
         Answers(n, sent)
  PROVE  IInv'
<1>1. PICK kind \in {"answer", "call"}, status \in {"completed", "failed"} :
        /\ context' = Set(context, n, Append(sent, Answer(n, kind,
                            IF kind = "call" THEN "upstream" ELSE "none")))
        /\ account' = Set(account, n, [target |-> local[n].target, key |-> local[n].key])
        /\ outcome' = IF local[n].stream THEN Told(n, status) ELSE outcome
        /\ pc' = Set(pc, n, "store")
        /\ local' = [local EXCEPT ![n].status = status]
        /\ UNCHANGED <<store, now, faults, janitor, ask, history>>
  BY DEF Answers
<1> DEFINE l == [local[n] EXCEPT !.status = status]
           piece == Answer(n, kind, IF kind = "call" THEN "upstream" ELSE "none")
           c == Append(sent, piece)
           x == [target |-> local[n].target, key |-> local[n].key]
           o == IF local[n].stream
                THEN IF status = "completed" THEN "answered" ELSE "failed" ELSE outcome[n]
<1>2. TypeOK
  BY DEF IInv
<1>3. local[n] \in Local /\ outcome[n] \in Outcomes /\ outcome = Set(outcome, n, outcome[n])
      /\ ask[n] \in Asks /\ ask = Set(ask, n, ask[n])
      /\ faults \in 0 .. MaxFaults /\ lost \in SUBSET Turns
  BY <1>2, Same
<1>4. o \in Outcomes /\ outcome' = Set(outcome, n, o)
  BY <1>1, <1>3 DEF Outcomes, Told
<1>5. piece \in Piece
  BY AnswerType
<1>6. c \in Seq(Piece) /\ c # <<>>
  BY <1>5, AppendProperties
<1>7. x \in Account
  BY <1>2, Fields DEF Account
<1>8. l \in Local /\ l.native = local[n].native /\ l.cursor = local[n].cursor
      /\ l.status # "none" /\ local' = Set(local, n, l)
  BY <1>1, <1>3 DEF Local, Set
<1>9. /\ local[n].native => ask[n].prev # 0
      /\ local[n].cursor.kind = "response" => local[n].cursor.of # 0
  BY DEF IInv, Places, Place
<1>10. /\ UNCHANGED <<store, now, janitor, written>>
       /\ ask' = Set(ask, n, ask[n]) /\ faults' \in 0 .. MaxFaults /\ lost' \in SUBSET Turns
       /\ context' = Set(context, n, c)
       /\ account' = Set(account, n, x)
  BY <1>1, <1>3 DEF history
<1>11. /\ "store" \in PlaceNames /\ "store" \notin Loading \cup {"call", "retry"}
       /\ pc[n] \notin Later /\ pc' = Set(pc, n, "store")
  BY <1>1 DEF PlaceNames, Loading, Later
<1> HIDE DEF l, piece, o, c, x
<1> QED BY <1>3, <1>4, <1>6, <1>7, <1>8, <1>9, <1>10, <1>11, TurnStep

LEMMA UpstreamAnswersPreserves ==
  ASSUME IInv, NEW n \in Turns, UpstreamAnswers(n)
  PROVE  IInv'
<1> DEFINE sent == IF local[n].native THEN Remembered(n) \o local[n].input ELSE local[n].input
<1>1. TypeOK /\ (local[n].native => ask[n].prev # 0)
  BY DEF IInv, Places, Place
<1>2. local[n].input \in Seq(Piece)
  BY <1>1, Fields
<1>3. ASSUME local[n].native PROVE Remembered(n) \in Seq(Piece)
  <2>1. ask[n].prev \in Turns
    BY <1>1, <1>3, Fields, StoreAssumption DEF Turns
  <2>2. context[ask[n].prev] \in Seq(Piece) /\ <<>> \in Seq(Piece)
    BY <1>1, <2>1, Same
  <2>3. Remembered(n) = context[ask[n].prev] \/ Remembered(n) = <<>>
    BY DEF Remembered
  <2> QED BY <2>2, <2>3
<1>4. sent \in Seq(Piece)
  BY <1>2, <1>3, ConcatProperties
<1>5. pc[n] = "call" /\ Answers(n, sent)
  BY DEF UpstreamAnswers
<1> HIDE DEF sent
<1> QED BY <1>4, <1>5, AnswersPreserve

LEMMA HandleMissingPreserves ==
  ASSUME IInv, NEW n \in Turns, HandleMissing(n)
  PROVE  IInv'
<1>1. /\ pc[n] = "call" /\ pc' = Set(pc, n, "retry")
      /\ UNCHANGED <<store, now, faults, janitor, ask, local, outcome, upstream, history>>
  BY DEF HandleMissing, Goto
<1>2. local[n] \in Local /\ local' = Set(local, n, local[n])
  BY <1>1, Same DEF IInv
<1>3. /\ local[n].target # None
      /\ local[n].native => ask[n].prev # 0
      /\ local[n].cursor.kind = "response" => local[n].cursor.of # 0
  BY <1>1 DEF IInv, Places, Place
<1> QED BY <1>1, <1>2, <1>3, LocalStep DEF PlaceNames, Later, Storing, Loading

LEMMA RetryAnswersPreserves ==
  ASSUME IInv, NEW n \in Turns, RetryAnswers(n)
  PROVE  IInv'
<1> DEFINE sent == local[n].replay \o Renamed(local[n].input, local[n].mapped, "downstream")
<1>1. local[n].replay \in Seq(Piece) /\ local[n].input \in Seq(Piece)
  BY Fields DEF IInv
<1>2. sent \in Seq(Piece)
  BY <1>1, RenamedType, ConcatProperties
<1>3. pc[n] = "retry" /\ Answers(n, sent)
  BY DEF RetryAnswers
<1> HIDE DEF sent
<1> QED BY <1>2, <1>3, AnswersPreserve

LEMMA TargetFailsPreserves ==
  ASSUME IInv, NEW n \in Turns, TargetFails(n)
  PROVE  IInv'
<1> DEFINE l == [local[n] EXCEPT !.tried = @ \cup {local[n].target}, !.native = FALSE,
                                 !.target = None, !.input = <<>>]
<1>1. /\ local' = Set(local, n, l) /\ pc[n] \in {"call", "retry"} /\ pc' = Set(pc, n, "target")
      /\ UNCHANGED <<store, now, faults, janitor, ask, outcome, upstream, history>>
  BY DEF TargetFails, Set
<1>2. local[n] \in Local /\ local[n].target \in Targets /\ local[n].tried \in SUBSET Targets
  BY <1>1, Same, Fields DEF IInv, Places, Place
<1>3. <<>> \in Seq(Piece) /\ local[n].tried \cup {local[n].target} \in SUBSET Targets
  BY <1>2
<1>4. l \in Local /\ ~l.native /\ l.cursor = local[n].cursor
  BY <1>2, <1>3 DEF Local
<1>5. local[n].cursor.kind = "response" => local[n].cursor.of # 0
  BY DEF IInv, Places, Place
<1> HIDE DEF l
<1> QED BY <1>1, <1>4, <1>5, LocalStep DEF PlaceNames, Later, Storing, Loading

-----------------------------------------------------------------------------
(* persist_response_shell.                                                  *)

LEMMA ReturnFields ==
  ASSUME TypeOK, NEW n \in Turns, Return(n)
  PROVE  /\ pc' = Set(pc, n, "done") /\ local' = Set(local, n, NoLocal)
         /\ \E o \in Outcomes : outcome' = Set(outcome, n, o)
<1>1. outcome' = outcome \/ outcome' = Told(n, local[n].status)
  BY DEF Return
<1>2. outcome[n] \in Outcomes /\ outcome = Set(outcome, n, outcome[n])
  BY Same
<1>3. \E o \in Outcomes : outcome' = Set(outcome, n, o)
  BY <1>1, <1>2 DEF Told, Outcomes
<1> QED BY <1>3 DEF Return, Leave

LEMMA StoreRowPreserves ==
  ASSUME IInv, NEW n \in Turns, StoreRow(n)
  PROVE  IInv'
<1> DEFINE prev == IF local[n].native THEN Upstream(ask[n].prev) ELSE NoRef
           row == [status |-> local[n].status, prev |-> prev, at |-> now,
                   target |-> local[n].target]
<1>1. /\ pc[n] = "store" /\ pc' = Set(pc, n, "store_handle")
      /\ responses' = [responses EXCEPT ![n] = row] /\ written' = written \cup {n}
      /\ UNCHANGED <<items, handles, now, faults, janitor, ask, local, outcome, context, account, lost>>
  BY DEF StoreRow, InsertRow, upstream
<1>2. TypeOK /\ local[n].status # "none" /\ context[n] # <<>>
  BY <1>1 DEF IInv, Places, Place, Storing
<1>3. prev \in Ref /\ prev.kind # "response"
  BY <1>2, Fields, StoreAssumption DEF Upstream, NoRef, Ref
<1>4. now \in 0 .. MaxTime
  BY <1>2 DEF TypeOK, StoreTypeOK
<1> HIDE DEF prev
<1>5. /\ row \in Row /\ row.status # "absent" /\ row.prev = prev
  BY <1>2, <1>3, <1>4, Fields DEF Row
<1> HIDE DEF row
<1>6. TypeOK'
  <2>1. responses' \in [Turns -> Row] /\ pc' \in [Turns -> PlaceNames] /\ written' \in SUBSET Turns
    BY <1>1, <1>2, <1>5 DEF TypeOK, StoreTypeOK, Set, PlaceNames
  <2>2. StoreTypeOK' /\ JanitorTypeOK'
    BY <1>1, <1>2, <2>1 DEF TypeOK, StoreTypeOK, JanitorTypeOK, janitor
  <2> QED BY <1>1, <1>2, <2>1, <2>2 DEF TypeOK, PlaceNames
<1>7. /\ responses'[n] = row /\ pc'[n] = "store_handle"
      /\ \A m \in Turns \ {n} : responses'[m] = responses[m] /\ pc'[m] = pc[m]
  BY <1>1, <1>2 DEF TypeOK, StoreTypeOK, Set
<1>8. Places'
  <2>1. Place(n)'
    BY <1>1, <1>2, <1>3, <1>5, <1>7 DEF IInv, Places, Place, Loading
  <2> QED BY <1>1, <1>2, <1>7, <2>1, OthersStay DEF IInv
<1>9. n \notin written
  BY <1>1 DEF IInv, Rows, Later
<1>10. Rows'
  BY <1>1, <1>5, <1>7 DEF IInv, Rows, Stored, Later
<1>11. Doomed'
  BY <1>1, <1>7, <1>9, <1>2 DEF IInv, Doomed, Stored, janitor, TypeOK, JanitorTypeOK
<1> QED BY <1>6, <1>8, <1>10, <1>11 DEF IInv

LEMMA StoreRowFailsPreserves ==
  ASSUME IInv, NEW n \in Turns, StoreRowFails(n)
  PROVE  IInv'
<1>1. /\ Fault /\ Return(n) /\ lost' = lost \cup {n}
      /\ UNCHANGED <<store, now, janitor, ask, context, account, written>>
  BY DEF StoreRowFails, upstream
<1>2. TypeOK
  BY DEF IInv
<1>3. PICK o \in Outcomes : outcome' = Set(outcome, n, o)
  BY <1>1, <1>2, ReturnFields
<1>4. pc' = Set(pc, n, "done") /\ local' = Set(local, n, NoLocal)
  BY <1>1, <1>2, ReturnFields
<1>5. /\ ask[n] \in Asks /\ ask' = Set(ask, n, ask[n])
      /\ context[n] \in Seq(Piece) /\ context' = Set(context, n, context[n])
      /\ account[n] \in Account /\ account' = Set(account, n, account[n])
      /\ faults' \in 0 .. MaxFaults /\ lost' \in SUBSET Turns
  BY <1>1, <1>2, Same, Counted
<1>6. ~NoLocal.native /\ NoLocal.cursor.kind = "none"
  BY DEF NoLocal, NoRef
<1>7. /\ "done" \in PlaceNames /\ "done" \in Later
      /\ "done" \notin Loading \cup Storing \cup {"call", "retry"}
  BY DEF PlaceNames, Later, Loading, Storing
<1> QED BY <1>1, <1>3, <1>4, <1>5, <1>6, <1>7, NoLocalType, TurnStep

LEMMA StoreHandlePreserves ==
  ASSUME IInv, NEW n \in Turns, StoreHandle(n)
  PROVE  IInv'
<1>1. /\ pc[n] = "store_handle" /\ pc' = Set(pc, n, "store_input")
      /\ UNCHANGED faults \/ Fault
      /\ UNCHANGED <<responses, items, now, janitor, ask, local, outcome, context, account, written, lost>>
  BY DEF StoreHandle, Goto, upstream, history
<1>2. TypeOK
  BY DEF IInv
<1>3. /\ local[n] \in Local /\ local' = Set(local, n, local[n])
      /\ ask[n] \in Asks /\ ask' = Set(ask, n, ask[n])
      /\ outcome[n] \in Outcomes /\ outcome' = Set(outcome, n, outcome[n])
      /\ context[n] \in Seq(Piece) /\ context' = Set(context, n, context[n])
      /\ account[n] \in Account /\ account' = Set(account, n, account[n])
      /\ faults' \in 0 .. MaxFaults /\ lost' \in SUBSET Turns
  BY <1>1, <1>2, Same, Counted
<1>4. items' \in [Turns -> Items] /\ handles' \in [Turns -> Keys \cup {None}]
  <2>1. handles' = handles \/ handles' = [handles EXCEPT ![n] = local[n].key]
    BY DEF StoreHandle, InsertHandle
  <2>2. local[n].key \in Keys \cup {None}
    BY <1>2, Fields
  <2> QED BY <1>1, <1>2, <2>1, <2>2 DEF TypeOK, StoreTypeOK
<1>5. /\ local[n].native => ask[n].prev # 0
      /\ local[n].cursor.kind = "response" => local[n].cursor.of # 0
      /\ local[n].status # "none" /\ context[n] # <<>>
  BY <1>1 DEF IInv, Places, Place, Storing
<1>6. /\ "store_input" \in PlaceNames /\ "store_input" \in Later
      /\ "store_input" \notin Loading \cup {"call", "retry"}
  BY DEF PlaceNames, Later, Loading
<1> QED BY <1>1, <1>3, <1>4, <1>5, <1>6, TablesStep

\* Inserting items of a response keeps the table's type.
LEMMA InsertItemsType ==
  ASSUME TypeOK, NEW n \in Turns, NEW part \in {"input", "output"}, NEW s \in Seq(Piece),
         InsertItems(n, part, s)
  PROVE  items' \in [Turns -> Items]
<1>1. items \in [Turns -> Items]
  BY DEF TypeOK, StoreTypeOK
<1>2. items' = items \/ items' = [items EXCEPT ![n] = [items[n] EXCEPT ![part] = s]]
  BY DEF InsertItems
<1>3. [items[n] EXCEPT ![part] = s] \in Items
  BY <1>1 DEF Items
<1> QED BY <1>1, <1>2, <1>3

LEMMA StoreInputPreserves ==
  ASSUME IInv, NEW n \in Turns, StoreInput(n)
  PROVE  IInv'
<1>1. /\ pc[n] = "store_input" /\ pc' = Set(pc, n, "store_output")
      /\ UNCHANGED faults \/ Fault
      /\ lost' = lost \/ lost' = lost \cup {n}
      /\ UNCHANGED <<responses, handles, now, janitor, ask, local, outcome, context, account, written>>
  BY DEF StoreInput, Goto, upstream
<1>2. TypeOK
  BY DEF IInv
<1>3. /\ local[n] \in Local /\ local' = Set(local, n, local[n])
      /\ ask[n] \in Asks /\ ask' = Set(ask, n, ask[n])
      /\ outcome[n] \in Outcomes /\ outcome' = Set(outcome, n, outcome[n])
      /\ context[n] \in Seq(Piece) /\ context' = Set(context, n, context[n])
      /\ account[n] \in Account /\ account' = Set(account, n, account[n])
      /\ faults' \in 0 .. MaxFaults /\ lost' \in SUBSET Turns
  BY <1>1, <1>2, Same, Counted
<1>4. items' \in [Turns -> Items] /\ handles' \in [Turns -> Keys \cup {None}]
  <2>1. local[n].input \in Seq(Piece)
    BY <1>2, Fields
  <2>2. \/ InsertItems(n, "input", local[n].input)
        \/ \E k \in DOMAIN local[n].input : InsertItems(n, "input", RemoveAt(local[n].input, k))
    BY DEF StoreInput
  <2>3. items' \in [Turns -> Items]
    BY <1>2, <2>1, <2>2, RemoveAtType, InsertItemsType
  <2> QED BY <1>1, <1>2, <2>3 DEF TypeOK, StoreTypeOK
<1>5. /\ local[n].native => ask[n].prev # 0
      /\ local[n].cursor.kind = "response" => local[n].cursor.of # 0
      /\ local[n].status # "none" /\ context[n] # <<>>
  BY <1>1 DEF IInv, Places, Place, Storing
<1>6. /\ "store_output" \in PlaceNames /\ "store_output" \in Later
      /\ "store_output" \notin Loading \cup {"call", "retry"}
  BY DEF PlaceNames, Later, Loading
<1> QED BY <1>1, <1>3, <1>4, <1>5, <1>6, TablesStep

LEMMA StoreOutputPreserves ==
  ASSUME IInv, NEW n \in Turns, StoreOutput(n)
  PROVE  IInv'
<1> DEFINE answer == Last(context[n])
           piece == Answer(n, answer.kind, IF answer.kind = "call" THEN "downstream" ELSE "none")
<1>1. /\ pc[n] = "store_output" /\ Return(n)
      /\ UNCHANGED faults \/ Fault
      /\ lost' = lost \/ lost' = lost \cup {n}
      /\ UNCHANGED <<responses, handles, now, janitor, ask, context, account, written>>
      /\ InsertItems(n, "output", <<piece>>) \/ UNCHANGED items
  BY DEF StoreOutput, upstream
<1>2. TypeOK /\ context[n] # <<>>
  BY <1>1 DEF IInv, Places, Place, Storing
<1>3. PICK o \in Outcomes : outcome' = Set(outcome, n, o)
  BY <1>1, <1>2, ReturnFields
<1>4. pc' = Set(pc, n, "done") /\ local' = Set(local, n, NoLocal)
  BY <1>1, <1>2, ReturnFields
<1>5. /\ ask[n] \in Asks /\ ask' = Set(ask, n, ask[n])
      /\ context[n] \in Seq(Piece) /\ context' = Set(context, n, context[n])
      /\ account[n] \in Account /\ account' = Set(account, n, account[n])
      /\ faults' \in 0 .. MaxFaults /\ lost' \in SUBSET Turns
  BY <1>1, <1>2, Same, Counted
<1>6. items' \in [Turns -> Items] /\ handles' \in [Turns -> Keys \cup {None}]
  <2>1. answer \in Piece
    BY <1>2, <1>5 DEF Last
  <2>2. answer.kind \in {"message", "answer", "call", "result"}
    BY <2>1 DEF Piece
  <2> HIDE DEF answer
  <2>3. piece \in Piece
    BY <2>2, AnswerType
  <2> HIDE DEF piece
  <2>4. <<piece>> \in Seq(Piece)
    BY <2>3
  <2>5. items' \in [Turns -> Items]
    BY <1>1, <1>2, <2>4, InsertItemsType DEF TypeOK, StoreTypeOK
  <2> QED BY <1>1, <1>2, <2>5 DEF TypeOK, StoreTypeOK
<1>7. ~NoLocal.native /\ NoLocal.cursor.kind = "none"
  BY DEF NoLocal, NoRef
<1>8. /\ "done" \in PlaceNames /\ "done" \in Later
      /\ "done" \notin Loading \cup Storing \cup {"call", "retry"}
  BY DEF PlaceNames, Later, Loading, Storing
<1> HIDE DEF piece
<1> QED BY <1>1, <1>3, <1>4, <1>5, <1>6, <1>7, <1>8, NoLocalType, TablesStep

LEMMA TurnPreserves ==
  ASSUME IInv, NEW n \in Turns, Turn(n)
  PROVE  IInv'
<1>1. CASE LookUp(n) BY <1>1, LookUpPreserves
<1>2. CASE Walk(n) BY <1>2, WalkPreserves
<1>3. CASE ChainWalked(n) BY <1>3, ChainWalkedPreserves
<1>4. CASE ReadItems(n) BY <1>4, ReadItemsPreserves
<1>5. CASE ReadHandle(n) BY <1>5, ReadHandlePreserves
<1>6. CASE PickTarget(n) BY <1>6, PickTargetPreserves
<1>7. CASE \/ NotFound(n) \/ NotContinuable(n) \/ ChainBroken(n) \/ LoadFails(n)
           \/ UnknownResult(n) \/ Exhausted(n) \/ CallFails(n)
  BY <1>7, RefusalPreserves
<1>8. CASE UpstreamAnswers(n) BY <1>8, UpstreamAnswersPreserves
<1>9. CASE HandleMissing(n) BY <1>9, HandleMissingPreserves
<1>10. CASE RetryAnswers(n) BY <1>10, RetryAnswersPreserves
<1>11. CASE TargetFails(n) BY <1>11, TargetFailsPreserves
<1>12. CASE StoreRow(n) BY <1>12, StoreRowPreserves
<1>13. CASE StoreRowFails(n) BY <1>13, StoreRowFailsPreserves
<1>14. CASE StoreHandle(n) BY <1>14, StoreHandlePreserves
<1>15. CASE StoreInput(n) BY <1>15, StoreInputPreserves
<1>16. CASE StoreOutput(n) BY <1>16, StoreOutputPreserves
<1> QED BY <1>1, <1>2, <1>3, <1>4, <1>5, <1>6, <1>7, <1>8, <1>9, <1>10, <1>11, <1>12,
           <1>13, <1>14, <1>15, <1>16 DEF Turn

-----------------------------------------------------------------------------
(* The janitor, the clock and a crash.                                      *)

ChainTypes ==
  /\ pc \in [Turns -> PlaceNames] /\ ask \in [Turns -> Asks] /\ local \in [Turns -> Local]
  /\ outcome \in [Turns -> Outcomes] /\ context \in [Turns -> Seq(Piece)]
  /\ account \in [Turns -> Account]
  /\ written \in SUBSET Turns /\ lost \in SUBSET Turns

LEMMA TypeParts ==
  /\ TypeOK <=> StoreTypeOK /\ JanitorTypeOK /\ ChainTypes
  /\ TypeOK' <=> StoreTypeOK' /\ JanitorTypeOK' /\ ChainTypes'
BY DEF TypeOK, ChainTypes, PlaceNames, Outcomes, Account

LEMMA CleanPreserves ==
  ASSUME IInv, Clean, UNCHANGED chainVars
  PROVE  IInv'
<1>1. TypeOK /\ StoreTypeOK /\ JanitorTypeOK /\ ChainTypes
  BY TypeParts DEF IInv
<1>2. ChainTypes' /\ UNCHANGED <<pc, ask, local, context, written>>
  BY <1>1 DEF ChainTypes, chainVars, upstream, history
<1>3. NoRow \in Row /\ NoRow.prev.kind = "none" /\ NoRow.status = "absent" /\ NoRow.at = 0
  BY StoreAssumption DEF NoRow, Row, NoRef, Ref
<1>4. NoItems \in Items
  BY DEF NoItems, Items
<1>5. CASE SelectExpired
  <2>1. /\ cleaning' = "protect" /\ cutoff' = now /\ UNCHANGED <<responses, items, handles, now, faults>>
        /\ doomed' = {n \in Turns : Expired(n, now)}
    BY <1>5 DEF SelectExpired, Step, store
  <2>2. StoreTypeOK' /\ JanitorTypeOK'
    BY <1>1, <2>1 DEF StoreTypeOK, JanitorTypeOK
  <2>3. Places' /\ Rows'
    BY <1>2, <2>1 DEF IInv, Places, Place, Rows, Stored
  <2>4. Doomed'
    BY <1>2, <2>1, <1>1 DEF IInv, Doomed, Rows, Stored, Expired, StoreTypeOK
  <2> QED BY <1>2, <2>2, <2>3, <2>4, TypeParts DEF IInv
<1>6. CASE ProtectReferenced \/ ProtectFails
  <2>1. /\ cleaning' = "items" /\ UNCHANGED <<responses, items, handles, now, cutoff>>
        /\ doomed' \in SUBSET doomed /\ (UNCHANGED faults \/ Fault)
    BY <1>6 DEF ProtectReferenced, ProtectFails, Step, store
  <2>2. StoreTypeOK' /\ JanitorTypeOK'
    BY <1>1, <2>1, Counted DEF StoreTypeOK, JanitorTypeOK
  <2>3. Places' /\ Rows' /\ Doomed'
    BY <1>2, <2>1 DEF IInv, Places, Place, Rows, Doomed, Stored
  <2> QED BY <1>2, <2>2, <2>3, TypeParts DEF IInv
<1>7. CASE CleanItems \/ CleanHandles
  <2>1. /\ cleaning' \in {"handles", "rows"} /\ UNCHANGED <<responses, now, cutoff, doomed>>
        /\ items' = items \/ DeleteItems(doomed)
        /\ handles' = handles \/ DeleteHandles(doomed)
        /\ UNCHANGED faults \/ Fault
    BY <1>7 DEF CleanItems, CleanHandles, Step
  <2>2. items' \in [Turns -> Items] /\ handles' \in [Turns -> Keys \cup {None}]
    BY <1>1, <1>4, <2>1 DEF StoreTypeOK, DeleteItems, DeleteHandles
  <2>3. StoreTypeOK' /\ JanitorTypeOK'
    BY <1>1, <2>1, <2>2, Counted DEF StoreTypeOK, JanitorTypeOK
  <2>4. Places' /\ Rows' /\ Doomed'
    BY <1>2, <2>1 DEF IInv, Places, Place, Rows, Doomed, Stored
  <2> QED BY <1>2, <2>3, <2>4, TypeParts DEF IInv
<1>8. CASE CleanRows
  <2>1. /\ cleaning' = "idle" /\ cutoff' = 0 /\ doomed' = {} /\ now' = now
        /\ \/ DeleteRows(doomed)
           \/ UNCHANGED <<responses, items, handles>>
        /\ UNCHANGED faults \/ Fault
    BY <1>8 DEF CleanRows, Finish, store
  <2>2. /\ responses' \in [Turns -> Row] /\ items' \in [Turns -> Items]
        /\ handles' \in [Turns -> Keys \cup {None}]
    BY <1>1, <1>3, <1>4, <2>1 DEF StoreTypeOK, DeleteRows, DeleteItems, DeleteHandles
  <2>3. StoreTypeOK' /\ JanitorTypeOK'
    BY <1>1, <2>1, <2>2, Counted, StoreAssumption DEF StoreTypeOK, JanitorTypeOK
  <2>4. \A n \in Turns : responses'[n] = responses[n] \/ responses'[n] = NoRow
    BY <2>1 DEF DeleteRows
  <2>5. Places' /\ Rows'
    BY <1>2, <1>3, <2>4 DEF IInv, Places, Place, Rows, Stored
  <2>6. Doomed'
    BY <1>1, <2>1 DEF Doomed, StoreTypeOK
  <2> QED BY <1>2, <2>3, <2>5, <2>6, TypeParts DEF IInv
<1> QED BY <1>5, <1>6, <1>7, <1>8 DEF Clean

LEMMA TickPreserves ==
  ASSUME IInv, Tick, UNCHANGED <<janitor, chainVars>>
  PROVE  IInv'
<1>1. TypeOK /\ StoreTypeOK /\ JanitorTypeOK /\ ChainTypes
  BY TypeParts DEF IInv
<1>2. /\ now < MaxTime /\ now' = now + 1
      /\ UNCHANGED <<responses, items, handles, faults, cleaning, cutoff, doomed>>
      /\ UNCHANGED <<pc, ask, local, outcome, context, account, written, lost>>
  BY DEF Tick, store, janitor, chainVars, upstream, history
<1>3. StoreTypeOK' /\ JanitorTypeOK' /\ ChainTypes'
  BY <1>1, <1>2, StoreAssumption DEF StoreTypeOK, JanitorTypeOK, ChainTypes
<1>4. Places' /\ Rows'
  BY <1>2 DEF IInv, Places, Place, Rows, Stored
<1>5. Doomed'
  BY <1>1, <1>2, StoreAssumption DEF IInv, Doomed, Stored, StoreTypeOK, JanitorTypeOK
<1> QED BY <1>3, <1>4, <1>5, TypeParts DEF IInv

LEMMA CrashPreserves ==
  ASSUME IInv, Crash
  PROVE  IInv'
<1>1. TypeOK /\ StoreTypeOK /\ JanitorTypeOK /\ ChainTypes
  BY TypeParts DEF IInv
<1>2. /\ Fault /\ cleaning' = "idle" /\ cutoff' = 0 /\ doomed' = {}
      /\ pc' = [n \in Turns |-> IF pc[n] = "new" THEN "new" ELSE "done"]
      /\ local' = [n \in Turns |-> NoLocal]
      /\ lost' \in SUBSET (lost \cup Turns)
      /\ UNCHANGED <<responses, items, handles, now, ask, outcome, context, account, written>>
  BY DEF Crash, Finish, store, upstream
<1>3. StoreTypeOK' /\ JanitorTypeOK'
  BY <1>1, <1>2, Counted, StoreAssumption DEF StoreTypeOK, JanitorTypeOK
<1>4. ChainTypes'
  BY <1>1, <1>2, NoLocalType DEF ChainTypes, PlaceNames
<1>5. ~NoLocal.native /\ NoLocal.cursor.kind = "none"
  BY DEF NoLocal, NoRef
<1>6. Places'
  BY <1>2, <1>5 DEF IInv, Places, Place, Loading, Storing
<1>7. Rows'
  BY <1>2 DEF IInv, Rows, Stored, Later
<1>8. Doomed'
  BY <1>1, <1>2 DEF Doomed, StoreTypeOK
<1> QED BY <1>3, <1>4, <1>6, <1>7, <1>8, TypeParts DEF IInv

-----------------------------------------------------------------------------
(* The theorems.                                                            *)

LEMMA Initially == Init => IInv
<1> SUFFICES ASSUME Init PROVE IInv
  OBVIOUS
<1>1. NoRow \in Row /\ NoRow.prev.kind = "none" /\ NoRow.status = "absent" /\ NoRow.at = 0
  BY StoreAssumption DEF NoRow, Row, NoRef, Ref
<1>2. NoItems \in Items
  BY DEF NoItems, Items
<1>3. NoAsk \in Asks
  BY StoreAssumption DEF NoAsk, Asks
<1>4. StoreTypeOK /\ JanitorTypeOK
  BY <1>1, <1>2, StoreAssumption DEF Init, StoreInit, JanitorInit, StoreTypeOK, JanitorTypeOK
<1>5. ChainTypes
  BY <1>3, NoLocalType DEF Init, ChainTypes, PlaceNames, Outcomes, Account
<1>6. ~NoLocal.native /\ NoLocal.cursor.kind = "none"
  BY DEF NoLocal, NoRef
<1>7. Places
  BY <1>1, <1>6 DEF Init, StoreInit, Places, Place, Loading, Storing
<1>8. Rows /\ Doomed
  BY <1>1, StoreAssumption DEF Init, StoreInit, JanitorInit, Rows, Doomed, Stored, Later
<1> QED BY <1>4, <1>5, <1>7, <1>8, TypeParts DEF IInv

LEMMA NextPreserves == IInv /\ [Next]_vars => IInv'
<1> SUFFICES ASSUME IInv, [Next]_vars PROVE IInv'
  OBVIOUS
<1>1. CASE \E n \in Turns : Ask(n) \/ Turn(n)
  BY <1>1, AskPreserves, TurnPreserves
<1>2. CASE Clean /\ UNCHANGED chainVars
  BY <1>2, CleanPreserves
<1>3. CASE Tick /\ UNCHANGED <<janitor, chainVars>>
  BY <1>3, TickPreserves
<1>4. CASE Crash
  BY <1>4, CrashPreserves
<1>5. CASE UNCHANGED vars
  <2>1. /\ UNCHANGED <<responses, items, handles, now, faults, cleaning, cutoff, doomed>>
        /\ UNCHANGED <<pc, ask, local, outcome, context, account, written, lost>>
    BY <1>5 DEF vars, store, janitor, upstream, history
  <2>2. StoreTypeOK' /\ JanitorTypeOK' /\ ChainTypes'
    BY <2>1, TypeParts DEF IInv, StoreTypeOK, JanitorTypeOK, ChainTypes
  <2>3. Places' /\ Rows' /\ Doomed'
    BY <2>1 DEF IInv, Places, Place, Rows, Doomed, Stored
  <2> QED BY <2>2, <2>3, TypeParts DEF IInv
<1> QED BY <1>1, <1>2, <1>3, <1>4, <1>5 DEF Next

\* What the places of the turns and the janitor know of the tables, in every reachable
\* state (load_continuation_context, persist_response_shell, run_cleanup).
THEOREM Invariant == Spec => []IInv
BY Initially, NextPreserves, PTL DEF Spec

\* Every variable of the chain, the tables and the janitor keeps its type, in every
\* order of requests, cleanups and faults.
THEOREM TypeCorrect == Spec => []TypeOK
<1>1. IInv => TypeOK
  BY DEF IInv
<1> QED BY <1>1, Invariant, PTL

-----------------------------------------------------------------------------
(* ResponseLifetime is implemented.                                         *)

phase == [n \in Turns |-> IF Stored(n) THEN "kept"
                          ELSE IF n \in written THEN "forgotten" ELSE "unborn"]
born == [n \in Turns |-> responses[n].at]

\* Only the insert of a row and the janitor's last delete touch the rows.
LEMMA RowsUntouched ==
  ASSUME \/ \E n \in Turns : Ask(n) \/ (Turn(n) /\ ~StoreRow(n))
         \/ Clean /\ UNCHANGED chainVars /\ ~DeleteRows(doomed)
         \/ Crash
         \/ UNCHANGED vars
  PROVE  UNCHANGED <<responses, written, now>>
<1>1. ASSUME NEW n \in Turns, NEW kind, Refuse(n, kind) PROVE UNCHANGED <<responses, written, now>>
  BY <1>1 DEF Refuse, store, history
<1>2. ASSUME NEW n \in Turns, NEW sent, Answers(n, sent) PROVE UNCHANGED <<responses, written, now>>
  BY <1>2 DEF Answers, store, history
<1>3. ASSUME NEW n \in Turns, Ask(n) PROVE UNCHANGED <<responses, written, now>>
  BY <1>3 DEF Ask, store, history
<1>4. ASSUME NEW n \in Turns, Turn(n), ~StoreRow(n) PROVE UNCHANGED <<responses, written, now>>
  <2>1. CASE \/ LookUp(n) \/ Walk(n) \/ ChainWalked(n) \/ ReadItems(n) \/ ReadHandle(n)
             \/ PickTarget(n) \/ HandleMissing(n) \/ TargetFails(n)
    BY <2>1 DEF LookUp, Walk, ChainWalked, ReadItems, ReadHandle, PickTarget, HandleMissing,
                TargetFails, store, history
  <2>2. CASE \/ NotFound(n) \/ NotContinuable(n) \/ ChainBroken(n) \/ LoadFails(n)
             \/ UnknownResult(n) \/ Exhausted(n) \/ CallFails(n)
    BY <1>1, <2>2 DEF NotFound, NotContinuable, ChainBroken, LoadFails, UnknownResult,
                      Exhausted, CallFails
  <2>3. CASE UpstreamAnswers(n) \/ RetryAnswers(n)
    BY <1>2, <2>3 DEF UpstreamAnswers, RetryAnswers
  <2>4. CASE StoreRowFails(n) \/ StoreHandle(n) \/ StoreInput(n) \/ StoreOutput(n)
    BY <2>4 DEF StoreRowFails, StoreHandle, StoreInput, StoreOutput, store, history
  <2> QED BY <1>4, <2>1, <2>2, <2>3, <2>4 DEF Turn
<1>5. ASSUME Clean, UNCHANGED chainVars, ~DeleteRows(doomed)
      PROVE  UNCHANGED <<responses, written, now>>
  BY <1>5 DEF Clean, SelectExpired, ProtectReferenced, ProtectFails, CleanItems, CleanHandles,
              CleanRows, chainVars, store, history
<1>6. ASSUME Crash PROVE UNCHANGED <<responses, written, now>>
  BY <1>6 DEF Crash, store
<1>7. ASSUME UNCHANGED vars PROVE UNCHANGED <<responses, written, now>>
  BY <1>7 DEF vars, store, history
<1> QED BY <1>3, <1>4, <1>5, <1>6, <1>7

LEMMA StoreRowKeeps ==
  ASSUME IInv, NEW n \in Turns, StoreRow(n)
  PROVE  Lifetime!Keep(n)
<1>1. /\ pc[n] = "store" /\ written' = written \cup {n} /\ now' = now
      /\ responses' = [responses EXCEPT ![n] =
           [status |-> local[n].status, at |-> now, target |-> local[n].target,
            prev |-> IF local[n].native THEN Upstream(ask[n].prev) ELSE NoRef]]
  BY DEF StoreRow, InsertRow
<1>2. responses \in [Turns -> Row]
  BY DEF IInv, TypeOK, StoreTypeOK
<1>3. local[n].status # "absent" /\ n \notin written /\ ~Stored(n)
  BY <1>1, Fields DEF IInv, Rows, Later
<1>4. /\ responses'[n].at = now /\ Stored(n)'
      /\ \A m \in Turns \ {n} : responses'[m] = responses[m] /\ (Stored(m)' <=> Stored(m))
  BY <1>1, <1>2, <1>3 DEF Stored
<1>5. phase[n] = "unborn"
  BY <1>3 DEF phase
<1>6. phase' = [phase EXCEPT ![n] = "kept"]
  BY <1>1, <1>4 DEF phase
<1>7. born' = [born EXCEPT ![n] = now]
  BY <1>4 DEF born
<1> QED BY <1>1, <1>5, <1>6, <1>7 DEF Lifetime!Keep, phase, born

\* What is deleted had expired: it had when the janitor looked, and its row has not
\* changed since.
LEMMA CleanForgets ==
  ASSUME IInv, DeleteRows(doomed), UNCHANGED <<written, now>>
  PROVE  \E S \in SUBSET Turns : Lifetime!Forget(S)
<1>1. /\ responses \in [Turns -> Row] /\ doomed \in SUBSET Turns /\ now \in 0 .. MaxTime
      /\ cutoff \in 0 .. MaxTime
  BY DEF IInv, TypeOK, StoreTypeOK, JanitorTypeOK
<1> PICK S \in SUBSET Turns : S = {n \in doomed : Stored(n)}
  BY <1>1
<1>2. NoRow.status = "absent" /\ NoRow.at = 0
  BY DEF NoRow
<1>3. \A n \in Turns : responses'[n] = IF n \in doomed THEN NoRow ELSE responses[n]
  BY DEF DeleteRows
<1>4. \A n \in S : phase[n] = "kept" /\ born[n] + Ttl < now
  <2>1. \A n \in S : responses[n].at \in 0 .. MaxTime
    BY <1>1 DEF Row
  <2>2. \A n \in S : responses[n].at + Ttl < cutoff /\ cutoff <= now
    BY DEF IInv, Doomed
  <2>3. \A n \in S : responses[n].at + Ttl < now
    BY <1>1, <2>1, <2>2, JanitorAssumption, StoreAssumption
  <2> QED BY <1>1, <2>3 DEF phase, born
<1>5. phase' = [n \in Turns |-> IF n \in S THEN "forgotten" ELSE phase[n]]
  <2>1. \A n \in S : n \in written /\ ~Stored(n)'
    BY <1>1, <1>2, <1>3 DEF IInv, Doomed, Stored
  <2>2. \A n \in Turns \ S : Stored(n)' <=> Stored(n)
    BY <1>2, <1>3 DEF Stored
  <2> QED BY <2>1, <2>2 DEF phase
<1>6. born' = [n \in Turns |-> IF n \in S THEN 0 ELSE born[n]]
  <2>1. \A n \in S : responses'[n].at = 0
    BY <1>1, <1>2, <1>3
  <2>2. \A n \in Turns \ S : responses'[n].at = responses[n].at
    BY <1>2, <1>3 DEF IInv, Rows
  <2> QED BY <2>1, <2>2 DEF born
<1>7. now' = now
  OBVIOUS
<1>8. Lifetime!Forget(S)
  BY <1>4, <1>5, <1>6, <1>7, Zenon DEF Lifetime!Forget, phase, born
<1> QED BY <1>8

LEMMA NextLives ==
  ASSUME IInv, [Next]_vars
  PROVE  [Lifetime!Next]_<<phase, born, now>>
<1>1. CASE \E n \in Turns : StoreRow(n)
  BY <1>1, StoreRowKeeps DEF Lifetime!Next
<1>2. CASE Clean /\ UNCHANGED chainVars /\ DeleteRows(doomed)
  <2>1. UNCHANGED <<written, now>>
    BY <1>2 DEF Clean, SelectExpired, ProtectReferenced, ProtectFails, CleanItems,
                CleanHandles, CleanRows, chainVars, history
  <2> QED BY <1>2, <2>1, CleanForgets DEF Lifetime!Next
<1>3. CASE Tick /\ UNCHANGED <<janitor, chainVars>>
  <2>1. now' = now + 1 /\ UNCHANGED <<responses, written>>
    BY <1>3 DEF Tick, store, chainVars, history
  <2>2. UNCHANGED <<phase, born>>
    BY <2>1 DEF phase, born, Stored
  <2>3. Lifetime!Pass
    BY <2>1, <2>2 DEF Lifetime!Pass, phase, born
  <2> QED BY <2>3 DEF Lifetime!Next
<1>4. CASE \/ \E n \in Turns : Ask(n) \/ (Turn(n) /\ ~StoreRow(n))
           \/ Clean /\ UNCHANGED chainVars /\ ~DeleteRows(doomed)
           \/ Crash
           \/ UNCHANGED vars
  BY <1>4, RowsUntouched DEF phase, born, Stored
<1> QED BY <1>1, <1>2, <1>3, <1>4 DEF Next

\* To each response, requests and janitor together do what ResponseLifetime says: it is
\* kept once, only forgotten after it has expired, and does not come back, whatever
\* statement fails and wherever the process stops (insert_response, run_cleanup).
THEOREM LifetimeKept == Spec => KeptThenForgotten
<1>1. Init => Lifetime!Init
  <2> SUFFICES ASSUME Init PROVE Lifetime!Init
    OBVIOUS
  <2>1. \A n \in Turns : responses[n].status = "absent" /\ responses[n].at = 0
    BY DEF Init, StoreInit, NoRow
  <2> QED BY <2>1 DEF Init, StoreInit, Stored, Lifetime!Init
<1>2. IInv /\ [Next]_vars => [Lifetime!Next]_<<phase, born, now>>
  BY NextLives
<1> QED BY <1>1, <1>2, Invariant, PTL DEF Spec, KeptThenForgotten, Lifetime!Spec, phase, born

-----------------------------------------------------------------------------
(* What a continued response was made from: the whole of the conversation,  *)
(* with the ids its tool calls have there.                                  *)

(* The inductive invariant.  Its first half says what a turn, its row and   *)
(* its items know of the turn's own answer; its second half, what a turn    *)
(* knows of the one it continues.                                           *)

Calling == {"target", "call", "retry"}
Inserting == {"store_handle", "store_input", "store_output"}

Answered(n) == context[n] # <<>>
Gone(n) == now > responses[n].at + Ttl

\* The output item of an answer, and all that a replay of it should read.
Output(n) ==
  LET kind == Last(context[n]).kind
  IN <<Answer(n, kind, IF kind = "call" THEN "downstream" ELSE "none")>>
Restored(n) == Front(context[n]) \o Output(n)

\* A conversation as an upstream should see it: results follow their calls, and
\* only calls and results carry a call id.
Sound(s) ==
  /\ Matched(s)
  /\ \A k \in DOMAIN s : s[k].kind \in {"message", "answer"} => s[k].call = 0

\* All the calls of s carry ModelWire's ids.
Down(s) == \A k \in DOMAIN s : s[k].kind = "call" => s[k].id = "downstream"

\* The answer was, or will be, stored as made without a handle.
Replayed(n) ==
  \/ pc[n] \in Storing /\ ~local[n].native
  \/ Stored(n) /\ responses[n].prev = NoRef

OwnPhase(n) ==
  /\ pc[n] = "new" => ask[n] = NoAsk
  /\ pc[n] = "retry" => local[n].native
  /\ Answered(n) => pc[n] \in Storing \cup {"done"}
  /\ outcome[n] \in {"answered", "failed"} => Answered(n)
  /\ outcome[n] \in {"state_not_found", "tool_mapping_failed"} => pc[n] = "done"
  /\ pc[n] \in Inserting => n \in written
  /\ pc[n] = "done" /\ Answered(n) => n \in written \cup lost
  /\ n \in written => Answered(n)

OwnAnswer(n) ==
  /\ Answered(n) => \E kind \in {"answer", "call"} :
       Last(context[n]) = Answer(n, kind, IF kind = "call" THEN "upstream" ELSE "none")
  /\ pc[n] \in Storing =>
       /\ account[n] = [target |-> local[n].target, key |-> local[n].key]
       /\ ~local[n].native => local[n].input = Front(context[n])
  /\ pc[n] \in Inserting /\ Stored(n) =>
       (responses[n].prev = NoRef <=> ~local[n].native)

OwnRow(n) ==
  /\ ~Stored(n) => responses[n] = NoRow /\ items[n] = NoItems /\ handles[n] = None
  /\ n \in written /\ ~Stored(n) => now > Ttl
  /\ Stored(n) => responses[n].target = account[n].target
  /\ handles[n] \in {None, account[n].key}

OwnItems(n) ==
  /\ items[n].output # <<>> => Answered(n) /\ items[n].output = Output(n)
  /\ Stored(n) /\ responses[n].prev = NoRef /\ n \notin lost =>
       /\ items[n].input \in {<<>>, Front(context[n])}
       /\ pc[n] \in {"store_output", "done"} => Gone(n) \/ items[n].input = Front(context[n])
       /\ pc[n] = "done" => Gone(n) \/ items[n].output = Output(n)

Own(n) == OwnPhase(n) /\ OwnAnswer(n) /\ OwnRow(n) /\ OwnItems(n)
OwnAnswers == \A n \in Turns : Own(n)

\* In what follows, turn n continues the response of turn p, or none if p is 0.

\* What was read of the items of p: all, or less if they were not written yet or
\* deleted, but never others.
Read(n, p) ==
  \E y \in {<<>>, Output(p)} :
    /\ local[n].mapped = Mapped(y)
    /\ p \notin lost => \E x \in {<<>>, Front(context[p])} : local[n].replay = x \o y

\* p was answered without a handle, so that its items hold the whole conversation,
\* whose calls carry ModelWire's ids.
CallsDown(p) == Intact(p) => Down(Front(context[p]))
Replayable(p) == responses[p].prev = NoRef /\ CallsDown(p)

Asked(n, p) ==
  /\ p # 0 => p # n /\ Answered(p) /\ (ask[n].early \/ pc[p] = "done")
  /\ pc[n] \in Loading \cup Calling => \E i \in Piece :
       /\ local[n].given = <<i>>
       /\ i = Message(n) \/ \E c \in Seen(p) : i = Result(n, c, "downstream")
  /\ pc[n] \in Calling \cup {"walk", "items"} /\ p # 0 =>
       p \in written /\ local[n].previous = account[p].target

Loads(n, p) ==
  LET first == local[n].cursor = Response(p) /\ local[n].chain = <<>> IN
  /\ pc[n] \in {"lookup", "walk"} => local[n].replay = <<>> /\ local[n].mapped = {}
  /\ pc[n] = "lookup" => first
  /\ pc[n] = "walk" =>
       \/ first
       \/ /\ local[n].chain = <<p>> /\ local[n].cursor.kind # "response"
          /\ local[n].cursor = NoRef => Replayable(p)
  /\ pc[n] = "items" =>
       /\ Replayable(p)
       /\ \/ local[n].chain = <<p>> /\ local[n].replay = <<>> /\ local[n].mapped = {}
          \/ /\ local[n].chain = <<>> /\ Read(n, p)
             /\ ask[n].early \/ p \in lost \/ Gone(p) \/ local[n].replay = Restored(p)

Calls(n, p) ==
  /\ pc[n] \in Calling =>
       /\ p = 0 => local[n].replay = <<>> /\ ~local[n].native /\ local[n].mapped = {}
       /\ p # 0 => /\ CallsDown(p) /\ local[n].handle \in {None, account[p].key}
                   /\ Read(n, p) /\ (Excused(n) \/ local[n].replay = Restored(p))
  /\ pc[n] \in {"call", "retry"} =>
       /\ KnownResults(n)
       /\ local[n].native => /\ CanSendHandle(n, local[n].target)
                             /\ local[n].input = Renamed(local[n].given, local[n].mapped, "upstream")
       /\ ~local[n].native => local[n].input = local[n].replay \o local[n].given

Ends(n) ==
  /\ Excused(n) \/ OnWholeHistory(n)
  /\ Answered(n) /\ Intact(n) =>
       Sound(context[n]) /\ (Replayed(n) => Down(Front(context[n])))
  /\ outcome[n] = "state_not_found" => Excused(n) \/ now > Ttl
  /\ outcome[n] = "tool_mapping_failed" => Excused(n) \/ ~Intact(n)

Reader(n, p) == Asked(n, p) /\ Loads(n, p) /\ Calls(n, p) /\ Ends(n)
History == \A n \in Turns, p \in 0 .. MaxTurns : ask[n].prev = p => Reader(n, p)

-----------------------------------------------------------------------------
(* Conversations.                                                           *)

LEMMA Appended ==
  ASSUME NEW s \in Seq(Piece), NEW e \in Piece
  PROVE  /\ Append(s, e) \in Seq(Piece) /\ Append(s, e) # <<>>
         /\ Len(Append(s, e)) = Len(s) + 1
         /\ \A k \in 1 .. Len(s) : Append(s, e)[k] = s[k]
         /\ Append(s, e)[Len(s) + 1] = e
         /\ Front(Append(s, e)) = s /\ Last(Append(s, e)) = e
<1> DEFINE t == Append(s, e)
<1>1. /\ t \in Seq(Piece) /\ Len(t) = Len(s) + 1 /\ Len(s) \in Nat
      /\ \A k \in 1 .. Len(s) : t[k] = s[k]
      /\ t[Len(s) + 1] = e
  BY AppendProperties
<1> HIDE DEF t
<1>2. t # <<>> /\ Last(t) = e
  BY <1>1, EmptySeq DEF Last
<1>3. /\ Front(t) \in Seq(Piece) /\ Len(Front(t)) = Len(s)
      /\ \A k \in 1 .. Len(s) : Front(t)[k] = t[k]
  BY <1>1, SubSeqProperties DEF Front
<1>4. Front(t) = s
  BY <1>1, <1>3, SeqEqual
<1> QED BY <1>1, <1>2, <1>4 DEF t

LEMMA Parts ==
  ASSUME NEW s \in Seq(Piece), s # <<>>
  PROVE  /\ Front(s) \in Seq(Piece) /\ Last(s) \in Piece
         /\ Len(s) \in Nat /\ Len(s) > 0 /\ Len(Front(s)) = Len(s) - 1
         /\ \A k \in 1 .. Len(s) - 1 : Front(s)[k] = s[k]
         /\ Last(s) = s[Len(s)]
<1>1. Len(s) \in Nat /\ Len(s) > 0
  BY EmptySeq
<1>2. /\ Front(s) \in Seq(Piece) /\ Len(Front(s)) = Len(s) - 1
      /\ \A k \in 1 .. Len(s) - 1 : Front(s)[k] = s[k]
  <2> DEFINE m == Len(s) - 1
  <2>1. m \in Int /\ 1 \in Int /\ m >= 0 /\ m - 1 + 1 = m /\ \A k \in 1 .. m : s[k] \in Piece
    BY <1>1
  <2>2. Front(s) = SubSeq(s, 1, m)
    BY DEF Front
  <2> HIDE DEF m
  <2>3. /\ SubSeq(s, 1, m) \in Seq(Piece)
        /\ Len(SubSeq(s, 1, m)) = IF 1 <= m THEN m - 1 + 1 ELSE 0
        /\ \A k \in 1 .. m - 1 + 1 : SubSeq(s, 1, m)[k] = s[1 + k - 1]
    BY <2>1, SubSeqProperties
  <2>4. Len(SubSeq(s, 1, m)) = m /\ \A k \in 1 .. m : SubSeq(s, 1, m)[k] = s[k]
    BY <2>1, <2>3
  <2> QED BY <2>2, <2>3, <2>4 DEF m
<1>3. Last(s) \in Piece
  BY <1>1 DEF Last
<1> QED BY <1>1, <1>2, <1>3 DEF Last

LEMMA Joined ==
  ASSUME NEW s \in Seq(Piece), NEW t \in Seq(Piece)
  PROVE  /\ s \o t \in Seq(Piece) /\ Len(s \o t) = Len(s) + Len(t)
         /\ \A k \in 1 .. Len(s) : (s \o t)[k] = s[k]
         /\ \A k \in 1 .. Len(t) : (s \o t)[Len(s) + k] = t[k]
BY ConcatProperties

LEMMA Prefixed ==
  ASSUME NEW s \in Seq(Piece), NEW t \in Seq(Piece), Len(s) <= Len(t),
         \A k \in 1 .. Len(s) : s[k].turn = t[k].turn /\ s[k].kind = t[k].kind
  PROVE  IsPrefix(Shape(s), Shape(t))
<1> DEFINE P == Nat \X {"message", "answer", "call", "result"}
           f(r, k) == <<r[k].turn, r[k].kind>>
<1>1. ASSUME NEW r \in Seq(Piece)
      PROVE  /\ Shape(r) \in Seq(P) /\ Len(Shape(r)) = Len(r) /\ Len(r) \in Nat
             /\ \A k \in 1 .. Len(r) : Shape(r)[k] = f(r, k)
  <2>1. Len(r) \in Nat /\ DOMAIN r = 1 .. Len(r) /\ \A k \in 1 .. Len(r) : r[k] \in Piece
    BY LenProperties
  <2>2. \A k \in 1 .. Len(r) : f(r, k) \in P
    BY <2>1, StoreAssumption DEF Piece, Turns
  <2>3. Shape(r) = [k \in 1 .. Len(r) |-> f(r, k)]
    BY <2>1 DEF Shape
  <2> HIDE DEF f, P
  <2>4. [k \in 1 .. Len(r) |-> f(r, k)] \in Seq(P)
    BY <2>1, <2>2, IsASeq
  <2>5. Shape(r) \in Seq(P)
    BY <2>3, <2>4
  <2>6. Len(Shape(r)) = Len(r)
    BY <2>1, <2>3, <2>5, LenProperties
  <2> QED BY <2>1, <2>3, <2>5, <2>6
<1>2. /\ Shape(s) \in Seq(P) /\ Len(Shape(s)) = Len(s) /\ Len(s) \in Nat
      /\ Shape(t) \in Seq(P) /\ Len(Shape(t)) = Len(t) /\ Len(t) \in Nat
      /\ \A k \in 1 .. Len(s) : Shape(s)[k] = f(s, k)
      /\ \A k \in 1 .. Len(t) : Shape(t)[k] = f(t, k)
  BY <1>1
<1>3. \A k \in 1 .. Len(s) : k \in 1 .. Len(t) /\ f(s, k) = f(t, k)
  BY <1>2
<1> DEFINE a == Shape(s)
           b == Shape(t)
<1> HIDE DEF f, P
<1>4. \A k \in 1 .. Len(a) : a[k] = b[k] /\ a[k] \in P /\ b[k] \in P
  <2>1. \A k \in 1 .. Len(s) : Shape(s)[k] = Shape(t)[k]
    BY <1>2, <1>3
  <2>2. \A k \in 1 .. Len(s) : Shape(s)[k] \in P
    BY <1>2
  <2> QED BY <1>2, <2>1, <2>2
<1>5. Len(a) \in Nat /\ Len(a) <= Len(b)
  BY <1>2
<1> HIDE DEF a, b
<1>6. /\ SubSeq(a, 1, Len(a)) \in Seq(P) /\ Len(SubSeq(a, 1, Len(a))) = Len(a)
      /\ \A k \in 1 .. Len(a) : SubSeq(a, 1, Len(a))[k] = a[k]
  BY <1>4, <1>5, SubSeqProperties
<1>7. /\ SubSeq(b, 1, Len(a)) \in Seq(P) /\ Len(SubSeq(b, 1, Len(a))) = Len(a)
      /\ \A k \in 1 .. Len(a) : SubSeq(b, 1, Len(a))[k] = b[k]
  BY <1>4, <1>5, SubSeqProperties
<1>8. SubSeq(a, 1, Len(a)) = SubSeq(b, 1, Len(a))
  BY <1>4, <1>6, <1>7, SeqEqual
<1> QED BY <1>5, <1>8 DEF IsPrefix, a, b

LEMMA SoundAppend ==
  ASSUME NEW s \in Seq(Piece), NEW j \in Piece, Sound(s),
         j.kind \in {"message", "answer"} => j.call = 0,
         j.kind = "result" => \E k \in DOMAIN s :
           s[k].kind = "call" /\ s[k].call = j.call /\ s[k].id = j.id
  PROVE  Sound(Append(s, j))
<1> DEFINE t == Append(s, j)
<1>1. /\ t \in Seq(Piece) /\ Len(t) = Len(s) + 1 /\ t[Len(s) + 1] = j
      /\ \A k \in 1 .. Len(s) : t[k] = s[k]
  BY Appended
<1>2. Len(s) \in Nat /\ DOMAIN s = 1 .. Len(s)
  BY LenProperties
<1> HIDE DEF t
<1>3. DOMAIN t = 1 .. Len(s) + 1
  BY <1>1, LenProperties
<1>4. \A k \in DOMAIN t : k \in DOMAIN s \/ k = Len(s) + 1
  BY <1>2, <1>3
<1>5. Matched(t)
  <2> SUFFICES ASSUME NEW k \in DOMAIN t, t[k].kind = "result"
               PROVE  \E i \in 1 .. k - 1 :
                        t[i].kind = "call" /\ t[i].call = t[k].call /\ t[i].id = t[k].id
    BY DEF Matched
  <2>1. CASE k \in DOMAIN s
    <3>1. s[k].kind = "result" /\ t[k] = s[k]
      BY <1>1, <1>2, <2>1
    <3>2. PICK i \in 1 .. k - 1 :
            s[i].kind = "call" /\ s[i].call = s[k].call /\ s[i].id = s[k].id
      BY <2>1, <3>1 DEF Sound, Matched
    <3>3. i \in 1 .. Len(s)
      BY <1>2, <2>1
    <3>4. t[i] = s[i]
      BY <1>1, <3>3
    <3> QED BY <3>1, <3>2, <3>4
  <2>2. CASE k = Len(s) + 1
    <3>1. PICK i \in DOMAIN s : s[i].kind = "call" /\ s[i].call = j.call /\ s[i].id = j.id
      BY <1>1, <2>2
    <3>2. i \in 1 .. k - 1
      BY <1>2, <2>2
    <3>3. t[i] = s[i] /\ t[k] = j
      BY <1>1, <1>2, <2>2
    <3> QED BY <3>1, <3>2, <3>3
  <2> QED BY <1>4, <2>1, <2>2
<1>6. \A k \in DOMAIN t : t[k].kind \in {"message", "answer"} => t[k].call = 0
  BY <1>1, <1>2, <1>4 DEF Sound
<1> QED BY <1>5, <1>6 DEF Sound, t

LEMMA SoundFront ==
  ASSUME NEW s \in Seq(Piece), s # <<>>, Sound(s)
  PROVE  Sound(Front(s))
<1> DEFINE t == Front(s)
<1>1. /\ t \in Seq(Piece) /\ Len(s) \in Nat /\ Len(s) > 0 /\ Len(t) = Len(s) - 1
      /\ \A k \in 1 .. Len(s) - 1 : t[k] = s[k]
  BY Parts
<1> HIDE DEF t
<1>2. DOMAIN t = 1 .. Len(s) - 1 /\ DOMAIN s = 1 .. Len(s)
  BY <1>1, LenProperties
<1>3. Matched(t)
  <2> SUFFICES ASSUME NEW k \in DOMAIN t, t[k].kind = "result"
               PROVE  \E i \in 1 .. k - 1 :
                        t[i].kind = "call" /\ t[i].call = t[k].call /\ t[i].id = t[k].id
    BY DEF Matched
  <2>1. k \in DOMAIN s /\ t[k] = s[k]
    BY <1>1, <1>2
  <2>2. PICK i \in 1 .. k - 1 :
          s[i].kind = "call" /\ s[i].call = s[k].call /\ s[i].id = s[k].id
    BY <2>1 DEF Sound, Matched
  <2>3. i \in 1 .. Len(s) - 1
    BY <1>1, <1>2
  <2>4. t[i] = s[i]
    BY <1>1, <2>3
  <2> QED BY <2>1, <2>2, <2>4
<1>4. \A k \in DOMAIN t : t[k].kind \in {"message", "answer"} => t[k].call = 0
  BY <1>1, <1>2 DEF Sound
<1> QED BY <1>3, <1>4 DEF Sound, t

LEMMA DownAppend ==
  ASSUME NEW s \in Seq(Piece), NEW j \in Piece, Down(s), j.kind = "call" => j.id = "downstream"
  PROVE  Down(Append(s, j))
<1> DEFINE t == Append(s, j)
<1>1. /\ t \in Seq(Piece) /\ Len(t) = Len(s) + 1 /\ t[Len(s) + 1] = j
      /\ \A k \in 1 .. Len(s) : t[k] = s[k]
  BY Appended
<1>2. Len(s) \in Nat /\ DOMAIN s = 1 .. Len(s)
  BY LenProperties
<1> HIDE DEF t
<1>3. DOMAIN t = 1 .. Len(s) + 1
  BY <1>1, LenProperties
<1>4. \A k \in DOMAIN t : k \in DOMAIN s \/ k = Len(s) + 1
  BY <1>2, <1>3
<1>5. Down(t)
  BY <1>1, <1>2, <1>4 DEF Down
<1> QED BY <1>5 DEF t

LEMMA RenamedOne ==
  ASSUME NEW i \in Piece, NEW calls, NEW id
  PROVE  Renamed(<<i>>, calls, id) =
           <<IF i.kind = "result" /\ i.call \in calls THEN [i EXCEPT !.id = id] ELSE i>>
<1>1. DOMAIN <<i>> = {1} /\ <<i>>[1] = i
  OBVIOUS
<1> DEFINE j == IF i.kind = "result" /\ i.call \in calls THEN [i EXCEPT !.id = id] ELSE i
<1>2. Renamed(<<i>>, calls, id) = [k \in {1} |-> j]
  BY <1>1 DEF Renamed
<1> HIDE DEF j
<1>3. [k \in {1} |-> j] = <<j>>
  OBVIOUS
<1> QED BY <1>2, <1>3 DEF j

\* What an answer looks like in the conversation and in the items.
LEMMA Outputs ==
  ASSUME TypeOK, NEW n \in Turns, Answered(n), Own(n)
  PROVE  \E e \in Piece :
           /\ Output(n) = <<e>> /\ e.turn = n /\ e.kind \in {"answer", "call"}
           /\ Last(context[n]).turn = n /\ Last(context[n]).kind = e.kind
           /\ Last(context[n]).call = e.call
           /\ e.kind = "call" => /\ e.call = n /\ e.id = "downstream"
                                 /\ Last(context[n]).id = "upstream"
           /\ e.kind = "answer" => e.call = 0
           /\ Mapped(Output(n)) = {e.call} \ {0}
           /\ Restored(n) = Append(Front(context[n]), e)
<1> DEFINE answer == Last(context[n])
<1>1. PICK kind \in {"answer", "call"} :
        answer = Answer(n, kind, IF kind = "call" THEN "upstream" ELSE "none")
  BY DEF Own, OwnAnswer
<1> DEFINE e == Answer(n, kind, IF kind = "call" THEN "downstream" ELSE "none")
<1>2. /\ answer.turn = n /\ answer.kind = kind /\ answer.call = IF kind = "call" THEN n ELSE 0
      /\ kind = "call" => answer.id = "upstream"
  BY <1>1 DEF Answer
<1>3. Output(n) = <<e>>
  BY <1>2 DEF Output
<1>4. /\ e.turn = n /\ e.kind = kind /\ e.call = IF kind = "call" THEN n ELSE 0
      /\ kind = "call" => e.id = "downstream"
  BY DEF Answer
<1>5. e \in Piece
  BY AnswerType
<1>6. Front(context[n]) \in Seq(Piece)
  BY Parts DEF TypeOK, Answered
<1> HIDE DEF answer, e
<1>7. Front(context[n]) \o <<e>> = Append(Front(context[n]), e)
  BY <1>5, <1>6, AppendIsConcat
<1>8. Mapped(<<e>>) = {e.call} \ {0}
  <2>1. DOMAIN <<e>> = {1} /\ <<e>>[1] = e
    OBVIOUS
  <2> QED BY <2>1 DEF Mapped
<1> QED BY <1>2, <1>3, <1>4, <1>5, <1>7, <1>8 DEF Restored, answer

LEMMA NothingMapped == Mapped(<<>>) = {}
BY DEF Mapped

-----------------------------------------------------------------------------
(* Steps in general.                                                        *)

\* A step changes nothing of turn m.
Still(m) ==
  /\ pc'[m] = pc[m] /\ ask'[m] = ask[m] /\ local'[m] = local[m] /\ outcome'[m] = outcome[m]
  /\ context'[m] = context[m] /\ account'[m] = account[m]
  /\ responses'[m] = responses[m] /\ items'[m] = items[m] /\ handles'[m] = handles[m]
  /\ (m \in written' <=> m \in written) /\ (m \in lost' <=> m \in lost)

\* No other turn changes and no time passes.
Alone(n) == now' = now /\ \A m \in Turns \ {n} : Still(m)

LEMMA RefuseFields ==
  ASSUME NEW n \in Turns, TypeOK, NEW kind, Refuse(n, kind)
  PROVE  /\ pc'[n] = "done" /\ outcome'[n] = kind /\ local'[n] = NoLocal
         /\ \A m \in Turns \ {n} : pc'[m] = pc[m] /\ local'[m] = local[m] /\ outcome'[m] = outcome[m]
         /\ UNCHANGED <<responses, items, handles, now, ask, context, account, written, lost>>
BY DEF TypeOK, Refuse, Leave, Set, store, upstream, history

\* What the steps of a turn before its answer do, whatever they read.
LEMMA EarlyStep ==
  ASSUME IInv, NEW n \in Turns,
         \/ Ask(n) \/ LookUp(n) \/ NotFound(n) \/ NotContinuable(n)
         \/ Walk(n) \/ ChainWalked(n) \/ ChainBroken(n)
         \/ ReadItems(n) \/ ReadHandle(n) \/ LoadFails(n)
         \/ PickTarget(n) \/ UnknownResult(n) \/ Exhausted(n)
         \/ HandleMissing(n) \/ TargetFails(n) \/ CallFails(n)
  PROVE  /\ pc[n] \notin Storing \cup {"done"} /\ pc'[n] \notin Storing \cup {"new"}
         /\ outcome'[n] = outcome[n] \/ (pc'[n] = "done" /\ outcome'[n] \notin {"answered", "failed"})
         /\ pc'[n] = "retry" => local'[n].native
         /\ \A m \in Turns \ {n} : /\ pc'[m] = pc[m] /\ local'[m] = local[m]
                                   /\ outcome'[m] = outcome[m] /\ ask'[m] = ask[m]
         /\ ask'[n].prev = ask[n].prev \/ pc[n] = "new"
         /\ UNCHANGED <<responses, items, handles, now, context, account, written, lost>>
<1>1. TypeOK
  BY DEF IInv
<1>2. ASSUME NEW here \in PlaceNames \ (Storing \cup {"done"}), pc[n] = here,
             NEW kind \in Outcomes \ {"answered", "failed"}, Refuse(n, kind)
      PROVE  /\ pc[n] \notin Storing \cup {"done"} /\ pc'[n] = "done"
             /\ outcome'[n] \notin {"answered", "failed"}
             /\ \A m \in Turns \ {n} : /\ pc'[m] = pc[m] /\ local'[m] = local[m]
                                       /\ outcome'[m] = outcome[m] /\ ask'[m] = ask[m]
             /\ ask'[n].prev = ask[n].prev
             /\ UNCHANGED <<responses, items, handles, now, context, account, written, lost>>
  BY <1>1, <1>2, RefuseFields
<1>3. CASE NotFound(n) \/ NotContinuable(n) \/ ChainBroken(n) \/ LoadFails(n)
           \/ UnknownResult(n) \/ Exhausted(n) \/ CallFails(n)
  <2>1. /\ pc[n] \in {"lookup", "walk", "items", "target", "call", "retry"}
        /\ \E kind \in {"state_not_found", "state_not_continuable", "state_replay_failed",
                        "internal_error", "tool_mapping_failed", "upstream_unavailable",
                        "upstream_error"} : Refuse(n, kind)
    BY <1>3 DEF NotFound, NotContinuable, ChainBroken, LoadFails, UnknownResult, Exhausted, CallFails
  <2>2. PICK kind \in Outcomes \ {"answered", "failed"} : Refuse(n, kind)
    BY <2>1 DEF Outcomes
  <2>3. pc[n] \in PlaceNames \ (Storing \cup {"done"})
    BY <2>1 DEF PlaceNames, Storing
  <2>4. /\ pc[n] \notin Storing \cup {"done"} /\ pc'[n] = "done"
        /\ outcome'[n] \notin {"answered", "failed"}
        /\ \A m \in Turns \ {n} : /\ pc'[m] = pc[m] /\ local'[m] = local[m]
                                  /\ outcome'[m] = outcome[m] /\ ask'[m] = ask[m]
        /\ ask'[n].prev = ask[n].prev
        /\ UNCHANGED <<responses, items, handles, now, context, account, written, lost>>
    BY <1>2, <2>2, <2>3
  <2> QED BY <2>4 DEF Storing
<1>4. CASE Ask(n)
  <2>1. /\ pc[n] = "new"
        /\ pc' = Set(pc, n, "target") \/ pc' = Set(pc, n, "lookup")
        /\ \E a, l : ask' = Set(ask, n, a) /\ local' = Set(local, n, l)
        /\ UNCHANGED <<responses, items, handles, now, outcome, context, account, written, lost>>
    BY <1>4 DEF Ask, Goto, store, upstream, history
  <2> QED BY <1>1, <2>1 DEF TypeOK, Set, Storing
<1>5. CASE LookUp(n) \/ Walk(n) \/ ChainWalked(n) \/ ReadItems(n) \/ PickTarget(n)
  <2>1. /\ pc[n] \in {"lookup", "walk", "items", "target"}
        /\ pc' = pc \/ (\E place \in {"walk", "items", "call"} : pc' = Set(pc, n, place))
        /\ local' = local \/ (\E l : local' = Set(local, n, l))
        /\ UNCHANGED <<responses, items, handles, now, ask, outcome, context, account, written, lost>>
    <3>1. CASE LookUp(n)
      BY <3>1 DEF LookUp, Goto, Set, store, upstream, history
    <3>2. CASE Walk(n)
      BY <3>2 DEF Walk, Goto, Set, store, upstream, history
    <3>3. CASE ChainWalked(n)
      BY <3>3 DEF ChainWalked, Goto, Set, store, upstream, history
    <3>4. CASE ReadItems(n)
      BY <3>4 DEF ReadItems, Goto, Set, store, upstream, history
    <3>5. CASE PickTarget(n)
      BY <3>5 DEF PickTarget, Goto, Set, store, upstream, history
    <3> QED BY <1>5, <3>1, <3>2, <3>3, <3>4, <3>5
  <2> QED BY <1>1, <2>1 DEF TypeOK, Set, Storing
<1>6. CASE ReadHandle(n)
  <2>1. /\ pc[n] = "items" /\ pc' = Set(pc, n, "target")
        /\ local' = [local EXCEPT ![n].handle = handles[ask[n].prev]]
        /\ ask' = [ask EXCEPT ![n].late = now > responses[ask[n].prev].at + Ttl]
        /\ UNCHANGED <<responses, items, handles, now, outcome, context, account, written, lost>>
    BY <1>6 DEF ReadHandle, Goto, Set, store, upstream, history
  <2>2. ask[n] \in Asks
    BY <1>1 DEF TypeOK
  <2>3. ask'[n].prev = ask[n].prev
    BY <1>1, <2>1, <2>2 DEF TypeOK, Asks
  <2> QED BY <1>1, <2>1, <2>3 DEF TypeOK, Set, Storing
<1>7. CASE HandleMissing(n)
  <2>1. /\ pc[n] = "call" /\ pc' = Set(pc, n, "retry") /\ local[n].native
        /\ UNCHANGED <<responses, items, handles, now, ask, local, outcome, context, account, written, lost>>
    BY <1>7 DEF HandleMissing, Goto, Set, store, upstream, history
  <2> QED BY <1>1, <2>1 DEF TypeOK, Set, Storing
<1>8. CASE TargetFails(n)
  <2>1. /\ pc[n] \in {"call", "retry"} /\ pc' = Set(pc, n, "target")
        /\ \E l : local' = Set(local, n, l)
        /\ UNCHANGED <<responses, items, handles, now, ask, outcome, context, account, written, lost>>
    BY <1>8 DEF TargetFails, Goto, Set, store, upstream, history
  <2> QED BY <1>1, <2>1 DEF TypeOK, Set, Storing
<1> QED BY <1>3, <1>4, <1>5, <1>6, <1>7, <1>8

\* What an answer changes.
LEMMA AnswerFields ==
  ASSUME IInv, NEW n \in Turns, NEW sent, Answers(n, sent)
  PROVE  /\ pc'[n] = "store" /\ ask' = ask
         /\ \E kind \in {"answer", "call"} :
              context'[n] = Append(sent, Answer(n, kind,
                              IF kind = "call" THEN "upstream" ELSE "none"))
         /\ account'[n] = [target |-> local[n].target, key |-> local[n].key]
         /\ outcome'[n] \in {outcome[n], "answered", "failed"}
         /\ \A field \in {"key", "target", "native", "input"} : local'[n][field] = local[n][field]
         /\ \A m \in Turns \ {n} : Still(m)
         /\ UNCHANGED <<responses, items, handles, now, written, lost>>
<1>1. TypeOK
  BY DEF IInv
<1>2. PICK kind \in {"answer", "call"}, status \in {"completed", "failed"} :
        /\ context' = Set(context, n, Append(sent, Answer(n, kind,
                            IF kind = "call" THEN "upstream" ELSE "none")))
        /\ account' = Set(account, n, [target |-> local[n].target, key |-> local[n].key])
        /\ outcome' = IF local[n].stream THEN Told(n, status) ELSE outcome
        /\ pc' = Set(pc, n, "store")
        /\ local' = [local EXCEPT ![n].status = status]
        /\ UNCHANGED <<responses, items, handles, now, ask, written, lost>>
  BY DEF Answers, store, history
<1>3. local[n] \in Local /\ local'[n] = [local[n] EXCEPT !.status = status]
  BY <1>1, <1>2 DEF TypeOK
<1>4. \A field \in {"key", "target", "native", "input"} : local'[n][field] = local[n][field]
  BY <1>3 DEF Local
<1>5. outcome'[n] \in {outcome[n], "answered", "failed"} /\ \A m \in Turns \ {n} : outcome'[m] = outcome[m]
  BY <1>1, <1>2 DEF Told, Set, TypeOK
<1>6. /\ pc'[n] = "store" /\ account'[n] = [target |-> local[n].target, key |-> local[n].key]
      /\ context'[n] = Append(sent, Answer(n, kind, IF kind = "call" THEN "upstream" ELSE "none"))
      /\ \A m \in Turns \ {n} : /\ pc'[m] = pc[m] /\ context'[m] = context[m]
                                /\ account'[m] = account[m] /\ local'[m] = local[m]
  BY <1>1, <1>2 DEF Set, TypeOK
<1> QED BY <1>2, <1>4, <1>5, <1>6 DEF Still

\* The steps of persist_response_shell.
LEMMA StoreStep ==
  ASSUME IInv, NEW n \in Turns,
         StoreRow(n) \/ StoreRowFails(n) \/ StoreHandle(n) \/ StoreInput(n) \/ StoreOutput(n)
  PROVE  /\ pc[n] \in Storing /\ pc'[n] \in Inserting \cup {"done"}
         /\ UNCHANGED <<now, ask, context, account>>
         /\ pc'[n] # "done" => local'[n] = local[n]
         /\ outcome'[n] \in {outcome[n], "answered", "failed"}
         /\ \A m \in Turns \ {n} : Still(m)
         /\ written \subseteq written' /\ lost \subseteq lost'
<1>1. TypeOK
  BY DEF IInv
<1>2. ASSUME Return(n)
      PROVE  /\ pc'[n] = "done" /\ outcome'[n] \in {outcome[n], "answered", "failed"}
             /\ \A m \in Turns \ {n} : /\ pc'[m] = pc[m] /\ outcome'[m] = outcome[m]
                                       /\ local'[m] = local[m]
  BY <1>1, <1>2 DEF Return, Leave, Told, Set, TypeOK
<1>3. ASSUME NEW part, NEW s, InsertItems(n, part, s)
      PROVE  \A m \in Turns \ {n} : items'[m] = items[m]
  BY <1>1, <1>3 DEF InsertItems, TypeOK, StoreTypeOK
<1>4. CASE StoreRow(n)
  <2>1. /\ pc[n] = "store" /\ pc' = Set(pc, n, "store_handle") /\ written' = written \cup {n}
        /\ \E row : responses' = [responses EXCEPT ![n] = row]
        /\ UNCHANGED <<items, handles, now, ask, local, outcome, context, account, lost>>
    BY <1>4 DEF StoreRow, InsertRow, upstream
  <2> QED BY <1>1, <2>1 DEF Still, Set, TypeOK, StoreTypeOK, Storing, Inserting
<1>5. CASE StoreRowFails(n)
  <2>1. /\ pc[n] = "store" /\ Return(n) /\ lost' = lost \cup {n}
        /\ UNCHANGED <<responses, items, handles, now, ask, context, account, written>>
    BY <1>5 DEF StoreRowFails, store, upstream
  <2> QED BY <1>2, <2>1 DEF Still, Storing
<1>6. CASE StoreHandle(n)
  <2>1. /\ pc[n] = "store_handle" /\ pc' = Set(pc, n, "store_input")
        /\ \E h : handles' = handles \/ handles' = [handles EXCEPT ![n] = h]
        /\ UNCHANGED <<responses, items, now, ask, local, outcome, context, account, written, lost>>
    BY <1>6 DEF StoreHandle, InsertHandle, Goto, Set, upstream, history
  <2> QED BY <1>1, <2>1 DEF Still, Set, TypeOK, StoreTypeOK, Storing, Inserting
<1>7. CASE StoreInput(n)
  <2>1. /\ pc[n] = "store_input" /\ pc' = Set(pc, n, "store_output")
        /\ \E s : InsertItems(n, "input", s)
        /\ lost' = lost \/ lost' = lost \cup {n}
        /\ UNCHANGED <<responses, handles, now, ask, local, outcome, context, account, written>>
    BY <1>7 DEF StoreInput, Goto, Set, upstream
  <2>2. pc'[n] = "store_output" /\ \A m \in Turns \ {n} : pc'[m] = pc[m]
    BY <1>1, <2>1 DEF Set, TypeOK
  <2> QED BY <1>3, <2>1, <2>2 DEF Still, Storing, Inserting
<1>8. CASE StoreOutput(n)
  <2>1. /\ pc[n] = "store_output" /\ Return(n)
        /\ items' = items \/ \E s : InsertItems(n, "output", s)
        /\ lost' = lost \/ lost' = lost \cup {n}
        /\ UNCHANGED <<responses, handles, now, ask, context, account, written>>
    BY <1>8 DEF StoreOutput, upstream
  <2> QED BY <1>2, <1>3, <2>1 DEF Still, Storing
<1> QED BY <1>4, <1>5, <1>6, <1>7, <1>8

-----------------------------------------------------------------------------
(* What turns and their rows know of their own answers.                     *)

\* A turn nothing happens to: only time may pass.
LEMMA OwnStill ==
  ASSUME IInv, NEW n \in Turns, Own(n), Still(n), now' \in Nat, now <= now'
  PROVE  Own(n)'
<1>1. responses[n].at \in Nat /\ now \in Nat /\ Ttl \in Nat
  BY StoreAssumption, JanitorAssumption DEF IInv, TypeOK, StoreTypeOK, Row
<1>2. /\ Answered(n)' <=> Answered(n)
      /\ Stored(n)' <=> Stored(n)
      /\ Gone(n) => Gone(n)'
      /\ Output(n)' = Output(n)
  BY <1>1 DEF Still, Answered, Stored, Gone, Output
<1>3. OwnPhase(n)' /\ OwnAnswer(n)'
  BY <1>2 DEF Own, OwnPhase, OwnAnswer, Still
<1>4. OwnRow(n)'
  BY <1>1, <1>2 DEF Own, OwnRow, Still
<1>5. OwnItems(n)'
  BY <1>2 DEF Own, OwnItems, Still
<1> QED BY <1>3, <1>4, <1>5 DEF Own

\* A turn without an answer has no row.
LEMMA Unanswered ==
  ASSUME IInv, NEW n \in Turns, Own(n), pc[n] \notin Storing \cup {"done"}
  PROVE  /\ ~Answered(n) /\ n \notin written /\ ~Stored(n)
         /\ outcome[n] \notin {"answered", "failed", "state_not_found", "tool_mapping_failed"}
<1>1. ~Answered(n)
  BY DEF Own, OwnPhase
<1>2. n \notin written
  BY DEF IInv, Rows, Later, Storing
<1>3. ~Stored(n)
  BY <1>2 DEF IInv, Rows
<1> QED BY <1>1, <1>2, <1>3 DEF Own, OwnPhase

LEMMA EarlyOwn ==
  ASSUME IInv, NEW n \in Turns, Own(n),
         pc[n] \notin Storing \cup {"done"}, pc'[n] \notin Storing \cup {"new"},
         outcome'[n] = outcome[n] \/ (pc'[n] = "done" /\ outcome'[n] \notin {"answered", "failed"}),
         pc'[n] = "retry" => local'[n].native,
         UNCHANGED <<responses, items, handles, now, context, account, written, lost>>
  PROVE  Own(n)'
<1>1. /\ ~Answered(n) /\ n \notin written /\ ~Stored(n)
      /\ outcome[n] \notin {"answered", "failed", "state_not_found", "tool_mapping_failed"}
  BY Unanswered
<1>2. ~Answered(n)' /\ n \notin written' /\ ~Stored(n)'
  BY <1>1 DEF Answered, Stored
<1>3. OwnPhase(n)'
  BY <1>1, <1>2 DEF OwnPhase, Inserting, Storing
<1>4. OwnAnswer(n)'
  BY <1>2 DEF OwnAnswer
<1>5. OwnRow(n)'
  BY <1>1, <1>2 DEF Own, OwnRow
<1>6. OwnItems(n)'
  BY <1>1, <1>2 DEF Own, OwnItems
<1> QED BY <1>3, <1>4, <1>5, <1>6 DEF Own

LEMMA AnswersOwn ==
  ASSUME IInv, NEW n \in Turns, Own(n), NEW sent \in Seq(Piece),
         pc[n] \in {"call", "retry"}, Answers(n, sent),
         ~local[n].native => local[n].input = sent
  PROVE  Own(n)'
<1>1. /\ pc'[n] = "store" /\ ask' = ask
      /\ account'[n] = [target |-> local[n].target, key |-> local[n].key]
      /\ outcome'[n] \in {outcome[n], "answered", "failed"}
      /\ local'[n].native = local[n].native /\ local'[n].target = local[n].target
      /\ local'[n].key = local[n].key /\ local'[n].input = local[n].input
      /\ UNCHANGED <<responses, items, handles, now, written, lost>>
  BY AnswerFields
<1>2. PICK kind \in {"answer", "call"} :
        context'[n] = Append(sent, Answer(n, kind, IF kind = "call" THEN "upstream" ELSE "none"))
  BY AnswerFields
<1> DEFINE e == Answer(n, kind, IF kind = "call" THEN "upstream" ELSE "none")
<1>3. e \in Piece
  BY AnswerType
<1>4. e = Answer(n, kind, IF kind = "call" THEN "upstream" ELSE "none")
  OBVIOUS
<1> HIDE DEF e
<1>5. Append(sent, e) # <<>> /\ Front(Append(sent, e)) = sent /\ Last(Append(sent, e)) = e
  BY <1>3, Appended
<1>6. context'[n] # <<>> /\ Front(context'[n]) = sent /\ Last(context'[n]) = e
  BY <1>2, <1>4, <1>5
<1>7. /\ ~Answered(n) /\ n \notin written /\ ~Stored(n)
      /\ outcome[n] \notin {"answered", "failed", "state_not_found", "tool_mapping_failed"}
  BY Unanswered DEF Storing
<1>8. Answered(n)' /\ n \notin written' /\ ~Stored(n)'
  BY <1>1, <1>6, <1>7 DEF Answered, Stored
<1>9. OwnPhase(n)'
  BY <1>1, <1>7, <1>8 DEF OwnPhase, Inserting, Storing
<1>10. OwnAnswer(n)'
  BY <1>1, <1>4, <1>6, <1>8 DEF OwnAnswer, Inserting
<1>11. OwnRow(n)'
  BY <1>1, <1>7, <1>8 DEF Own, OwnRow
<1>12. OwnItems(n)'
  BY <1>1, <1>7, <1>8 DEF Own, OwnItems, OwnRow, NoItems
<1> QED BY <1>9, <1>10, <1>11, <1>12 DEF Own

\* What is stored in the step of a turn that ends it.
LEMMA ReturnLast ==
  ASSUME TypeOK, NEW n \in Turns, Return(n)
  PROVE  pc'[n] = "done" /\ outcome'[n] \in {outcome[n], "answered", "failed"}
BY DEF Return, Leave, Told, Set, TypeOK

LEMMA StoreRowOwn ==
  ASSUME IInv, NEW n \in Turns, Own(n), StoreRow(n)
  PROVE  Own(n)'
<1>1. TypeOK /\ Answered(n) /\ ~Stored(n) /\ n \notin written
  BY DEF IInv, StoreRow, Places, Place, Storing, Rows, Later, Answered
<1>2. /\ pc[n] = "store" /\ pc'[n] = "store_handle" /\ written' = written \cup {n}
      /\ responses'[n] = [status |-> local[n].status,
                          prev |-> IF local[n].native THEN Upstream(ask[n].prev) ELSE NoRef,
                          at |-> now, target |-> local[n].target]
      /\ UNCHANGED <<items, handles, now, ask, local, outcome, context, account, lost>>
  BY <1>1 DEF StoreRow, InsertRow, upstream, TypeOK, StoreTypeOK, Set
<1>3. local[n].status # "none"
  BY <1>2 DEF IInv, Places, Place, Storing
<1>4. local[n].status \in {"completed", "failed"}
  BY <1>1, <1>3, Fields
<1>5. Stored(n)' /\ (responses'[n].prev = NoRef <=> ~local[n].native)
  BY <1>2, <1>4 DEF Stored, Upstream, NoRef
<1>6. Answered(n)' /\ Output(n)' = Output(n)
  BY <1>1, <1>2 DEF Answered, Output
<1>7. OwnPhase(n)'
  BY <1>1, <1>2, <1>6 DEF Own, OwnPhase, Storing, Inserting
<1>8. account[n] = [target |-> local[n].target, key |-> local[n].key]
  BY <1>2 DEF Own, OwnAnswer, Storing
<1>9. OwnAnswer(n)'
  BY <1>1, <1>2, <1>5, <1>6, <1>8 DEF Own, OwnAnswer, Storing
<1>10. OwnRow(n)'
  BY <1>1, <1>2, <1>5, <1>8 DEF Own, OwnRow
<1>11. OwnItems(n)'
  BY <1>1, <1>2, <1>5, <1>6 DEF Own, OwnItems, OwnRow, NoItems
<1> QED BY <1>7, <1>9, <1>10, <1>11 DEF Own

LEMMA StoreRowFailsOwn ==
  ASSUME IInv, NEW n \in Turns, Own(n), StoreRowFails(n)
  PROVE  Own(n)'
<1>1. TypeOK /\ Answered(n) /\ ~Stored(n) /\ n \notin written
  BY DEF IInv, StoreRowFails, Places, Place, Storing, Rows, Later, Answered
<1>2. /\ pc[n] = "store" /\ pc'[n] = "done" /\ lost' = lost \cup {n}
      /\ outcome'[n] \in {outcome[n], "answered", "failed"}
      /\ UNCHANGED <<responses, items, handles, now, ask, context, account, written>>
  BY <1>1, ReturnLast DEF StoreRowFails, store, upstream
<1>3. Answered(n)' /\ ~Stored(n)' /\ Output(n)' = Output(n)
  BY <1>1, <1>2 DEF Answered, Stored, Output
<1>4. OwnPhase(n)'
  BY <1>1, <1>2, <1>3 DEF Own, OwnPhase, Storing, Inserting
<1>5. OwnAnswer(n)'
  BY <1>1, <1>2, <1>3 DEF Own, OwnAnswer, Storing, Inserting
<1>6. OwnRow(n)'
  BY <1>1, <1>2, <1>3 DEF Own, OwnRow
<1>7. OwnItems(n)'
  BY <1>1, <1>2, <1>3 DEF Own, OwnItems
<1> QED BY <1>4, <1>5, <1>6, <1>7 DEF Own

LEMMA StoreHandleOwn ==
  ASSUME IInv, NEW n \in Turns, Own(n), StoreHandle(n)
  PROVE  Own(n)'
<1>1. TypeOK /\ Answered(n)
  BY DEF IInv, StoreHandle, Goto, Places, Place, Storing, Answered
<1>2. /\ pc[n] = "store_handle" /\ pc'[n] = "store_input"
      /\ handles'[n] = handles[n] \/ (Stored(n) /\ handles'[n] = local[n].key)
      /\ UNCHANGED <<responses, items, now, ask, local, outcome, context, account, written, lost>>
  BY <1>1 DEF StoreHandle, InsertHandle, Goto, Set, upstream, history, TypeOK, StoreTypeOK
<1>3. /\ Answered(n)' /\ (Stored(n)' <=> Stored(n)) /\ Output(n)' = Output(n)
      /\ (Gone(n)' <=> Gone(n))
  BY <1>1, <1>2 DEF Answered, Stored, Output, Gone
<1>4. OwnPhase(n)'
  BY <1>1, <1>2, <1>3 DEF Own, OwnPhase, Storing, Inserting
<1>5. OwnAnswer(n)'
  BY <1>1, <1>2, <1>3 DEF Own, OwnAnswer, Storing, Inserting
<1>6. account[n].key = local[n].key
  BY <1>2 DEF Own, OwnAnswer, Storing
<1>7. OwnRow(n)'
  BY <1>1, <1>2, <1>3, <1>6 DEF Own, OwnRow
<1>8. OwnItems(n)'
  BY <1>1, <1>2, <1>3 DEF Own, OwnItems
<1> QED BY <1>4, <1>5, <1>7, <1>8 DEF Own

\* Inserting items of a response, or not.
LEMMA InsertedItems ==
  ASSUME TypeOK, NEW n \in Turns, NEW s
  PROVE  /\ InsertItems(n, "input", s) =>
              /\ ~Stored(n) => items' = items
              /\ Stored(n) => items'[n].input = s /\ items'[n].output = items[n].output
         /\ InsertItems(n, "output", s) =>
              /\ ~Stored(n) => items' = items
              /\ Stored(n) => items'[n].output = s /\ items'[n].input = items[n].input
<1>1. items[n] \in Items /\ items \in [Turns -> Items]
  BY DEF TypeOK, StoreTypeOK
<1>2. ASSUME NEW part \in {"input", "output"}, InsertItems(n, part, s), Stored(n)
      PROVE  items'[n] = [items[n] EXCEPT ![part] = s]
  BY <1>1, <1>2 DEF InsertItems
<1> QED BY <1>1, <1>2 DEF InsertItems, Items

LEMMA StoreInputOwn ==
  ASSUME IInv, NEW n \in Turns, Own(n), StoreInput(n)
  PROVE  Own(n)'
<1>1. TypeOK /\ Answered(n)
  BY DEF IInv, StoreInput, Goto, Places, Place, Storing, Answered
<1>2. /\ pc[n] = "store_input" /\ pc'[n] = "store_output"
      /\ UNCHANGED <<responses, handles, now, ask, local, outcome, context, account, written>>
  BY <1>1 DEF StoreInput, Goto, Set, upstream, TypeOK
<1>3. \/ InsertItems(n, "input", local[n].input) /\ lost' = lost
      \/ (\E s : InsertItems(n, "input", s)) /\ lost' = lost \cup {n}
  BY DEF StoreInput
<1>4. /\ ~Stored(n) => items' = items
      /\ Stored(n) => /\ items'[n].output = items[n].output
                      /\ n \notin lost' => items'[n].input = local[n].input
      /\ lost \subseteq lost'
  BY <1>1, <1>3, InsertedItems
<1>5. /\ Answered(n)' /\ (Stored(n)' <=> Stored(n)) /\ Output(n)' = Output(n)
      /\ (Gone(n)' <=> Gone(n))
  BY <1>1, <1>2 DEF Answered, Stored, Output, Gone
<1>6. OwnPhase(n)'
  BY <1>1, <1>2, <1>4, <1>5 DEF Own, OwnPhase, Storing, Inserting
<1>7. OwnAnswer(n)'
  BY <1>1, <1>2, <1>5 DEF Own, OwnAnswer, Storing, Inserting
<1>8. OwnRow(n)'
  BY <1>1, <1>2, <1>4, <1>5 DEF Own, OwnRow
<1>9. Stored(n) /\ responses[n].prev = NoRef => local[n].input = Front(context[n])
  BY <1>2 DEF Own, OwnAnswer, Storing, Inserting
<1>10. OwnItems(n)'
  BY <1>1, <1>2, <1>4, <1>5, <1>9 DEF Own, OwnItems
<1> QED BY <1>6, <1>7, <1>8, <1>10 DEF Own

LEMMA StoreOutputOwn ==
  ASSUME IInv, NEW n \in Turns, Own(n), StoreOutput(n)
  PROVE  Own(n)'
<1>1. TypeOK /\ Answered(n)
  BY DEF IInv, StoreOutput, Places, Place, Storing, Answered
<1>2. /\ pc[n] = "store_output" /\ pc'[n] = "done"
      /\ outcome'[n] \in {outcome[n], "answered", "failed"}
      /\ UNCHANGED <<responses, handles, now, ask, context, account, written>>
  BY <1>1, ReturnLast DEF StoreOutput, upstream
<1>3. \/ InsertItems(n, "output", Output(n)) /\ lost' = lost
      \/ items' = items /\ lost' = lost \cup {n}
  BY DEF StoreOutput, Output
<1>4. /\ ~Stored(n) => items' = items
      /\ Stored(n) => /\ items'[n].output \in {items[n].output, Output(n)}
                      /\ items'[n].input = items[n].input
                      /\ n \notin lost' => items'[n].output = Output(n)
      /\ lost \subseteq lost' /\ (n \notin lost' => n \notin lost)
  BY <1>1, <1>3, InsertedItems
<1>5. /\ Answered(n)' /\ (Stored(n)' <=> Stored(n)) /\ Output(n)' = Output(n)
      /\ (Gone(n)' <=> Gone(n))
  BY <1>1, <1>2 DEF Answered, Stored, Output, Gone
<1>6. n \in written
  BY <1>2 DEF Own, OwnPhase, Inserting
<1>7. OwnPhase(n)'
  BY <1>1, <1>2, <1>4, <1>5, <1>6 DEF Own, OwnPhase, Storing, Inserting
<1>8. OwnAnswer(n)'
  BY <1>1, <1>2, <1>5 DEF Own, OwnAnswer, Storing, Inserting
<1>9. OwnRow(n)'
  BY <1>1, <1>2, <1>4, <1>5 DEF Own, OwnRow
<1>10. OwnItems(n)'
  BY <1>1, <1>2, <1>4, <1>5 DEF Own, OwnItems
<1> QED BY <1>7, <1>8, <1>9, <1>10 DEF Own

LEMMA CrashOwn ==
  ASSUME IInv, NEW n \in Turns, Own(n), Crash
  PROVE  Own(n)'
<1>1. TypeOK
  BY DEF IInv
<1>2. /\ pc'[n] = IF pc[n] = "new" THEN "new" ELSE "done"
      /\ pc[n] \notin {"new", "done"} => n \in lost'
      /\ lost \subseteq lost'
      /\ UNCHANGED <<responses, items, handles, now, ask, outcome, context, account, written>>
  BY DEF Crash, store, upstream
<1>3. /\ (Answered(n)' <=> Answered(n)) /\ (Stored(n)' <=> Stored(n)) /\ Output(n)' = Output(n)
      /\ (Gone(n)' <=> Gone(n))
  BY <1>2 DEF Answered, Stored, Output, Gone
<1>4. OwnPhase(n)'
  BY <1>2, <1>3 DEF Own, OwnPhase, Storing, Inserting
<1>5. OwnAnswer(n)'
  BY <1>2, <1>3 DEF Own, OwnAnswer, Storing, Inserting
<1>6. OwnRow(n)'
  BY <1>2, <1>3 DEF Own, OwnRow
<1>7. pc[n] = "new" => ~Stored(n)
  BY Unanswered DEF Storing
<1>8. OwnItems(n)'
  BY <1>2, <1>3, <1>7 DEF Own, OwnItems
<1> QED BY <1>4, <1>5, <1>6, <1>8 DEF Own

\* What a cleanup takes from one turn: nothing, items, a handle or the row.
LEMMA CleanFields ==
  ASSUME IInv, Clean, UNCHANGED chainVars, NEW n \in Turns
  PROVE  /\ UNCHANGED <<now, pc, ask, local, outcome, context, account, written, lost>>
         /\ items'[n] \in {items[n], NoItems} /\ handles'[n] \in {handles[n], None}
         /\ \/ responses'[n] = responses[n]
            \/ responses'[n] = NoRow /\ items'[n] = NoItems /\ handles'[n] = None
         /\ n \in written /\ ~(responses'[n] = responses[n] /\ items'[n] = items[n]) =>
              (Stored(n) => Gone(n))
<1>1. StoreTypeOK
  BY DEF IInv, TypeOK
<1>2. UNCHANGED <<now, pc, ask, local, outcome, context, account, written, lost>>
  BY DEF Clean, SelectExpired, ProtectReferenced, ProtectFails, CleanItems, CleanHandles,
         CleanRows, chainVars, upstream, history
<1>3. n \in doomed /\ Stored(n) => Gone(n)
  BY <1>1, JanitorAssumption
     DEF IInv, Doomed, Gone, StoreTypeOK, TypeOK, JanitorTypeOK, Row
<1>4. CASE SelectExpired \/ ProtectReferenced \/ ProtectFails
  BY <1>2, <1>4 DEF SelectExpired, ProtectReferenced, ProtectFails, store
<1>5. CASE CleanItems \/ CleanHandles
  <2>1. /\ items' = items \/ DeleteItems(doomed)
        /\ handles' = handles \/ DeleteHandles(doomed)
        /\ responses' = responses
    BY <1>5 DEF CleanItems, CleanHandles
  <2> QED BY <1>2, <1>3, <2>1 DEF DeleteItems, DeleteHandles
<1>6. CASE CleanRows
  <2>1. DeleteRows(doomed) \/ UNCHANGED <<responses, items, handles>>
    BY <1>6 DEF CleanRows, store
  <2> QED BY <1>2, <1>3, <2>1 DEF DeleteRows, DeleteItems, DeleteHandles
<1> QED BY <1>4, <1>5, <1>6 DEF Clean

LEMMA CleanOwn ==
  ASSUME IInv, NEW n \in Turns, Own(n), Clean, UNCHANGED chainVars
  PROVE  Own(n)'
<1>1. /\ UNCHANGED <<now, pc, ask, local, outcome, context, account, written, lost>>
      /\ items'[n] \in {items[n], NoItems} /\ handles'[n] \in {handles[n], None}
      /\ \/ responses'[n] = responses[n]
         \/ responses'[n] = NoRow /\ items'[n] = NoItems /\ handles'[n] = None
      /\ n \in written /\ ~(responses'[n] = responses[n] /\ items'[n] = items[n]) =>
           (Stored(n) => Gone(n))
  BY CleanFields
<1>2. /\ (Answered(n)' <=> Answered(n)) /\ Output(n)' = Output(n)
      /\ Stored(n)' => Stored(n) /\ responses'[n] = responses[n]
  BY <1>1 DEF Answered, Stored, Output, NoRow
<1>3. Stored(n) => n \in written
  BY DEF IInv, Rows
<1>4. Stored(n) /\ ~Stored(n)' => now > Ttl
  <2>1. responses[n].at \in Nat /\ now \in Nat /\ Ttl \in Nat
    BY StoreAssumption, JanitorAssumption DEF IInv, TypeOK, StoreTypeOK, Row
  <2>2. Stored(n) /\ ~Stored(n)' => Gone(n)
    BY <1>1, <1>3 DEF Stored
  <2> QED BY <2>1, <2>2 DEF Gone
<1>5. OwnPhase(n)' /\ OwnAnswer(n)'
  BY <1>1, <1>2 DEF Own, OwnPhase, OwnAnswer
<1>6. OwnRow(n)'
  <2>1. ~Stored(n)' => responses'[n] = NoRow /\ items'[n] = NoItems /\ handles'[n] = None
    BY <1>1 DEF Own, OwnRow, Stored
  <2> QED BY <1>1, <1>2, <1>4, <2>1 DEF Own, OwnRow
<1>7. OwnItems(n)'
  <2>1. items'[n].output # <<>> => items'[n] = items[n]
    BY <1>1 DEF NoItems
  <2>2. Stored(n)' => (Gone(n)' <=> Gone(n)) /\ (items'[n] # items[n] => Gone(n))
    BY <1>1, <1>2, <1>3 DEF Gone
  <2>3. NoItems.input = <<>>
    BY DEF NoItems
  <2> QED BY <1>1, <1>2, <2>1, <2>2, <2>3 DEF Own, OwnItems
<1> QED BY <1>5, <1>6, <1>7 DEF Own

\* What an upstream is sent is a sequence of pieces.
LEMMA Sent ==
  ASSUME IInv, NEW n \in Turns
  PROVE  /\ UpstreamAnswers(n) => \E sent \in Seq(Piece) :
              /\ Answers(n, sent)
              /\ sent = IF local[n].native THEN Remembered(n) \o local[n].input ELSE local[n].input
         /\ RetryAnswers(n) => \E sent \in Seq(Piece) :
              /\ Answers(n, sent)
              /\ sent = local[n].replay \o Renamed(local[n].input, local[n].mapped, "downstream")
<1>1. TypeOK
  BY DEF IInv
<1>2. local[n].input \in Seq(Piece) /\ local[n].replay \in Seq(Piece)
  BY <1>1, Fields
<1>3. ASSUME local[n].native PROVE Remembered(n) \in Seq(Piece)
  <2>1. ask[n].prev # 0
    BY <1>3 DEF IInv, Places, Place
  <2>2. ask[n].prev \in Turns
    BY <1>1, <2>1, Fields, StoreAssumption DEF Turns
  <2>3. context[ask[n].prev] \in Seq(Piece)
    BY <1>1, <2>2 DEF TypeOK
  <2>4. Remembered(n) \in {context[ask[n].prev], <<>>}
    BY DEF Remembered
  <2>5. <<>> \in Seq(Piece)
    BY EmptySeq
  <2> QED BY <2>3, <2>4, <2>5
<1>4. ASSUME local[n].native PROVE Remembered(n) \o local[n].input \in Seq(Piece)
  <2> DEFINE r == Remembered(n)
  <2>1. r \in Seq(Piece)
    BY <1>3, <1>4
  <2> HIDE DEF r
  <2>2. r \o local[n].input \in Seq(Piece)
    BY <1>2, <2>1, ConcatProperties
  <2> QED BY <2>2 DEF r
<1>5. local[n].replay \o Renamed(local[n].input, local[n].mapped, "downstream") \in Seq(Piece)
  <2> DEFINE r == Renamed(local[n].input, local[n].mapped, "downstream")
  <2>1. r \in Seq(Piece)
    BY <1>2, RenamedType
  <2> HIDE DEF r
  <2>2. local[n].replay \o r \in Seq(Piece)
    BY <1>2, <2>1, ConcatProperties
  <2> QED BY <2>2 DEF r
<1> QED BY <1>2, <1>4, <1>5 DEF UpstreamAnswers, RetryAnswers

LEMMA TurnOwn ==
  ASSUME IInv, NEW n \in Turns, Own(n), Ask(n) \/ Turn(n)
  PROVE  Own(n)' /\ Alone(n)
<1>1. CASE \/ Ask(n) \/ LookUp(n) \/ NotFound(n) \/ NotContinuable(n)
           \/ Walk(n) \/ ChainWalked(n) \/ ChainBroken(n)
           \/ ReadItems(n) \/ ReadHandle(n) \/ LoadFails(n)
           \/ PickTarget(n) \/ UnknownResult(n) \/ Exhausted(n)
           \/ HandleMissing(n) \/ TargetFails(n) \/ CallFails(n)
  <2>1. /\ pc[n] \notin Storing \cup {"done"} /\ pc'[n] \notin Storing \cup {"new"}
        /\ outcome'[n] = outcome[n] \/ (pc'[n] = "done" /\ outcome'[n] \notin {"answered", "failed"})
        /\ pc'[n] = "retry" => local'[n].native
        /\ \A m \in Turns \ {n} : /\ pc'[m] = pc[m] /\ local'[m] = local[m]
                                  /\ outcome'[m] = outcome[m] /\ ask'[m] = ask[m]
        /\ UNCHANGED <<responses, items, handles, now, context, account, written, lost>>
    BY <1>1, EarlyStep
  <2>2. Own(n)'
    BY <2>1, EarlyOwn
  <2> QED BY <2>1, <2>2 DEF Alone, Still
<1>2. CASE UpstreamAnswers(n) \/ RetryAnswers(n)
  <2>1. PICK sent \in Seq(Piece) :
          /\ Answers(n, sent) /\ pc[n] \in {"call", "retry"}
          /\ ~local[n].native => local[n].input = sent
    BY <1>2, Sent DEF Own, OwnPhase, UpstreamAnswers, RetryAnswers
  <2>2. Own(n)'
    BY <2>1, AnswersOwn
  <2>3. Alone(n)
    BY <2>1, AnswerFields DEF Alone
  <2> QED BY <2>2, <2>3
<1>3. CASE StoreRow(n) \/ StoreRowFails(n) \/ StoreHandle(n) \/ StoreInput(n) \/ StoreOutput(n)
  <2>1. Alone(n)
    BY <1>3, StoreStep DEF Alone
  <2>2. Own(n)'
    BY <1>3, StoreRowOwn, StoreRowFailsOwn, StoreHandleOwn, StoreInputOwn, StoreOutputOwn
  <2> QED BY <2>1, <2>2
<1> QED BY <1>1, <1>2, <1>3 DEF Turn

LEMMA TickFields ==
  ASSUME IInv, Tick, UNCHANGED <<janitor, chainVars>>
  PROVE  now' \in Nat /\ now <= now' /\ \A n \in Turns : Still(n)
<1>1. now \in Nat /\ now' = now + 1
  BY StoreAssumption DEF IInv, TypeOK, StoreTypeOK, Tick
<1> QED BY <1>1 DEF Tick, Still, store, chainVars, upstream, history

LEMMA IdleFields ==
  ASSUME UNCHANGED vars
  PROVE  now' = now /\ \A n \in Turns : Still(n)
BY DEF vars, Still, store, upstream, history

LEMMA OwnInitially == Init => OwnAnswers
<1> SUFFICES ASSUME Init, NEW n \in Turns PROVE Own(n)
  BY DEF OwnAnswers
<1>1. ~Answered(n) /\ ~Stored(n) /\ pc[n] = "new" /\ outcome[n] = "none"
  BY DEF Init, StoreInit, Answered, Stored, NoRow
<1>2. OwnPhase(n)
  BY <1>1 DEF Init, OwnPhase, Storing, Inserting
<1>3. OwnAnswer(n)
  BY <1>1 DEF OwnAnswer, Storing, Inserting
<1>4. OwnRow(n)
  BY <1>1 DEF Init, StoreInit, OwnRow
<1>5. OwnItems(n)
  BY <1>1 DEF Init, StoreInit, OwnItems, NoItems
<1> QED BY <1>2, <1>3, <1>4, <1>5 DEF Own

LEMMA OwnPreserved == IInv /\ OwnAnswers /\ [Next]_vars => OwnAnswers'
<1> SUFFICES ASSUME IInv, OwnAnswers, [Next]_vars, NEW n \in Turns PROVE Own(n)'
  BY DEF OwnAnswers
<1>1. Own(n) /\ now \in Nat
  BY StoreAssumption DEF OwnAnswers, IInv, TypeOK, StoreTypeOK
<1>2. ASSUME NEW m \in Turns, Ask(m) \/ Turn(m) PROVE Own(n)'
  <2>1. Own(m)' /\ Alone(m)
    BY <1>2, TurnOwn DEF OwnAnswers
  <2>2. n # m => Still(n) /\ now' \in Nat /\ now <= now'
    BY <1>1, <2>1 DEF Alone
  <2>3. n # m => Own(n)'
    BY <1>1, <2>2, OwnStill
  <2> QED BY <2>1, <2>3
<1>3. CASE Clean /\ UNCHANGED chainVars
  BY <1>1, <1>3, CleanOwn
<1>4. CASE Tick /\ UNCHANGED <<janitor, chainVars>>
  BY <1>1, <1>4, TickFields, OwnStill
<1>5. CASE Crash
  BY <1>1, <1>5, CrashOwn
<1>6. CASE UNCHANGED vars
  BY <1>1, <1>6, IdleFields, OwnStill
<1> QED BY <1>2, <1>3, <1>4, <1>5, <1>6 DEF Next

\* What is stored of a response is what it was answered, whole unless a fault, the
\* janitor or the request itself, still storing, stands in the way
\* (persist_response_shell, run_cleanup).
THEOREM OwnAnswersHold == Spec => []OwnAnswers
<1>1. Init => OwnAnswers
  BY OwnInitially
<1>2. IInv /\ OwnAnswers /\ [Next]_vars => OwnAnswers'
  BY OwnPreserved
<1> QED BY <1>1, <1>2, Invariant, PTL DEF Spec

-----------------------------------------------------------------------------
(* What turns know of the ones they continue: what a step never takes back. *)

\* What is asked, answered, written, lost or expired stays so.
Stays(m) ==
  /\ ask'[m].prev = ask[m].prev \/ ask[m].prev = 0
  /\ Answered(m) => context'[m] = context[m] /\ account'[m] = account[m]
  /\ pc[m] = "done" => pc'[m] = "done"
  /\ m \in written =>
       /\ m \in written'
       /\ responses[m].prev = NoRef => responses'[m].prev = NoRef
       /\ Gone(m) => Gone(m)'
  /\ m \in lost => m \in lost'

Onward == now <= now' /\ now \in Nat /\ now' \in Nat /\ \A m \in Turns : Stays(m)

LEMMA StillStays ==
  ASSUME IInv, NEW m \in Turns, Still(m), now' \in Nat, now <= now'
  PROVE  Stays(m)
<1>1. responses[m].at \in Nat /\ now \in Nat /\ Ttl \in Nat
  BY StoreAssumption, JanitorAssumption DEF IInv, TypeOK, StoreTypeOK, Row
<1> QED BY <1>1 DEF Still, Stays, Gone

LEMMA OwnStays ==
  ASSUME IInv, OwnAnswers, NEW n \in Turns, Ask(n) \/ Turn(n)
  PROVE  Stays(n)
<1>1. TypeOK /\ Own(n)
  BY DEF IInv, OwnAnswers
<1>2. CASE \/ Ask(n) \/ LookUp(n) \/ NotFound(n) \/ NotContinuable(n)
           \/ Walk(n) \/ ChainWalked(n) \/ ChainBroken(n)
           \/ ReadItems(n) \/ ReadHandle(n) \/ LoadFails(n)
           \/ PickTarget(n) \/ UnknownResult(n) \/ Exhausted(n)
           \/ HandleMissing(n) \/ TargetFails(n) \/ CallFails(n)
  <2>1. /\ pc[n] \notin Storing \cup {"done"}
        /\ ask'[n].prev = ask[n].prev \/ pc[n] = "new"
        /\ UNCHANGED <<responses, items, handles, now, context, account, written, lost>>
    BY <1>2, EarlyStep
  <2>2. pc[n] = "new" => ask[n].prev = 0
    BY <1>1 DEF Own, OwnPhase, NoAsk
  <2> QED BY <2>1, <2>2 DEF Stays, Gone
<1>3. CASE UpstreamAnswers(n) \/ RetryAnswers(n)
  <2>1. PICK sent \in Seq(Piece) : Answers(n, sent) /\ pc[n] \in {"call", "retry"}
    BY <1>3, Sent DEF UpstreamAnswers, RetryAnswers
  <2>2. ~Answered(n) /\ n \notin written
    BY <1>1, <2>1, Unanswered DEF Storing
  <2>3. ask' = ask /\ lost' = lost
    BY <2>1, AnswerFields
  <2> QED BY <2>1, <2>2, <2>3 DEF Stays
<1>4. CASE StoreRow(n)
  <2>1. pc[n] = "store" /\ n \notin written
    BY <1>4 DEF StoreRow, IInv, Rows, Later
  <2> QED BY <1>4, <2>1, StoreStep DEF Stays
<1>5. CASE StoreRowFails(n) \/ StoreHandle(n) \/ StoreInput(n) \/ StoreOutput(n)
  <2>1. /\ pc[n] \in Storing
        /\ UNCHANGED <<now, ask, context, account>>
        /\ written \subseteq written' /\ lost \subseteq lost'
    BY <1>5, StoreStep
  <2>2. responses' = responses
    BY <1>5 DEF StoreRowFails, StoreHandle, StoreInput, StoreOutput, store
  <2> QED BY <2>1, <2>2 DEF Stays, Gone, Storing
<1> QED BY <1>2, <1>3, <1>4, <1>5 DEF Turn

LEMMA CleanStays ==
  ASSUME IInv, NEW n \in Turns, Clean, UNCHANGED chainVars
  PROVE  Stays(n)
<1>1. /\ UNCHANGED <<now, pc, ask, local, outcome, context, account, written, lost>>
      /\ responses'[n] = responses[n] \/ responses'[n] = NoRow
      /\ n \in written /\ responses'[n] # responses[n] => (Stored(n) => Gone(n))
  BY CleanFields
<1>2. responses[n].at \in Nat /\ now \in Nat /\ Ttl \in Nat
  BY StoreAssumption, JanitorAssumption DEF IInv, TypeOK, StoreTypeOK, Row
<1>3. NoRow.at = 0 /\ NoRow.prev = NoRef
  BY DEF NoRow
<1>4. Gone(n) => Gone(n)'
  BY <1>1, <1>2, <1>3 DEF Gone
<1> QED BY <1>1, <1>3, <1>4 DEF Stays

LEMMA NextOnward ==
  ASSUME IInv, OwnAnswers, [Next]_vars
  PROVE  Onward
<1>1. now \in Nat
  BY StoreAssumption DEF IInv, TypeOK, StoreTypeOK
<1>2. ASSUME NEW n \in Turns, Ask(n) \/ Turn(n) PROVE Onward
  <2>1. Alone(n)
    BY <1>2, TurnOwn DEF OwnAnswers
  <2>2. now' \in Nat /\ now <= now'
    BY <1>1, <2>1 DEF Alone
  <2>3. ASSUME NEW m \in Turns PROVE Stays(m)
    <3>1. CASE m = n
      BY <1>2, <3>1, OwnStays
    <3>2. CASE m # n
      <4>1. Still(m)
        BY <2>1, <3>2 DEF Alone
      <4> QED BY <2>2, <4>1, StillStays
    <3> QED BY <3>1, <3>2
  <2> QED BY <1>1, <2>2, <2>3 DEF Onward
<1>3. CASE Clean /\ UNCHANGED chainVars
  <2>1. \A m \in Turns : Stays(m)
    BY <1>3, CleanStays
  <2>2. now' = now
    BY <1>3 DEF Clean, SelectExpired, ProtectReferenced, ProtectFails, CleanItems, CleanHandles,
               CleanRows
  <2> QED BY <1>1, <2>1, <2>2 DEF Onward
<1>4. CASE Tick /\ UNCHANGED <<janitor, chainVars>>
  BY <1>1, <1>4, TickFields, StillStays DEF Onward
<1>5. CASE Crash
  <2>1. /\ UNCHANGED <<responses, now, ask, context, account, written>> /\ lost \subseteq lost'
        /\ pc' = [n \in Turns |-> IF pc[n] = "new" THEN "new" ELSE "done"]
    BY <1>5 DEF Crash, store, upstream
  <2> QED BY <1>1, <2>1 DEF Onward, Stays, Gone
<1>6. CASE UNCHANGED vars
  <2>1. now' = now /\ \A n \in Turns : Still(n)
    BY <1>6, IdleFields
  <2> QED BY <1>1, <2>1, StillStays DEF Onward
<1> QED BY <1>2, <1>3, <1>4, <1>5, <1>6 DEF Next

\* A response no fault hit was not hit before.
LEMMA IntactBefore ==
  ASSUME Onward
  PROVE  /\ \A p \in Turns : Undamaged(p)' => Undamaged(p)
         /\ \A n \in Turns : Intact(n)' => Intact(n)
<1>1. ASSUME NEW p \in Turns, Undamaged(p)' PROVE Undamaged(p)
  <2>1. PICK A \in SUBSET Turns :
          /\ p \in A /\ A \cap lost' = {}
          /\ \A m \in A : ask'[m].prev \in A \cup {0}
    BY <1>1 DEF Undamaged
  <2>2. A \cap lost = {}
    BY <2>1 DEF Onward, Stays
  <2>3. \A m \in A : ask[m].prev \in A \cup {0}
    BY <2>1 DEF Onward, Stays
  <2> QED BY <2>1, <2>2, <2>3 DEF Undamaged
<1>2. ASSUME NEW n \in Turns, Intact(n)' PROVE Intact(n)
  <2>1. CASE ask[n].prev = 0
    BY <2>1 DEF Intact
  <2>2. CASE ask[n].prev # 0
    <3>1. ask'[n].prev = ask[n].prev
      BY <2>2 DEF Onward, Stays
    <3>2. PICK A \in SUBSET Turns :
            /\ ask'[n].prev \in A /\ A \cap lost' = {}
            /\ \A m \in A : ask'[m].prev \in A \cup {0}
      BY <1>2, <2>2, <3>1 DEF Intact, Undamaged
    <3>3. ask[n].prev \in Turns
      BY <3>1, <3>2
    <3>4. A \cap lost = {} /\ \A m \in A : ask[m].prev \in A \cup {0}
      BY <3>2 DEF Onward, Stays
    <3> QED BY <3>1, <3>2, <3>4 DEF Intact, Undamaged
  <2> QED BY <2>1, <2>2
<1> QED BY <1>1, <1>2

\* A response no fault hit is not lost, nor was any it goes back to.
LEMMA IntactAsked ==
  ASSUME NEW p \in Turns, Undamaged(p)
  PROVE  p \notin lost /\ Intact(p)
BY DEF Undamaged, Intact

-----------------------------------------------------------------------------
(* What turns know of the ones they continue: a step of somebody else.      *)

\* A response that was answered, to a reader.
LEMMA AnsweredKept ==
  ASSUME IInv, Onward, NEW p \in Turns, Answered(p)
  PROVE  /\ context'[p] = context[p] /\ account'[p] = account[p] /\ Answered(p)'
         /\ Output(p)' = Output(p) /\ Restored(p)' = Restored(p) /\ Seen(p)' = Seen(p)
         /\ CallsDown(p) => CallsDown(p)'
         /\ p \in written /\ Replayable(p) => Replayable(p)'
         /\ p \in written => p \in written' /\ (Gone(p) => Gone(p)')
         /\ p \in lost => p \in lost'
         /\ pc[p] = "done" => pc'[p] = "done"
<1>1. /\ context'[p] = context[p] /\ account'[p] = account[p]
      /\ p \in written =>
           /\ p \in written'
           /\ responses[p].prev = NoRef => responses'[p].prev = NoRef
           /\ Gone(p) => Gone(p)'
      /\ p \in lost => p \in lost'
      /\ pc[p] = "done" => pc'[p] = "done"
  BY DEF Onward, Stays
<1>2. Output(p)' = Output(p) /\ Restored(p)' = Restored(p) /\ Seen(p)' = Seen(p) /\ Answered(p)'
  BY <1>1 DEF Output, Restored, Seen, Answered
<1>3. Intact(p)' => Intact(p)
  BY IntactBefore
<1>4. CallsDown(p) => CallsDown(p)'
  BY <1>1, <1>3 DEF CallsDown
<1> QED BY <1>1, <1>2, <1>4 DEF Replayable

LEMMA ReadKept ==
  ASSUME IInv, Onward, NEW n \in Turns, NEW p \in Turns, Answered(p), Read(n, p),
         local'[n].mapped = local[n].mapped, local'[n].replay = local[n].replay
  PROVE  Read(n, p)'
<1>1. /\ context'[p] = context[p] /\ Output(p)' = Output(p) /\ (p \in lost => p \in lost')
  BY AnsweredKept
<1> QED BY <1>1 DEF Read

LEMMA ExcusedKept ==
  ASSUME Onward, NEW n \in Turns, ask'[n].prev = ask[n].prev, Excused(n),
         ask[n].prev # 0 => ask[n].prev \in Turns,
         ask'[n].early = ask[n].early, ask[n].late => ask'[n].late,
         0 \notin lost
  PROVE  Excused(n)'
BY DEF Excused, Onward, Stays

\* Nothing of turn n changes but its row and its items.
LEMMA ReaderStill ==
  ASSUME IInv, Onward, NEW n \in Turns, NEW p \in 0 .. MaxTurns, ask[n].prev = p, Reader(n, p),
         pc'[n] = pc[n], ask'[n] = ask[n], local'[n] = local[n], outcome'[n] = outcome[n],
         context'[n] = context[n], Replayed(n)' => Replayed(n)
  PROVE  Reader(n, p)'
<1>1. /\ p # 0 => p \in Turns /\ Answered(p)
      /\ 0 \notin lost /\ 0 \notin Turns
  BY StoreAssumption DEF Reader, Asked, Turns, IInv, TypeOK
<1>2. p # 0 =>
        /\ context'[p] = context[p] /\ account'[p] = account[p] /\ Answered(p)'
        /\ Restored(p)' = Restored(p)
        /\ CallsDown(p) => CallsDown(p)'
        /\ p \in written /\ Replayable(p) => Replayable(p)'
        /\ p \in written => p \in written' /\ (Gone(p) => Gone(p)')
        /\ p \in lost => p \in lost'
        /\ pc[p] = "done" => pc'[p] = "done"
        /\ Read(n, p) => Read(n, p)'
  BY <1>1, AnsweredKept, ReadKept
<1>3. Seen(p)' = Seen(p)
  BY <1>1, <1>2, AnsweredKept DEF Seen
<1>4. Excused(n) => Excused(n)'
  BY <1>1, ExcusedKept
<1>5. Intact(n)' => Intact(n)
  BY IntactBefore
<1>6. Asked(n, p)'
  BY <1>2, <1>3 DEF Reader, Asked
<1>7. Loads(n, p)'
  <2>1. pc[n] \in {"walk", "items"} => p # 0 /\ p \in written
    BY DEF Reader, Asked, IInv, Places, Place, Loading
  <2> QED BY <1>2, <2>1 DEF Reader, Loads
<1>8. Calls(n, p)'
  <2>1. KnownResults(n)' <=> KnownResults(n)
    BY DEF KnownResults
  <2>2. CanSendHandle(n, local[n].target)' <=> CanSendHandle(n, local[n].target)
    BY DEF CanSendHandle
  <2>3. pc[n] \in Calling /\ p # 0 => p \in written
    BY DEF Reader, Asked
  <2> QED BY <1>2, <1>4, <2>1, <2>2, <2>3 DEF Reader, Calls
<1>9. Ends(n)'
  <2>1. OnWholeHistory(n) => OnWholeHistory(n)'
    BY <1>1, <1>2 DEF OnWholeHistory
  <2>2. Answered(n)' <=> Answered(n)
    BY DEF Answered
  <2>3. now > Ttl => now' > Ttl
    BY JanitorAssumption DEF Onward
  <2> QED BY <1>4, <1>5, <2>1, <2>2, <2>3 DEF Reader, Ends
<1> QED BY <1>6, <1>7, <1>8, <1>9 DEF Reader

\* Turn n goes on after its answer, or ends without one.
LEMMA ReaderEnds ==
  ASSUME IInv, Onward, NEW n \in Turns, NEW p \in 0 .. MaxTurns, ask[n].prev = p, Reader(n, p),
         ask'[n] = ask[n], context'[n] = context[n], pc'[n] \in Storing \cup {"done"},
         Replayed(n)' => Replayed(n),
         outcome'[n] = "state_not_found" => Excused(n) \/ now > Ttl,
         outcome'[n] = "tool_mapping_failed" => Excused(n) \/ ~Intact(n)
  PROVE  Reader(n, p)'
<1>1. /\ p # 0 => p \in Turns /\ Answered(p)
      /\ 0 \notin lost /\ 0 \notin Turns
  BY StoreAssumption DEF Reader, Asked, Turns, IInv, TypeOK
<1>2. p # 0 => /\ context'[p] = context[p] /\ Answered(p)'
               /\ pc[p] = "done" => pc'[p] = "done"
  BY <1>1, AnsweredKept
<1>3. Excused(n) => Excused(n)'
  BY <1>1, ExcusedKept
<1>4. Intact(n)' => Intact(n)
  BY IntactBefore
<1>5. Asked(n, p)'
  BY <1>2 DEF Reader, Asked, Storing, Loading, Calling
<1>6. Loads(n, p)' /\ Calls(n, p)'
  BY DEF Loads, Calls, Storing, Calling
<1>7. Ends(n)'
  <2>1. OnWholeHistory(n) => OnWholeHistory(n)'
    BY <1>1, <1>2 DEF OnWholeHistory
  <2>2. Answered(n)' <=> Answered(n)
    BY DEF Answered
  <2>3. now > Ttl => now' > Ttl
    BY JanitorAssumption DEF Onward
  <2> QED BY <1>3, <1>4, <2>1, <2>2, <2>3 DEF Reader, Ends
<1> QED BY <1>5, <1>6, <1>7 DEF Reader

\* Turn n has no answer yet.
LEMMA EndsLater ==
  ASSUME IInv, NEW n \in Turns, Own(n), pc[n] \notin Storing \cup {"done"},
         context'[n] = context[n], outcome'[n] = outcome[n]
  PROVE  Ends(n)'
<1>1. ~Answered(n) /\ outcome[n] \notin {"state_not_found", "tool_mapping_failed"}
  BY Unanswered
<1>2. context'[n] = <<>>
  BY <1>1 DEF Answered
<1>3. OnWholeHistory(n)'
  BY <1>2 DEF OnWholeHistory
<1> QED BY <1>1, <1>2, <1>3 DEF Ends, Answered

-----------------------------------------------------------------------------
(* What turns know of the ones they continue: reading the history.          *)

LEMMA HistoryOf ==
  ASSUME IInv, History, NEW n \in Turns
  PROVE  Reader(n, ask[n].prev) /\ ask[n].prev \in 0 .. MaxTurns
BY Fields DEF History, IInv

LEMMA AskReads ==
  ASSUME IInv, OwnAnswers, NEW n \in Turns, Ask(n), NEW q \in 0 .. MaxTurns, ask'[n].prev = q
  PROVE  Reader(n, q)'
<1>1. TypeOK /\ Own(n)
  BY DEF IInv, OwnAnswers
<1>2. PICK p \in IF n = 1 THEN {0} ELSE {m \in Turns : outcome[m] \in {"answered", "failed"}},
           s \in BOOLEAN, k \in Keys :
        \E i \in {Message(n)} \cup {Result(n, c, "downstream") : c \in Seen(p)} :
          /\ ask' = Set(ask, n, [prev |-> p, late |-> FALSE,
                               early |-> p # 0 /\ pc[p] # "done"])
          /\ local' = Set(local, n, [NoLocal EXCEPT !.key = k, !.stream = s, !.given = <<i>>,
                         !.cursor = IF p = 0 THEN NoRef ELSE Response(p)])
          /\ Goto(n, "new", IF p = 0 THEN "target" ELSE "lookup")
  BY DEF Ask
<1>3. PICK i \in {Message(n)} \cup {Result(n, c, "downstream") : c \in Seen(p)} :
          /\ ask' = Set(ask, n, [prev |-> p, late |-> FALSE,
                               early |-> p # 0 /\ pc[p] # "done"])
          /\ local' = Set(local, n, [NoLocal EXCEPT !.key = k, !.stream = s, !.given = <<i>>,
                         !.cursor = IF p = 0 THEN NoRef ELSE Response(p)])
          /\ Goto(n, "new", IF p = 0 THEN "target" ELSE "lookup")
  BY <1>2
<1> DEFINE b == p # 0 /\ pc[p] # "done"
<1>4. /\ p = 0 \/ (p \in Turns /\ outcome[p] \in {"answered", "failed"})
      /\ b \in BOOLEAN
  OBVIOUS
<1>5. pc[n] = "new" /\ pc' = Set(pc, n, IF p = 0 THEN "target" ELSE "lookup")
  BY <1>3 DEF Goto
<1>6. ask'[n] = [prev |-> p, late |-> FALSE, early |-> b]
  BY <1>1, <1>3 DEF TypeOK, Set
<1> HIDE DEF b
<1>7. q = p /\ ask'[n].early = b
  BY <1>4, <1>6
<1>8. /\ local'[n].given = <<i>> /\ local'[n].replay = <<>> /\ local'[n].mapped = {}
      /\ local'[n].cursor = IF p = 0 THEN NoRef ELSE Response(p)
      /\ local'[n].chain = <<>> /\ ~local'[n].native
  BY <1>1, <1>3 DEF TypeOK, Set, NoLocal
<1>9. pc'[n] = (IF p = 0 THEN "target" ELSE "lookup") /\ \A m \in Turns \ {n} : pc'[m] = pc[m]
  BY <1>1, <1>5 DEF TypeOK, Set
<1>10. UNCHANGED <<responses, now, outcome, context, account, written, lost>>
  BY DEF Ask, store, upstream, history
<1>11. p # 0 => p # n /\ Answered(p) /\ (b \/ pc[p] = "done")
  BY <1>1, <1>4, <1>5, Unanswered DEF OwnAnswers, Own, OwnPhase, b, Storing
<1>12. Seen(p)' = Seen(p) /\ (Answered(p)' <=> Answered(p))
  BY <1>10 DEF Seen, Answered
<1>13. i \in Piece
  <2>1. Message(n) \in Piece
    BY StoreAssumption DEF Message, Piece, Turns
  <2>2. ASSUME NEW c \in Seen(p) PROVE Result(n, c, "downstream") \in Piece
    <3>1. p # 0
      BY <2>2 DEF Seen
    <3>2. context[p] \in Seq(Piece)
      BY <1>1, <1>4, <3>1 DEF TypeOK
    <3>3. \A j \in DOMAIN context[p] : context[p][j] \in Piece
      BY <3>2
    <3>4. c \in 0 .. MaxTurns
      BY <3>1, <3>3, <2>2 DEF Seen, Piece
    <3> QED BY <3>4 DEF Result, Piece
  <2> QED BY <2>1, <2>2
<1>14. i = Message(n) \/ \E c \in Seen(p) : i = Result(n, c, "downstream")
  OBVIOUS
<1>15. Asked(n, p)'
  <2>1. p # 0 => p # n /\ Answered(p)' /\ (ask'[n].early \/ pc'[p] = "done")
    BY <1>4, <1>7, <1>9, <1>11, <1>12
  <2>2. \E j \in Piece : /\ local'[n].given = <<j>>
                         /\ j = Message(n) \/ \E c \in Seen(p)' : j = Result(n, c, "downstream")
    BY <1>8, <1>12, <1>13, <1>14
  <2> QED BY <1>9, <2>1, <2>2 DEF Asked, Calling
<1>16. Loads(n, p)'
  BY <1>8, <1>9 DEF Loads
<1>17. Calls(n, p)'
  BY <1>8, <1>9 DEF Calls, Calling
<1>18. Ends(n)'
  BY <1>1, <1>5, <1>10, EndsLater DEF Storing
<1> QED BY <1>7, <1>15, <1>16, <1>17, <1>18 DEF Reader

\* What the steps that load or call have in common: n goes on, for the same input.
LEMMA AskedKept ==
  ASSUME IInv, Onward, NEW n \in Turns, NEW p \in 0 .. MaxTurns, Asked(n, p),
         pc[n] \in Loading \cup Calling, ask'[n].early = ask[n].early,
         local'[n].given = local[n].given,
         pc'[n] \in Calling \cup {"walk", "items"} /\ p # 0 =>
           p \in written /\ local'[n].previous = account[p].target
  PROVE  Asked(n, p)'
<1>1. p # 0 => /\ p \in Turns /\ Answered(p) /\ p # n
               /\ Answered(p)' /\ Seen(p)' = Seen(p) /\ account'[p] = account[p]
               /\ p \in written => p \in written'
               /\ pc[p] = "done" => pc'[p] = "done"
  BY AnsweredKept, StoreAssumption DEF Asked, Turns
<1>2. Seen(p)' = Seen(p)
  BY <1>1 DEF Seen
<1> QED BY <1>1, <1>2 DEF Asked

\* The response a turn that loads continues.
LEMMA LoadsOf ==
  ASSUME IInv, OwnAnswers, NEW n \in Turns, NEW p \in 0 .. MaxTurns, ask[n].prev = p,
         Reader(n, p), pc[n] \in Loading
  PROVE  /\ p \in Turns /\ p # 0 /\ p # n /\ Answered(p) /\ Own(p)
         /\ pc[n] # "lookup" => p \in written /\ local[n].previous = account[p].target
<1>1. p # 0
  BY DEF IInv, Places, Place
<1> QED BY <1>1, StoreAssumption DEF Reader, Asked, OwnAnswers, Turns, Loading

LEMMA LookUpReads ==
  ASSUME IInv, OwnAnswers, Onward, NEW n \in Turns, NEW p \in 0 .. MaxTurns, ask[n].prev = p,
         Reader(n, p), LookUp(n)
  PROVE  Reader(n, p)'
<1>1. TypeOK /\ Own(n)
  BY DEF IInv, OwnAnswers
<1>2. /\ pc[n] = "lookup" /\ pc'[n] = "walk" /\ responses[p].status = "completed"
      /\ local' = [local EXCEPT ![n].previous = responses[p].target]
      /\ UNCHANGED <<ask, outcome, context>>
  BY <1>1 DEF LookUp, Goto, Set, TypeOK, upstream
<1>3. p \in Turns /\ Own(p)
  BY <1>2, LoadsOf DEF Loading
<1>4. Stored(p)
  BY <1>2 DEF Stored
<1>5. p \in written /\ responses[p].target = account[p].target
  BY <1>3, <1>4 DEF IInv, Rows, Own, OwnRow
<1>6. local[n] \in Local
  BY <1>1 DEF TypeOK
<1>7. /\ local'[n].previous = responses[p].target
      /\ \A field \in {"given", "cursor", "chain", "replay", "mapped"} :
           local'[n][field] = local[n][field]
  BY <1>1, <1>2, <1>6 DEF TypeOK, Local
<1>8. /\ local'[n].given = local[n].given /\ local'[n].cursor = local[n].cursor
      /\ local'[n].chain = local[n].chain /\ local'[n].replay = local[n].replay
      /\ local'[n].mapped = local[n].mapped
  BY <1>7
<1>9. Asked(n, p)'
  BY <1>2, <1>5, <1>7, <1>8, AskedKept DEF Reader, Loading
<1>10. Loads(n, p)'
  BY <1>2, <1>8 DEF Reader, Loads
<1>11. Calls(n, p)'
  BY <1>2 DEF Calls, Calling
<1>12. Ends(n)'
  BY <1>1, <1>2, EndsLater DEF Storing
<1> QED BY <1>9, <1>10, <1>11, <1>12 DEF Reader

LEMMA WalkReads ==
  ASSUME IInv, OwnAnswers, History, Onward, NEW n \in Turns, NEW p \in 0 .. MaxTurns,
         ask[n].prev = p, Reader(n, p), Walk(n)
  PROVE  Reader(n, p)'
<1>1. TypeOK /\ Own(n)
  BY DEF IInv, OwnAnswers
<1> DEFINE c == local[n].cursor
<1>2. /\ pc[n] = "walk" /\ pc' = pc /\ c.kind = "response" /\ Stored(c.of)
      /\ local' = [local EXCEPT ![n].chain = <<c.of>> \o @, ![n].cursor = responses[c.of].prev]
      /\ UNCHANGED <<ask, outcome, context>>
  BY DEF Walk, Found, upstream
<1>3. p \in Turns /\ Own(p) /\ p \in written /\ local[n].previous = account[p].target /\ Answered(p)
  BY <1>2, LoadsOf DEF Loading
<1>4. c = Response(p) /\ local[n].chain = <<>>
  BY <1>2 DEF Reader, Loads
<1>5. c.of = p
  BY <1>4 DEF Response
<1>6. local[n] \in Local
  BY <1>1 DEF TypeOK
<1> HIDE DEF c
<1>7. <<p>> \o <<>> = <<p>>
  BY <1>3, ConcatEmptySeq
<1>8. local'[n].chain = <<p>> /\ local'[n].cursor = responses[p].prev
  BY <1>1, <1>2, <1>4, <1>5, <1>6, <1>7 DEF TypeOK, Local
<1>9. /\ local'[n].given = local[n].given /\ local'[n].previous = local[n].previous
      /\ local'[n].replay = local[n].replay /\ local'[n].mapped = local[n].mapped
  BY <1>1, <1>2, <1>6 DEF TypeOK, Local
<1>10. responses[p].prev.kind # "response"
  BY <1>3 DEF IInv, Places, Place
<1>11. responses[p].prev = NoRef => Replayable(p)
  <2>1. Ends(p)
    BY <1>3, HistoryOf DEF Reader
  <2> QED BY <1>2, <1>3, <1>5, <2>1 DEF Ends, Replayed, Replayable, CallsDown
<1>12. Replayable(p) => Replayable(p)'
  BY <1>3, AnsweredKept
<1>13. Asked(n, p)'
  BY <1>2, <1>3, <1>9, AskedKept DEF Reader, Loading
<1>14. Loads(n, p)'
  BY <1>2, <1>8, <1>9, <1>10, <1>11, <1>12 DEF Reader, Loads
<1>15. Calls(n, p)'
  BY <1>2 DEF Calls, Calling
<1>16. Ends(n)'
  BY <1>1, <1>2, EndsLater DEF Storing
<1> QED BY <1>13, <1>14, <1>15, <1>16 DEF Reader

LEMMA ChainWalkedReads ==
  ASSUME IInv, OwnAnswers, Onward, NEW n \in Turns, NEW p \in 0 .. MaxTurns, ask[n].prev = p,
         Reader(n, p), ChainWalked(n)
  PROVE  Reader(n, p)'
<1>1. TypeOK /\ Own(n)
  BY DEF IInv, OwnAnswers
<1>2. /\ pc[n] = "walk" /\ pc'[n] = "items" /\ local[n].cursor = NoRef
      /\ UNCHANGED <<ask, local, outcome, context>>
  BY <1>1 DEF ChainWalked, Goto, Set, TypeOK, upstream
<1>3. p \in Turns /\ p \in written /\ local[n].previous = account[p].target /\ Answered(p)
  BY <1>2, LoadsOf DEF Loading
<1>4. /\ local[n].chain = <<p>> /\ Replayable(p)
      /\ local[n].replay = <<>> /\ local[n].mapped = {}
  <2>1. local[n].cursor # Response(p)
    BY <1>2 DEF NoRef, Response
  <2> QED BY <1>2, <2>1 DEF Reader, Loads
<1>5. Replayable(p)'
  BY <1>3, <1>4, AnsweredKept
<1>6. Asked(n, p)'
  BY <1>2, <1>3, AskedKept DEF Reader, Loading
<1>7. Loads(n, p)'
  BY <1>2, <1>4, <1>5 DEF Loads
<1>8. Calls(n, p)'
  BY <1>2 DEF Calls, Calling
<1>9. Ends(n)'
  BY <1>1, <1>2, EndsLater DEF Storing
<1> QED BY <1>6, <1>7, <1>8, <1>9 DEF Reader

LEMMA ReadItemsReads ==
  ASSUME IInv, OwnAnswers, Onward, NEW n \in Turns, NEW p \in 0 .. MaxTurns, ask[n].prev = p,
         Reader(n, p), ReadItems(n)
  PROVE  Reader(n, p)'
<1>1. TypeOK /\ Own(n)
  BY DEF IInv, OwnAnswers
<1> DEFINE read == items[Head(local[n].chain)]
<1>2. /\ pc[n] = "items" /\ pc' = pc /\ local[n].chain # <<>>
      /\ local' = [local EXCEPT ![n].replay = @ \o read.input \o read.output,
                                ![n].mapped = @ \cup Mapped(read.output), ![n].chain = Tail(@)]
      /\ UNCHANGED <<ask, outcome, context>>
  BY DEF ReadItems, upstream
<1>3. /\ p \in Turns /\ Own(p) /\ p \in written /\ local[n].previous = account[p].target
      /\ Answered(p)
  BY <1>2, LoadsOf DEF Loading
<1>4. /\ local[n].chain = <<p>> /\ Replayable(p)
      /\ local[n].replay = <<>> /\ local[n].mapped = {}
  BY <1>2 DEF Reader, Loads
<1> DEFINE x == items[p].input
           y == items[p].output
<1>5. Head(local[n].chain) = p /\ Tail(local[n].chain) = <<>>
  BY <1>4
<1>6. read.input = x /\ read.output = y
  BY <1>5
<1>7. x \in Seq(Piece) /\ y \in Seq(Piece)
  BY <1>1, <1>3, Fields
<1>8. local[n] \in Local
  BY <1>1 DEF TypeOK
<1>9. /\ local'[n].replay = <<>> \o x \o y /\ local'[n].mapped = {} \cup Mapped(y)
      /\ local'[n].chain = <<>>
  <2> HIDE DEF read, x, y
  <2> QED BY <1>1, <1>2, <1>4, <1>5, <1>6, <1>8 DEF TypeOK, Local
<1>10. local'[n].given = local[n].given /\ local'[n].previous = local[n].previous
  <2> HIDE DEF read
  <2> QED BY <1>1, <1>2, <1>8 DEF TypeOK, Local
<1>11. /\ y \in {<<>>, Output(p)}
       /\ p \notin lost => x \in {<<>>, Front(context[p])}
  BY <1>3, <1>4 DEF Own, OwnItems, OwnRow, NoItems, Replayable
<1>12. ask[n].early \/ p \in lost \/ Gone(p) \/ (x = Front(context[p]) /\ y = Output(p))
  <2>1. ask[n].early \/ pc[p] = "done"
    BY <1>3, StoreAssumption DEF Reader, Asked, Turns
  <2>2. Stored(p) /\ p \notin lost /\ pc[p] = "done" /\ ~Gone(p) =>
          x = Front(context[p]) /\ y = Output(p)
    BY <1>3, <1>4 DEF Own, OwnItems, Replayable
  <2>3. ~Stored(p) => Gone(p)
    BY <1>3, JanitorAssumption DEF Own, OwnRow, Gone, NoRow
  <2> QED BY <2>1, <2>2, <2>3
<1> HIDE DEF x, y, read
<1>13. local'[n].replay = x \o y /\ local'[n].mapped = Mapped(y)
  BY <1>7, <1>9, ConcatEmptySeq
<1>14. Read(n, p)' /\ Replayable(p)'
  <2>1. context'[p] = context[p] /\ Output(p)' = Output(p) /\ (p \in lost => p \in lost')
        /\ Replayable(p)'
    BY <1>3, <1>4, AnsweredKept
  <2> QED BY <1>11, <1>13, <2>1 DEF Read
<1>15. ask[n].early \/ p \in lost' \/ Gone(p)' \/ local'[n].replay = Restored(p)'
  <2>1. Restored(p)' = Restored(p) /\ (p \in lost => p \in lost') /\ (Gone(p) => Gone(p)')
    BY <1>3, AnsweredKept
  <2> QED BY <1>12, <1>13, <2>1 DEF Restored
<1>16. Asked(n, p)'
  BY <1>2, <1>3, <1>10, AskedKept DEF Reader, Loading
<1>17. Loads(n, p)'
  BY <1>2, <1>9, <1>14, <1>15 DEF Loads
<1>18. Calls(n, p)'
  BY <1>2 DEF Calls, Calling
<1>19. Ends(n)'
  BY <1>1, <1>2, EndsLater DEF Storing
<1> QED BY <1>16, <1>17, <1>18, <1>19 DEF Reader

LEMMA ReadHandleReads ==
  ASSUME IInv, OwnAnswers, Onward, NEW n \in Turns, NEW p \in 0 .. MaxTurns, ask[n].prev = p,
         Reader(n, p), ReadHandle(n)
  PROVE  Reader(n, p)'
<1>1. TypeOK /\ Own(n)
  BY DEF IInv, OwnAnswers
<1> DEFINE late == now > responses[p].at + Ttl
<1>2. /\ pc[n] = "items" /\ pc'[n] = "target" /\ local[n].chain = <<>>
      /\ local' = [local EXCEPT ![n].handle = handles[p]]
      /\ ask' = [ask EXCEPT ![n].late = late]
      /\ UNCHANGED <<outcome, context, lost>>
  BY <1>1 DEF ReadHandle, Goto, Set, TypeOK, upstream, history
<1>3. /\ p \in Turns /\ p # 0 /\ Own(p) /\ p \in written /\ local[n].previous = account[p].target
      /\ Answered(p)
  BY <1>2, LoadsOf DEF Loading
<1>4. late \in BOOLEAN /\ (late <=> Gone(p))
  BY DEF Gone
<1> HIDE DEF late
<1>5. ask[n] \in Asks /\ local[n] \in Local
  BY <1>1 DEF TypeOK
<1>6. ask'[n].early = ask[n].early /\ ask'[n].prev = p /\ ask'[n].late = late
  BY <1>1, <1>2, <1>5 DEF TypeOK, Asks
<1>7. /\ local'[n].handle = handles[p] /\ local'[n].replay = local[n].replay
      /\ local'[n].mapped = local[n].mapped /\ local'[n].given = local[n].given
      /\ local'[n].previous = local[n].previous
  BY <1>1, <1>2, <1>5 DEF TypeOK, Local
<1>8. /\ Replayable(p) /\ Read(n, p)
      /\ ask[n].early \/ p \in lost \/ Gone(p) \/ local[n].replay = Restored(p)
  <2>1. local[n].chain # <<p>>
    BY <1>2
  <2> QED BY <1>2, <2>1 DEF Reader, Loads
<1>9. CallsDown(p)' /\ Restored(p)' = Restored(p) /\ account'[p] = account[p]
  BY <1>3, <1>8, AnsweredKept DEF Replayable
<1>10. Read(n, p)'
  BY <1>3, <1>7, <1>8, ReadKept
<1>11. Excused(n)' \/ local'[n].replay = Restored(p)'
  BY <1>2, <1>4, <1>6, <1>7, <1>8, <1>9 DEF Excused
<1>12. handles[p] \in {None, account[p].key}
  BY <1>3 DEF Own, OwnRow
<1>13. Asked(n, p)'
  BY <1>2, <1>3, <1>6, <1>7, AskedKept DEF Reader, Loading
<1>14. Loads(n, p)'
  BY <1>2 DEF Loads
<1>15. Calls(n, p)'
  BY <1>2, <1>3, <1>7, <1>9, <1>10, <1>11, <1>12 DEF Calls
<1>16. Ends(n)'
  BY <1>1, <1>2, EndsLater DEF Storing
<1> QED BY <1>13, <1>14, <1>15, <1>16 DEF Reader

-----------------------------------------------------------------------------
(* What turns know of the ones they continue: calling a target.             *)

\* The response a turn that calls continues, if it continues one.
LEMMA CallsOf ==
  ASSUME IInv, OwnAnswers, NEW n \in Turns, NEW p \in 0 .. MaxTurns, ask[n].prev = p,
         Reader(n, p), pc[n] \in Calling, p # 0
  PROVE  /\ p \in Turns /\ p # n /\ Answered(p) /\ Own(p)
         /\ p \in written /\ local[n].previous = account[p].target
         /\ CallsDown(p) /\ Read(n, p) /\ local[n].handle \in {None, account[p].key}
BY StoreAssumption DEF Reader, Asked, Calls, OwnAnswers, Turns

\* A turn that goes on calling keeps what it has read.
LEMMA CallsKept ==
  ASSUME IInv, OwnAnswers, Onward, NEW n \in Turns, NEW p \in 0 .. MaxTurns, ask[n].prev = p,
         Reader(n, p), pc[n] \in Calling, pc'[n] \in Calling,
         UNCHANGED <<ask, outcome, context>>,
         \A field \in {"given", "previous", "replay", "mapped", "handle", "key"} :
           local'[n][field] = local[n][field],
         local'[n].native => p # 0,
         pc'[n] # "target" =>
           /\ KnownResults(n)
           /\ local'[n].native => /\ CanSendHandle(n, local'[n].target)
                                  /\ local'[n].input = Renamed(local[n].given, local[n].mapped, "upstream")
           /\ ~local'[n].native => local'[n].input = local[n].replay \o local[n].given
  PROVE  Reader(n, p)'
<1>1. TypeOK /\ Own(n) /\ 0 \notin lost /\ 0 \notin Turns
  BY DEF IInv, OwnAnswers, TypeOK, Turns
<1>2. /\ local'[n].given = local[n].given /\ local'[n].previous = local[n].previous
      /\ local'[n].replay = local[n].replay /\ local'[n].mapped = local[n].mapped
      /\ local'[n].handle = local[n].handle /\ local'[n].key = local[n].key
  OBVIOUS
<1>3. p # 0 => /\ p \in Turns /\ Answered(p) /\ p \in written
               /\ local[n].previous = account[p].target
               /\ CallsDown(p) /\ Read(n, p) /\ local[n].handle \in {None, account[p].key}
  BY CallsOf
<1>4. p # 0 => /\ CallsDown(p)' /\ account'[p] = account[p] /\ Restored(p)' = Restored(p)
               /\ Read(n, p)'
  BY <1>2, <1>3, AnsweredKept, ReadKept
<1>5. Excused(n) => Excused(n)'
  BY <1>1, <1>3, ExcusedKept
<1>6. Asked(n, p)'
  BY <1>2, <1>3, AskedKept DEF Reader
<1>7. Loads(n, p)'
  BY DEF Loads, Calling
<1>8. Calls(n, p)'
  <2>1. p = 0 => local'[n].replay = <<>> /\ ~local'[n].native /\ local'[n].mapped = {}
    BY <1>2 DEF Reader, Calls
  <2>2. p # 0 => /\ CallsDown(p)' /\ local'[n].handle \in {None, account'[p].key}
                 /\ Read(n, p)' /\ (Excused(n)' \/ local'[n].replay = Restored(p)')
    BY <1>2, <1>3, <1>4, <1>5 DEF Reader, Calls
  <2>3. KnownResults(n) => KnownResults(n)'
    BY <1>2 DEF KnownResults
  <2>4. ASSUME pc'[n] # "target", local'[n].native PROVE CanSendHandle(n, local[n].target)'
    BY <1>2, <2>4 DEF CanSendHandle
  <2> QED BY <1>2, <2>1, <2>2, <2>3, <2>4 DEF Calls, Calling
<1>9. Ends(n)'
  BY <1>1, EndsLater DEF Calling, Storing
<1> QED BY <1>6, <1>7, <1>8, <1>9 DEF Reader

LEMMA PickTargetReads ==
  ASSUME IInv, OwnAnswers, Onward, NEW n \in Turns, NEW p \in 0 .. MaxTurns, ask[n].prev = p,
         Reader(n, p), PickTarget(n)
  PROVE  Reader(n, p)'
<1>1. TypeOK /\ local[n] \in Local
  BY DEF IInv, TypeOK
<1>2. PICK t \in Targets \ local[n].tried :
        local' = [local EXCEPT ![n].target = t,
                   ![n].native = (ask[n].prev # 0 /\ CanSendHandle(n, t)),
                   ![n].input = IF ask[n].prev # 0 /\ CanSendHandle(n, t)
                                THEN Renamed(local[n].given, local[n].mapped, "upstream")
                                ELSE local[n].replay \o local[n].given]
  BY DEF PickTarget
<1> DEFINE sends == ask[n].prev # 0 /\ CanSendHandle(n, t)
           native == Renamed(local[n].given, local[n].mapped, "upstream")
           replayed == local[n].replay \o local[n].given
<1>3. sends \in BOOLEAN /\ (sends => p # 0 /\ CanSendHandle(n, t))
  OBVIOUS
<1>4. local' = [local EXCEPT ![n].target = t, ![n].native = sends,
                             ![n].input = IF sends THEN native ELSE replayed]
  BY <1>2
<1>5. /\ pc[n] = "target" /\ pc'[n] = "call" /\ KnownResults(n)
      /\ UNCHANGED <<ask, outcome, context>>
  BY <1>1 DEF PickTarget, Goto, Set, TypeOK, upstream
<1> HIDE DEF sends, native, replayed
<1>6. /\ local'[n].target = t /\ local'[n].native = sends
      /\ local'[n].input = IF sends THEN native ELSE replayed
      /\ \A field \in {"given", "previous", "replay", "mapped", "handle", "key"} :
           local'[n][field] = local[n][field]
  BY <1>1, <1>4 DEF TypeOK, Local
<1>7. local'[n].native => p # 0 /\ CanSendHandle(n, t) /\ local'[n].input = native
  BY <1>3, <1>6
<1>8. ~local'[n].native => local'[n].input = replayed
  BY <1>3, <1>6
<1>9. local'[n].native => CanSendHandle(n, local'[n].target)
  BY <1>6, <1>7 DEF CanSendHandle
<1> QED BY <1>5, <1>6, <1>7, <1>8, <1>9, CallsKept DEF Calling, native, replayed

LEMMA HandleMissingReads ==
  ASSUME IInv, OwnAnswers, Onward, NEW n \in Turns, NEW p \in 0 .. MaxTurns, ask[n].prev = p,
         Reader(n, p), HandleMissing(n)
  PROVE  Reader(n, p)'
<1>1. TypeOK
  BY DEF IInv
<1>2. /\ pc[n] = "call" /\ pc'[n] = "retry" /\ UNCHANGED <<ask, local, outcome, context>>
  BY <1>1 DEF HandleMissing, Goto, Set, TypeOK, upstream
<1>3. local[n].native => p # 0
  BY DEF IInv, Places, Place
<1>4. /\ KnownResults(n)
      /\ local[n].native => /\ CanSendHandle(n, local[n].target)
                            /\ local[n].input = Renamed(local[n].given, local[n].mapped, "upstream")
      /\ ~local[n].native => local[n].input = local[n].replay \o local[n].given
  BY <1>2 DEF Reader, Calls
<1>5. local[n].native => CanSendHandle(n, local'[n].target)
  BY <1>2, <1>4 DEF CanSendHandle
<1> QED BY <1>2, <1>3, <1>4, <1>5, CallsKept DEF Calling

LEMMA TargetFailsReads ==
  ASSUME IInv, OwnAnswers, Onward, NEW n \in Turns, NEW p \in 0 .. MaxTurns, ask[n].prev = p,
         Reader(n, p), TargetFails(n)
  PROVE  Reader(n, p)'
<1>1. TypeOK /\ local[n] \in Local
  BY DEF IInv, TypeOK
<1>2. /\ pc[n] \in {"call", "retry"} /\ pc'[n] = "target"
      /\ local' = [local EXCEPT ![n].tried = @ \cup {local[n].target}, ![n].native = FALSE,
                                ![n].target = None, ![n].input = <<>>]
      /\ UNCHANGED <<ask, outcome, context>>
  BY <1>1 DEF TargetFails, Set, TypeOK, upstream
<1>3. /\ ~local'[n].native
      /\ \A field \in {"given", "previous", "replay", "mapped", "handle", "key"} :
           local'[n][field] = local[n][field]
  BY <1>1, <1>2 DEF TypeOK, Local
<1> QED BY <1>2, <1>3, CallsKept DEF Calling

-----------------------------------------------------------------------------
(* What turns know of the ones they continue: refusals.                     *)

LEMMA SeenCall ==
  ASSUME NEW s \in Seq(Piece), Sound(s), NEW k \in DOMAIN s, s[k].call # 0
  PROVE  \E j \in DOMAIN s : s[j].kind = "call" /\ s[j].call = s[k].call
<1>1. s[k] \in Piece /\ DOMAIN s = 1 .. Len(s) /\ Len(s) \in Nat
  BY LenProperties
<1>2. s[k].kind \in {"call", "result"}
  BY <1>1 DEF Sound, Piece
<1>3. CASE s[k].kind = "call"
  BY <1>3
<1>4. CASE s[k].kind = "result"
  <2>1. PICK j \in 1 .. k - 1 : s[j].kind = "call" /\ s[j].call = s[k].call
    BY <1>4 DEF Sound, Matched
  <2>2. j \in DOMAIN s
    BY <1>1
  <2> QED BY <2>1, <2>2
<1> QED BY <1>2, <1>3, <1>4

\* A call the client was shown is in a history read whole, by ModelWire's id.
LEMMA CallRestored ==
  ASSUME TypeOK, NEW p \in Turns, Answered(p), Own(p), Sound(context[p]),
         Down(Front(context[p])), NEW c \in Seen(p)
  PROVE  \E q \in ToSet(Restored(p)) : q.kind = "call" /\ q.id = "downstream" /\ q.call = c
<1> DEFINE s == context[p]
           f == Front(s)
<1>1. s \in Seq(Piece) /\ s # <<>>
  BY DEF TypeOK, Answered
<1>2. PICK k \in DOMAIN s : s[k].call = c /\ c # 0
  BY StoreAssumption DEF Seen, Turns
<1>3. PICK j \in DOMAIN s : s[j].kind = "call" /\ s[j].call = c
  BY <1>1, <1>2, SeenCall
<1>4. PICK e \in Piece :
        /\ e.kind \in {"answer", "call"}
        /\ Last(s).kind = e.kind /\ Last(s).call = e.call
        /\ e.kind = "call" => e.call = p /\ e.id = "downstream"
        /\ Restored(p) = Append(f, e)
  BY Outputs
<1>5. /\ f \in Seq(Piece) /\ Len(s) \in Nat /\ Len(s) > 0 /\ Len(f) = Len(s) - 1
      /\ \A i \in 1 .. Len(s) - 1 : f[i] = s[i]
      /\ Last(s) = s[Len(s)]
  BY <1>1, Parts
<1>6. DOMAIN s = 1 .. Len(s) /\ DOMAIN f = 1 .. Len(s) - 1
  BY <1>1, <1>5, LenProperties
<1>7. Down(f)
  OBVIOUS
<1> HIDE DEF s, f
<1> DEFINE r == Append(f, e)
<1>8. /\ r \in Seq(Piece) /\ Len(r) = Len(s)
      /\ \A i \in 1 .. Len(f) : r[i] = f[i]
      /\ r[Len(s)] = e
  <2>1. /\ Append(f, e) \in Seq(Piece) /\ Len(Append(f, e)) = Len(f) + 1
        /\ \A i \in 1 .. Len(f) : Append(f, e)[i] = f[i]
        /\ Append(f, e)[Len(f) + 1] = e
    BY <1>5, Appended
  <2>2. Len(f) + 1 = Len(s)
    BY <1>5
  <2> QED BY <2>1, <2>2
<1> HIDE DEF r
<1>9. DOMAIN r = 1 .. Len(s)
  BY <1>8, LenProperties
<1>10. r[j].kind = "call" /\ r[j].id = "downstream" /\ r[j].call = c
  <2>1. CASE j = Len(s)
    BY <1>3, <1>4, <1>5, <1>8, <2>1
  <2>2. CASE j # Len(s)
    <3>1. j \in DOMAIN f /\ f[j] = s[j] /\ r[j] = f[j]
      BY <1>3, <1>5, <1>6, <1>8, <2>2
    <3> QED BY <1>3, <1>7, <3>1 DEF Down
  <2> QED BY <2>1, <2>2
<1>11. r[j] \in ToSet(r)
  BY <1>3, <1>6, <1>9 DEF ToSet
<1> QED BY <1>4, <1>10, <1>11 DEF r

\* A history that was read whole has every call the client was shown.
LEMMA WholeKnows ==
  ASSUME IInv, OwnAnswers, History, NEW n \in Turns, NEW p \in 0 .. MaxTurns, ask[n].prev = p,
         pc[n] \in Calling, ~Excused(n), Intact(n)
  PROVE  KnownResults(n)
<1>1. TypeOK /\ Reader(n, p)
  BY HistoryOf DEF IInv
<1>2. PICK i \in Piece :
        /\ local[n].given = <<i>>
        /\ i = Message(n) \/ \E c \in Seen(p) : i = Result(n, c, "downstream")
  BY <1>1 DEF Reader, Asked
<1>3. ToSet(local[n].given) = {i}
  BY <1>2 DEF ToSet
<1>4. CASE i.kind # "result"
  BY <1>3, <1>4 DEF KnownResults
<1>5. CASE i.kind = "result"
  <2>1. PICK c \in Seen(p) : i = Result(n, c, "downstream")
    BY <1>2, <1>5 DEF Message
  <2>2. p # 0 /\ i.call = c
    BY <2>1 DEF Seen, Result
  <2>3. p \in Turns /\ Answered(p) /\ Own(p) /\ CallsDown(p)
    BY <1>1, <2>2, CallsOf
  <2>4. Undamaged(p)
    BY <2>2 DEF Intact
  <2>5. Intact(p)
    BY <2>3, <2>4, IntactAsked
  <2>6. Sound(context[p])
    BY <2>3, <2>5, HistoryOf DEF Reader, Ends
  <2>7. local[n].replay = Restored(p)
    BY <1>1, <2>2 DEF Reader, Calls
  <2>8. PICK q \in ToSet(Restored(p)) : q.kind = "call" /\ q.id = "downstream" /\ q.call = c
    BY <1>1, <2>3, <2>5, <2>6, CallRestored DEF CallsDown
  <2>9. q \in ToSet(local[n].replay)
    BY <2>7, <2>8
  <2> QED BY <1>3, <2>2, <2>8, <2>9 DEF KnownResults
<1> QED BY <1>4, <1>5

LEMMA RefusalReads ==
  ASSUME IInv, OwnAnswers, History, Onward, NEW n \in Turns, NEW p \in 0 .. MaxTurns,
         ask[n].prev = p,
         \/ NotFound(n) \/ NotContinuable(n) \/ ChainBroken(n) \/ LoadFails(n)
         \/ UnknownResult(n) \/ Exhausted(n) \/ CallFails(n)
  PROVE  Reader(n, p)'
<1>1. TypeOK /\ Reader(n, p)
  BY HistoryOf DEF IInv
<1>2. PICK kind : Refuse(n, kind) /\ (kind = "state_not_found" => NotFound(n))
                                  /\ (kind = "tool_mapping_failed" => UnknownResult(n))
  BY DEF NotFound, NotContinuable, ChainBroken, LoadFails, UnknownResult, Exhausted, CallFails
<1>3. /\ pc'[n] = "done" /\ outcome'[n] = kind
      /\ UNCHANGED <<responses, ask, context>>
  BY <1>1, <1>2, RefuseFields
<1>4. NotFound(n) => Excused(n) \/ now > Ttl
  <2> SUFFICES ASSUME NotFound(n), ~Excused(n) PROVE now > Ttl
    OBVIOUS
  <2>1. pc[n] = "lookup" /\ ~Stored(p)
    BY DEF NotFound
  <2>2. p \in Turns /\ Answered(p) /\ Own(p)
    BY <1>1, <2>1, LoadsOf DEF Loading
  <2>3. pc[p] = "done" /\ p \notin lost
    BY <1>1, <2>2, StoreAssumption DEF Excused, Reader, Asked, Turns
  <2>4. p \in written
    BY <2>2, <2>3 DEF Own, OwnPhase
  <2> QED BY <2>1, <2>2, <2>4 DEF Own, OwnRow
<1>5. UnknownResult(n) => Excused(n) \/ ~Intact(n)
  BY WholeKnows DEF UnknownResult, Calling
<1>6. Replayed(n)' => Replayed(n)
  BY <1>3 DEF Replayed, Stored, Storing
<1> QED BY <1>1, <1>2, <1>3, <1>4, <1>5, <1>6, ReaderEnds

LEMMA StoreReads ==
  ASSUME IInv, OwnAnswers, Onward, NEW n \in Turns, NEW p \in 0 .. MaxTurns,
         ask[n].prev = p, Reader(n, p),
         StoreRow(n) \/ StoreRowFails(n) \/ StoreHandle(n) \/ StoreInput(n) \/ StoreOutput(n)
  PROVE  Reader(n, p)'
<1>1. /\ pc[n] \in Storing /\ pc'[n] \in Inserting \cup {"done"}
      /\ UNCHANGED <<now, ask, context, account>>
      /\ pc'[n] # "done" => local'[n] = local[n]
      /\ outcome'[n] \in {outcome[n], "answered", "failed"}
  BY StoreStep
<1>2. Replayed(n)' => Replayed(n)
  <2>1. CASE StoreRow(n)
    <3>1. /\ pc[n] = "store"
          /\ responses'[n].prev = IF local[n].native THEN Upstream(ask[n].prev) ELSE NoRef
          /\ local' = local
      BY <2>1 DEF StoreRow, InsertRow, IInv, TypeOK, StoreTypeOK
    <3> QED BY <3>1 DEF Replayed, Storing, Upstream, NoRef
  <2>2. CASE StoreRowFails(n) \/ StoreHandle(n) \/ StoreInput(n) \/ StoreOutput(n)
    <3>1. responses' = responses
      BY <2>2 DEF StoreRowFails, StoreHandle, StoreInput, StoreOutput, store
    <3> QED BY <1>1, <3>1 DEF Replayed, Stored, Storing
  <2> QED BY <2>1, <2>2
<1>3. /\ outcome[n] = "state_not_found" => Excused(n) \/ now > Ttl
      /\ outcome[n] = "tool_mapping_failed" => Excused(n) \/ ~Intact(n)
  BY DEF Reader, Ends
<1>4. pc'[n] \in Storing \cup {"done"}
  BY <1>1 DEF Storing, Inserting
<1> QED BY <1>1, <1>2, <1>3, <1>4, ReaderEnds

-----------------------------------------------------------------------------
(* What turns know of the ones they continue: the answer.                   *)

LEMMA NothingSound == <<>> \in Seq(Piece) /\ Sound(<<>>) /\ Down(<<>>)
<1>1. DOMAIN <<>> = {}
  OBVIOUS
<1>2. <<>> \in Seq(Piece)
  BY EmptySeq
<1>3. Sound(<<>>) /\ Down(<<>>)
  BY <1>1 DEF Sound, Matched, Down
<1> QED BY <1>2, <1>3

\* What is restored of a response differs from it in call ids at most.
LEMMA RestoredShape ==
  ASSUME TypeOK, NEW p \in Turns, Answered(p), Own(p)
  PROVE  /\ Restored(p) \in Seq(Piece) /\ Len(Restored(p)) = Len(context[p])
         /\ \A k \in 1 .. Len(context[p]) : /\ Restored(p)[k].turn = context[p][k].turn
                                            /\ Restored(p)[k].kind = context[p][k].kind
<1> DEFINE s == context[p]
           f == Front(s)
<1>1. s \in Seq(Piece) /\ s # <<>>
  BY DEF TypeOK, Answered
<1>2. PICK e \in Piece :
        /\ e.turn = p /\ Last(s).turn = p /\ Last(s).kind = e.kind
        /\ Restored(p) = Append(f, e)
  BY Outputs
<1>3. /\ f \in Seq(Piece) /\ Len(s) \in Nat /\ Len(s) > 0 /\ Len(f) = Len(s) - 1
      /\ \A i \in 1 .. Len(s) - 1 : f[i] = s[i]
      /\ Last(s) = s[Len(s)]
  BY <1>1, Parts
<1> HIDE DEF s, f
<1>4. /\ Append(f, e) \in Seq(Piece) /\ Len(Append(f, e)) = Len(f) + 1
      /\ \A i \in 1 .. Len(f) : Append(f, e)[i] = f[i]
      /\ Append(f, e)[Len(f) + 1] = e
  BY <1>2, <1>3, Appended
<1> DEFINE r == Append(f, e)
<1>5. /\ r \in Seq(Piece) /\ Len(r) = Len(s) /\ r[Len(s)] = e
      /\ \A i \in 1 .. Len(s) - 1 : r[i] = s[i]
  <2>1. Len(f) + 1 = Len(s)
    BY <1>3
  <2> QED BY <1>3, <1>4, <2>1
<1> HIDE DEF r
<1>6. \A k \in 1 .. Len(s) : r[k].turn = s[k].turn /\ r[k].kind = s[k].kind
  <2> SUFFICES ASSUME NEW k \in 1 .. Len(s) PROVE r[k].turn = s[k].turn /\ r[k].kind = s[k].kind
    OBVIOUS
  <2>1. k = Len(s) \/ k \in 1 .. Len(s) - 1
    BY <1>3
  <2> QED BY <1>2, <1>3, <1>5, <2>1
<1> QED BY <1>2, <1>5, <1>6 DEF r, s

\* What was read of an undamaged response: some of its items, in order.
LEMMA ReadParts ==
  ASSUME TypeOK, NEW n \in Turns, NEW p \in Turns, Answered(p), Own(p), Undamaged(p), Read(n, p)
  PROVE  \E x \in {<<>>, Front(context[p])}, e \in Piece :
           /\ e.kind \in {"answer", "call"}
           /\ Last(context[p]).kind = e.kind /\ Last(context[p]).call = e.call
           /\ e.kind = "call" => e.id = "downstream" /\ Last(context[p]).id = "upstream"
           /\ e.kind = "answer" => e.call = 0
           /\ \/ local[n].replay = x /\ local[n].mapped = {}
              \/ local[n].replay = Append(x, e) /\ local[n].mapped = {e.call} \ {0}
<1>1. p \notin lost
  BY IntactAsked
<1>2. PICK y \in {<<>>, Output(p)}, x \in {<<>>, Front(context[p])} :
        local[n].mapped = Mapped(y) /\ local[n].replay = x \o y
  BY <1>1 DEF Read
<1>3. PICK e \in Piece :
        /\ Output(p) = <<e>> /\ e.kind \in {"answer", "call"}
        /\ Last(context[p]).kind = e.kind /\ Last(context[p]).call = e.call
        /\ e.kind = "call" => e.id = "downstream" /\ Last(context[p]).id = "upstream"
        /\ e.kind = "answer" => e.call = 0
        /\ Mapped(Output(p)) = {e.call} \ {0}
  BY Outputs
<1>4. x \in Seq(Piece)
  BY Parts, EmptySeq DEF TypeOK, Answered
<1>5. CASE y = <<>>
  <2>1. x \o <<>> = x
    BY <1>4, ConcatEmptySeq
  <2>2. local[n].replay = x /\ local[n].mapped = {}
    BY <1>2, <1>5, <2>1, NothingMapped
  <2> QED BY <1>3, <2>2
<1>6. CASE y = Output(p)
  <2>1. x \o <<e>> = Append(x, e)
    BY <1>3, <1>4, AppendIsConcat
  <2>2. local[n].replay = Append(x, e) /\ local[n].mapped = {e.call} \ {0}
    BY <1>2, <1>3, <1>6, <2>1
  <2> QED BY <1>3, <2>2
<1> QED BY <1>5, <1>6

LEMMA ReplaySound ==
  ASSUME TypeOK, NEW n \in Turns, NEW p \in Turns, Answered(p), Own(p), Undamaged(p), Read(n, p),
         Sound(context[p]), Down(Front(context[p]))
  PROVE  Sound(local[n].replay) /\ Down(local[n].replay)
<1>1. PICK x \in {<<>>, Front(context[p])}, e \in Piece :
        /\ e.kind \in {"answer", "call"}
        /\ e.kind = "call" => e.id = "downstream"
        /\ e.kind = "answer" => e.call = 0
        /\ local[n].replay = x \/ local[n].replay = Append(x, e)
  BY ReadParts
<1>2. context[p] \in Seq(Piece) /\ context[p] # <<>>
  BY DEF TypeOK, Answered
<1>3. x \in Seq(Piece) /\ Sound(x) /\ Down(x)
  BY <1>2, Parts, SoundFront, NothingSound
<1>4. Sound(Append(x, e)) /\ Down(Append(x, e))
  BY <1>1, <1>3, SoundAppend, DownAppend
<1> QED BY <1>1, <1>3, <1>4

\* A result is sent to a history that has its call, under the id it is sent with.
LEMMA ReplayKnows ==
  ASSUME NEW n \in Turns, NEW i \in Piece, local[n].given = <<i>>, i.kind = "result",
         KnownResults(n)
  PROVE  \E k \in DOMAIN local[n].replay :
           /\ local[n].replay[k].kind = "call" /\ local[n].replay[k].call = i.call
           /\ local[n].replay[k].id = "downstream"
<1>1. i \in ToSet(local[n].given)
  BY DEF ToSet
<1> QED BY <1>1 DEF KnownResults, ToSet

LEMMA NativeKnows ==
  ASSUME TypeOK, NEW n \in Turns, NEW p \in Turns, Answered(p), Own(p), Undamaged(p), Read(n, p),
         KnownResults(n), NEW i \in Piece, local[n].given = <<i>>, i.kind = "result",
         i.call # 0
  PROVE  \E k \in DOMAIN context[p] :
           /\ context[p][k].kind = "call" /\ context[p][k].call = i.call
           /\ context[p][k].id = IF i.call \in local[n].mapped THEN "upstream" ELSE "downstream"
<1> DEFINE s == context[p]
<1>1. PICK x \in {<<>>, Front(s)}, e \in Piece :
        /\ e.kind \in {"answer", "call"}
        /\ Last(s).kind = e.kind /\ Last(s).call = e.call
        /\ e.kind = "call" => e.id = "downstream" /\ Last(s).id = "upstream"
        /\ e.kind = "answer" => e.call = 0
        /\ \/ local[n].replay = x /\ local[n].mapped = {}
           \/ local[n].replay = Append(x, e) /\ local[n].mapped = {e.call} \ {0}
  BY ReadParts
<1>2. PICK k \in DOMAIN local[n].replay :
        /\ local[n].replay[k].kind = "call" /\ local[n].replay[k].call = i.call
        /\ local[n].replay[k].id = "downstream"
  BY ReplayKnows
<1>3. /\ s \in Seq(Piece) /\ s # <<>>
  BY DEF TypeOK, Answered
<1>4. /\ Front(s) \in Seq(Piece) /\ Len(s) \in Nat /\ Len(s) > 0 /\ Len(Front(s)) = Len(s) - 1
      /\ \A j \in 1 .. Len(s) - 1 : Front(s)[j] = s[j]
      /\ Last(s) = s[Len(s)]
  BY <1>3, Parts
<1>5. DOMAIN s = 1 .. Len(s) /\ Len(s) \in DOMAIN s
  BY <1>3, <1>4, LenProperties
<1>6. x \in Seq(Piece) /\ Len(x) \in Nat /\ DOMAIN x = 1 .. Len(x)
  BY <1>4, EmptySeq, LenProperties
<1> HIDE DEF s
<1>7. ASSUME NEW j \in DOMAIN x PROVE j \in DOMAIN s /\ s[j] = x[j]
  <2>1. x # <<>>
    BY <1>7
  <2>2. x = Front(s)
    BY <1>1, <2>1
  <2> QED BY <1>4, <1>5, <1>6, <1>7, <2>2
<1>8. CASE i.call \in local[n].mapped
  <2>1. e.call = i.call /\ e.call # 0
    BY <1>1, <1>8
  <2>2. e.kind = "call"
    BY <1>1, <2>1
  <2>3. s[Len(s)].kind = "call" /\ s[Len(s)].call = i.call /\ s[Len(s)].id = "upstream"
    BY <1>1, <1>4, <2>1, <2>2
  <2> QED BY <1>5, <1>8, <2>3 DEF s
<1>9. CASE i.call \notin local[n].mapped
  <2>1. k \in DOMAIN x /\ local[n].replay[k] = x[k]
    <3>1. CASE local[n].replay = x
      BY <1>2, <3>1
    <3>2. CASE local[n].replay = Append(x, e) /\ local[n].mapped = {e.call} \ {0}
      <4> DEFINE r == Append(x, e)
      <4>1. /\ r \in Seq(Piece) /\ Len(r) = Len(x) + 1 /\ r[Len(x) + 1] = e
            /\ \A j \in 1 .. Len(x) : r[j] = x[j]
        BY <1>6, Appended
      <4> HIDE DEF r
      <4>2. DOMAIN r = 1 .. Len(x) + 1
        BY <4>1, LenProperties
      <4>3. k \in DOMAIN r /\ r[k].call = i.call
        BY <1>2, <3>2 DEF r
      <4>4. e.call # i.call
        BY <1>9, <3>2
      <4>5. k # Len(x) + 1
        BY <4>1, <4>3, <4>4
      <4>6. k \in 1 .. Len(x)
        BY <1>6, <4>2, <4>3, <4>5
      <4> QED BY <1>6, <3>2, <4>1, <4>6 DEF r
    <3> QED BY <1>1, <3>1, <3>2
  <2>2. k \in DOMAIN s /\ s[k] = x[k]
    BY <1>7, <2>1
  <2> QED BY <1>2, <1>9, <2>1, <2>2 DEF s
<1> QED BY <1>8, <1>9

\* What a turn sends: the history it has, and its own input.
LEMMA SentPieces ==
  ASSUME IInv, OwnAnswers, NEW n \in Turns, NEW p \in 0 .. MaxTurns, ask[n].prev = p,
         Reader(n, p), NEW i \in Piece, local[n].given = <<i>>,
         i.kind \in {"message", "result"}, i.kind = "result" => i.id = "downstream"
  PROVE  /\ UpstreamAnswers(n) /\ ~local[n].native =>
              local[n].input = Append(local[n].replay, i)
         /\ UpstreamAnswers(n) /\ local[n].native =>
              p # 0 /\ Remembered(n) \o local[n].input =
                Append(context[p],
                       IF i.kind = "result" /\ i.call \in local[n].mapped
                       THEN [i EXCEPT !.id = "upstream"] ELSE i)
         /\ RetryAnswers(n) =>
              local[n].replay \o Renamed(local[n].input, local[n].mapped, "downstream") =
                Append(local[n].replay, i)
<1> DEFINE j == IF i.kind = "result" /\ i.call \in local[n].mapped
                THEN [i EXCEPT !.id = "upstream"] ELSE i
<1>1. TypeOK
  BY DEF IInv
<1>2. local[n].replay \in Seq(Piece)
  BY <1>1, Fields
<1>3. j \in Piece /\ j.kind = i.kind /\ j.call = i.call
  BY DEF Piece
<1>4. pc[n] \in {"call", "retry"} /\ local[n].native => local[n].input = <<j>>
  BY RenamedOne DEF Reader, Calls
<1>5. (IF j.kind = "result" /\ j.call \in local[n].mapped
       THEN [j EXCEPT !.id = "downstream"] ELSE j) = i
  BY DEF Piece
<1> HIDE DEF j
<1>6. UpstreamAnswers(n) /\ ~local[n].native => local[n].input = Append(local[n].replay, i)
  <2>1. local[n].replay \o <<i>> = Append(local[n].replay, i)
    BY <1>2, AppendIsConcat
  <2> QED BY <2>1 DEF Reader, Calls, UpstreamAnswers
<1>7. ASSUME UpstreamAnswers(n), local[n].native
      PROVE  p # 0 /\ Remembered(n) \o local[n].input = Append(context[p], j)
  <2>1. pc[n] = "call"
    BY <1>7 DEF UpstreamAnswers
  <2>2. p # 0
    BY <1>7 DEF IInv, Places, Place
  <2>3. /\ p \in Turns /\ local[n].previous = account[p].target
        /\ local[n].handle \in {None, account[p].key}
    BY <2>1, <2>2, CallsOf DEF Calling
  <2>4. CanSendHandle(n, local[n].target)
    BY <1>7, <2>1 DEF Reader, Calls
  <2>5. Remembered(n) = context[p]
    BY <2>3, <2>4 DEF CanSendHandle, Remembered
  <2>6. local[n].input = <<j>>
    BY <1>4, <1>7, <2>1
  <2>7. context[p] \in Seq(Piece)
    BY <1>1, <2>3 DEF TypeOK
  <2>8. context[p] \o <<j>> = Append(context[p], j)
    BY <1>3, <2>7, AppendIsConcat
  <2> QED BY <2>2, <2>5, <2>6, <2>8
<1>8. ASSUME RetryAnswers(n)
      PROVE  local[n].replay \o Renamed(local[n].input, local[n].mapped, "downstream") =
               Append(local[n].replay, i)
  <2>1. pc[n] = "retry" /\ local[n].native
    BY <1>8 DEF RetryAnswers, OwnAnswers, Own, OwnPhase
  <2>2. local[n].input = <<j>>
    BY <1>4, <2>1
  <2>3. Renamed(<<j>>, local[n].mapped, "downstream") = <<i>>
    <3>1. Renamed(<<j>>, local[n].mapped, "downstream") =
            <<IF j.kind = "result" /\ j.call \in local[n].mapped
              THEN [j EXCEPT !.id = "downstream"] ELSE j>>
      BY <1>3, RenamedOne
    <3> QED BY <1>5, <3>1
  <2>4. local[n].replay \o <<i>> = Append(local[n].replay, i)
    BY <1>2, AppendIsConcat
  <2> QED BY <2>2, <2>3, <2>4
<1> QED BY <1>6, <1>7, <1>8 DEF j

\* The upstream answered, asked with a history and one piece more.
LEMMA AnswerReads ==
  ASSUME IInv, OwnAnswers, History, Onward, NEW n \in Turns, NEW p \in 0 .. MaxTurns,
         ask[n].prev = p, UpstreamAnswers(n) \/ RetryAnswers(n)
  PROVE  Reader(n, p)'
<1>1. TypeOK /\ Reader(n, p) /\ Own(n) /\ 0 \notin lost /\ 0 \notin Turns
  BY HistoryOf DEF IInv, OwnAnswers, TypeOK, Turns
<1>2. pc[n] \in {"call", "retry"}
  BY DEF UpstreamAnswers, RetryAnswers
<1>3. PICK i \in Piece :
        /\ local[n].given = <<i>>
        /\ i = Message(n) \/ \E c \in Seen(p) : i = Result(n, c, "downstream")
  BY <1>1, <1>2 DEF Reader, Asked, Calling
<1>4. /\ i.kind \in {"message", "result"}
      /\ i.kind = "message" => i.call = 0
      /\ i.kind = "result" => i.id = "downstream" /\ i.call # 0 /\ p # 0
  BY <1>3 DEF Message, Result, Seen
<1> DEFINE renamed == IF i.kind = "result" /\ i.call \in local[n].mapped
                      THEN [i EXCEPT !.id = "upstream"] ELSE i
<1>5. PICK sent \in Seq(Piece), base \in Seq(Piece), j \in Piece :
        /\ Answers(n, sent) /\ sent = Append(base, j)
        /\ \/ base = local[n].replay /\ j = i
           \/ local[n].native /\ p # 0 /\ base = context[p] /\ j = renamed
  <2>1. local[n].replay \in Seq(Piece) /\ (p # 0 => context[p] \in Seq(Piece))
    BY <1>1, Fields, StoreAssumption DEF TypeOK, Turns
  <2>2. renamed \in Piece
    BY DEF Piece
  <2> HIDE DEF renamed
  <2>3. CASE UpstreamAnswers(n) /\ ~local[n].native
    <3>1. local[n].input = Append(local[n].replay, i)
      BY <1>1, <1>3, <1>4, <2>3, SentPieces
    <3>2. PICK sent \in Seq(Piece) : Answers(n, sent) /\ sent = local[n].input
      BY <2>3, Sent
    <3> QED BY <2>1, <3>1, <3>2
  <2>4. CASE UpstreamAnswers(n) /\ local[n].native
    <3>1. p # 0 /\ Remembered(n) \o local[n].input = Append(context[p], renamed)
      BY <1>1, <1>3, <1>4, <2>4, SentPieces DEF renamed
    <3>2. PICK sent \in Seq(Piece) : Answers(n, sent) /\ sent = Remembered(n) \o local[n].input
      BY <2>4, Sent
    <3> QED BY <2>1, <2>2, <2>4, <3>1, <3>2
  <2>5. CASE RetryAnswers(n)
    <3>1. local[n].replay \o Renamed(local[n].input, local[n].mapped, "downstream")
            = Append(local[n].replay, i)
      BY <1>1, <1>3, <1>4, <2>5, SentPieces
    <3>2. PICK sent \in Seq(Piece) :
            /\ Answers(n, sent)
            /\ sent = local[n].replay \o Renamed(local[n].input, local[n].mapped, "downstream")
      BY <2>5, Sent
    <3> QED BY <2>1, <3>1, <3>2
  <2> QED BY <2>3, <2>4, <2>5
<1>6. /\ j.kind = i.kind /\ j.call = i.call
      /\ renamed.id = IF i.kind = "result" /\ i.call \in local[n].mapped THEN "upstream" ELSE i.id
  BY <1>5 DEF Piece
<1> HIDE DEF renamed
<1>7. /\ pc'[n] = "store" /\ ask' = ask /\ local'[n].native = local[n].native
      /\ outcome'[n] \in {outcome[n], "answered", "failed"}
      /\ UNCHANGED <<responses, items, handles, now, written, lost>>
  BY <1>5, AnswerFields
<1>8. PICK answer \in Piece : /\ context'[n] = Append(sent, answer)
                              /\ answer.kind = "call" \/ (answer.kind = "answer" /\ answer.call = 0)
  <2>1. PICK kind \in {"answer", "call"} :
          context'[n] = Append(sent, Answer(n, kind, IF kind = "call" THEN "upstream" ELSE "none"))
    <3>1. Answers(n, sent)
      BY <1>5
    <3> QED BY <3>1, AnswerFields
  <2>2. Answer(n, kind, IF kind = "call" THEN "upstream" ELSE "none") \in Piece
    BY AnswerType
  <2> QED BY <2>1, <2>2 DEF Answer
<1>9. ~Stored(n) /\ outcome[n] \notin {"state_not_found", "tool_mapping_failed"}
  BY <1>1, <1>2, Unanswered DEF Storing
<1>10. p # 0 =>
         /\ p \in Turns /\ p # n /\ Answered(p) /\ Own(p) /\ CallsDown(p) /\ Read(n, p)
         /\ context'[p] = context[p] /\ Answered(p)'
         /\ pc[p] = "done" => pc'[p] = "done"
  BY <1>1, <1>2, CallsOf, AnsweredKept DEF Calling
<1>11. p = 0 => local[n].replay = <<>> /\ ~local[n].native
  BY <1>1, <1>2 DEF Reader, Calls, Calling
<1>12. Excused(n) => Excused(n)'
  BY <1>1, <1>7, <1>10, ExcusedKept
<1>13. Excused(n)' \/ OnWholeHistory(n)'
  <2> SUFFICES ASSUME ~Excused(n), p # 0 PROVE IsPrefix(Shape(context[p]), Shape(context'[n]))
    BY <1>7, <1>10, <1>12 DEF OnWholeHistory
  <2>1. local[n].replay = Restored(p)
    BY <1>1, <1>2 DEF Reader, Calls, Calling
  <2> DEFINE s == context[p]
  <2>2. /\ s \in Seq(Piece) /\ Len(base) = Len(s)
        /\ \A k \in 1 .. Len(s) : base[k].turn = s[k].turn /\ base[k].kind = s[k].kind
    BY <1>1, <1>5, <1>10, <2>1, RestoredShape DEF TypeOK
  <2> HIDE DEF s
  <2>3. /\ Len(sent) = Len(base) + 1 /\ \A k \in 1 .. Len(base) : sent[k] = base[k]
    BY <1>5, Appended
  <2> DEFINE t == context'[n]
  <2>4. /\ t \in Seq(Piece) /\ Len(t) = Len(sent) + 1
        /\ \A k \in 1 .. Len(sent) : t[k] = sent[k]
    BY <1>8, Appended
  <2> HIDE DEF t
  <2>5. Len(s) \in Nat /\ Len(s) <= Len(t)
    BY <2>2, <2>3, <2>4, LenProperties
  <2>6. \A k \in 1 .. Len(s) : s[k].turn = t[k].turn /\ s[k].kind = t[k].kind
    <3> SUFFICES ASSUME NEW k \in 1 .. Len(s) PROVE s[k].turn = t[k].turn /\ s[k].kind = t[k].kind
      OBVIOUS
    <3>1. k \in 1 .. Len(base) /\ k \in 1 .. Len(sent)
      BY <2>2, <2>3, <2>5
    <3>2. t[k] = base[k]
      BY <2>3, <2>4, <3>1
    <3> QED BY <2>2, <3>2
  <2>7. IsPrefix(Shape(s), Shape(t))
    BY <2>2, <2>4, <2>5, <2>6, Prefixed
  <2> QED BY <2>7 DEF s, t
<1>14. ASSUME Intact(n)
       PROVE  Sound(context'[n]) /\ (~local[n].native => Down(sent))
  <2>1. p # 0 => Undamaged(p) /\ Intact(p)
    BY <1>10, <1>14, IntactAsked DEF Intact
  <2>2. p # 0 => Sound(context[p]) /\ Down(Front(context[p]))
    BY <1>10, <2>1, HistoryOf DEF Reader, Ends, CallsDown
  <2>3. Sound(local[n].replay) /\ Down(local[n].replay)
    <3>1. CASE p = 0
      BY <1>11, <3>1, NothingSound
    <3>2. CASE p # 0
      BY <1>1, <1>10, <2>1, <2>2, <3>2, ReplaySound
    <3> QED BY <3>1, <3>2
  <2>4. Sound(base)
    BY <1>5, <2>2, <2>3
  <2>5. KnownResults(n)
    BY <1>1, <1>2 DEF Reader, Calls
  <2>6. j.kind = "result" => \E k \in DOMAIN base :
          base[k].kind = "call" /\ base[k].call = j.call /\ base[k].id = j.id
    <3> SUFFICES ASSUME i.kind = "result"
                 PROVE  \E k \in DOMAIN base :
                          base[k].kind = "call" /\ base[k].call = j.call /\ base[k].id = j.id
      BY <1>6
    <3>1. CASE base = local[n].replay /\ j = i
      BY <1>3, <1>4, <2>5, <3>1, ReplayKnows
    <3>2. CASE p # 0 /\ base = context[p] /\ j = renamed
      <4>1. PICK k \in DOMAIN context[p] :
              /\ context[p][k].kind = "call" /\ context[p][k].call = i.call
              /\ context[p][k].id = IF i.call \in local[n].mapped THEN "upstream" ELSE "downstream"
        BY <1>1, <1>3, <1>4, <1>10, <2>1, <2>5, <3>2, NativeKnows
      <4>2. j.id = IF i.call \in local[n].mapped THEN "upstream" ELSE "downstream"
        BY <1>4, <1>6, <3>2
      <4> QED BY <1>6, <3>2, <4>1, <4>2
    <3> QED BY <1>5, <3>1, <3>2
  <2>7. j.kind \in {"message", "answer"} => j.call = 0
    BY <1>4, <1>6
  <2>8. Sound(sent)
    BY <1>5, <2>4, <2>6, <2>7, SoundAppend
  <2>9. Sound(context'[n])
    BY <1>8, <2>8, SoundAppend
  <2>10. ~local[n].native => Down(sent)
    BY <1>4, <1>5, <1>6, <2>3, DownAppend
  <2> QED BY <2>9, <2>10
<1>15. Front(context'[n]) = sent
  BY <1>8, Appended
<1>16. Replayed(n)' => ~local[n].native
  BY <1>7, <1>9 DEF Replayed, Stored
<1>17. Intact(n)' => Intact(n)
  BY IntactBefore
<1>18. Ends(n)'
  BY <1>7, <1>9, <1>13, <1>14, <1>15, <1>16, <1>17 DEF Ends
<1>19. Asked(n, p)'
  BY <1>1, <1>7, <1>10 DEF Reader, Asked, Loading, Calling
<1>20. Loads(n, p)' /\ Calls(n, p)'
  BY <1>7 DEF Loads, Calls, Calling
<1> QED BY <1>18, <1>19, <1>20 DEF Reader

-----------------------------------------------------------------------------
(* The theorems.                                                            *)

LEMMA TurnReads ==
  ASSUME IInv, OwnAnswers, History, Onward, NEW n \in Turns, Turn(n)
  PROVE  \A p \in 0 .. MaxTurns : ask'[n].prev = p => Reader(n, p)'
<1>1. PICK p \in 0 .. MaxTurns : ask[n].prev = p /\ Reader(n, p)
  BY HistoryOf
<1>2. ask'[n].prev = p
  <2>1. CASE \/ LookUp(n) \/ NotFound(n) \/ NotContinuable(n)
             \/ Walk(n) \/ ChainWalked(n) \/ ChainBroken(n)
             \/ ReadItems(n) \/ ReadHandle(n) \/ LoadFails(n)
             \/ PickTarget(n) \/ UnknownResult(n) \/ Exhausted(n)
             \/ HandleMissing(n) \/ TargetFails(n) \/ CallFails(n)
    <3>1. pc[n] # "new"
      BY <2>1 DEF LookUp, NotFound, NotContinuable, Walk, ChainWalked, ChainBroken, ReadItems,
                  ReadHandle, LoadFails, PickTarget, UnknownResult, Exhausted, HandleMissing,
                  TargetFails, CallFails, Goto
    <3> QED BY <1>1, <2>1, <3>1, EarlyStep
  <2>2. CASE UpstreamAnswers(n) \/ RetryAnswers(n)
    BY <1>1, <2>2, Sent, AnswerFields
  <2>3. CASE StoreRow(n) \/ StoreRowFails(n) \/ StoreHandle(n) \/ StoreInput(n) \/ StoreOutput(n)
    BY <1>1, <2>3, StoreStep
  <2> QED BY <2>1, <2>2, <2>3 DEF Turn
<1>3. Reader(n, p)'
  BY <1>1, LookUpReads, WalkReads, ChainWalkedReads, ReadItemsReads, ReadHandleReads,
     PickTargetReads, HandleMissingReads, TargetFailsReads, RefusalReads, AnswerReads, StoreReads
     DEF Turn
<1> QED BY <1>1, <1>2, <1>3

LEMMA HistoryInitially == Init => History
<1> SUFFICES ASSUME Init, NEW n \in Turns, NEW p \in 0 .. MaxTurns, ask[n].prev = p
             PROVE  Reader(n, p)
  BY DEF History
<1>1. /\ pc[n] = "new" /\ p = 0 /\ outcome[n] = "none" /\ context[n] = <<>>
  BY DEF Init, NoAsk
<1>2. Asked(n, p) /\ Loads(n, p) /\ Calls(n, p)
  BY <1>1 DEF Asked, Loads, Calls, Loading, Calling
<1>3. Ends(n)
  BY <1>1 DEF Ends, Answered, OnWholeHistory
<1> QED BY <1>2, <1>3 DEF Reader

\* A cleanup stores nothing.
LEMMA CleanReplayed ==
  ASSUME IInv, Clean, UNCHANGED chainVars, NEW n \in Turns, Replayed(n)'
  PROVE  Replayed(n)
<1>1. /\ UNCHANGED <<pc, local>>
      /\ responses'[n] = responses[n] \/ responses'[n] = NoRow
  BY CleanFields
<1> QED BY <1>1 DEF Replayed, Stored, NoRow

LEMMA HistoryPreserved == IInv /\ OwnAnswers /\ History /\ [Next]_vars => History'
<1> SUFFICES ASSUME IInv, OwnAnswers, History, [Next]_vars,
                    NEW n \in Turns, NEW p \in 0 .. MaxTurns, ask'[n].prev = p
             PROVE  Reader(n, p)'
  BY DEF History
<1>1. Onward
  BY NextOnward
<1>2. ASSUME ask'[n] = ask[n], pc'[n] = pc[n], local'[n] = local[n], outcome'[n] = outcome[n],
             context'[n] = context[n], Replayed(n)' => Replayed(n)
      PROVE  Reader(n, p)'
  <2>1. ask[n].prev = p
    BY <1>2
  <2>2. Reader(n, p)
    BY <2>1 DEF History
  <2> QED BY <1>1, <1>2, <2>1, <2>2, ReaderStill
<1>3. Still(n) => Reader(n, p)'
  BY <1>2 DEF Still, Replayed, Stored
<1>4. ASSUME NEW m \in Turns, Ask(m) \/ Turn(m) PROVE Reader(n, p)'
  <2>1. CASE m = n
    BY <1>1, <1>4, <2>1, AskReads, TurnReads
  <2>2. CASE m # n
    <3>1. Still(n)
      BY <1>4, <2>2, TurnOwn DEF Alone, OwnAnswers
    <3> QED BY <1>3, <3>1
  <2> QED BY <2>1, <2>2
<1>5. CASE Clean /\ UNCHANGED chainVars
  <2>1. UNCHANGED <<pc, ask, local, outcome, context>>
    BY <1>5 DEF chainVars, upstream
  <2> QED BY <1>2, <1>5, <2>1, CleanReplayed
<1>6. CASE Tick /\ UNCHANGED <<janitor, chainVars>>
  BY <1>3, <1>6, TickFields
<1>7. CASE Crash
  <2>1. /\ UNCHANGED <<responses, ask, outcome, context>>
        /\ pc' = [m \in Turns |-> IF pc[m] = "new" THEN "new" ELSE "done"]
        /\ local' = [m \in Turns |-> NoLocal]
    BY <1>7 DEF Crash, store, upstream
  <2>2. ask[n].prev = p /\ Reader(n, p) /\ Own(n)
    BY <2>1 DEF History, OwnAnswers
  <2>3. Replayed(n)' => Replayed(n)
    BY <2>1 DEF Replayed, Stored, Storing
  <2>4. CASE pc[n] = "new"
    <3>1. pc'[n] = "new" /\ p = 0
      BY <2>1, <2>2, <2>4 DEF Own, OwnPhase, NoAsk
    <3>2. Asked(n, p)' /\ Loads(n, p)' /\ Calls(n, p)'
      BY <3>1 DEF Asked, Loads, Calls, Loading, Calling
    <3>3. Ends(n)'
      BY <2>1, <2>2, <2>4, EndsLater DEF Storing
    <3> QED BY <3>2, <3>3 DEF Reader
  <2>5. CASE pc[n] # "new"
    <3>1. pc'[n] = "done"
      BY <2>1, <2>5
    <3>2. /\ outcome[n] = "state_not_found" => Excused(n) \/ now > Ttl
          /\ outcome[n] = "tool_mapping_failed" => Excused(n) \/ ~Intact(n)
      BY <2>2 DEF Reader, Ends
    <3> QED BY <1>1, <2>1, <2>2, <2>3, <3>1, <3>2, ReaderEnds
  <2> QED BY <2>4, <2>5
<1>8. CASE UNCHANGED vars
  BY <1>3, <1>8, IdleFields
<1> QED BY <1>4, <1>5, <1>6, <1>7, <1>8 DEF Next

\* What a request has read of the response it continues, sends, and is told, in every
\* reachable state (load_continuation_context, apply_continuation_to_canonical).
THEOREM HistoryHolds == Spec => []History
<1>1. Init => History
  BY HistoryInitially
<1>2. IInv /\ OwnAnswers /\ History /\ [Next]_vars => History'
  BY HistoryPreserved
<1> QED BY <1>1, <1>2, Invariant, OwnAnswersHold, PTL DEF Spec

\* Whatever target, credential, retry and cleanup come in between, an answer is made
\* from the whole conversation, or the response continued was still being written,
\* damaged by a fault or expired (apply_continuation_to_canonical,
\* load_replay_chain_items).
THEOREM ContextStaysIntact == Spec => []ContextIntact
<1>1. IInv /\ History => ContextIntact
  BY HistoryOf DEF ContextIntact, Reader, Ends
<1> QED BY <1>1, Invariant, HistoryHolds, PTL

\* In every conversation an upstream answers, a tool result follows its call and has
\* the call's id there, unless a fault took items out of it (tool_call_id_map,
\* map_current_tool_outputs_to_upstream and _to_downstream).
THEOREM ToolIdsStayMatched == Spec => []ToolIdsMatch
<1>1. Matched(<<>>)
  BY NothingSound DEF Sound
<1>2. IInv /\ History => ToolIdsMatch
  BY <1>1, HistoryOf DEF ToolIdsMatch, Reader, Ends, Answered, Sound
<1> QED BY <1>2, Invariant, HistoryHolds, PTL

\* A client is told that the response it continues is not there, or that it never
\* saw the call it answers, only if it came early, that response may have expired,
\* or a fault hit it or one it was made from (validate_tool_result_ids).
THEOREM RefusalsExplained == Spec => []RefusalExplained
<1>1. IInv /\ History => RefusalExplained
  BY HistoryOf DEF RefusalExplained, Reader, Ends
<1> QED BY <1>1, Invariant, HistoryHolds, PTL

-----------------------------------------------------------------------------
(* Every request comes to an end.                                           *)

\* At most so many steps are left of a request: the reads of what it continues, the calls
\* of the targets not tried yet, twice each where a handle is missing, and the statements
\* that store the answer.
StepsLeft(n) ==
  LET unread == Len(local[n].chain)
      untried(others) == 3 * Cardinality(Targets \ (local[n].tried \cup others))
  IN CASE pc[n] = "lookup" -> untried({}) + unread + 10
       [] pc[n] = "walk" ->
            untried({}) + unread + (IF local[n].cursor.kind = "response" THEN 9 ELSE 7)
       [] pc[n] = "items" -> untried({}) + unread + 6
       [] pc[n] = "target" -> untried({}) + 5
       [] pc[n] = "call" -> untried({local[n].target}) + 7
       [] pc[n] = "retry" -> untried({local[n].target}) + 6
       [] pc[n] = "store" -> 4
       [] pc[n] = "store_handle" -> 3
       [] pc[n] = "store_input" -> 2
       [] pc[n] = "store_output" -> 1
       [] pc[n] \in {"new", "done"} -> 0

\* No request starts over: whatever fails, each of its steps leaves fewer to come, for
\* a chain is not walked in a circle and no target is tried again
\* (load_replay_chain_items, relay_non_streaming_response_scoped).
NeverStartsOver ==
  [][\A n \in Turns : pc[n] \in {"new", "done"} \/ UNCHANGED <<pc[n], local[n]>>
                       \/ StepsLeft(n)' < StepsLeft(n)]_vars

LEMMA Counts ==
  ASSUME IsFiniteSet(Targets), NEW S
  PROVE  Cardinality(Targets \ S) \in Nat
<1>1. IsFiniteSet(Targets \ S)
  BY FS_Subset
<1> QED BY <1>1, FS_CardinalityType

LEMMA OneMore ==
  ASSUME IsFiniteSet(Targets), NEW S, NEW t \in Targets \ S
  PROVE  Cardinality(Targets \ S) = Cardinality(Targets \ (S \cup {t})) + 1
<1>1. IsFiniteSet(Targets \ S)
  BY FS_Subset
<1>2. Targets \ (S \cup {t}) = (Targets \ S) \ {t}
  OBVIOUS
<1>3. /\ Cardinality((Targets \ S) \ {t}) = Cardinality(Targets \ S) - 1
      /\ Cardinality(Targets \ S) \in Nat
  BY <1>1, FS_RemoveElement, FS_CardinalityType
<1> DEFINE rest == (Targets \ S) \ {t}
<1>4. Cardinality(Targets \ S) = Cardinality(rest) + 1
  BY <1>3
<1> HIDE DEF rest
<1>5. Targets \ (S \cup {t}) = rest
  BY <1>2 DEF rest
<1> QED BY <1>4, <1>5

\* A request that is under way has a step to come.
LEMMA StepsToCome ==
  ASSUME TypeOK, IsFiniteSet(Targets), NEW n \in Turns, pc[n] \notin {"new", "done"}
  PROVE  StepsLeft(n) \in Nat /\ StepsLeft(n) > 0
<1> DEFINE all == Cardinality(Targets \ (local[n].tried \cup {}))
           others == Cardinality(Targets \ (local[n].tried \cup {local[n].target}))
           unread == Len(local[n].chain)
<1>1. all \in Nat /\ others \in Nat
  BY Counts
<1>2. unread \in Nat
  BY Fields, LenProperties
<1>3. pc[n] \in PlaceNames
  BY Same
<1>4. CASE pc[n] \in Loading
  <2>1. \E k \in 6 .. 10 : StepsLeft(n) = 3 * all + unread + k
    BY <1>4 DEF StepsLeft, Loading
  <2> HIDE DEF all, unread
  <2> QED BY <1>1, <1>2, <2>1
<1>5. CASE pc[n] = "target"
  <2>1. StepsLeft(n) = 3 * all + 5
    BY <1>5 DEF StepsLeft
  <2> HIDE DEF all
  <2> QED BY <1>1, <2>1
<1>6. CASE pc[n] \in {"call", "retry"}
  <2>1. \E k \in 6 .. 7 : StepsLeft(n) = 3 * others + k
    BY <1>6 DEF StepsLeft
  <2> HIDE DEF others
  <2> QED BY <1>1, <2>1
<1>7. CASE pc[n] \in Storing
  <2>1. StepsLeft(n) \in 1 .. 4
    BY <1>7 DEF StepsLeft, Storing
  <2> QED BY <2>1
<1> QED BY <1>3, <1>4, <1>5, <1>6, <1>7 DEF PlaceNames, Loading, Storing

LEMMA EndsAdvance ==
  ASSUME TypeOK, IsFiniteSet(Targets), NEW n \in Turns, pc[n] \notin {"new", "done"},
         pc'[n] = "done"
  PROVE  StepsLeft(n)' < StepsLeft(n)
<1>1. StepsLeft(n)' = 0
  BY DEF StepsLeft
<1> QED BY <1>1, StepsToCome

\* The row continued names no further row, so the walk is over after it.
LEMMA LoadingAdvances ==
  ASSUME IInv, IsFiniteSet(Targets), NEW n \in Turns,
         LookUp(n) \/ Walk(n) \/ ChainWalked(n) \/ ReadItems(n) \/ ReadHandle(n)
  PROVE  StepsLeft(n)' < StepsLeft(n)
<1> DEFINE chain == local[n].chain
           untried == 3 * Cardinality(Targets \ (local[n].tried \cup {}))
<1>1. /\ TypeOK /\ local[n] \in Local /\ chain \in Seq(Turns) /\ Len(chain) \in Nat
      /\ untried \in Nat
  <2>1. TypeOK /\ local[n] \in Local /\ chain \in Seq(Turns)
    BY Same, Fields DEF IInv
  <2>2. Len(chain) \in Nat
    BY <2>1, LenProperties
  <2>3. Cardinality(Targets \ (local[n].tried \cup {})) \in Nat
    BY Counts
  <2> QED BY <2>1, <2>2, <2>3
<1>2. /\ local \in [Turns -> Local] /\ pc \in [Turns -> PlaceNames]
  BY <1>1 DEF TypeOK, PlaceNames
<1>3. CASE LookUp(n)
  <2>1. /\ pc[n] = "lookup" /\ pc'[n] = "walk" /\ local'[n].chain = chain
        /\ local'[n].tried = local[n].tried
    BY <1>2, <1>3 DEF LookUp, Goto, Set, Local
  <2>2. StepsLeft(n) = untried + Len(chain) + 10
    BY <2>1 DEF StepsLeft
  <2>3. StepsLeft(n)' = untried + Len(chain)
                          + (IF local'[n].cursor.kind = "response" THEN 9 ELSE 7)
    BY <2>1 DEF StepsLeft
  <2> HIDE DEF chain, untried
  <2> QED BY <1>1, <2>2, <2>3
<1>4. CASE Walk(n)
  <2> DEFINE c == local[n].cursor
  <2>1. /\ pc[n] = "walk" /\ c.kind = "response" /\ pc'[n] = "walk"
        /\ local'[n].chain = <<c.of>> \o chain /\ local'[n].tried = local[n].tried
        /\ local'[n].cursor = responses[c.of].prev
    BY <1>2, <1>4 DEF Walk, Found, Local
  <2>2. c.of \in Turns
    <3>1. c \in Ref
      BY <1>1, Fields
    <3>2. c.of # 0
      BY <2>1 DEF IInv, Places, Place
    <3> QED BY <3>1, <3>2, StoreAssumption DEF Ref, Turns
  <2>3. local'[n].cursor.kind # "response"
    BY <2>1, <2>2 DEF IInv, Places, Place
  <2>4. Len(<<c.of>> \o chain) = Len(chain) + 1
    BY <1>1, <2>2, ConcatProperties
  <2>5. StepsLeft(n) = untried + Len(chain) + 9
    BY <2>1 DEF StepsLeft
  <2>6. StepsLeft(n)' = untried + (Len(chain) + 1) + 7
    BY <2>1, <2>3, <2>4 DEF StepsLeft
  <2> HIDE DEF chain, untried
  <2> QED BY <1>1, <2>5, <2>6
<1>5. CASE ChainWalked(n)
  <2>1. /\ pc[n] = "walk" /\ local[n].cursor = NoRef /\ pc'[n] = "items" /\ local' = local
    BY <1>2, <1>5 DEF ChainWalked, Goto, Set
  <2>2. StepsLeft(n) = untried + Len(chain) + 7
    BY <2>1 DEF StepsLeft, NoRef
  <2>3. StepsLeft(n)' = untried + Len(chain) + 6
    BY <2>1 DEF StepsLeft
  <2> HIDE DEF chain, untried
  <2> QED BY <1>1, <2>2, <2>3
<1>6. CASE ReadItems(n)
  <2>1. /\ pc[n] = "items" /\ chain # <<>> /\ pc'[n] = "items"
        /\ local'[n].chain = Tail(chain) /\ local'[n].tried = local[n].tried
    BY <1>2, <1>6 DEF ReadItems, Local
  <2>2. Len(Tail(chain)) = Len(chain) - 1
    BY <1>1, <2>1, HeadTailProperties
  <2>3. StepsLeft(n) = untried + Len(chain) + 6
    BY <2>1 DEF StepsLeft
  <2>4. StepsLeft(n)' = untried + (Len(chain) - 1) + 6
    BY <2>1, <2>2 DEF StepsLeft
  <2> HIDE DEF chain, untried
  <2> QED BY <1>1, <2>3, <2>4
<1>7. CASE ReadHandle(n)
  <2>1. /\ pc[n] = "items" /\ pc'[n] = "target" /\ local'[n].tried = local[n].tried
    BY <1>2, <1>7 DEF ReadHandle, Goto, Set, Local
  <2>2. StepsLeft(n) = untried + Len(chain) + 6
    BY <2>1 DEF StepsLeft
  <2>3. StepsLeft(n)' = untried + 5
    BY <2>1 DEF StepsLeft
  <2> HIDE DEF chain, untried
  <2> QED BY <1>1, <2>2, <2>3
<1> QED BY <1>3, <1>4, <1>5, <1>6, <1>7

\* A target that was called is not picked again.
LEMMA CallingAdvances ==
  ASSUME IInv, IsFiniteSet(Targets), NEW n \in Turns,
         \/ PickTarget(n) \/ HandleMissing(n) \/ TargetFails(n)
         \/ UpstreamAnswers(n) \/ RetryAnswers(n)
  PROVE  StepsLeft(n)' < StepsLeft(n)
<1> DEFINE all == Cardinality(Targets \ (local[n].tried \cup {}))
           others == Cardinality(Targets \ (local[n].tried \cup {local[n].target}))
<1>1. TypeOK /\ local[n] \in Local /\ all \in Nat /\ others \in Nat
  BY Same, Counts DEF IInv
<1>2. /\ local \in [Turns -> Local] /\ pc \in [Turns -> PlaceNames]
  BY <1>1 DEF TypeOK, PlaceNames
<1>3. CASE PickTarget(n)
  <2>1. PICK t \in Targets \ local[n].tried :
          local'[n].target = t /\ local'[n].tried = local[n].tried
    <3>1. PICK t \in Targets \ local[n].tried : \E native, input :
            local' = [local EXCEPT ![n].target = t, ![n].native = native, ![n].input = input]
      BY <1>3 DEF PickTarget
    <3>2. PICK native, input :
            local' = [local EXCEPT ![n].target = t, ![n].native = native, ![n].input = input]
      BY <3>1
    <3>3. local'[n] = [local[n] EXCEPT !.target = t, !.native = native, !.input = input]
      BY <1>2, <3>2
    <3> QED BY <1>1, <3>3 DEF Local
  <2>2. pc[n] = "target" /\ pc'[n] = "call"
    BY <1>2, <1>3 DEF PickTarget, Goto, Set
  <2> DEFINE rest == Cardinality(Targets \ (local[n].tried \cup {t}))
  <2>3. rest \in Nat /\ Cardinality(Targets \ local[n].tried) = rest + 1
    BY OneMore, Counts
  <2>4. all = rest + 1
    <3>1. local[n].tried \cup {} = local[n].tried
      OBVIOUS
    <3> QED BY <2>3, <3>1
  <2>5. StepsLeft(n) = 3 * all + 5
    BY <2>2 DEF StepsLeft
  <2>6. StepsLeft(n)' = 3 * rest + 7
    BY <2>1, <2>2 DEF StepsLeft
  <2> HIDE DEF all, rest
  <2> QED BY <2>3, <2>4, <2>5, <2>6
<1>4. CASE HandleMissing(n)
  <2>1. pc[n] = "call" /\ pc'[n] = "retry" /\ local' = local
    BY <1>2, <1>4 DEF HandleMissing, Goto, Set
  <2>2. StepsLeft(n) = 3 * others + 7 /\ StepsLeft(n)' = 3 * others + 6
    BY <2>1 DEF StepsLeft
  <2> HIDE DEF others
  <2> QED BY <1>1, <2>2
<1>5. CASE TargetFails(n)
  <2>1. /\ pc[n] \in {"call", "retry"} /\ pc'[n] = "target"
        /\ local'[n].tried = local[n].tried \cup {local[n].target}
    BY <1>2, <1>5 DEF TargetFails, Set, Local
  <2>2. StepsLeft(n) = 3 * others + 7 \/ StepsLeft(n) = 3 * others + 6
    BY <2>1 DEF StepsLeft
  <2>3. local'[n].tried \cup {} = local[n].tried \cup {local[n].target}
    BY <2>1
  <2>4. StepsLeft(n)' = 3 * others + 5
    BY <2>1, <2>3 DEF StepsLeft
  <2> HIDE DEF others
  <2> QED BY <1>1, <2>2, <2>4
<1>6. CASE UpstreamAnswers(n) \/ RetryAnswers(n)
  <2>1. pc[n] \in {"call", "retry"} /\ pc'[n] = "store"
    BY <1>2, <1>6 DEF UpstreamAnswers, RetryAnswers, Answers, Set
  <2>2. StepsLeft(n) = 3 * others + 7 \/ StepsLeft(n) = 3 * others + 6
    BY <2>1 DEF StepsLeft
  <2>3. StepsLeft(n)' = 4
    BY <2>1 DEF StepsLeft
  <2> HIDE DEF others
  <2> QED BY <1>1, <2>2, <2>3
<1> QED BY <1>3, <1>4, <1>5, <1>6

LEMMA TurnAdvances ==
  ASSUME IInv, IsFiniteSet(Targets), NEW n \in Turns, Turn(n)
  PROVE  StepsLeft(n)' < StepsLeft(n)
<1>1. TypeOK /\ pc \in [Turns -> PlaceNames]
  BY DEF IInv, TypeOK, PlaceNames
<1>2. CASE LookUp(n) \/ Walk(n) \/ ChainWalked(n) \/ ReadItems(n) \/ ReadHandle(n)
  BY <1>2, LoadingAdvances
<1>3. CASE \/ PickTarget(n) \/ HandleMissing(n) \/ TargetFails(n)
           \/ UpstreamAnswers(n) \/ RetryAnswers(n)
  BY <1>3, CallingAdvances
<1>4. CASE \/ NotFound(n) \/ NotContinuable(n) \/ ChainBroken(n) \/ LoadFails(n)
           \/ UnknownResult(n) \/ Exhausted(n) \/ CallFails(n)
  <2>1. pc[n] \notin {"new", "done"} /\ pc'[n] = "done"
    BY <1>1, <1>4 DEF NotFound, NotContinuable, ChainBroken, LoadFails, UnknownResult,
                      Exhausted, CallFails, Refuse, Leave, Set
  <2> QED BY <1>1, <2>1, EndsAdvance
<1>5. CASE StoreRowFails(n) \/ StoreOutput(n)
  <2>1. pc[n] \notin {"new", "done"} /\ pc'[n] = "done"
    BY <1>1, <1>5 DEF StoreRowFails, StoreOutput, Return, Leave, Set
  <2> QED BY <1>1, <2>1, EndsAdvance
<1>6. CASE StoreRow(n)
  <2>1. pc[n] = "store" /\ pc'[n] = "store_handle"
    BY <1>1, <1>6 DEF StoreRow, Set
  <2> QED BY <2>1 DEF StepsLeft
<1>7. CASE StoreHandle(n)
  <2>1. pc[n] = "store_handle" /\ pc'[n] = "store_input"
    BY <1>1, <1>7 DEF StoreHandle, Goto, Set
  <2> QED BY <2>1 DEF StepsLeft
<1>8. CASE StoreInput(n)
  <2>1. pc[n] = "store_input" /\ pc'[n] = "store_output"
    BY <1>1, <1>8 DEF StoreInput, Goto, Set
  <2> QED BY <2>1 DEF StepsLeft
<1> QED BY <1>2, <1>3, <1>4, <1>5, <1>6, <1>7, <1>8 DEF Turn

\* A step of one request leaves the others where they are.
LEMMA OthersWait ==
  ASSUME TypeOK, NEW m \in Turns, NEW n \in Turns \ {m}, Ask(m) \/ Turn(m)
  PROVE  UNCHANGED <<pc[n], local[n]>>
<1>1. pc \in [Turns -> PlaceNames] /\ local \in [Turns -> Local]
  BY DEF TypeOK, PlaceNames
<1>2. ASSUME NEW kind, Refuse(m, kind) PROVE UNCHANGED <<pc[n], local[n]>>
  BY <1>1, <1>2 DEF Refuse, Leave, Set
<1>3. ASSUME NEW sent, Answers(m, sent) PROVE UNCHANGED <<pc[n], local[n]>>
  BY <1>1, <1>3 DEF Answers, Set
<1>4. CASE Ask(m)
  BY <1>1, <1>4 DEF Ask, Goto, Set
<1>5. CASE \/ LookUp(m) \/ Walk(m) \/ ChainWalked(m) \/ ReadItems(m) \/ ReadHandle(m)
  BY <1>1, <1>5 DEF LookUp, Walk, ChainWalked, ReadItems, ReadHandle, Goto, Set
<1>6. CASE PickTarget(m) \/ HandleMissing(m) \/ TargetFails(m)
  BY <1>1, <1>6 DEF PickTarget, HandleMissing, TargetFails, Goto, Set
<1>7. CASE \/ NotFound(m) \/ NotContinuable(m) \/ ChainBroken(m) \/ LoadFails(m)
           \/ UnknownResult(m) \/ Exhausted(m) \/ CallFails(m)
  BY <1>2, <1>7 DEF NotFound, NotContinuable, ChainBroken, LoadFails, UnknownResult,
                    Exhausted, CallFails
<1>8. CASE UpstreamAnswers(m) \/ RetryAnswers(m)
  BY <1>3, <1>8 DEF UpstreamAnswers, RetryAnswers
<1>9. CASE StoreRow(m) \/ StoreHandle(m) \/ StoreInput(m)
  BY <1>1, <1>9 DEF StoreRow, StoreHandle, StoreInput, Goto, Set
<1>10. CASE StoreRowFails(m) \/ StoreOutput(m)
  BY <1>1, <1>10 DEF StoreRowFails, StoreOutput, Return, Leave, Set
<1> QED BY <1>4, <1>5, <1>6, <1>7, <1>8, <1>9, <1>10 DEF Turn

\* On a route of finitely many targets no request starts over: every step of one leaves
\* fewer to come, so it ends after boundedly many, whatever statements and targets fail
\* (load_replay_chain_items, relay_non_streaming_response_scoped).  That the steps are
\* taken is left to the run of RequestsEnd.
THEOREM RequestsDrawToAnEnd ==
  ASSUME IsFiniteSet(Targets)
  PROVE  Spec => NeverStartsOver
<1>1. ASSUME IInv, [Next]_vars, NEW n \in Turns
      PROVE  \/ pc[n] \in {"new", "done"} \/ UNCHANGED <<pc[n], local[n]>>
             \/ StepsLeft(n)' < StepsLeft(n)
  <2> SUFFICES ASSUME pc[n] \notin {"new", "done"}
               PROVE  UNCHANGED <<pc[n], local[n]>> \/ StepsLeft(n)' < StepsLeft(n)
    OBVIOUS
  <2>1. TypeOK
    BY <1>1 DEF IInv
  <2>2. CASE \E m \in Turns : Ask(m) \/ Turn(m)
    <3>1. ~Ask(n)
      BY DEF Ask, Goto
    <3> QED BY <1>1, <2>1, <2>2, <3>1, OthersWait, TurnAdvances
  <2>3. CASE Crash
    <3>1. pc'[n] = "done"
      BY <2>3 DEF Crash
    <3> QED BY <2>1, <3>1, EndsAdvance
  <2>4. CASE UNCHANGED chainVars \/ UNCHANGED vars
    BY <2>4 DEF chainVars, vars
  <2> QED BY <1>1, <2>2, <2>3, <2>4 DEF Next
<1>2. IInv /\ [Next]_vars =>
        [\A n \in Turns : pc[n] \in {"new", "done"} \/ UNCHANGED <<pc[n], local[n]>>
                          \/ StepsLeft(n)' < StepsLeft(n)]_vars
  BY <1>1
<1> QED BY <1>2, Invariant, PTL DEF Spec, NeverStartsOver
=============================================================================
