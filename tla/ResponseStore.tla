---------------------------- MODULE ResponseStore ----------------------------
(***************************************************************************)
(* The tables that carry a conversation from one request to the next       *)
(* (responses, response_items, upstream_handles) and the repository        *)
(* functions on them.  Each statement is atomic; no transaction spans two. *)
(*                                                                         *)
(* A previous_response_id column names a ModelWire response or an upstream *)
(* one: the two are different names and only the first is a row's id.      *)
(*                                                                         *)
(* Abstracted: the text of an item (a piece says whose turn it belongs to  *)
(* and what it is), usage and error columns, the private handle_json.      *)
(***************************************************************************)
EXTENDS Naturals, Sequences

CONSTANTS
  MaxTurns,   \* bound of the model: requests in one behaviour
  Targets,    \* targets of the route
  Keys,       \* credentials callers pass through to a provider
  None,
  MaxTime,    \* bound of the model: the clock stops there
  MaxFaults   \* bound of the model: failing statements and crashes

Turns == 1 .. MaxTurns

ASSUME StoreAssumption ==
  /\ MaxTurns \in Nat /\ MaxTime \in Nat /\ MaxFaults \in Nat
  /\ None \notin Targets /\ None \notin Keys

Ref == [kind : {"none", "response", "upstream"}, of : 0 .. MaxTurns]
NoRef == [kind |-> "none", of |-> 0]
Response(n) == [kind |-> "response", of |-> n]
Upstream(n) == [kind |-> "upstream", of |-> n]

\* An item: a user message, an assistant answer, a tool call or a tool result.
\* A call and its result carry a call id: ModelWire's own or the upstream's.
Piece == [turn : Turns, kind : {"message", "answer", "call", "result"},
          call : 0 .. MaxTurns, id : {"none", "downstream", "upstream"}]

Row == [status : {"absent", "completed", "failed"}, prev : Ref,
        at : 0 .. MaxTime, target : Targets \cup {None}]
NoRow == [status |-> "absent", prev |-> NoRef, at |-> 0, target |-> None]
Items == [input : Seq(Piece), output : Seq(Piece)]
NoItems == [input |-> <<>>, output |-> <<>>]

VARIABLES
  responses,  \* table responses
  items,      \* table response_items, by response, in order of sequence
  handles,    \* table upstream_handles: credential the latest handle is for
  now,        \* the server's clock
  faults      \* history: faults so far

store == <<responses, items, handles>>

StoreTypeOK ==
  /\ responses \in [Turns -> Row]
  /\ items \in [Turns -> Items]
  /\ handles \in [Turns -> Keys \cup {None}]
  /\ now \in 0 .. MaxTime
  /\ faults \in 0 .. MaxFaults

StoreInit ==
  /\ responses = [n \in Turns |-> NoRow]
  /\ items = [n \in Turns |-> NoItems]
  /\ handles = [n \in Turns |-> None]
  /\ now = 0 /\ faults = 0

Stored(n) == responses[n].status # "absent"
Fault == faults < MaxFaults /\ faults' = faults + 1

\* get_response: only a ModelWire id finds a row.
Found(ref) == ref.kind = "response" /\ Stored(ref.of)

\* Mutant: a response is stored before it has ended.
InsertRowOpen(n, status, prev, target) ==
  responses' = [responses EXCEPT ![n] =
    [status |-> "in_progress", prev |-> prev, at |-> now, target |-> target]]

\* Both statuses a relayed response ends with are terminal: completed_at is set.
InsertRow(n, status, prev, target) ==
  responses' = [responses EXCEPT ![n] =
    [status |-> status, prev |-> prev, at |-> now, target |-> target]]

\* The foreign key refuses an item or a handle of a response that is gone.
InsertHandle(n, key) ==
  handles' = IF Stored(n) THEN [handles EXCEPT ![n] = key] ELSE handles
InsertItems(n, part, pieces) ==
  items' = IF Stored(n) THEN [items EXCEPT ![n][part] = pieces] ELSE items

DeleteItems(S) == items' = [n \in Turns |-> IF n \in S THEN NoItems ELSE items[n]]
DeleteHandles(S) == handles' = [n \in Turns |-> IF n \in S THEN None ELSE handles[n]]

\* ON DELETE CASCADE takes the items and handles along.
DeleteRows(S) ==
  /\ responses' = [n \in Turns |-> IF n \in S THEN NoRow ELSE responses[n]]
  /\ DeleteItems(S) /\ DeleteHandles(S)

Tick == now < MaxTime /\ now' = now + 1 /\ UNCHANGED <<store, faults>>
=============================================================================
