---------------------------- MODULE MCAdminConfig ----------------------------
(* Small instances of AdminConfig: a file, and the calls administrators make. *)
EXTENDS AdminConfig, TLC

With(managed, key) == [managed |-> managed, key |-> key]
To(p) == [provider |-> p, priority |-> 1, enabled |-> TRUE]
Off(p) == [provider |-> p, priority |-> 1, enabled |-> FALSE]
Id(r, p) == [route |-> r, provider |-> p, priority |-> 1]
Call(kind, id, with) == [kind |-> kind, id |-> id, with |-> with]
As(m, e, T) == [model |-> m, enabled |-> e, targets |-> T]

\* q is managed and has a key, p passes the caller's key on but has one as well.
MCFile == [providers |-> [p |-> With(FALSE, TRUE), q |-> With(TRUE, TRUE)],
           routes |-> [r |-> As("r", TRUE, {To("p")})]]

\* An import that gives the model another id, and one that the tables refuse.
Imported == [providers |-> [q |-> With(TRUE, TRUE)],
             routes |-> [s |-> As("r", TRUE, {To("q")})]]
TwoOfOneId == [Imported EXCEPT !.routes["s"].targets = {To("q"), Off("q")}]

MCOps == <<
  Call("create_provider", "q", With(TRUE, TRUE)),
  Call("update_provider", "p", With(TRUE, FALSE)),
  Call("delete_provider", "p", None),
  Call("create_route", "s", As("s", TRUE, {To("p"), To("q")})),
  Call("update_route", "r", As("r", TRUE, {To("q")})),
  Call("update_route", "r", As("s", TRUE, None)),
  Call("delete_route", "r", None),
  Call("create_target", "r", To("q")),
  Call("update_target", Id("r", "p"), To("q")),
  Call("delete_target", Id("r", "p"), None),
  Call("import", None, Imported),
  Call("import", None, TwoOfOneId) >>

MCSymmetry == Permutations(Admins) \cup Permutations(Requests)
=============================================================================
