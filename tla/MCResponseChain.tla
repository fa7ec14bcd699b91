--------------------------- MODULE MCResponseChain ---------------------------
(* Targets a and b share a state scope and are set to Responses; c is found *)
(* to speak it, and takes no handles.                                       *)
EXTENDS ResponseChain

MCProvider == [t \in Targets |-> IF t = "b" THEN "q" ELSE "p"]
MCScope == [t \in Targets |-> IF t = "c" THEN None ELSE "s"]
MCModel == [t \in Targets |-> "m"]

\* No definition names or orders a credential.
KeySymmetry == Permutations(Keys)
=============================================================================
