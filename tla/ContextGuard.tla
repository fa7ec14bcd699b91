----------------------------- MODULE ContextGuard -----------------------------
(***************************************************************************)
(* Does a request fit a target?  context_guard_check on the estimate of    *)
(* what would be sent: the new input and, when an earlier response is      *)
(* continued, its whole history, even if only a handle of it is sent.      *)
(* All of it is u64 arithmetic that saturates at zero, but for             *)
(* max_output_tokens, which is cut to 32 bits where the request is parsed. *)
(*                                                                         *)
(* Abstracted: how the tokens of a text are estimated.                     *)
(***************************************************************************)
EXTENDS Naturals

CONSTANTS
  None,
  U32,            \* 2^32
  DefaultMargin   \* 2048

ASSUME GuardAssumption ==
  /\ U32 \in Nat \ {0} /\ DefaultMargin \in Nat
  /\ None \notin Nat

Optional(S) == S \cup {None}

\* t is the row of a target; r a request: its estimated new input, the estimate of
\* the history it continues and the max_output_tokens of its JSON.
Margin(t) == IF t.margin = None THEN DefaultMargin ELSE t.margin

SafeBudget(t) == IF t.window >= Margin(t) THEN t.window - Margin(t) ELSE 0

\* parse_canonical_request: the number the upstream is told.
Asked(r) == IF r.max = None THEN None ELSE r.max % U32

RequestedOutput(r, t) ==
  IF Asked(r) # None THEN Asked(r)
  ELSE IF t.limit # None THEN t.limit % U32 ELSE 0

\* Mutant: a request that continues by handle is measured by what is new.
EstimateNew(r) == r.input

\* canonical_for_context_guard, estimate_request_tokens.
Estimate(r) == r.input + r.replay

WithinLimit(r, t) == Asked(r) # None /\ t.limit # None => Asked(r) <= t.limit

Fits(r, t) ==
  t.window # None => /\ WithinLimit(r, t)
                     /\ Estimate(r) + RequestedOutput(r, t) <= SafeBudget(t)
=============================================================================
