---------------------------- MODULE MCCompaction ----------------------------
(* Numbers are small: "32 bits" are three, the default margin is 2.         *)
EXTENDS Compaction

Plain == [window |-> 6, margin |-> None, limit |-> None, fallback |-> TRUE,
          key |-> "found", wire |-> "responses", native |-> TRUE]

\* In the order: a target that takes a handle; one that replays, whose protocol is
\* probed; one without a window; one whose window is below its margin; one whose
\* key may not be used, or is missing.
MCProfiles == {
  Plain,
  [Plain EXCEPT !.margin = 1, !.limit = 2, !.wire = "auto", !.native = FALSE,
                !.fallback = FALSE],
  [Plain EXCEPT !.window = None, !.wire = "chat", !.native = FALSE],
  [Plain EXCEPT !.window = 1],
  [Plain EXCEPT !.key = "mismatch"], [Plain EXCEPT !.key = "missing"]}

\* A first request that just fits, one with tools whose max_output_tokens is cut
\* from 9 to 1, one that continues, one whose history does not fit.
MCRequests == {
  [input |-> 4, replay |-> 0, max |-> None, tools |-> FALSE],
  [input |-> 1, replay |-> 0, max |-> 9, tools |-> TRUE],
  [input |-> 1, replay |-> 2, max |-> 1, tools |-> FALSE],
  [input |-> 1, replay |-> 5, max |-> None, tools |-> TRUE]}

MCSpace == [t \in Targets |-> IF t = 2 THEN "other" ELSE "same"]
=============================================================================
