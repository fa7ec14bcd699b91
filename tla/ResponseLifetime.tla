--------------------------- MODULE ResponseLifetime ---------------------------
(***************************************************************************)
(* What the tables promise of one response, whatever statements the        *)
(* requests and the janitor are made of: it is kept once, under its own    *)
(* id, from the moment it is stored until some time after it has expired,  *)
(* and what has been forgotten does not come back.                         *)
(***************************************************************************)
EXTENDS Naturals

CONSTANTS Ids, Ttl

VARIABLES phase, born, clock

Init ==
  /\ phase = [i \in Ids |-> "unborn"]
  /\ born = [i \in Ids |-> 0]
  /\ clock = 0

Keep(i) ==
  /\ phase[i] = "unborn"
  /\ phase' = [phase EXCEPT ![i] = "kept"]
  /\ born' = [born EXCEPT ![i] = clock]
  /\ UNCHANGED clock

Forget(S) ==
  /\ \A i \in S : phase[i] = "kept" /\ born[i] + Ttl < clock
  /\ phase' = [i \in Ids |-> IF i \in S THEN "forgotten" ELSE phase[i]]
  /\ born' = [i \in Ids |-> IF i \in S THEN 0 ELSE born[i]]
  /\ UNCHANGED clock

Pass == clock' = clock + 1 /\ UNCHANGED <<phase, born>>

Next == (\E i \in Ids : Keep(i)) \/ (\E S \in SUBSET Ids : Forget(S)) \/ Pass

Spec == Init /\ [][Next]_<<phase, born, clock>>
=============================================================================
