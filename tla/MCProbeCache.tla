---------------------------- MODULE MCProbeCache ----------------------------
(* ProbeCache with requests that are interchangeable: they start alike and *)
(* no definition orders or names one, so their permutations are a symmetry *)
(* of every safety property.                                               *)
EXTENDS ProbeCache, TLC

RequestSymmetry == Permutations(Requests)
=============================================================================
