----------------------------- MODULE MCStreamText -----------------------------
(* The shortest tags with a beginning in common.                              *)
EXTENDS StreamText

MCOpen == <<"<", ">">>
MCClose == <<"<", "/">>
ItemSymmetry == Permutations(Items)
=============================================================================
