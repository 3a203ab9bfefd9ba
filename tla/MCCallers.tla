----------------------------- MODULE MCCallers -----------------------------
(* A small instance of Callers for TLC.  Ids and lanes are symmetric.        *)
EXTENDS Callers, TLC

Symmetric == Permutations(Tasks) \cup Permutations(Lanes)
=============================================================================
