------------------------------ MODULE MCApiKeys ------------------------------
(* A small instance of ApiKeys for TLC.                                     *)
EXTENDS ApiKeys, TLC

Symmetry == Permutations(Callers)
==============================================================================
