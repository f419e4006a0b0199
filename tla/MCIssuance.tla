----------------------------- MODULE MCIssuance -----------------------------
(* Processes and devices are interchangeable.                              *)
EXTENDS Issuance, TLC

Symmetry == Permutations(Commands) \cup Permutations(Names)
=============================================================================
