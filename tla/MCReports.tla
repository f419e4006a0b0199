----------------------------- MODULE MCReports ------------------------------
(* A zone that moves by one tick on either side of UTC, certificates that  *)
(* outlive the warning window and certificates that do not.                *)
EXTENDS Reports, TLC

Zones == {-1, 0, 1}

Symmetry == Permutations(Commands)
=============================================================================
