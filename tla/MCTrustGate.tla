---------------------------- MODULE MCTrustGate -----------------------------
(* A listed board that answers with SSH only, or with FTP and telnet too.   *)
EXTENDS TrustGate, TLC

BoardMac == <<184, 39, 235>>
Sightings == {[mac |-> BoardMac, ports |-> {22}],
              [mac |-> BoardMac, ports |-> {21, 22, 23}]}

Symmetry == Permutations(Commands)
=============================================================================
