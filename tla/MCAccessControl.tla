-------------------------- MODULE MCAccessControl ---------------------------
(* Small fleets for AccessControl: one device that holds two certificates, *)
(* the second with the longer validity, as after a routine reissue.        *)
EXTENDS AccessControl, TLC

CONSTANTS s1, s2, dev

FleetCommonNameOf == (s1 :> dev) @@ (s2 :> dev)
FleetExpiresAt    == (s1 :> 0) @@ (s2 :> 2)

LoneCommonNameOf == (s1 :> dev)
LoneExpiresAt    == (s1 :> 1)

\* Requests and commands are interchangeable.
Symmetry == Permutations(Requests) \cup Permutations(Commands)
=============================================================================
