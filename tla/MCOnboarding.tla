---------------------------- MODULE MCOnboarding ----------------------------
(* A listed board that answers with SSH only, a listed camera with an open *)
(* telnet port, and a twin of the board: an unlisted address that ends in  *)
(* the same three octets.  They share two addresses.                       *)
EXTENDS Onboarding, TLC

CONSTANTS board, camera, twin, nic1, nic2, ip1, ip2, t

MCVendor == (board :> <<184, 39, 235>>) @@ (camera :> <<188, 221, 194>>)
            @@ (twin :> <<8, 0, 39>>)
MCNic == (board :> nic1) @@ (camera :> nic2) @@ (twin :> nic1)
MCPorts == (board :> {22}) @@ (camera :> {23}) @@ (twin :> {22})

\* The camera takes the address of the board, and the board that of its twin.
MCLeases == {(ip1 :> board) @@ (ip2 :> twin), (ip1 :> camera) @@ (ip2 :> board)}

MCListed == {<<t, nic2>>, <<t, ip1>>}

Symmetry == Permutations(Sessions)
=============================================================================
