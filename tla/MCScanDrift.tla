---------------------------- MODULE MCScanDrift -----------------------------
(* Every kind of address, and each number of harmless and of risky ports   *)
(* on both sides of the thresholds.                                        *)
EXTENDS ScanDrift

BoardMac   == <<184, 39, 235>>   \* a listed vendor
OtherMac   == <<4, 0, 0>>        \* globally unique, not listed
RandomMac  == <<6, 0, 0>>        \* the same with the local bit set

SampleMacs  == {NoMac, BoardMac, OtherMac, RandomMac}
SamplePorts == {22, 80, 443, 8080, 21, 23, 7547}
=============================================================================
