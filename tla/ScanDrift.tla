----------------------------- MODULE ScanDrift ------------------------------
(***************************************************************************)
(* One host on the network, rescanned after every change: it opens and     *)
(* closes ports, or answers from behind another MAC address, and each time *)
(* trust.Calculate scores what the scan finds.                             *)
(***************************************************************************)
EXTENDS TrustScore

CONSTANTS
  MacsOnWire,   \* the addresses the host may show
  PortsOnHost   \* the ports it may have open

ASSUME DriftAssumption == MacsOnWire \subseteq Mac /\ PortsOnHost \subseteq Port

VARIABLES
  mac,    \* ScanResult.MACAddress
  ports,  \* ScanResult.OpenPorts
  score   \* what Calculate made of them

vars == <<mac, ports, score>>

Init ==
  /\ mac \in MacsOnWire
  /\ ports = {}
  /\ score = Calculate(mac, ports)

OpenPort(p) ==
  /\ ports' = ports \cup {p}
  /\ UNCHANGED mac
  /\ score' = Calculate(mac, ports')

ClosePort(p) ==
  /\ ports' = ports \ {p}
  /\ UNCHANGED mac
  /\ score' = Calculate(mac, ports')

ChangeMac(m) ==
  /\ mac' = m
  /\ UNCHANGED ports
  /\ score' = Calculate(m, ports)

Next == \/ \E p \in PortsOnHost : OpenPort(p) \/ ClosePort(p)
        \/ \E m \in MacsOnWire : ChangeMac(m)

Spec == Init /\ [][Next]_vars

-----------------------------------------------------------------------------

\* The score of every scan lies in 0..100 and its parts have their types.
ScoreOK == mac \in Mac /\ ports \subseteq Port /\ score \in Score

\* The status never depends on how the points add up: a risky port alone makes
\* a device suspicious whatever speaks for it, and only a known vendor makes
\* it trusted (README.md:96; docs/trust-scoring.md "Thresholds").
StatusIsVerdict == score.status = Verdict(mac, ports)

\* Opening a port never raises the score and closing one never lowers it.
OpeningNeverHelps ==
  [][mac' = mac => /\ ports \subseteq ports' => score'.value <= score.value
                   /\ ports' \subseteq ports => score'.value >= score.value]_vars
=============================================================================
