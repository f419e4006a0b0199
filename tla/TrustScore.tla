----------------------------- MODULE TrustScore -----------------------------
(***************************************************************************)
(* The weighted trust model of internal/trust (server/internal/trust):     *)
(* trust.Calculate, from the MAC address and the open TCP ports of a scan  *)
(* to a score and the onboarding status it recommends.                     *)
(*                                                                         *)
(* A MAC address is its first three octets, all the model looks at.  The   *)
(* open ports are a set: nmap prints one line per port.                    *)
(*                                                                         *)
(* An operator named Bug... is a plausible slip in the one after it; only  *)
(* the checks of the properties use it.                                    *)
(***************************************************************************)
EXTENDS Integers, FiniteSets

Octet == 0..255
NoMac == <<>>   \* "": the address is not in the neighbor table
Mac == {NoMac} \cup (Octet \X Octet \X Octet)
Port == 1..65535

\* The second bit of the first octet.
IsLocallyAdministered(mac) == (mac[1] \div 2) % 2 = 1

KnownVendorOUIs ==
  { <<216, 241, 91>>, <<200, 160, 48>>,                      \* BeagleBoard.org
    <<28, 186, 140>>, <<184, 39, 235>>, <<220, 166, 50>>,    \* Raspberry Pi
    <<24, 254, 52>>, <<36, 111, 40>>, <<172, 103, 178>>,     \* Espressif
    <<188, 221, 194>>, <<68, 25, 182>>,                      \* Hikvision
    <<0, 18, 18>> }                                          \* Cisco

\* FTP, Telnet, RDP, VNC, TR-069.
RiskyPorts == {21, 23, 3389, 5900, 7547}

VendorKnown(mac) == mac \in KnownVendorOUIs
RiskyFound(ports) == ports \cap RiskyPorts

\* Mutant: no floor.
BugClamp(x) == IF x > 100 THEN 100 ELSE x

Clamp(x) == IF x > 100 THEN 100 ELSE IF x < 0 THEN 0 ELSE x

MacPoints(mac) == IF VendorKnown(mac) THEN 20
                  ELSE IF mac = NoMac THEN 0
                  ELSE IF IsLocallyAdministered(mac) THEN -30
                  ELSE 0

\* Mutant: more open ports look like a busier, healthier device.
BugPortPoints(ports) == IF Cardinality(ports) <= 3 THEN 0 ELSE 15

PortPoints(ports) == IF Cardinality(ports) <= 3 THEN 15 ELSE 0

ScoreOf(mac, ports) ==
  Clamp(50 + MacPoints(mac) + PortPoints(ports)
           - 50 * Cardinality(RiskyFound(ports)))

\* Mutant: > 70, which a known vendor with more than three open ports misses.
BugStatus(score) == IF score > 70 THEN "trusted"
                    ELSE IF score > 40 THEN "pending"
                    ELSE "suspicious"

StatusOf(score) == IF score >= 70 THEN "trusted"
                   ELSE IF score >= 40 THEN "pending"
                   ELSE "suspicious"

Calculate(mac, ports) ==
  [value |-> ScoreOf(mac, ports), status |-> StatusOf(ScoreOf(mac, ports)),
   vendor |-> VendorKnown(mac), risky |-> RiskyFound(ports)]

Status == {"trusted", "pending", "suspicious"}
Score == [value : 0..100, status : Status, vendor : BOOLEAN,
          risky : SUBSET RiskyPorts]

-----------------------------------------------------------------------------
(* What the weights and thresholds amount to.                              *)

\* The status as a decision list, with no score in it.
Verdict(mac, ports) ==
  IF RiskyFound(ports) # {} THEN "suspicious"
  ELSE IF VendorKnown(mac) THEN "trusted"
  ELSE IF mac # NoMac /\ IsLocallyAdministered(mac) THEN "suspicious"
  ELSE "pending"
=============================================================================
