-------------------------- MODULE ScanDriftProofs ---------------------------
(* TLAPS proofs about the scans of one host, for every address and every   *)
(* set of open ports.                                                      *)
EXTENDS ScanDrift, TrustScoreProofs

LEMMA ScoreOfScan ==
  Spec => [](mac \in Mac /\ ports \subseteq Port /\ score = Calculate(mac, ports))
<1> DEFINE Inv == mac \in Mac /\ ports \subseteq Port /\ score = Calculate(mac, ports)
<1>1. Init => Inv
  BY DriftAssumption DEF Init
<1>2. Inv /\ [Next]_vars => Inv'
  BY DriftAssumption DEF Next, OpenPort, ClosePort, ChangeMac, vars
<1> QED
  BY <1>1, <1>2, PTL DEF Spec

\* The score of every scan lies in 0..100, whatever the host shows.
THEOREM ScoreCorrect == Spec => []ScoreOK
<1>1. mac \in Mac /\ ports \subseteq Port /\ score = Calculate(mac, ports) => ScoreOK
  BY ScoreType DEF ScoreOK
<1> QED
  BY <1>1, ScoreOfScan, PTL

\* Whatever a host shows and in whatever order it changes, a risky port makes
\* it suspicious and only a known vendor makes it trusted.
THEOREM StatusCorrect == Spec => []StatusIsVerdict
<1>1. mac \in Mac /\ ports \subseteq Port /\ score = Calculate(mac, ports)
        => StatusIsVerdict
  BY StatusOfScan DEF StatusIsVerdict, Calculate
<1> QED
  BY <1>1, ScoreOfScan, PTL

\* No host gains by opening a port, or loses by closing one.
THEOREM OpeningCorrect == Spec => OpeningNeverHelps
<1> DEFINE Inv == mac \in Mac /\ ports \subseteq Port /\ score = Calculate(mac, ports)
<1>1. Inv /\ Inv' =>
        [mac' = mac => /\ ports \subseteq ports' => score'.value <= score.value
                       /\ ports' \subseteq ports => score'.value >= score.value]_vars
  <2> SUFFICES ASSUME Inv, Inv', mac' = mac
               PROVE  /\ ports \subseteq ports' => score'.value <= score.value
                      /\ ports' \subseteq ports => score'.value >= score.value
    OBVIOUS
  <2>1. /\ score.value = ScoreOf(mac, ports)
        /\ score'.value = ScoreOf(mac, ports')
    BY DEF Calculate
  <2>2. ScoreOf(mac, ports) \in 0..100 /\ ScoreOf(mac, ports') \in 0..100
    BY StatusOfScan
  <2> QED
    BY <2>1, <2>2, MorePorts
<1> QED
  BY <1>1, ScoreOfScan, PTL DEF OpeningNeverHelps
=============================================================================
