-------------------------- MODULE TrustScoreProofs --------------------------
(* TLAPS proofs about the operators of TrustScore, for every address and   *)
(* every set of open ports.                                                *)
EXTENDS TrustScore, FiniteSetTheorems, TLAPS

\* The cardinalities the score is computed from.
LEMMA PortCounts ==
  ASSUME NEW P, P \subseteq Port
  PROVE  /\ IsFiniteSet(P) /\ Cardinality(P) \in Nat
         /\ IsFiniteSet(RiskyFound(P)) /\ Cardinality(RiskyFound(P)) \in Nat
         /\ RiskyFound(P) = {} <=> Cardinality(RiskyFound(P)) = 0
<1> DEFINE last == 65535
<1>0. last \in Int /\ Port = 1..last
  BY DEF Port
<1> HIDE DEF last
<1>1. IsFiniteSet(Port)
  BY <1>0, FS_Interval
<1>2. IsFiniteSet(P) /\ Cardinality(P) \in Nat
  BY <1>1, FS_Subset, FS_CardinalityType
<1>3. RiskyFound(P) \subseteq P
  BY DEF RiskyFound
<1>4. IsFiniteSet(RiskyFound(P)) /\ Cardinality(RiskyFound(P)) \in Nat
  BY <1>2, <1>3, FS_Subset, FS_CardinalityType
<1> QED
  BY <1>2, <1>4, FS_EmptySet

\* The points and thresholds amount to the decision list.
LEMMA StatusOfScan ==
  ASSUME NEW m \in Mac, NEW P, P \subseteq Port
  PROVE  /\ ScoreOf(m, P) \in 0..100
         /\ StatusOf(ScoreOf(m, P)) = Verdict(m, P)
<1> DEFINE n == Cardinality(RiskyFound(P))
<1>1. n \in Nat /\ (RiskyFound(P) = {} <=> n = 0)
  BY PortCounts
<1>2. PortPoints(P) \in {0, 15}
  BY DEF PortPoints
<1>3. /\ VendorKnown(m) => MacPoints(m) = 20
      /\ ~VendorKnown(m) /\ m # NoMac /\ IsLocallyAdministered(m) =>
           MacPoints(m) = -30
      /\ ~VendorKnown(m) /\ ~(m # NoMac /\ IsLocallyAdministered(m)) =>
           MacPoints(m) = 0
  BY DEF MacPoints
<1> HIDE DEF n
<1>4. ScoreOf(m, P) = Clamp(50 + MacPoints(m) + PortPoints(P) - 50 * n)
  BY DEF ScoreOf, n
<1> QED
  BY <1>1, <1>2, <1>3, <1>4 DEF Clamp, StatusOf, Verdict

\* What Calculate returns has its type.
LEMMA ScoreType ==
  ASSUME NEW m \in Mac, NEW P, P \subseteq Port
  PROVE  /\ Calculate(m, P) \in Score
         /\ Calculate(m, P).value \in 0..100
         /\ Calculate(m, P).status \in Status
         /\ Calculate(m, P).status = StatusOf(Calculate(m, P).value)
<1>1. ScoreOf(m, P) \in 0..100
  BY StatusOfScan
<1>2. \A x : StatusOf(x) \in Status
  BY DEF StatusOf, Status
<1>3. VendorKnown(m) \in BOOLEAN /\ RiskyFound(P) \in SUBSET RiskyPorts
  BY DEF VendorKnown, RiskyFound
<1> QED
  BY <1>1, <1>2, <1>3 DEF Calculate, Score

\* A larger set of open ports scores no better.
LEMMA MorePorts ==
  ASSUME NEW m \in Mac, NEW P, NEW Q, P \subseteq Q, Q \subseteq Port
  PROVE  ScoreOf(m, Q) <= ScoreOf(m, P)
<1> DEFINE p == Cardinality(RiskyFound(P))
           q == Cardinality(RiskyFound(Q))
<1>1. Cardinality(P) <= Cardinality(Q) /\ Cardinality(P) \in Nat
      /\ Cardinality(Q) \in Nat
  BY PortCounts, FS_Subset
<1>2. p <= q /\ p \in Nat /\ q \in Nat
  <2>1. RiskyFound(P) \subseteq RiskyFound(Q)
    BY DEF RiskyFound
  <2> QED
    BY <2>1, PortCounts, FS_Subset
<1>3. PortPoints(Q) <= PortPoints(P) /\ PortPoints(P) \in Int
      /\ PortPoints(Q) \in Int
  BY <1>1 DEF PortPoints
<1>4. MacPoints(m) \in Int
  BY DEF MacPoints
<1> HIDE DEF p, q
<1>5. /\ ScoreOf(m, P) = Clamp(50 + MacPoints(m) + PortPoints(P) - 50 * p)
      /\ ScoreOf(m, Q) = Clamp(50 + MacPoints(m) + PortPoints(Q) - 50 * q)
  BY DEF ScoreOf, p, q
<1> QED
  BY <1>2, <1>3, <1>4, <1>5 DEF Clamp
=============================================================================
