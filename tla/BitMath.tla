------------------------------- MODULE BitMath -------------------------------
(***************************************************************************)
(* Counters of which only the low bits are sent (BitMath.hpp): ACK-IDs,    *)
(* the roll-up of an acknowledgement, the IV of a datagram.                *)
(***************************************************************************)
EXTENDS Integers, TLAPS

\* The low bits of id that fit a field that tells m values apart.
LowBits(id, m) == id % m

\* Mutant: the correction for bits of the previous period is missing.
ReconstructForward(m, center, low) ==
    LET diff == low - (center % m)
    IN  (center - (center % m)) + low + (IF diff < 0 THEN m ELSE 0)

\* The full counter from its low bits: the two correction terms of the code
\* take away one period when the bits lie more than half a period ahead of
\* the center and add one when they are below the center's own low bits.
ReconstructCounter(m, center, low) ==
    LET diff == low - (center % m)
    IN  (center - (center % m)) + low
          - (IF diff % m > m \div 2 THEN m ELSE 0)
          + (IF diff < 0 THEN m ELSE 0)

------------------------------------------------------------------------------
(* What cutting a counter to its low bits loses and what it keeps. *)

\* Division with remainder, as the provers need it.
LEMMA DivMod ==
    ASSUME NEW x \in Int, NEW m \in Nat \ {0}
    PROVE  /\ x \div m \in Int /\ x % m \in 0 .. (m - 1)
           /\ x = m * (x \div m) + (x % m)
  BY SMT

\* Two multiples of m less than m apart are the same.
LEMMA SmallMultiple ==
    ASSUME NEW m \in Nat \ {0}, NEW q \in Int, NEW r \in Int,
           m * q = r, r < m, -m < r
    PROVE  q = 0
<1>1. CASE q >= 1
  <2>1. m * q >= m * 1  BY <1>1, SMT
  <2> QED BY <2>1
<1>2. CASE q <= -1
  <2>1. m * q <= m * (-1)  BY <1>2, SMT
  <2> QED BY <2>1
<1> QED BY <1>1, <1>2

\* Reconstruction is exact: a counter that lies less than half a period below
\* the center and at most half a period above it is rebuilt from its low bits
\* (ReconstructCounter, used by OnTransportDatagrams, OnACK and Decrypt).
THEOREM ReconstructExact ==
    ASSUME NEW m \in Nat \ {0}, m % 2 = 0,
           NEW center \in Int, NEW id \in Int,
           id - center <= m \div 2, center - id < m \div 2
    PROVE  ReconstructCounter(m, center, LowBits(id, m)) = id
<1> DEFINE rc == center % m
           ri == id % m
           qc == center \div m
           qi == id \div m
           diff == ri - rc
           R == center - rc + ri - (IF diff % m > m \div 2 THEN m ELSE 0)
                  + (IF diff < 0 THEN m ELSE 0)
<1>1. /\ qc \in Int /\ rc \in 0 .. (m-1) /\ center = m * qc + rc
      /\ qi \in Int /\ ri \in 0 .. (m-1) /\ id = m * qi + ri
  BY DivMod
<1>2. ReconstructCounter(m, center, LowBits(id, m)) = R
  BY DEF ReconstructCounter, LowBits
<1>3. m = 2 * (m \div 2) /\ m \div 2 \in Nat
  BY SMT
<1>4. diff % m = IF diff < 0 THEN diff + m ELSE diff
  <2> HIDE DEF rc, ri
  <2> DEFINE qd == diff \div m
             rd == diff % m
  <2>1. qd \in Int /\ rd \in 0 .. (m-1) /\ diff = m * qd + rd /\ diff \in Int
    BY <1>1, DivMod
  <2> HIDE DEF qd, rd
  <2>2. CASE diff < 0
    <3>1. m * (qd + 1) = m * qd + m  BY <2>1, SMT
    <3>2. m * (qd + 1) = diff + m - rd  BY <2>1, <3>1
    <3>3. qd + 1 = 0  BY <3>2, <2>1, <2>2, <1>1, SmallMultiple
    <3>4. m * qd = -m  BY <3>1, <3>3, <2>1
    <3> QED BY <3>4, <2>1, <2>2 DEF rd
  <2>3. CASE diff >= 0
    <3>1. m * qd = diff - rd  BY <2>1
    <3>2. qd = 0  BY <3>1, <2>1, <2>3, <1>1, SmallMultiple
    <3>3. m * qd = 0  BY <3>2
    <3> QED BY <3>3, <2>1, <2>3 DEF rd
  <2> QED BY <2>1, <2>2, <2>3
<1> HIDE DEF rc, ri, qc, qi
<1>5. m * (qi - qc) = (id - center) - diff
  <2>1. m * (qi - qc) = m * qi - m * qc  BY <1>1, SMT
  <2> QED BY <2>1, <1>1
<1>6. CASE diff >= 0 /\ diff <= m \div 2
  <2>1. qi - qc = 0  BY <1>5, <1>6, <1>1, <1>3, SmallMultiple
  <2>2. m * (qi - qc) = 0  BY <2>1
  <2> QED BY <2>2, <1>5, <1>6, <1>2, <1>4, <1>1
<1>7. CASE diff >= 0 /\ diff > m \div 2
  <2>1. m * (qi - qc + 1) = m * (qi - qc) + m  BY <1>1, SMT
  <2>2. qi - qc + 1 = 0  BY <2>1, <1>5, <1>7, <1>1, <1>3, SmallMultiple
  <2>3. m * (qi - qc + 1) = 0  BY <2>2
  <2> QED BY <2>1, <2>3, <1>5, <1>7, <1>2, <1>4, <1>1
<1>8. CASE diff < 0 /\ diff + m <= m \div 2
  <2>1. m * (qi - qc - 1) = m * (qi - qc) - m  BY <1>1, SMT
  <2>2. qi - qc - 1 = 0  BY <2>1, <1>5, <1>8, <1>1, <1>3, SmallMultiple
  <2>3. m * (qi - qc - 1) = 0  BY <2>2
  <2> QED BY <2>1, <2>3, <1>5, <1>8, <1>2, <1>4, <1>1
<1>9. CASE diff < 0 /\ diff + m > m \div 2
  <2>1. qi - qc = 0  BY <1>5, <1>9, <1>1, <1>3, SmallMultiple
  <2>2. m * (qi - qc) = 0  BY <2>1
  <2> QED BY <2>2, <1>5, <1>9, <1>2, <1>4, <1>1
<1> QED BY <1>6, <1>7, <1>8, <1>9, <1>1, <1>3
==============================================================================
