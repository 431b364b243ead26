------------------------ MODULE FundingIndex_proofs ------------------------
(***************************************************************************)
(* What the operators of FundingIndex return and keep, for the proofs of   *)
(* the modules that extend it.                                             *)
(***************************************************************************)
EXTENDS FundingIndex, TLAPS

----------------------------------------------------------------------------
(* The arithmetic of the contracts: products stay natural, and what        *)
(* division rounds away is bounded.                                        *)

(* Balances times index moves, rates times seconds: no product goes below  *)
(* zero.                                                                   *)
LEMMA ProductIsNat ==
    ASSUME NEW a \in Nat, NEW b \in Nat
    PROVE  a * b \in Nat
  BY SMT

(* The three ways the contracts multiply a sum out. *)
LEMMA Distribute ==
    ASSUME NEW a \in Int, NEW b \in Int, NEW c \in Int
    PROVE  /\ (a + b) * c = a * c + b * c
           /\ c * (a + b) = c * a + c * b
           /\ c * (a - b) = c * a - c * b
  BY SMT

(* Rounding down, as every credit does: never up, and by less than a unit. *)
LEMMA DivBounds ==
    ASSUME NEW a \in Nat, NEW b \in Nat \ {0}
    PROVE  /\ a \div b \in Nat
           /\ (a \div b) * b <= a
           /\ a <= (a \div b) * b + (b - 1)
<1>1. a \div b \in Int /\ a % b \in 0 .. (b - 1) /\ a = b * (a \div b) + (a % b)
  BY SMT
<1>2. a \div b >= 0
  BY SMT
<1>3. b * (a \div b) = (a \div b) * b
  BY <1>1, SMT
<1> QED
  BY <1>1, <1>2, <1>3, SMT

(* A smaller factor makes a smaller product. *)
LEMMA ProductMonotone ==
    ASSUME NEW a \in Nat, NEW b \in Nat, NEW c \in Nat, a <= b
    PROVE  a * c <= b * c
<1>1. PICK d \in Nat : b = a + d
  BY b - a \in Nat, b = a + (b - a), SMT
<1>2. b * c = a * c + d * c
  BY <1>1, SMT
<1>3. d * c \in Nat /\ a * c \in Nat
  BY <1>1, ProductIsNat
<1> QED
  BY <1>2, <1>3, SMT

(* More to divide never gives less. *)
LEMMA DivMonotone ==
    ASSUME NEW a \in Nat, NEW b \in Nat, NEW c \in Nat \ {0}, a <= b
    PROVE  a \div c <= b \div c
<1> DEFINE q == a \div c
           r == b \div c
<1>1. q \in Nat /\ r \in Nat /\ q * c <= a /\ b <= r * c + (c - 1)
  BY DivBounds
<1>2. SUFFICES ASSUME r < q PROVE FALSE
  BY <1>1, SMT
<1>3. (r + 1) * c <= q * c
  <2> HIDE DEF q, r
  <2> QED BY <1>1, <1>2, ProductMonotone
<1>4. (r + 1) * c = r * c + c
  <2> HIDE DEF q, r
  <2> QED BY <1>1, SMT
<1>5. r * c \in Nat /\ q * c \in Nat
  <2> HIDE DEF q, r
  <2> QED BY <1>1, ProductIsNat
<1> QED
  <2> HIDE DEF q, r
  <2> QED BY <1>1, <1>3, <1>4, <1>5

(* Dividing a product by one of its factors is exact. *)
LEMMA DivOfProduct ==
    ASSUME NEW a \in Nat, NEW b \in Nat \ {0}
    PROVE  (a * b) \div b = a
<1> DEFINE q == (a * b) \div b
<1>1. a * b \in Nat
  BY ProductIsNat
<1>2. q \in Nat /\ q * b <= a * b /\ a * b <= q * b + (b - 1)
  BY <1>1, DivBounds
<1> HIDE DEF q
<1>3. CASE q < a
  <2>1. (q + 1) * b <= a * b
    BY <1>2, <1>3, ProductMonotone
  <2>2. (q + 1) * b = q * b + b /\ q * b \in Nat
    BY <1>2, Distribute, ProductIsNat
  <2> QED BY <1>1, <1>2, <2>1, <2>2
<1>4. CASE q > a
  <2>1. (a + 1) * b <= q * b
    BY <1>2, <1>4, ProductMonotone
  <2>2. (a + 1) * b = a * b + b /\ q * b \in Nat
    BY <1>2, Distribute, ProductIsNat
  <2> QED BY <1>1, <1>2, <2>1, <2>2
<1> QED
  BY <1>2, <1>3, <1>4 DEF q

USE ClockConstants, IndexConstants

----------------------------------------------------------------------------
(* _accrueFunding, as every transaction that accrues uses it               *)

(* Under the invariant the projection is a number, no lower than the       *)
(* stored index, that charges the time elapsed to within a year's unit.    *)
LEMMA ProjectionSound ==
    ASSUME IndexTypeOK, IndexSound
    PROVE  /\ Elapsed \in Nat
           /\ currentCarryRate * Elapsed \in Nat
           /\ ProjectedCumYES \in Nat
           /\ ProjectedCumYES >= cumulativeFundingPerYES
           /\ ProjectedCumNO = ProjectedCumYES
           /\ ProjectedCumYES * YEAR
                <= cumulativeFundingPerYES * YEAR + currentCarryRate * Elapsed
           /\ cumulativeFundingPerYES * YEAR + currentCarryRate * Elapsed
                <= ProjectedCumYES * YEAR + (YEAR - 1)
           /\ Elapsed = 0 => ProjectedCumYES = cumulativeFundingPerYES
<1> DEFINE carry == currentCarryRate * Elapsed
<1>1. Elapsed \in Nat
  BY DEF Elapsed, IndexTypeOK, IndexSound
<1>2. carry \in Nat
  BY <1>1, ProductIsNat DEF IndexTypeOK
<1>3. /\ carry \div YEAR \in Nat
      /\ (carry \div YEAR) * YEAR <= carry
      /\ carry <= (carry \div YEAR) * YEAR + (YEAR - 1)
  <2> HIDE DEF carry
  <2> QED BY <1>2, DivBounds
<1>4. Elapsed = 0 => carry = 0 /\ carry \div YEAR = 0
  BY <1>1 DEF IndexTypeOK
<1>5. ProjectedCumYES = cumulativeFundingPerYES + (carry \div YEAR)
  BY DEF ProjectedCumYES
<1>6. Elapsed = 0 => ProjectedCumYES = cumulativeFundingPerYES
  <2> HIDE DEF carry
  <2> QED BY <1>4, <1>5 DEF IndexTypeOK
<1>7. ProjectedCumYES \in Nat /\ ProjectedCumYES >= cumulativeFundingPerYES
  <2> HIDE DEF carry
  <2> QED BY <1>3, <1>5 DEF IndexTypeOK
<1>8. ProjectedCumNO = ProjectedCumYES
  BY <1>6 DEF ProjectedCumNO, IndexSound
<1>9. ProjectedCumYES * YEAR
        = cumulativeFundingPerYES * YEAR + (carry \div YEAR) * YEAR
  <2> HIDE DEF carry
  <2> QED BY <1>3, <1>5, Distribute DEF IndexTypeOK
<1>10. cumulativeFundingPerYES * YEAR \in Nat /\ ProjectedCumYES * YEAR \in Nat
  BY <1>7, ProductIsNat DEF IndexTypeOK
<1>11. /\ ProjectedCumYES * YEAR <= cumulativeFundingPerYES * YEAR + carry
       /\ cumulativeFundingPerYES * YEAR + carry <= ProjectedCumYES * YEAR + (YEAR - 1)
  <2> HIDE DEF carry
  <2>1. (carry \div YEAR) * YEAR \in Nat
    BY <1>3, ProductIsNat
  <2> QED BY <1>2, <1>3, <1>9, <1>10, <2>1
<1> QED
  BY <1>1, <1>2, <1>6, <1>7, <1>8, <1>11

(* An accrual at this block leaves a sound index that has not fallen. *)
LEMMA AccrualSound ==
    ASSUME IndexTypeOK, IndexSound, Accrue
    PROVE  /\ cumulativeFundingPerYES' = ProjectedCumYES
           /\ cumFundingPerNO' = ProjectedCumYES
           /\ lastFundingTime' = now
           /\ cumulativeFundingPerYES' \in Nat
           /\ cumulativeFundingPerYES' >= cumulativeFundingPerYES
  BY ProjectionSound DEF Accrue

(* An accrual that leaves mark, bounds and clock alone. *)
LEMMA AccrualKeepsIndex ==
    ASSUME IndexTypeOK, IndexSound, Accrue, UNCHANGED <<now, markVars, boundVars>>
    PROVE  IndexTypeOK' /\ IndexSound'
<1>1. /\ cumulativeFundingPerYES' \in Nat
      /\ cumFundingPerNO' = cumulativeFundingPerYES'
      /\ lastFundingTime' = now
  BY AccrualSound
<1>2. UNCHANGED <<now, currentMark, currentCarryRate, lastMarkUpdate,
                  maxMarkStep, minMarkInterval>>
  BY DEF markVars, boundVars
<1> QED
  BY <1>1, <1>2 DEF IndexTypeOK, IndexSound

(* A new mark, pushed by the keeper or by the admin. *)
LEMMA ReplacementKeepsIndex ==
    ASSUME IndexTypeOK, IndexSound, NEW m \in Marks, ValidMark(m), ReplaceMark(m),
           UNCHANGED <<now, boundVars>>
    PROVE  IndexTypeOK' /\ IndexSound'
<1>1. /\ m \in ValidMarks /\ CarryRate[m] \in Nat
  BY DEF ValidMarks
<1>2. /\ currentMark' = m /\ currentCarryRate' = CarryRate[m]
      /\ lastMarkUpdate' = now /\ Accrue
      /\ UNCHANGED <<now, maxMarkStep, minMarkInterval>>
  BY DEF ReplaceMark, boundVars
<1>3. /\ cumulativeFundingPerYES' \in Nat
      /\ cumFundingPerNO' = cumulativeFundingPerYES'
      /\ lastFundingTime' = now
  BY <1>2, AccrualSound
<1> QED
  BY <1>1, <1>2, <1>3 DEF IndexTypeOK, IndexSound

(* Writing the index down does not change what it projects, whatever the    *)
(* rate from here on: no time has passed since.                             *)
LEMMA AccrualKeepsProjection ==
    ASSUME IndexTypeOK, IndexSound, Accrue, now' = now, currentCarryRate' \in Nat
    PROVE  ProjectedCumYES' = ProjectedCumYES
<1>1. /\ cumulativeFundingPerYES' = ProjectedCumYES
      /\ lastFundingTime' = now
      /\ ProjectedCumYES \in Nat
  BY AccrualSound, ProjectionSound
<1>2. Elapsed' = 0
  BY <1>1 DEF Elapsed, IndexTypeOK
<1>3. currentCarryRate' * Elapsed' = 0
  <2>1. \A r \in Nat : r * 0 = 0
    BY SMT
  <2> QED BY <1>2, <2>1
<1>4. (currentCarryRate' * Elapsed') \div YEAR = 0
  BY <1>3
<1>5. ProjectedCumYES' = cumulativeFundingPerYES' + ((currentCarryRate' * Elapsed') \div YEAR)
  BY DEF ProjectedCumYES
<1> QED
  BY <1>1, <1>4, <1>5

(* Time alone never lowers the projection. *)
LEMMA TickRaisesProjection ==
    ASSUME IndexTypeOK, IndexSound, NEW d \in Nat, now' = now + d,
           UNCHANGED <<markVars, accrualVars>>
    PROVE  ProjectedCumYES' >= ProjectedCumYES
<1> DEFINE before == currentCarryRate * Elapsed
           after == currentCarryRate * (Elapsed + d)
           q == before \div YEAR
           r == after \div YEAR
<1>1. Elapsed \in Nat /\ Elapsed' = Elapsed + d
  BY DEF Elapsed, accrualVars, IndexTypeOK, IndexSound
<1>2. before \in Nat /\ currentCarryRate * d \in Nat
  BY <1>1, ProductIsNat DEF IndexTypeOK
<1>3. after = before + currentCarryRate * d
  BY <1>1, Distribute DEF IndexTypeOK
<1>4. ProjectedCumYES = cumulativeFundingPerYES + q
  BY DEF ProjectedCumYES
<1>5. ProjectedCumYES' = cumulativeFundingPerYES + r
  BY <1>1 DEF ProjectedCumYES, markVars, accrualVars
<1>6. after \in Nat /\ before <= after
  <2> HIDE DEF before, after
  <2> QED BY <1>2, <1>3
<1>7. q \in Nat /\ r \in Nat /\ q <= r
  <2> HIDE DEF before, after
  <2> QED BY <1>2, <1>6, DivBounds, DivMonotone
<1> QED
  <2> HIDE DEF q, r
  <2> QED BY <1>4, <1>5, <1>7 DEF IndexTypeOK
============================================================================
