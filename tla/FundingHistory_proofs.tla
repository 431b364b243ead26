----------------------- MODULE FundingHistory_proofs -----------------------
(***************************************************************************)
(* FundingHistory's invariants and its action property, for every mark,    *)
(* rate, bound and clock.                                                  *)
(***************************************************************************)
EXTENDS FundingHistory, FundingIndex_proofs

USE ClockConstants, IndexConstants, HistoryConstants

(* What the index promises at every step, as one inductive formula: the    *)
(* three invariants below lean on each other's types and on the anchor     *)
(* being no later than the last mark update.                               *)
IInv ==
    /\ TypeOK
    /\ IndexSound
    /\ anchorTime <= lastMarkUpdate
    /\ IndexTracksCarryDue
    /\ KeeperWalkIsSlow

----------------------------------------------------------------------------
(* What one accrual does, for the steps that contain one: types and the     *)
(* index stay sound, and the carry charged is the carry due less rounding.  *)
LEMMA AccrualKeepsTrack ==
    ASSUME TypeOK, IndexSound, IndexTracksCarryDue,
           Accrue, CountAccrual, now' = now, carryDue' = carryDue,
           currentCarryRate' \in Nat
    PROVE  /\ cumulativeFundingPerYES' \in Nat
           /\ cumulativeFundingPerYES' >= cumulativeFundingPerYES
           /\ cumFundingPerNO' = cumulativeFundingPerYES'
           /\ lastFundingTime' = now
           /\ accruals' \in Nat
           /\ ProjectedCumYES' = ProjectedCumYES
           /\ IndexTracksCarryDue'
<1> DEFINE charged == cumulativeFundingPerYES * YEAR + currentCarryRate * Elapsed
           rounded == accruals * (YEAR - 1)
<1>1. IndexTypeOK
  BY DEF TypeOK
<1>2. /\ Elapsed \in Nat
      /\ ProjectedCumYES \in Nat
      /\ ProjectedCumYES >= cumulativeFundingPerYES
      /\ ProjectedCumNO = ProjectedCumYES
      /\ ProjectedCumYES * YEAR <= charged
      /\ charged <= ProjectedCumYES * YEAR + (YEAR - 1)
      /\ Elapsed = 0 => ProjectedCumYES = cumulativeFundingPerYES
      /\ currentCarryRate * Elapsed \in Nat
  BY <1>1, ProjectionSound
<1>3. /\ cumulativeFundingPerYES' = ProjectedCumYES
      /\ cumFundingPerNO' = ProjectedCumYES
      /\ lastFundingTime' = now
  BY <1>2 DEF Accrue
<1>4. Elapsed' = 0
  BY <1>1, <1>3 DEF Elapsed, IndexTypeOK
<1>5. currentCarryRate' * Elapsed' = 0
  <2>1. \A r \in Nat : r * 0 = 0
    BY SMT
  <2> QED BY <1>4, <2>1
<1>6. ProjectedCumYES' = ProjectedCumYES
  BY <1>1, AccrualKeepsProjection
<1>7. accruals' = (IF Elapsed = 0 THEN accruals ELSE accruals + 1) /\ accruals' \in Nat
  BY DEF CountAccrual, TypeOK
<1>8. charged <= carryDue /\ carryDue <= charged + rounded
  BY DEF IndexTracksCarryDue
<1>9. /\ charged \in Nat /\ rounded \in Nat /\ ProjectedCumYES * YEAR \in Nat
      /\ carryDue \in Nat
  <2>1. /\ accruals \in Nat /\ YEAR - 1 \in Nat /\ carryDue \in Nat
        /\ cumulativeFundingPerYES \in Nat
    BY DEF TypeOK, IndexTypeOK
  <2>2. /\ rounded \in Nat /\ cumulativeFundingPerYES * YEAR \in Nat
        /\ ProjectedCumYES * YEAR \in Nat
    BY <1>2, <2>1, ProductIsNat
  <2> QED BY <1>2, <2>1, <2>2
<1>10. carryDue <= ProjectedCumYES * YEAR + accruals' * (YEAR - 1)
  <2>1. CASE Elapsed = 0
    <3>1. charged = ProjectedCumYES * YEAR
      BY <1>1, <1>2, <2>1 DEF IndexTypeOK
    <3> QED BY <1>7, <1>8, <2>1, <3>1
  <2>2. CASE Elapsed # 0
    <3>1. accruals' * (YEAR - 1) = rounded + (YEAR - 1)
      BY <1>7, <2>2, Distribute DEF TypeOK
    <3> HIDE DEF charged, rounded
    <3> QED BY <1>2, <1>8, <1>9, <3>1
  <2> QED BY <2>1, <2>2
<1>11. IndexTracksCarryDue'
  <2>1. ProjectedCumYES * YEAR <= carryDue
    <3> HIDE DEF charged, rounded
    <3> QED BY <1>2, <1>8, <1>9
  <2>2. cumulativeFundingPerYES' * YEAR + currentCarryRate' * Elapsed'
          = ProjectedCumYES * YEAR
    BY <1>3, <1>5, <1>9
  <2> QED BY <1>10, <2>1, <2>2 DEF IndexTracksCarryDue
<1> QED
  BY <1>2, <1>3, <1>6, <1>7, <1>11

----------------------------------------------------------------------------
(* The guard-rails of setMark                                              *)

(* The distance setMark compares with its step is a number, zero from a     *)
(* mark to itself, and takes no short cuts.                                 *)
LEMMA Distances ==
    ASSUME NEW m \in Nat, NEW n \in Nat, NEW a \in Nat
    PROVE  /\ MarkDistance(m, a) \in Nat
           /\ MarkDistance(m, m) = 0
           /\ MarkDistance(m, a) <= MarkDistance(n, a) + MarkDistance(m, n)
  BY DEF MarkDistance

(* One more move of at most a step, at least an interval after the last,   *)
(* keeps the walk within its speed limit.                                  *)
LEMMA OneMoreMove ==
    ASSUME NEW walked \in Nat, NEW further \in Nat, NEW step \in Nat,
           NEW interval \in Nat, NEW start \in Nat, NEW last \in Nat, NEW t \in Nat,
           start <= last, last + interval <= t,
           further <= walked + step,
           walked * interval <= step * (last - start)
    PROVE  further * interval <= step * (t - start)
<1>1. further * interval <= (walked + step) * interval
  BY ProductMonotone, walked + step \in Nat
<1>2. (walked + step) * interval = walked * interval + step * interval
  BY Distribute
<1>3. step * (last - start) + step * interval = step * ((last - start) + interval)
  BY Distribute, last - start \in Int
<1>4. step * ((last - start) + interval) <= step * (t - start)
  <2>1. /\ (last - start) + interval \in Nat
        /\ t - start \in Nat
        /\ (last - start) + interval <= t - start
    OBVIOUS
  <2>2. \A a, b \in Nat : a <= b => step * a <= step * b
    <3>1. \A a \in Nat : step * a = a * step
      BY SMT
    <3> QED BY <3>1, ProductMonotone
  <2> QED BY <2>1, <2>2
<1>5. /\ further * interval \in Nat /\ (walked + step) * interval \in Nat
      /\ walked * interval \in Nat /\ step * interval \in Nat
      /\ step * (last - start) \in Nat /\ step * (t - start) \in Nat
      /\ step * ((last - start) + interval) \in Nat
  BY ProductIsNat, walked + step \in Nat, last - start \in Nat, t - start \in Nat,
     (last - start) + interval \in Nat
<1> QED
  BY <1>1, <1>2, <1>3, <1>4, <1>5

----------------------------------------------------------------------------
(* The inductive invariant holds at first and is kept by every action      *)

(* The constructor leaves the mark, the index and the walk as IInv says. *)
LEMMA InitIInv == Init => IInv
<1> SUFFICES ASSUME Init PROVE IInv
  OBVIOUS
<1> USE DEF Init, IndexInit
<1>1. /\ currentMark \in ValidMarks /\ currentMark \in Nat
      /\ currentCarryRate \in Nat /\ Elapsed = 0
  BY DEF ValidMarks, Elapsed
<1>2. TypeOK
  BY <1>1 DEF TypeOK, IndexTypeOK
<1>3. IndexSound
  BY DEF IndexSound
<1>4. IndexTracksCarryDue
  <2>1. \A n \in Nat : 0 * n = 0 /\ n * 0 = 0
    BY SMT
  <2>2. YEAR - 1 \in Nat
    OBVIOUS
  <2> QED BY <1>1, <2>1, <2>2 DEF IndexTracksCarryDue
<1>5. KeeperWalkIsSlow
  <2>1. MarkDistance(currentMark, currentMark) = 0
    BY <1>1, Distances
  <2> QED BY <1>1, <2>1 DEF KeeperWalkIsSlow
<1> QED
  BY <1>2, <1>3, <1>4, <1>5 DEF IInv

(* The part of every mark replacement that the keeper and the admin share. *)
LEMMA ReplacementKeepsTrack ==
    ASSUME IInv, NEW m \in Marks, ValidMark(m), ReplaceMark(m), CountAccrual,
           UNCHANGED <<now, boundVars, carryDue>>,
           anchorMark' \in ValidMarks, anchorTime' \in Nat
    PROVE  TypeOK' /\ IndexSound' /\ IndexTracksCarryDue'
<1>1. m \in ValidMarks /\ m \in Nat
  BY DEF ValidMarks
<1>2. /\ currentMark' = m /\ currentCarryRate' = CarryRate[m]
      /\ lastMarkUpdate' = now /\ Accrue
  BY DEF ReplaceMark
<1>3. currentCarryRate' \in Nat
  BY <1>1, <1>2
<1>4. /\ cumulativeFundingPerYES' \in Nat
      /\ cumFundingPerNO' = cumulativeFundingPerYES'
      /\ lastFundingTime' = now
      /\ accruals' \in Nat
      /\ IndexTracksCarryDue'
  BY <1>2, <1>3, AccrualKeepsTrack DEF IInv
<1>5. TypeOK'
  BY <1>1, <1>2, <1>3, <1>4 DEF IInv, TypeOK, IndexTypeOK, boundVars
<1>6. IndexSound'
  BY <1>2, <1>4 DEF IndexSound, IInv, TypeOK, IndexTypeOK
<1> QED
  BY <1>4, <1>5, <1>6

(* Every call and every second keeps it. *)
LEMMA NextIInv == IInv /\ [Next]_vars => IInv'
<1> SUFFICES ASSUME IInv, [Next]_vars PROVE IInv'
  OBVIOUS
<1> USE DEF IInv
<1>1. CASE KeeperSetsMark
  <2>1. PICK m \in Marks : SetMark(m)
    BY <1>1 DEF KeeperSetsMark
  <2>2. /\ ValidMark(m) /\ KeeperMayMoveMark(m) /\ ReplaceMark(m) /\ CountAccrual
        /\ UNCHANGED <<now, boundVars, carryDue, anchorMark, anchorTime>>
    BY <1>1, <2>1 DEF KeeperSetsMark, SetMark
  <2>3. TypeOK' /\ IndexSound' /\ IndexTracksCarryDue'
    BY <2>2, ReplacementKeepsTrack DEF TypeOK
  <2>4. /\ m \in Nat /\ currentMark \in Nat /\ anchorMark \in Nat
        /\ currentMark' = m /\ lastMarkUpdate' = now
    BY <2>2 DEF TypeOK, IndexTypeOK, ValidMarks, ReplaceMark
  <2>5. anchorTime' <= lastMarkUpdate'
    BY <2>2, <2>4 DEF TypeOK, IndexTypeOK, IndexSound
  <2>6. KeeperWalkIsSlow'
    <3> DEFINE walked == MarkDistance(currentMark, anchorMark)
               further == MarkDistance(m, anchorMark)
    <3>1. walked \in Nat /\ further \in Nat /\ further <= walked + maxMarkStep
      <4>1. /\ walked \in Nat /\ further \in Nat /\ MarkDistance(m, currentMark) \in Nat
            /\ further <= walked + MarkDistance(m, currentMark)
        BY <2>4, Distances
      <4>2. MarkDistance(m, currentMark) <= maxMarkStep /\ maxMarkStep \in Nat
        BY <2>2 DEF KeeperMayMoveMark, TypeOK, IndexTypeOK
      <4> HIDE DEF walked, further
      <4> QED BY <4>1, <4>2
    <3>2. walked * minMarkInterval <= maxMarkStep * (lastMarkUpdate - anchorTime)
      BY DEF KeeperWalkIsSlow
    <3>3. lastMarkUpdate + minMarkInterval <= now
      BY <2>2 DEF KeeperMayMoveMark, TypeOK, IndexTypeOK
    <3>4. further * minMarkInterval <= maxMarkStep * (now - anchorTime)
      <4> HIDE DEF walked, further
      <4> QED BY <3>1, <3>2, <3>3, OneMoreMove DEF TypeOK, IndexTypeOK
    <3> QED BY <2>2, <2>4, <3>4 DEF KeeperWalkIsSlow, boundVars
  <2> QED BY <2>3, <2>5, <2>6
<1>2. CASE AdminSetsMark
  <2>1. PICK m \in Marks : AdminSetMark(m)
    BY <1>2 DEF AdminSetsMark
  <2>2. /\ ValidMark(m) /\ ReplaceMark(m) /\ CountAccrual
        /\ currentMark' = m /\ lastMarkUpdate' = now
        /\ anchorMark' = m /\ anchorTime' = now
        /\ UNCHANGED <<now, boundVars, carryDue>>
    BY <1>2, <2>1 DEF AdminSetsMark, AdminSetMark, ReplaceMark
  <2>3. m \in ValidMarks /\ m \in Nat /\ now \in Nat
    BY <2>2 DEF ValidMarks, TypeOK, IndexTypeOK
  <2>4. TypeOK' /\ IndexSound' /\ IndexTracksCarryDue'
    BY <2>2, <2>3, ReplacementKeepsTrack
  <2>5. anchorTime' <= lastMarkUpdate'
    BY <2>2, <2>3
  <2>6. KeeperWalkIsSlow'
    <3>1. MarkDistance(m, m) = 0
      BY <2>3, Distances
    <3>2. minMarkInterval' \in Nat /\ maxMarkStep' \in Nat /\ now - now = 0
      BY <2>3, <2>4 DEF TypeOK, IndexTypeOK
    <3> QED BY <2>2, <3>1, <3>2 DEF KeeperWalkIsSlow
  <2> QED BY <2>4, <2>5, <2>6
<1>3. CASE AdminSetsBounds
  <2>1. PICK b \in MarkBounds : SetMarkBounds(b)
    BY <1>3 DEF AdminSetsBounds
  <2>2. /\ maxMarkStep' = b.step /\ minMarkInterval' = b.interval
        /\ b.step \in Nat \ {0} /\ b.interval \in Nat
        /\ anchorMark' = currentMark /\ anchorTime' = lastMarkUpdate
        /\ UNCHANGED <<now, currentMark, currentCarryRate, lastMarkUpdate,
                       cumulativeFundingPerYES, cumFundingPerNO, lastFundingTime,
                       carryDue, accruals>>
    BY <1>3, <2>1 DEF AdminSetsBounds, SetMarkBounds, markVars, accrualVars
  <2>3. TypeOK' /\ IndexSound' /\ anchorTime' <= lastMarkUpdate'
    BY <2>2 DEF TypeOK, IndexTypeOK, IndexSound
  <2>4. IndexTracksCarryDue'
    BY <2>2 DEF IndexTracksCarryDue, Elapsed
  <2>5. KeeperWalkIsSlow'
    <3>1. MarkDistance(currentMark, currentMark) = 0 /\ lastMarkUpdate - lastMarkUpdate = 0
      BY Distances DEF TypeOK, IndexTypeOK, ValidMarks
    <3> QED BY <2>2, <3>1 DEF KeeperWalkIsSlow
  <2> QED BY <2>3, <2>4, <2>5
<1>4. CASE AnyoneAccrues
  <2>1. /\ Accrue /\ CountAccrual
        /\ UNCHANGED <<now, currentMark, currentCarryRate, lastMarkUpdate,
                       maxMarkStep, minMarkInterval, carryDue, anchorMark, anchorTime>>
    BY <1>4 DEF AnyoneAccrues, AccrueFunding, markVars, boundVars
  <2>2. /\ cumulativeFundingPerYES' \in Nat
        /\ cumFundingPerNO' = cumulativeFundingPerYES'
        /\ lastFundingTime' = now
        /\ accruals' \in Nat
        /\ IndexTracksCarryDue'
    BY <2>1, AccrualKeepsTrack DEF TypeOK, IndexTypeOK
  <2>3. TypeOK' /\ IndexSound' /\ anchorTime' <= lastMarkUpdate'
    BY <2>1, <2>2 DEF TypeOK, IndexTypeOK, IndexSound
  <2>4. KeeperWalkIsSlow'
    BY <2>1 DEF KeeperWalkIsSlow, MarkDistance
  <2> QED BY <2>2, <2>3, <2>4
<1>5. CASE TimePasses
  <2>1. PICK d \in Steps : Tick(d)
    BY <1>5 DEF TimePasses
  <2>2. /\ d \in Nat \ {0} /\ now' = now + d
        /\ carryDue' = carryDue + currentCarryRate * d
        /\ UNCHANGED <<currentMark, currentCarryRate, lastMarkUpdate,
                       maxMarkStep, minMarkInterval,
                       cumulativeFundingPerYES, cumFundingPerNO, lastFundingTime,
                       accruals, anchorMark, anchorTime>>
    BY <1>5, <2>1
       DEF TimePasses, Tick, Later, markVars, boundVars, accrualVars, TypeOK, IndexTypeOK
  <2>3. currentCarryRate * d \in Nat
    BY <2>2, ProductIsNat DEF TypeOK, IndexTypeOK
  <2>4. TypeOK' /\ IndexSound' /\ anchorTime' <= lastMarkUpdate'
    BY <2>2, <2>3 DEF TypeOK, IndexTypeOK, IndexSound
  <2>5. IndexTracksCarryDue'
    <3>1. Elapsed \in Nat /\ Elapsed' = Elapsed + d
      BY <2>2 DEF Elapsed, TypeOK, IndexTypeOK, IndexSound
    <3>2. currentCarryRate' * Elapsed' = currentCarryRate * Elapsed + currentCarryRate * d
      BY <2>2, <3>1, Distribute DEF TypeOK, IndexTypeOK
    <3>3. /\ currentCarryRate * Elapsed \in Nat /\ accruals * (YEAR - 1) \in Nat
          /\ cumulativeFundingPerYES * YEAR \in Nat /\ carryDue \in Nat
      BY <3>1, ProductIsNat, YEAR - 1 \in Nat DEF TypeOK, IndexTypeOK
    <3> QED BY <2>2, <2>3, <3>2, <3>3 DEF IndexTracksCarryDue
  <2>6. KeeperWalkIsSlow'
    BY <2>2 DEF KeeperWalkIsSlow, MarkDistance
  <2> QED BY <2>4, <2>5, <2>6
<1>6. CASE UNCHANGED vars
  BY <1>6
     DEF vars, indexVars, markVars, boundVars, accrualVars, historyVars, TypeOK,
         IndexTypeOK, IndexSound, IndexTracksCarryDue, KeeperWalkIsSlow, Elapsed,
         MarkDistance
<1> QED
  BY <1>1, <1>2, <1>3, <1>4, <1>5, <1>6 DEF Next

(* So it holds throughout: the index is sound, charges what was due, and    *)
(* the keeper's mark has kept within the guard-rails of setMark.            *)
THEOREM Invariance == Spec => []IInv
  BY InitIInv, NextIInv, PTL DEF Spec

----------------------------------------------------------------------------
(* The theorems                                                            *)

(* Every value the contract keeps stays in its type: in particular nothing *)
(* it stores as an unsigned integer ever falls below zero, and the mark in *)
(* force is always a valid one.                                            *)
THEOREM TypeCorrect == Spec => []TypeOK
<1>1. IInv => TypeOK
  BY DEF IInv
<1> QED
  BY <1>1, Invariance, PTL

(* The YES and the NO index are one number, the stored rate is the mark's, *)
(* and no timestamp is in the future, so no subtraction of _accrueFunding, *)
(* _projectedCumYES or setMark underflows.                                 *)
THEOREM IndexIsSound == Spec => []IndexSound
<1>1. IInv => IndexSound
  BY DEF IInv
<1> QED
  BY <1>1, Invariance, PTL

(* The index charges the carry that was due, second by second at the rate  *)
(* then in force, less at most one year's unit per accrual that rounded.   *)
THEOREM CarryIsTracked == Spec => []IndexTracksCarryDue
<1>1. IInv => IndexTracksCarryDue
  BY DEF IInv
<1> QED
  BY <1>1, Invariance, PTL

(* However many updates the keeper makes, the mark's distance from where   *)
(* the admin last left it is within the speed the guard-rails allow.       *)
THEOREM KeeperIsSlow == Spec => []KeeperWalkIsSlow
<1>1. IInv => KeeperWalkIsSlow
  BY DEF IInv
<1> QED
  BY <1>1, Invariance, PTL

(* The stored index and its projection never fall. *)
THEOREM IndexIsMonotone == Spec => IndexNeverFalls
<1> DEFINE Rises == /\ cumulativeFundingPerYES' >= cumulativeFundingPerYES
                    /\ ProjectedCumYES' >= ProjectedCumYES
<1>1. IInv /\ [Next]_vars => [Rises]_vars
  <2> SUFFICES ASSUME IInv, Next PROVE Rises
    OBVIOUS
  <2>1. TypeOK /\ IndexSound /\ IndexTracksCarryDue
    BY DEF IInv
  <2>2. TypeOK'
    BY NextIInv DEF IInv
  <2>3. /\ ProjectedCumYES \in Nat /\ cumulativeFundingPerYES \in Nat
        /\ currentCarryRate' \in Nat
    BY <2>1, <2>2, ProjectionSound DEF TypeOK, IndexTypeOK
  <2>4. CASE KeeperSetsMark \/ AdminSetsMark \/ AnyoneAccrues
    <3>1. Accrue /\ CountAccrual /\ now' = now /\ carryDue' = carryDue
      BY <2>4
         DEF KeeperSetsMark, AdminSetsMark, AnyoneAccrues, SetMark, AdminSetMark,
             ReplaceMark, AccrueFunding
    <3>2. /\ cumulativeFundingPerYES' >= cumulativeFundingPerYES
          /\ ProjectedCumYES' = ProjectedCumYES
      BY <2>1, <2>3, <3>1, AccrualKeepsTrack
    <3> QED BY <2>3, <3>2
  <2>5. CASE AdminSetsBounds
    <3>1. UNCHANGED <<now, markVars, accrualVars>>
      BY <2>5 DEF AdminSetsBounds, SetMarkBounds
    <3> QED
      BY <2>3, <3>1 DEF ProjectedCumYES, Elapsed, markVars, accrualVars
  <2>6. CASE TimePasses
    <3>1. PICK d \in Nat : now' = now + d /\ UNCHANGED <<markVars, accrualVars>>
      BY <2>6 DEF TimePasses, Tick, Later
    <3>2. ProjectedCumYES' >= ProjectedCumYES
      BY <2>1, <3>1, TickRaisesProjection DEF TypeOK
    <3> QED BY <2>3, <3>1, <3>2 DEF accrualVars
  <2> QED BY <2>4, <2>5, <2>6 DEF Next
<1>2. Spec => [][Rises]_vars
  BY <1>1, Invariance, PTL DEF Spec
<1> QED
  BY <1>2 DEF IndexNeverFalls
============================================================================
