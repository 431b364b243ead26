---------------------------- MODULE FundingIndex ----------------------------
(***************************************************************************)
(* The mark and the funding index of one CreditMarket contract             *)
(* (src/contracts/src/CreditMarket.sol): block time, the mark the keeper   *)
(* pushes, the annual carry rate derived from it, and the cumulative carry *)
(* per token that every YES holder owes and every NO holder earns.         *)
(* The ledger of CreditMarket.tla reads this state and never writes it     *)
(* other than through Accrue.                                              *)
(*                                                                         *)
(* A transaction that reverts changes nothing, so a revert is an action    *)
(* that is not enabled.  Roles (keeper, admin) are who may send the        *)
(* transaction; the model lets the holder of the role act at any time.     *)
(***************************************************************************)
EXTENDS Clock

CONSTANTS
    WAD,          \* the fixed-point one: 1e18 in the code
    YEAR,         \* seconds in 365 days
    Marks,        \* the marks anyone ever proposes
    CarryRate,    \* carryRateFor: the annual carry of a YES at each valid mark
    MarkBounds    \* the records [step, interval] the admin ever proposes

(* carryRateFor returns (1 - m) * -ln(1 - m), rounded down and clamped to m. *)
(* The logarithm is the library's; what the contract relies on is the range  *)
(* it enforces itself: between zero and the mark.                            *)
ValidMark(m) == 0 < m /\ m < WAD
ValidMarks == {m \in Marks : ValidMark(m)}

ASSUME IndexConstants ==
    /\ WAD \in Nat \ {0}
    /\ YEAR \in Nat \ {0}
    /\ Marks \subseteq Nat
    /\ CarryRate \in [ValidMarks -> Nat]
    /\ \A m \in ValidMarks : CarryRate[m] <= m
    /\ MarkBounds \subseteq [step : Nat, interval : Nat]

VARIABLES
    currentMark,
    currentCarryRate,         \* stored; recomputed only when the mark changes
    lastMarkUpdate,
    maxMarkStep,
    minMarkInterval,
    cumulativeFundingPerYES,
    cumFundingPerNO,
    lastFundingTime

markVars == <<currentMark, currentCarryRate, lastMarkUpdate>>
boundVars == <<maxMarkStep, minMarkInterval>>
accrualVars == <<cumulativeFundingPerYES, cumFundingPerNO, lastFundingTime>>
indexVars == <<now, markVars, boundVars, accrualVars>>

----------------------------------------------------------------------------
(* The constructor: no carry has accrued, and both guard-rails are off.    *)
IndexInit ==
    /\ now = 0
    /\ currentMark \in ValidMarks
    /\ currentCarryRate = CarryRate[currentMark]
    /\ lastMarkUpdate = 0
    /\ maxMarkStep = WAD
    /\ minMarkInterval = 0
    /\ cumulativeFundingPerYES = 0
    /\ cumFundingPerNO = 0
    /\ lastFundingTime = 0

Elapsed == now - lastFundingTime

(* The index as of this block, written or not. *)
ProjectedCumYES ==
    cumulativeFundingPerYES + (currentCarryRate * Elapsed) \div YEAR

(* The NO index as of this block: _accrueFunding returns early when no time *)
(* has passed, and otherwise copies the YES index.                          *)
ProjectedCumNO == IF Elapsed = 0 THEN cumFundingPerNO ELSE ProjectedCumYES

(* Mutant: the early return is taken one second late and time is lost. *)
AccrueDropsTime ==
    /\ cumulativeFundingPerYES' =
         cumulativeFundingPerYES
            + (currentCarryRate * (IF Elapsed > 1 THEN Elapsed - 1 ELSE 0)) \div YEAR
    /\ cumFundingPerNO' = cumulativeFundingPerYES'
    /\ lastFundingTime' = now

(* _accrueFunding: charge the time since the last accrual at the STORED rate. *)
Accrue ==
    /\ cumulativeFundingPerYES' = ProjectedCumYES
    /\ cumFundingPerNO' = ProjectedCumNO
    /\ lastFundingTime' = now

(* _setMark: accrue at the old rate, then replace mark, rate and timestamp. *)
ReplaceMark(m) ==
    /\ Accrue
    /\ currentMark' = m
    /\ currentCarryRate' = CarryRate[m]
    /\ lastMarkUpdate' = now

MarkDistance(m, n) == IF m > n THEN m - n ELSE n - m

(* Mutant: only a rise is measured, and the mark may fall any distance. *)
KeeperMayDropMark(m) ==
    /\ now >= lastMarkUpdate + minMarkInterval
    /\ m <= currentMark + maxMarkStep

(* The guard-rails of setMark: not too soon, and not too far. *)
KeeperMayMoveMark(m) ==
    /\ now >= lastMarkUpdate + minMarkInterval
    /\ MarkDistance(m, currentMark) <= maxMarkStep

SetMark(m) ==
    /\ ValidMark(m)
    /\ KeeperMayMoveMark(m)
    /\ ReplaceMark(m)
    /\ UNCHANGED <<now, boundVars>>

(* The admin's override of the guard-rails. *)
AdminSetMark(m) ==
    /\ ValidMark(m)
    /\ ReplaceMark(m)
    /\ UNCHANGED <<now, boundVars>>

SetMarkBounds(b) ==
    /\ b.step # 0
    /\ maxMarkStep' = b.step
    /\ minMarkInterval' = b.interval
    /\ UNCHANGED <<now, markVars, accrualVars>>

(* Anyone may call accrueFunding; the funding keeper does so on a timer. *)
AccrueFunding ==
    /\ Accrue
    /\ UNCHANGED <<now, markVars, boundVars>>

Tick(d) ==
    /\ Later(d)
    /\ UNCHANGED <<markVars, boundVars, accrualVars>>

----------------------------------------------------------------------------
IndexTypeOK ==
    /\ now \in Nat
    /\ currentMark \in ValidMarks
    /\ currentCarryRate \in Nat
    /\ lastMarkUpdate \in Nat
    /\ maxMarkStep \in Nat \ {0}
    /\ minMarkInterval \in Nat
    /\ cumulativeFundingPerYES \in Nat
    /\ cumFundingPerNO \in Nat
    /\ lastFundingTime \in Nat

(* The two indices are one number, the stored rate is the rate of the mark *)
(* in force, and nothing is dated in the future: what every subtraction of *)
(* the contract (index minus snapshot, now minus last accrual) relies on   *)
(* not to revert.  (_accrueFunding, _setMark, _projectedCumYES.)           *)
IndexSound ==
    /\ cumFundingPerNO = cumulativeFundingPerYES
    /\ currentCarryRate = CarryRate[currentMark]
    /\ lastFundingTime <= now
    /\ lastMarkUpdate <= now
============================================================================
