--------------------------- MODULE FundingHistory ---------------------------
(***************************************************************************)
(* FundingIndex on its own, with history variables that record what the    *)
(* index and the mark guard-rails are supposed to promise over time: the   *)
(* carry that was due second by second, and the place from which the       *)
(* keeper's walk of the mark started.  The history variables are read by   *)
(* no action of the program.                                               *)
(***************************************************************************)
EXTENDS FundingIndex

CONSTANT MaxAccruals     \* bound on the accruals that move lastFundingTime

ASSUME HistoryConstants == MaxAccruals \in Nat

VARIABLES
    carryDue,      \* sum over the seconds elapsed of the rate then in force
    accruals,      \* how many accruals have rounded so far
    anchorMark,    \* the mark when the admin last acted
    anchorTime     \* lastMarkUpdate when the admin last acted

historyVars == <<carryDue, accruals, anchorMark, anchorTime>>
vars == <<indexVars, historyVars>>

Init ==
    /\ IndexInit
    /\ carryDue = 0
    /\ accruals = 0
    /\ anchorMark = currentMark
    /\ anchorTime = 0

CountAccrual ==
    /\ accruals' = IF Elapsed = 0 THEN accruals ELSE accruals + 1
    /\ accruals' <= MaxAccruals

KeeperSetsMark ==
    /\ \E m \in Marks : SetMark(m)
    /\ CountAccrual
    /\ UNCHANGED <<carryDue, anchorMark, anchorTime>>

AdminSetsMark ==
    /\ \E m \in Marks : AdminSetMark(m)
    /\ CountAccrual
    /\ anchorMark' = currentMark'
    /\ anchorTime' = lastMarkUpdate'
    /\ UNCHANGED carryDue

AdminSetsBounds ==
    /\ \E b \in MarkBounds : SetMarkBounds(b)
    /\ anchorMark' = currentMark
    /\ anchorTime' = lastMarkUpdate
    /\ UNCHANGED <<carryDue, accruals>>

AnyoneAccrues ==
    /\ AccrueFunding
    /\ CountAccrual
    /\ UNCHANGED <<carryDue, anchorMark, anchorTime>>

TimePasses ==
    /\ \E d \in Steps : Tick(d)
    /\ carryDue' = carryDue + currentCarryRate * (now' - now)
    /\ UNCHANGED <<accruals, anchorMark, anchorTime>>

Next ==
    \/ KeeperSetsMark
    \/ AdminSetsMark
    \/ AdminSetsBounds
    \/ AnyoneAccrues
    \/ TimePasses

Spec == Init /\ [][Next]_vars

----------------------------------------------------------------------------
TypeOK ==
    /\ IndexTypeOK
    /\ carryDue \in Nat
    /\ accruals \in Nat
    /\ anchorMark \in ValidMarks
    /\ anchorTime \in Nat

(* Nobody is charged for time at a rate that was not in force during it,   *)
(* and nothing but rounding is lost: scaled by a year, the index plus the  *)
(* carry not yet written is the carry due, less one year's unit at most    *)
(* for each accrual that rounded down.  (_accrueFunding; _setMark accrues  *)
(* at the old mark first.)                                                 *)
IndexTracksCarryDue ==
    LET charged == cumulativeFundingPerYES * YEAR + currentCarryRate * Elapsed
    IN  /\ charged <= carryDue
        /\ carryDue <= charged + accruals * (YEAR - 1)

(* A keeper key cannot teleport the mark: from where the admin last left   *)
(* it, moving it by some distance takes that distance over maxMarkStep     *)
(* updates, each minMarkInterval after the one before it.  (setMark.)      *)
KeeperWalkIsSlow ==
    MarkDistance(currentMark, anchorMark) * minMarkInterval
        <= maxMarkStep * (lastMarkUpdate - anchorTime)

(* The index never falls, whoever calls and whatever the mark does: a      *)
(* holder's snapshot is never ahead of it.  (_accrueFunding.)              *)
IndexNeverFalls ==
    [][ /\ cumulativeFundingPerYES' >= cumulativeFundingPerYES
        /\ ProjectedCumYES' >= ProjectedCumYES ]_vars
============================================================================
