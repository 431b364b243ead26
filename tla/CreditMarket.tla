---------------------------- MODULE CreditMarket ----------------------------
(***************************************************************************)
(* The ledger of one CreditMarket contract                                 *)
(* (src/contracts/src/CreditMarket.sol): who holds how many YES and NO,    *)
(* each holder's snapshots of the funding index and recorded carry debt,   *)
(* the seizure flags, and the USDC that backs it all.                      *)
(*                                                                         *)
(* Holders' own USDC wallets are not modelled: a payment a wallet cannot   *)
(* make reverts, that is, the step is not taken.  What a holder is PAID    *)
(* comes out of "collateral", which is modelled, and a payment the         *)
(* contract cannot make disables the action.  costBasis, which only the    *)
(* display views read, is left out.                                        *)
(*                                                                         *)
(* fillOrders and claim call into this contract from two others; their     *)
(* steps are in CreditProtocol.tla, which composes the contracts.          *)
(***************************************************************************)
EXTENDS FundingIndex, FiniteSetsExt

CONSTANTS
    Users,          \* the addresses that hold positions
    EpochLength,    \* seconds of carry the seizure trigger looks ahead
    MintAmounts,    \* USDC a holder may deposit in one call
    BurnAmounts,    \* tokens a holder may redeem or settle in one call
    DepositCaps,    \* caps the admin ever sets
    NoCap           \* type(uint256).max in the code: no supply exceeds it

ASSUME MarketConstants ==
    /\ IsFiniteSet(Users)
    /\ EpochLength \in Nat
    /\ NoCap \in Nat
    /\ MintAmounts \subseteq Nat
    /\ BurnAmounts \subseteq Nat
    /\ DepositCaps \subseteq Nat

VARIABLES
    yes, no,                \* YESToken and NOToken balances
    fundingSnapshot,        \* the YES index each holder is settled up to
    snapNO,                 \* the NO index each holder is settled up to
    fundingDebt,            \* carry recorded and not yet collected
    claimable,              \* seizure flag: a lock on the position
    collateral,             \* the contract's USDC balance
    depositCap,
    paused,
    motionPending,          \* a credit-event determination is in progress
    creditEventConfirmed

tokenVars == <<yes, no>>
snapshotVars == <<fundingSnapshot, snapNO>>
adminVars == <<depositCap, paused, motionPending, creditEventConfirmed>>
ledgerVars == <<tokenVars, snapshotVars, fundingDebt, claimable, collateral>>
marketVars == <<ledgerVars, adminVars>>

(* Everything of FundingIndex but the accrual, which every settlement does. *)
priceVars == <<now, markVars, boundVars>>

MarketInit ==
    /\ IndexInit
    /\ yes = [u \in Users |-> 0]
    /\ no = [u \in Users |-> 0]
    /\ fundingSnapshot = [u \in Users |-> 0]
    /\ snapNO = [u \in Users |-> 0]
    /\ fundingDebt = [u \in Users |-> 0]
    /\ claimable = [u \in Users |-> FALSE]
    /\ collateral = 0
    /\ depositCap = NoCap
    /\ paused = FALSE
    /\ motionPending = FALSE
    /\ creditEventConfirmed = FALSE

----------------------------------------------------------------------------
(* What a holder owes and is owed                                          *)

SumOver(f) == MapThenSumSet(LAMBDA u : f[u], Users)

YesSupply == SumOver(yes)

(* Mutant: a YES debit rounds down, like a NO credit. *)
YesDebitRoundedDown(bal, indexDelta) == (bal * indexDelta) \div WAD

(* _yesDebit: the carry of bal tokens over an index move, rounded up. *)
YesDebit(bal, indexDelta) ==
    IF bal * indexDelta = 0 THEN 0 ELSE (bal * indexDelta - 1) \div WAD + 1

(* Mutant: what a trade moved into the ledger is forgotten. *)
OwedSinceSnapshot(u) == YesDebit(yes[u], ProjectedCumYES - fundingSnapshot[u])

(* owed: recorded debt, plus live accrual up to this block. *)
Owed(u) ==
    fundingDebt[u] + YesDebit(yes[u], ProjectedCumYES - fundingSnapshot[u])

NoCredit(u) == (no[u] * (ProjectedCumNO - snapNO[u])) \div WAD

(* isSeizable: the position is worth at most 103% of what it owes one epoch *)
(* from now.                                                                *)
IsSeizable(u) ==
    LET value == (yes[u] * currentMark) \div WAD
        nextEpoch == (yes[u] * ((currentCarryRate * EpochLength) \div YEAR)) \div WAD
    IN  /\ yes[u] > 0
        /\ value * 100 <= (Owed(u) + nextEpoch) * 103

----------------------------------------------------------------------------
(* settleFunding nets what u owes against what u earned: the excess credit *)
(* is paid out at once, the excess debit becomes u's recorded debt.        *)

CreditPaid(u) == IF NoCredit(u) >= Owed(u) THEN NoCredit(u) - Owed(u) ELSE 0

(* Mutant: settling replaces the old debt by the new carry. *)
DebtSettledForgetsOld(u) ==
    LET yesOwed == YesDebit(yes[u], ProjectedCumYES - fundingSnapshot[u])
    IN  IF NoCredit(u) >= yesOwed THEN 0 ELSE yesOwed - NoCredit(u)

DebtSettled(u) == IF NoCredit(u) >= Owed(u) THEN 0 ELSE Owed(u) - NoCredit(u)

(* The debts after settling the holders in S. *)
DebtsSettled(S) ==
    [u \in Users |-> IF u \in S THEN DebtSettled(u) ELSE fundingDebt[u]]

(* What settling both a and b pays out.  Settling the same holder twice in *)
(* one block does nothing the second time.                                 *)
CreditsPaid(a, b) ==
    IF a = b THEN CreditPaid(a) ELSE CreditPaid(a) + CreditPaid(b)

(* The part of settling that no caller alters: the accrual, and fresh       *)
(* snapshots for the holders settled.                                       *)
SettleSnapshots(S) ==
    /\ Accrue
    /\ fundingSnapshot' =
         [u \in Users |-> IF u \in S THEN ProjectedCumYES ELSE fundingSnapshot[u]]
    /\ snapNO' = [u \in Users |-> IF u \in S THEN ProjectedCumNO ELSE snapNO[u]]

(* settleFunding is public: anyone settles anyone, paused or not, flagged   *)
(* or not.                                                                  *)
SettleFunding(u) ==
    /\ CreditPaid(u) <= collateral
    /\ SettleSnapshots({u})
    /\ fundingDebt' = DebtsSettled({u})
    /\ collateral' = collateral - CreditPaid(u)
    /\ UNCHANGED <<priceVars, tokenVars, claimable, adminVars>>

----------------------------------------------------------------------------
(* Calls of a holder                                                       *)

(* mint: amount of USDC in, amount of YES and of NO out.  The cap is on YES  *)
(* alone; the NO token's own supply overflows, and reverts, at NoCap.  The   *)
(* average cost basis divides by the new balance: an empty mint into an      *)
(* empty position reverts.                                                   *)
Mint(u, amount) ==
    /\ ~paused
    /\ ~claimable[u]
    /\ yes[u] + amount > 0
    /\ YesSupply + amount <= depositCap
    /\ SumOver(no) + amount <= NoCap
    /\ CreditPaid(u) <= collateral + amount
    /\ SettleSnapshots({u})
    /\ fundingDebt' = DebtsSettled({u})
    /\ collateral' = collateral + amount - CreditPaid(u)
    /\ yes' = [yes EXCEPT ![u] = @ + amount]
    /\ no' = [no EXCEPT ![u] = @ + amount]
    /\ UNCHANGED <<priceVars, claimable, adminVars>>

(* What redeem and settleYES share: settle, then pay amount less the debt   *)
(* the settlement left, which is thereby collected.  A debt above amount    *)
(* reverts.                                                                 *)
PayOut(u, amount) ==
    /\ DebtSettled(u) <= amount
    /\ CreditPaid(u) + amount - DebtSettled(u) <= collateral
    /\ SettleSnapshots({u})
    /\ fundingDebt' = [fundingDebt EXCEPT ![u] = 0]
    /\ collateral' = collateral - CreditPaid(u) - (amount - DebtSettled(u))

(* redeem: burn amount of both tokens for amount of USDC. *)
Redeem(u, amount) ==
    /\ ~paused
    /\ ~creditEventConfirmed
    /\ ~claimable[u]
    /\ amount <= yes[u] /\ amount <= no[u]
    /\ PayOut(u, amount)
    /\ yes' = [yes EXCEPT ![u] = @ - amount]
    /\ no' = [no EXCEPT ![u] = @ - amount]
    /\ UNCHANGED <<priceVars, claimable, adminVars>>

(* Mutant: the auto-cure of settleYES is missing. *)
SettleYESKeepsFlag(u, amount) ==
    /\ creditEventConfirmed
    /\ amount <= yes[u]
    /\ PayOut(u, amount)
    /\ yes' = [yes EXCEPT ![u] = @ - amount]
    /\ UNCHANGED <<priceVars, no, claimable, adminVars>>

(* Mutant: settleYES does not wait for the credit event. *)
SettleYESBeforeEvent(u, amount) ==
    /\ amount <= yes[u]
    /\ PayOut(u, amount)
    /\ yes' = [yes EXCEPT ![u] = @ - amount]
    /\ claimable' = [claimable EXCEPT ![u] = FALSE]
    /\ UNCHANGED <<priceVars, no, adminVars>>

(* settleYES: after the credit event YES alone redeems at par; it stays     *)
(* open to flagged holders, and lifts the flag.                             *)
SettleYES(u, amount) ==
    /\ creditEventConfirmed
    /\ amount <= yes[u]
    /\ PayOut(u, amount)
    /\ yes' = [yes EXCEPT ![u] = @ - amount]
    /\ claimable' = [claimable EXCEPT ![u] = FALSE]
    /\ UNCHANGED <<priceVars, no, adminVars>>

(* cure: a flagged holder pays all it owes in cash and keeps its YES. *)
Cure(u) ==
    /\ ~paused
    /\ claimable[u]
    /\ CreditPaid(u) <= collateral
    /\ SettleSnapshots({u})
    /\ fundingDebt' = [fundingDebt EXCEPT ![u] = 0]
    /\ collateral' = collateral - CreditPaid(u) + DebtSettled(u)
    /\ claimable' = [claimable EXCEPT ![u] = FALSE]
    /\ UNCHANGED <<priceVars, tokenVars, adminVars>>

----------------------------------------------------------------------------
(* Calls of the keeper, the oracle and the admin                           *)

FlagClaimable(u) ==
    /\ ~motionPending
    /\ ~claimable[u]
    /\ IsSeizable(u)
    /\ Accrue
    /\ claimable' = [claimable EXCEPT ![u] = TRUE]
    /\ UNCHANGED <<priceVars, tokenVars, snapshotVars, fundingDebt, collateral, adminVars>>

ConfirmCreditEvent ==
    /\ ~creditEventConfirmed
    /\ creditEventConfirmed' = TRUE
    /\ paused' = TRUE
    /\ UNCHANGED <<indexVars, ledgerVars, depositCap, motionPending>>

SetMotionPending ==
    /\ motionPending' \in BOOLEAN
    /\ UNCHANGED <<indexVars, ledgerVars, depositCap, paused, creditEventConfirmed>>

Pause ==
    /\ ~paused
    /\ paused' = TRUE
    /\ UNCHANGED <<indexVars, ledgerVars, depositCap, motionPending, creditEventConfirmed>>

Unpause ==
    /\ paused
    /\ paused' = FALSE
    /\ UNCHANGED <<indexVars, ledgerVars, depositCap, motionPending, creditEventConfirmed>>

SetDepositCap ==
    /\ depositCap' \in DepositCaps
    /\ UNCHANGED <<indexVars, ledgerVars, paused, motionPending, creditEventConfirmed>>

(* The calls of FundingIndex leave the ledger alone. *)
IndexStep ==
    /\ \/ \E m \in Marks : SetMark(m) \/ AdminSetMark(m)
       \/ \E b \in MarkBounds : SetMarkBounds(b)
       \/ AccrueFunding
       \/ \E d \in Steps : Tick(d)
    /\ UNCHANGED marketVars

UserStep ==
    \E u \in Users :
        \/ SettleFunding(u)
        \/ Cure(u)
        \/ FlagClaimable(u)
        \/ \E amount \in MintAmounts : Mint(u, amount)
        \/ \E amount \in BurnAmounts : Redeem(u, amount) \/ SettleYES(u, amount)

RoleStep ==
    \/ ConfirmCreditEvent
    \/ SetMotionPending
    \/ Pause
    \/ Unpause
    \/ SetDepositCap

MarketStep == IndexStep \/ UserStep \/ RoleStep

----------------------------------------------------------------------------
MarketTypeOK ==
    /\ IndexTypeOK
    /\ yes \in [Users -> Nat]
    /\ no \in [Users -> Nat]
    /\ fundingSnapshot \in [Users -> Nat]
    /\ snapNO \in [Users -> Nat]
    /\ fundingDebt \in [Users -> Nat]
    /\ claimable \in [Users -> BOOLEAN]
    /\ collateral \in Nat
    /\ depositCap \in Nat
    /\ paused \in BOOLEAN
    /\ motionPending \in BOOLEAN
    /\ creditEventConfirmed \in BOOLEAN

(* No holder is settled past the index: "index minus snapshot" never        *)
(* underflows, so no settlement reverts for that reason.  (settleFunding,   *)
(* clearLiquidatedPosition.)                                                *)
SnapshotsBehindIndex ==
    \A u \in Users :
        /\ fundingSnapshot[u] <= cumulativeFundingPerYES
        /\ snapNO[u] <= cumFundingPerNO
============================================================================
