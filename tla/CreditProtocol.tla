--------------------------- MODULE CreditProtocol ---------------------------
(***************************************************************************)
(* The contracts of one market composed: CreditMarket's ledger, the CLOB's *)
(* settlement of a fill against it (CLOBSettlement.sol,                    *)
(* _settleFundingAndSwap), the LiquidationEngine's claim                   *)
(* (LiquidationEngine.sol), and the InsuranceFund both of them reach.      *)
(* Each transaction is atomic: all of its calls happen, or it reverts.     *)
(*                                                                         *)
(* Orders, their remaining size and the price of a fill are the subject of *)
(* CLOBSettlement.tla; here a fill may move any number of tokens at any    *)
(* price, which is every fill two signed orders could produce.             *)
(***************************************************************************)
EXTENDS CreditMarket, InsuranceFund

CONSTANTS
    FillSizes,      \* tokens one fill may move
    FillPrices,     \* the buyer's gross USDC for a fill
    FeeSplits       \* the records [fee, toInsurance] of a fill's fee

ASSUME ProtocolConstants ==
    /\ FillSizes \subseteq Nat \ {0}
    /\ FillPrices \subseteq Nat \ {0}
    /\ FeeSplits \subseteq [fee : Nat, toInsurance : Nat]
    /\ \A f \in FeeSplits : f.toInsurance <= f.fee

vars == <<indexVars, marketVars, fundVars>>

Init == MarketInit /\ FundInit

----------------------------------------------------------------------------
(* A fill                                                                  *)

(* Mutant: only the seller's flag is looked at. *)
SellerNotFrozen(seller, buyer) == ~claimable[seller]

(* A flagged position is locked: no trade moves tokens in or out of it. *)
NotFrozen(seller, buyer) == ~claimable[seller] /\ ~claimable[buyer]

Moved(balance, from, to, tokens) ==
    IF from = to THEN balance
    ELSE [balance EXCEPT ![from] = @ - tokens, ![to] = @ + tokens]

(* Mutant: the debt share rounds up. *)
DebtShareRoundedUp(seller, tokens) ==
    IF tokens >= yes[seller] THEN DebtSettled(seller)
    ELSE (DebtSettled(seller) * tokens + yes[seller] - 1) \div yes[seller]

(* The part of the seller's settled debt a YES sale collects: in proportion *)
(* to the share of its YES it sells, and all of it with the last token.     *)
DebtShare(seller, tokens) ==
    IF tokens >= yes[seller] THEN DebtSettled(seller)
    ELSE (DebtSettled(seller) * tokens) \div yes[seller]

(* A YES sale: settle both parties on what they held, collect the seller's  *)
(* debt share out of the price, and move the tokens.  A price that cannot   *)
(* cover the debt share and the fee reverts.                                *)
SellYES(seller, buyer, tokens, price, f) ==
    /\ NotFrozen(seller, buyer)
    /\ tokens <= yes[seller]
    /\ CreditsPaid(seller, buyer) <= collateral
    /\ price >= DebtShare(seller, tokens) + f.fee
    /\ DebtShare(seller, tokens) <= DebtSettled(seller)     \* collectDebt
    /\ SettleSnapshots({seller, buyer})
    /\ fundingDebt' =
         [DebtsSettled({seller, buyer}) EXCEPT ![seller] = @ - DebtShare(seller, tokens)]
    /\ collateral' =
         collateral - CreditsPaid(seller, buyer) + DebtShare(seller, tokens)
    /\ yes' = Moved(yes, seller, buyer, tokens)
    /\ Receive(f.toInsurance)
    /\ UNCHANGED <<priceVars, no, claimable, adminVars>>

(* A NO sale collects no debt: either party's stays in its ledger entry. *)
SellNO(seller, buyer, tokens, price, f) ==
    /\ NotFrozen(seller, buyer)
    /\ tokens <= no[seller]
    /\ CreditsPaid(seller, buyer) <= collateral
    /\ price >= f.fee
    /\ SettleSnapshots({seller, buyer})
    /\ fundingDebt' = DebtsSettled({seller, buyer})
    /\ collateral' = collateral - CreditsPaid(seller, buyer)
    /\ no' = Moved(no, seller, buyer, tokens)
    /\ Receive(f.toInsurance)
    /\ UNCHANGED <<priceVars, yes, claimable, adminVars>>

----------------------------------------------------------------------------
(* A claim                                                                 *)

TokenValue(u) == (yes[u] * currentMark) \div WAD

(* What the reserve adds when the position is worth less than it owes. *)
Shortfall(u) == IF Owed(u) > TokenValue(u) THEN Owed(u) - TokenValue(u) ELSE 0

(* Mutant: the claim also moves the holder's NO snapshot. *)
ClaimForfeitsCredit(u, liquidator) ==
    /\ claimable[u]
    /\ ~motionPending
    /\ ~claimable[liquidator]
    /\ CreditPaid(liquidator) <= collateral
    /\ SettleSnapshots({u, liquidator})
    /\ fundingDebt' = [DebtsSettled({liquidator}) EXCEPT ![u] = 0]
    /\ collateral' = collateral - CreditPaid(liquidator) + Owed(u)
    /\ CoverShortfall(Shortfall(u))
    /\ claimable' = [claimable EXCEPT ![u] = FALSE]
    /\ yes' = Moved(yes, u, liquidator, yes[u])
    /\ UNCHANGED <<priceVars, no, adminVars>>

(* claim: price the position from what it owes in this block, settle the    *)
(* liquidator's own position, collect min(owed, value) from it and the rest *)
(* from the reserve, and hand it all of the holder's YES.  The holder's NO  *)
(* side, its snapshot included, is not touched.                             *)
Claim(u, liquidator) ==
    /\ claimable[u]
    /\ ~motionPending
    /\ ~claimable[liquidator]
    /\ CreditPaid(liquidator) <= collateral
    /\ Accrue
    /\ fundingSnapshot' =
         [fundingSnapshot EXCEPT ![u] = ProjectedCumYES, ![liquidator] = ProjectedCumYES]
    /\ snapNO' = [snapNO EXCEPT ![liquidator] = ProjectedCumNO]
    /\ fundingDebt' = [DebtsSettled({liquidator}) EXCEPT ![u] = 0]
    /\ collateral' = collateral - CreditPaid(liquidator) + Owed(u)
    /\ CoverShortfall(Shortfall(u))
    /\ claimable' = [claimable EXCEPT ![u] = FALSE]
    /\ yes' = Moved(yes, u, liquidator, yes[u])
    /\ UNCHANGED <<priceVars, no, adminVars>>

----------------------------------------------------------------------------
TradeStep ==
    \E seller, buyer \in Users, tokens \in FillSizes,
       price \in FillPrices, f \in FeeSplits :
        \/ SellYES(seller, buyer, tokens, price, f)
        \/ SellNO(seller, buyer, tokens, price, f)

ClaimStep == \E u, liquidator \in Users : Claim(u, liquidator)

FundStep ==
    /\ \/ \E amount \in DepositAmounts : Deposit(amount)
       \/ \E amount \in WithdrawAmounts : InitiateWithdrawal(amount)
       \/ \E id \in DOMAIN pendingWithdrawals : ExecuteWithdrawal(id)
    /\ UNCHANGED <<indexVars, marketVars>>

Next ==
    \/ MarketStep /\ UNCHANGED fundVars
    \/ TradeStep
    \/ ClaimStep
    \/ FundStep

Spec == Init /\ [][Next]_vars

----------------------------------------------------------------------------
TypeOK == MarketTypeOK /\ FundTypeOK

(* Scaled by WAD so that nothing is rounded: the USDC held, plus what YES   *)
(* holders owe, less what NO holders have earned, less par for every YES.   *)
Accrued(u) ==
    fundingDebt[u] * WAD
        + yes[u] * (cumulativeFundingPerYES - fundingSnapshot[u])
        - no[u] * (cumFundingPerNO - snapNO[u])

Surplus ==
    collateral * WAD + SumOver([u \in Users |-> Accrued(u)]) - YesSupply * WAD

(* Until the credit event every set in circulation is backed at par: what   *)
(* the contract holds and what it is owed cover every YES and every earned  *)
(* NO credit, to the last unit, whatever settled in whatever order.         *)
(* (settleFunding and each of its callers; _yesDebit rounds up.)            *)
Solvent == ~creditEventConfirmed => Surplus >= 0

(* Before the credit event YES and NO exist only in pairs: a claim, a fill  *)
(* and a cure move tokens and never create or burn one side.                *)
CompleteSets == ~creditEventConfirmed => YesSupply = SumOver(no)

(* No transaction forgives, loses or double-charges carry: a step changes   *)
(* the scaled surplus by what the index move charges the YES in circulation *)
(* less what it credits the NO, and otherwise by nothing but rounding in    *)
(* the contract's favour, less than one unit for each side of the two       *)
(* positions a transaction can settle.  (redeem, settleYES, cure,           *)
(* collectDebt, claim, fillOrders.)                                         *)
CarryIsConserved ==
    [][LET moved == cumulativeFundingPerYES' - cumulativeFundingPerYES
       IN  (Surplus' - Surplus) - moved * (YesSupply - SumOver(no))
              \in 0 .. 4 * (WAD - 1)]_vars

(* A flag is on a position that has something to seize; it never outlives   *)
(* the YES it was raised for.  (flagClaimable, clearLiquidatedPosition,     *)
(* settleYES, cure.)                                                        *)
FlaggedHoldsYES == \A u \in Users : claimable[u] => yes[u] > 0

(* A flagged position is locked.  Its NO never moves; its YES leaves only   *)
(* with the flag, and then either whole, to a liquidator, while no motion   *)
(* is pending, or by its own holder after the credit event.                 *)
FlagLocks ==
    [][\A u \in Users : claimable[u] =>
         /\ no'[u] = no[u]
         /\ yes'[u] # yes[u] =>
              /\ ~claimable'[u]
              /\ creditEventConfirmed \/ (~motionPending /\ yes'[u] = 0)]_vars

(* A trade cannot reset the seizure clock: what a holder of YES alone owes  *)
(* never falls when it buys, mints or is settled, however its snapshot      *)
(* moves; only a cure, a claim or a sale (to itself, with its YES unchanged *)
(* and the collateral higher) lowers it.  (settleFunding folds the accrual  *)
(* into the debt.)                                                          *)
OwedIsNotReset ==
    [][\A u \in Users :
         (/\ no[u] = 0
          /\ claimable'[u] = claimable[u]
          /\ \/ yes'[u] > yes[u]
             \/ yes'[u] = yes[u] /\ collateral' <= collateral)
            => Owed(u)' >= Owed(u)]_vars

(* A partial sale of YES leaves at least as much debt on each YES kept as   *)
(* there was on each YES before: it cannot buy the seller time before the   *)
(* seizure trigger.  (_settleFundingAndSwap, debtShare.)                    *)
SaleKeepsDebtPerYES ==
    [][\A u \in Users :
         (/\ yes'[u] < yes[u]
          /\ ~claimable[u]
          /\ YesSupply' = YesSupply)
            => fundingDebt'[u] * yes[u] >= DebtSettled(u) * yes'[u]]_vars

(* Being liquidated costs a holder its YES and no more: its NO credit goes  *)
(* on accruing from where it stood, and it leaves with no debt.  (claim,    *)
(* clearLiquidatedPosition.)                                                *)
ClaimTouchesYESOnly ==
    [][\A u \in Users :
         (claimable[u] /\ ~claimable'[u] /\ yes'[u] < yes[u] /\ ~creditEventConfirmed)
            => /\ snapNO'[u] = snapNO[u]
               /\ Owed(u)' = 0]_vars

(* Every unit that leaves the reserve is accounted for: by one queued       *)
(* withdrawal that becomes executed, once its timelock is over, or by a     *)
(* claim of a position worth that much less than it owes.                   *)
(* (executeWithdrawal, coverShortfall.)                                     *)
ReserveIsSpentOnce ==
    [][reserve' < reserve =>
         \/ \E id \in DOMAIN pendingWithdrawals :
               LET w == pendingWithdrawals[id]
               IN  /\ ~w.executed
                   /\ w.initiatedAt + TIMELOCK <= now
                   /\ reserve - reserve' = w.amount
                   /\ pendingWithdrawals' =
                        [pendingWithdrawals EXCEPT ![id] = [w EXCEPT !.executed = TRUE]]
         \/ \E u \in Users :
               /\ claimable[u] /\ ~claimable'[u]
               /\ reserve - reserve' = Owed(u) - TokenValue(u)
               /\ UNCHANGED pendingWithdrawals]_vars

----------------------------------------------------------------------------
(* What the repository says of the program, and the code does not do       *)

(* README.md:23: on a confirmed credit event YES redeems at par and NO at   *)
(* nothing.  So the contract holds, with what YES holders still owe it, par *)
(* for every YES not yet settled.                                           *)
YESRedeemsAtPar ==
    creditEventConfirmed =>
        collateral * WAD
          + SumOver([u \in Users |->
                       fundingDebt[u] * WAD
                         + yes[u] * (cumulativeFundingPerYES - fundingSnapshot[u])])
          >= YesSupply * WAD
============================================================================
