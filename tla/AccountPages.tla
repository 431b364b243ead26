---------------------------- MODULE AccountPages ----------------------------
(***************************************************************************)
(* The pages on which an account acts on one market by a press of a        *)
(* button: the portfolio (app/portfolio/page.tsx, PositionCard.tsx), the   *)
(* list of claimable positions (app/liquidate/page.tsx,                    *)
(* LiquidationCard.tsx) and the admin's (app/admin/page.tsx).              *)
(*                                                                         *)
(* A press acts on what the page read last.  One account that has every    *)
(* role, in one browser, on one of the pages, which share no button.  The  *)
(* sale of the portfolio (TradePanel.tsx) mints what the account lacks and *)
(* has the market approved for it, as a cure does: what a mint has left    *)
(* approved, here or on a trade page, a cure finds.  OrderPanel has what   *)
(* follows a mint.  The list shows the position of one other holder.        *)
(***************************************************************************)
EXTENDS Integers

CONSTANTS
    Pages,          \* of "portfolio", "liquidate", "admin"
    Holdings,       \* tokens of a side the account may hold
    MaxDue,         \* bounds the carry it owes
    Prices,         \* of the other position
    Mints,          \* USDC that a sale has minted
    MaxPresses,
    MaxTurns,       \* bounds what happens to the market by itself
    MaxLosses       \* bounds the answers lost

ASSUME PagesAssumption ==
    /\ Pages \subseteq {"portfolio", "liquidate", "admin"}
    /\ Holdings \subseteq Nat /\ Prices \subseteq Nat /\ Mints \subseteq Nat \ {0}
    /\ {MaxDue, MaxPresses, MaxTurns, MaxLosses} \subseteq Nat

VARIABLES
    account,        \* YES, NO, carry owed, NO credit, claimable
    market,         \* paused, creditEventConfirmed
    other,          \* claimable, claim price, motionPending
    approved,       \* USDC approved, by spender
    opened,         \* the page
    portfolio,      \* what the portfolio read last
    listed,         \* what the list read last
    admin,          \* what the admin's page read last
    button,         \* TxStatus by button
    job,            \* by button: where its handler is
    quoted,         \* by button: the most USDC it has shown, or was to mint
    taken,          \* by button: the most a transaction has taken
    presses, turns, losses

ledgerVars == <<account, market, other, approved>>
readVars == <<portfolio, listed, admin>>
countVars == <<presses, turns, losses>>
pagesVars == <<ledgerVars, opened, readVars, button, job, quoted, taken, countVars>>

PageOf ==
    [cure |-> "portfolio", redeem |-> "portfolio", settle |-> "portfolio", mint |-> "portfolio",
     claim |-> "liquidate", pause |-> "admin", accrue |-> "admin", confirm |-> "admin"]

(* Those of the page; the page stays the same. *)
Buttons == {b \in DOMAIN PageOf : PageOf[b] = opened}

NoJob == [at |-> "none", arg |-> 0, seen |-> 0, left |-> FALSE]

(* A mint of a trade page may have come no further than its approval. *)
PagesInit ==
    /\ account \in [yes : Holdings, no : Holdings, due : {0, 1}, credit : {0}, locked : BOOLEAN]
    /\ account.due > 0 \/ account.locked => account.yes > 0
    /\ market = [paused |-> FALSE, event |-> FALSE]
    /\ other \in [flagged : {TRUE}, price : Prices, motion : {FALSE}]
    /\ \E left \in Mints \union {0} :
          /\ approved = [market |-> left, engine |-> 0]
          /\ quoted = [cure |-> 0, claim |-> 0, mint |-> left]
    /\ taken = [cure |-> 0, claim |-> 0]
    /\ opened \in Pages
    /\ portfolio = [account |-> account, event |-> FALSE]
    /\ listed = other
    /\ admin = market
    /\ button = [b \in Buttons |-> "idle"]
    /\ job = [b \in Buttons |-> NoJob]
    /\ presses = 0 /\ turns = 0 /\ losses = 0

Most(m, n) == IF m > n THEN m ELSE n
Least(m, n) == IF m < n THEN m ELSE n

----------------------------------------------------------------------------
(* The presses.                                                             *)

(* A handler starts: its button is pending until it ends.  A button whose   *)
(* handler was left behind by an earlier page is not pressed meanwhile.     *)
Press(b, at, arg) ==
    /\ b \in Buttons
    /\ button[b] # "pending" /\ job[b] = NoJob
    /\ presses < MaxPresses /\ presses' = presses + 1
    /\ button' = [button EXCEPT ![b] = "pending"]
    /\ job' = [job EXCEPT ![b] = [NoJob EXCEPT !.at = at, !.arg = arg]]
    /\ UNCHANGED <<ledgerVars, opened, readVars, taken, turns, losses>>

Quotes(b, cost) == quoted' = [quoted EXCEPT ![b] = Most(@, cost)]

(* The carry read, less the NO credit, which the page projects to the last  *)
(* time it was drawn.                                                       *)
CureCosts ==
    {Most(0, portfolio.account.due - credit) :
        credit \in {portfolio.account.credit, Most(portfolio.account.credit, account.credit)}}

(* Mutant: an approval for good. *)
ApprovalForGood(cost) == cost + MaxDue + 2

(* paddedApproval *)
PaddedApproval(cost) == cost + (cost * 5) \div 1000 + 1

(* The card of the YES side is on the page while there is YES. *)
CardShown(a) == a.yes > 0

(* The button is there for a locked position, and done with once pressed    *)
(* with success, for as long as the card is on the page.                    *)
CureOffered == "cure" \in Buttons /\ button["cure"] \notin {"pending", "success"}

PressCure ==
    /\ CardShown(portfolio.account) /\ portfolio.account.locked
    /\ CureOffered
    /\ \E cost \in CureCosts :
          /\ Press("cure", IF cost > 0 THEN "approve" ELSE "send", PaddedApproval(cost))
          /\ Quotes("cure", cost)

Redeemable == Least(portfolio.account.yes, portfolio.account.no)

RedeemOffered == Redeemable > 0 /\ ~portfolio.account.locked

PressRedeem ==
    /\ RedeemOffered
    /\ Press("redeem", "send", Redeemable)
    /\ UNCHANGED quoted

SettleOffered == CardShown(portfolio.account) /\ portfolio.event

PressSettle ==
    /\ SettleOffered
    /\ Press("settle", "send", portfolio.account.yes)
    /\ UNCHANGED quoted

(* A side held is for sale: the panel of the sale reads the lock itself,    *)
(* and takes the position for free until an answer says otherwise.          *)
SellOffered == portfolio.account.yes > 0 \/ portfolio.account.no > 0

PressMint ==
    /\ SellOffered
    /\ \E usdc \in Mints : Press("mint", "allowance", usdc) /\ Quotes("mint", usdc)

(* needed of handleClaim *)
PaddedPrice(price) == price + price \div 100 + 1

RowShown(position) == position.flagged

(* motionPending is the frozen of the list. *)
ClaimOffered ==
    /\ RowShown(listed) /\ ~listed.motion
    /\ "claim" \in Buttons /\ button["claim"] # "success"

PressClaim ==
    /\ ClaimOffered
    /\ Press("claim", "allowance", PaddedPrice(listed.price))
    /\ Quotes("claim", listed.price)

(* The one button does what the page does not show: 1 is to unpause. *)
PauseButton == IF admin.paused THEN 1 ELSE 0

PressPause ==
    /\ Press("pause", "send", PauseButton)
    /\ UNCHANGED quoted

PressAccrue == Press("accrue", "send", 0) /\ UNCHANGED quoted

ConfirmOffered == ~admin.event

PressConfirm ==
    /\ ConfirmOffered
    /\ Press("confirm", "send", 0)
    /\ UNCHANGED quoted

----------------------------------------------------------------------------
(* The handlers, from await to await.                                       *)

SpenderOf(b) == IF b = "claim" THEN "engine" ELSE "market"

(* A mint is approved on top of the allowance it finds too small. *)
ChecksAllowance(b) ==
    /\ job[b].at = "allowance"
    /\ LET found == approved[SpenderOf(b)] IN
       job' = [job EXCEPT ![b].at = IF found < job[b].arg THEN "approve" ELSE "send",
                          ![b].seen = IF b = "mint" THEN found ELSE 0]
    /\ UNCHANGED <<ledgerVars, opened, readVars, button, quoted, taken, countVars>>

ApprovalMined(b) ==
    /\ job[b].at = "approve"
    /\ approved' = [approved EXCEPT ![SpenderOf(b)] = job[b].seen + job[b].arg]
    /\ job' = [job EXCEPT ![b].at = "send"]
    /\ UNCHANGED <<account, market, other, opened, readVars, button, quoted, taken, countVars>>

(* What the contracts take of the account when a cure or a claim is mined.  *)
Debit == Most(0, account.due - account.credit)

Transfers(spender, amount) ==
    /\ approved[spender] >= amount
    /\ approved' = [approved EXCEPT ![spender] = @ - amount]

Takes(b, amount) ==
    /\ Transfers(SpenderOf(b), amount)
    /\ taken' = [taken EXCEPT ![b] = Most(@, amount)]

Settled == [account EXCEPT !.due = 0, !.credit = 0]

CureLands ==
    /\ account.locked /\ ~market.paused
    /\ Takes("cure", Debit)
    /\ account' = [Settled EXCEPT !.locked = FALSE]
    /\ UNCHANGED <<market, other>>

RedeemLands(n) ==
    /\ ~market.event /\ ~market.paused /\ ~account.locked
    /\ n <= account.yes /\ n <= account.no /\ Debit <= n
    /\ account' = [Settled EXCEPT !.yes = @ - n, !.no = @ - n]
    /\ UNCHANGED <<market, other, approved, taken>>

SettleLands(n) ==
    /\ market.event
    /\ n <= account.yes /\ Debit <= n
    /\ account' = [Settled EXCEPT !.yes = @ - n, !.locked = FALSE]
    /\ UNCHANGED <<market, other, approved, taken>>

MintLands(usdc) ==
    /\ ~market.paused /\ ~account.locked
    /\ Transfers("market", usdc)
    /\ account' = [account EXCEPT !.yes = @ + usdc, !.no = @ + usdc, !.due = Debit, !.credit = 0]
    /\ UNCHANGED <<market, other, taken>>

ClaimLands ==
    /\ other.flagged /\ ~other.motion /\ ~account.locked
    /\ Takes("claim", other.price)
    /\ account' = [account EXCEPT !.yes = @ + 1, !.due = Debit, !.credit = 0]
    /\ other' = [other EXCEPT !.flagged = FALSE]
    /\ UNCHANGED market

MarketBecomes(paused, event) ==
    /\ market' = [paused |-> paused, event |-> event]
    /\ UNCHANGED <<account, other, approved, taken>>

Lands(b) ==
    \/ b = "cure" /\ CureLands
    \/ b = "redeem" /\ RedeemLands(job[b].arg)
    \/ b = "settle" /\ SettleLands(job[b].arg)
    \/ b = "mint" /\ MintLands(job[b].arg)
    \/ b = "claim" /\ ClaimLands
    \/ b = "pause" /\ market.paused = (job[b].arg = 1) /\ MarketBecomes(~market.paused, market.event)
    \/ b = "accrue" /\ MarketBecomes(market.paused, market.event)
    \/ b = "confirm" /\ ~market.event /\ MarketBecomes(TRUE, TRUE)

Returns(b, status) ==
    /\ job' = [job EXCEPT ![b] = NoJob]
    /\ button' = [button EXCEPT ![b] = IF job[b].left THEN @ ELSE status]
    /\ UNCHANGED <<opened, readVars, quoted, presses, turns>>

Mined(b) ==
    /\ job[b].at = "send"
    /\ Lands(b)
    /\ Returns(b, "success")
    /\ UNCHANGED losses

(* The wallet or the contract refuses, or a read fails. *)
Fails(b) ==
    /\ job[b] # NoJob
    /\ Returns(b, "error")
    /\ UNCHANGED <<ledgerVars, taken, losses>>

(* It is mined, and its receipt does not come. *)
ReceiptLost(b) ==
    /\ job[b].at = "send"
    /\ losses < MaxLosses /\ losses' = losses + 1
    /\ Lands(b)
    /\ Returns(b, "error")

----------------------------------------------------------------------------
(* What the pages read.  A card that is no longer shown takes the status of *)
(* its button with it.                                                      *)

Leave(buttons) ==
    /\ button' = [b \in Buttons |-> IF b \in buttons THEN "idle" ELSE button[b]]
    /\ job' = [b \in Buttons |-> [job[b] EXCEPT !.left = @ \/ (b \in buttons /\ job[b] # NoJob)]]

ShowsPortfolio ==
    /\ opened = "portfolio"
    /\ portfolio' = [account |-> account, event |-> market.event]
    /\ UNCHANGED <<listed, admin>>

ShowsList ==
    /\ opened = "liquidate"
    /\ listed' = other
    /\ UNCHANGED <<portfolio, admin>>

ShowsAdmin ==
    /\ opened = "admin"
    /\ admin' = market
    /\ UNCHANGED <<portfolio, listed>>

stayVars == <<ledgerVars, opened, quoted, taken, countVars>>

Polls ==
    /\ \/ ShowsPortfolio /\ Leave(IF CardShown(account) THEN {} ELSE {"cure"})
       \/ ShowsList /\ Leave(IF RowShown(other) THEN {} ELSE {"claim"})
       \/ ShowsAdmin /\ Leave({})
    /\ UNCHANGED stayVars

(* The page is left and opened again, read afresh; its handlers go on. *)
OpensAgain ==
    /\ ShowsPortfolio \/ ShowsList \/ ShowsAdmin
    /\ Leave(Buttons)
    /\ UNCHANGED stayVars

----------------------------------------------------------------------------
(* The market by itself.                                                    *)

(* Carry accrues, on the other position too. *)
Accrues ==
    /\ account' = [account EXCEPT !.due = IF account.yes > 0 THEN Least(@ + 1, MaxDue) ELSE @,
                                  !.credit = IF account.no > 0 THEN Least(@ + 1, MaxDue) ELSE @]
    /\ other' \in {[other EXCEPT !.price = p] : p \in {p \in Prices : p >= other.price}}
    /\ UNCHANGED <<market, approved>>

GetsLocked ==
    /\ account.yes > 0 /\ ~account.locked
    /\ account' = [account EXCEPT !.locked = TRUE]
    /\ UNCHANGED <<market, other, approved>>

IsClaimed ==
    /\ account.locked
    /\ account' = [account EXCEPT !.yes = 0, !.due = 0, !.locked = FALSE]
    /\ UNCHANGED <<market, other, approved>>

(* A trade settles; to sell all YES is to pay all that is due. *)
Trades ==
    /\ ~account.locked
    /\ account' \in {[yes |-> y, no |-> n, due |-> IF y = 0 THEN 0 ELSE Debit,
                      credit |-> 0, locked |-> FALSE] : y \in Holdings, n \in Holdings}
    /\ UNCHANGED <<market, other, approved>>

OtherMoves ==
    /\ other' \in [flagged : BOOLEAN, price : Prices, motion : BOOLEAN]
    /\ UNCHANGED <<account, market, approved>>

OthersDecide ==
    /\ \/ market' = [market EXCEPT !.paused = ~@]
       \/ ~market.event /\ market' = [paused |-> TRUE, event |-> TRUE]
    /\ UNCHANGED <<account, other, approved>>

(* What the page neither shows nor acts on may as well stand still. *)
Turn ==
    /\ turns < MaxTurns /\ turns' = turns + 1
    /\ \/ opened # "admin" /\ (Accrues \/ GetsLocked \/ IsClaimed)
       \/ opened = "portfolio" /\ Trades
       \/ opened = "liquidate" /\ OtherMoves
       \/ opened # "liquidate" /\ OthersDecide
    /\ UNCHANGED <<opened, readVars, button, job, quoted, taken, presses, losses>>

PagesNext ==
    \/ PressCure \/ PressRedeem \/ PressSettle \/ PressMint \/ PressClaim
    \/ PressPause \/ PressAccrue \/ PressConfirm
    \/ \E b \in Buttons :
          ChecksAllowance(b) \/ ApprovalMined(b) \/ Mined(b) \/ Fails(b) \/ ReceiptLost(b)
    \/ Polls \/ OpensAgain
    \/ Turn
=============================================================================
