----------------------------- MODULE OrderPanel -----------------------------
(***************************************************************************)
(* A maker's page for one market: the panel that signs and posts orders    *)
(* and the list that cancels them (frontend/components/TradePanel.tsx,     *)
(* OpenOrders.tsx, lib/useFeeBps.ts, lib/feeMath.ts), next to the chain,   *)
(* the order book and the engine that fills what the chain lets it.        *)
(*                                                                         *)
(* One wallet in one browser, whose clock does not go back.  An order has  *)
(* one amount at one price and is filled whole.  What else closes the      *)
(* panel (a frozen position, a closed market, a carry shortfall) is a      *)
(* click not made.                                                         *)
(***************************************************************************)
EXTENDS Integers, Sequences, FiniteSets, Functions

CONSTANTS
    MaxClicks,          \* bounds the clicks on the panel's button
    Kinds,              \* of orders: sides the maker buys or sells
    Usdc, LimitPrice,   \* the amount and the price in the form
    One,                \* 1_000_000 in the code
    Basis,              \* 10_000 in the code
    FeeRates,           \* of the chain
    FallbackRate,       \* the page's own
    StartBalances,      \* tokens of each side the maker may have at first
    SyncAttempts,       \* 5 in the code
    MaxMs,              \* bounds the clock
    MaxRateChanges,
    MaxCancels,
    MaxPageFaults       \* bounds lost answers, late nodes and failed reads

ASSUME PanelAssumption ==
    /\ Kinds \subseteq {"buyYES", "buyNO", "sellYES", "sellNO"}
    /\ {Usdc, LimitPrice, One, Basis, SyncAttempts, MaxClicks, MaxMs, MaxRateChanges, MaxCancels, MaxPageFaults} \subseteq Nat
    /\ 0 < LimitPrice /\ LimitPrice < One

VARIABLES
    ms,             \* Date.now()
    feeRates,       \* the rates CLOBSettlement has had, the last in force
    allowance,      \* USDC approved, by spender
    balance,        \* tokens, by side
    floor,          \* minNonce of the maker
    dead,           \* orders cancelled one by one, or filled
    page,           \* what the page has read: the fee rate and the balances
    busy,           \* the panel's button is off: of its status, what matters
    clicks,         \* by click: where handleSubmit is
    signed,         \* orders signed
    resting,        \* those in the order book
    placed,         \* those that have ever been
    cancel,         \* the cancel under way
    cancels,
    retired,        \* orders that a confirmed cancel was to retire
    pageFaults

chain == <<feeRates, allowance, balance, floor, dead>>
panel == <<busy, clicks, signed>>
theBook == <<resting, placed>>
list == <<cancel, cancels, retired>>
panelVars == <<ms, chain, page, panel, theBook, list, pageFaults>>

Clicks == 1 .. MaxClicks

NoRate == 0 - 1     \* not loaded yet

PageFault == pageFaults < MaxPageFaults /\ pageFaults' = pageFaults + 1

Buys(kind) == kind \in {"buyYES", "buyNO"}
SideOf(kind) == IF kind \in {"buyYES", "sellYES"} THEN "YES" ELSE "NO"

FeeRate == feeRates[Len(feeRates)]

----------------------------------------------------------------------------
(* Amounts.                                                                 *)

TokenPrice(side) == IF side = "YES" THEN LimitPrice ELSE One - LimitPrice

(* computeTokenAmountWei *)
TokenAmount(side) == (Usdc * One) \div TokenPrice(side)

RoundUp(a, b) == (a + b - 1) \div b

(* minGrossForNet of feeMath.ts. *)
GrossForNet(required, amount, rate) ==
    LET low == RoundUp(required * Basis, Basis - rate)
    IN  IF rate = 0 THEN required
        ELSE IF low * 2 <= amount THEN low
        ELSE RoundUp(required * Basis + rate * amount, Basis + rate)

(* useFeeBps: the chain's rate, or the fallback while there is none. *)
RateShown == IF page.rate = NoRate THEN FallbackRate ELSE page.rate

(* amountIn of the order; only a NO buy carries its fee in it. *)
AmountIn(kind, rate) ==
    CASE kind = "buyNO" -> GrossForNet(Usdc, TokenAmount("NO"), rate)
      [] kind = "buyYES" -> Usdc
      [] OTHER -> TokenAmount(SideOf(kind))

(* What a mint before a sale is asked for. *)
MintUsdc(kind, held) ==
    ((TokenAmount(SideOf(kind)) - held) * TokenPrice(SideOf(kind))) \div One + 1

----------------------------------------------------------------------------
(* The panel.  The clicks are numbered as they are made.                    *)

Idle == [at |-> "none", kind |-> "buyYES", rate |-> 0, needed |-> 0, seen |-> 0, nonce |-> 0]

(* Mutant: the panel signs at the rate it shows. *)
RateGateOpen(kind) == TRUE

(* feeRateUnknownForNoBuy *)
RateGate(kind) == kind = "buyNO" => page.rate # NoRate

(* The button of the panel. *)
Offered(kind) == ~busy /\ RateGate(kind)

(* handleSubmit up to its first await: the rate and the balance are those   *)
(* of the page now.                                                         *)
Submits(c, kind) ==
    /\ c = Cardinality({d \in Clicks : clicks[d].at # "none"}) + 1
    /\ Offered(kind)
    /\ LET held == page.balance[SideOf(kind)]
           mints == ~Buys(kind) /\ held < TokenAmount(SideOf(kind))
           click == [Idle EXCEPT !.kind = kind, !.rate = RateShown]
       IN  /\ busy' = mints
           /\ clicks' = [clicks EXCEPT ![c] =
                CASE mints -> [click EXCEPT !.at = "mint allowance", !.needed = MintUsdc(kind, held)]
                  [] Buys(kind) -> [click EXCEPT !.at = "allowance", !.needed = AmountIn(kind, RateShown)]
                  [] OTHER -> [click EXCEPT !.at = "block"]]
    /\ UNCHANGED <<ms, chain, page, signed, theBook, list, pageFaults>>

Spender(c) == IF Buys(clicks[c].kind) THEN "clob" ELSE "market"

AfterAllowance(c) == IF Buys(clicks[c].kind) THEN "block" ELSE "mint"

(* ensureAllowance: what is there is read, and enough for this order is     *)
(* enough.                                                                  *)
ReadsAllowance(c) ==
    /\ clicks[c].at \in {"allowance", "mint allowance"}
    /\ LET current == allowance[Spender(c)]
           enough == current >= clicks[c].needed
       IN  /\ busy' = (busy \/ ~enough)
           /\ clicks' = [clicks EXCEPT
                 ![c].at = IF enough THEN AfterAllowance(c) ELSE "approve",
                 ![c].seen = IF enough THEN 0 ELSE current]
    /\ UNCHANGED <<ms, chain, page, signed, theBook, list, pageFaults>>

(* The approval is mined: what was read and what is needed, whatever has    *)
(* been spent meanwhile.                                                    *)
Approved(c) ==
    /\ clicks[c].at = "approve"
    /\ allowance' = [allowance EXCEPT ![Spender(c)] = clicks[c].seen + clicks[c].needed]
    /\ clicks' = [clicks EXCEPT ![c].at = AfterAllowance(c), ![c].seen = 0]
    /\ UNCHANGED <<ms, feeRates, balance, floor, dead, page, busy, signed, theBook, list, pageFaults>>

Minted(c) ==
    /\ clicks[c].at = "mint"
    /\ allowance["market"] >= clicks[c].needed
    /\ allowance' = [allowance EXCEPT !["market"] = @ - clicks[c].needed]
    /\ balance' = [side \in DOMAIN balance |-> balance[side] + clicks[c].needed]
    /\ clicks' = [clicks EXCEPT ![c].at = "block"]
    /\ UNCHANGED <<ms, feeRates, floor, dead, page, busy, signed, theBook, list, pageFaults>>

(* The expiry is an hour away whether or not the block is read; the nonce   *)
(* is the time of now.                                                      *)
TakesNonce(c) ==
    /\ clicks[c].at = "block"
    /\ clicks' = [clicks EXCEPT ![c].at = "sign", ![c].nonce = ms, ![c].needed = 0]
    /\ busy' = TRUE
    /\ UNCHANGED <<ms, chain, page, signed, theBook, list, pageFaults>>

OrderOf(c) ==
    [click |-> c, kind |-> clicks[c].kind, nonce |-> clicks[c].nonce, rate |-> clicks[c].rate,
     amountIn |-> AmountIn(clicks[c].kind, clicks[c].rate)]

(* The wallet takes a millisecond at least. *)
Signs(c) ==
    /\ clicks[c].at = "sign"
    /\ ms > clicks[c].nonce
    /\ signed' = signed \union {OrderOf(c)}
    /\ clicks' = [clicks EXCEPT ![c].at = "post"]
    /\ busy' = TRUE
    /\ UNCHANGED <<ms, chain, page, theBook, list, pageFaults>>

Over(c) ==
    /\ clicks' = [clicks EXCEPT ![c] = [Idle EXCEPT !.at = "over"]]
    /\ busy' = FALSE
    /\ UNCHANGED <<ms, chain, page, signed, list>>

Places(c) ==
    /\ resting' = resting \union {OrderOf(c)}
    /\ placed' = placed \union {OrderOf(c)}

Posted(c) ==
    /\ clicks[c].at = "post"
    /\ Places(c)
    /\ Over(c)
    /\ UNCHANGED pageFaults

(* The wallet or the contract refuses, or the server does. *)
SubmitRefused(c) ==
    /\ clicks[c].at \in {"approve", "mint", "sign", "post"}
    /\ Over(c)
    /\ UNCHANGED <<theBook, pageFaults>>

(* A read fails, or the answer of the server is lost, whatever it has done. *)
SubmitFails(c) ==
    /\ clicks[c].at \in {"allowance", "mint allowance", "approve", "mint", "post"}
    /\ PageFault
    /\ IF clicks[c].at = "post" THEN Places(c) ELSE UNCHANGED theBook
    /\ Over(c)

SubmitStep(c) ==
    \/ \E kind \in Kinds : Submits(c, kind)
    \/ ReadsAllowance(c) \/ Approved(c) \/ Minted(c)
    \/ TakesNonce(c) \/ Signs(c) \/ Posted(c)
    \/ SubmitRefused(c) \/ SubmitFails(c)

----------------------------------------------------------------------------
(* The list of open orders.                                                 *)

NoCancel == [at |-> "none", orders |-> {}, floor |-> 0, signed |-> {}, attempt |-> 0]

(* The buttons of the list, off while a cancel is under way. *)
CancelOffered == cancel.at = "none"

(* run, until the wallet: the transaction, the orders the book is to drop,     *)
(* and, for the record, those signed so far.                                *)
Presses(orders, newFloor) ==
    /\ CancelOffered
    /\ cancels < MaxCancels /\ cancels' = cancels + 1
    /\ cancel' = [NoCancel EXCEPT !.at = "wallet", !.orders = orders, !.floor = newFloor,
                                  !.signed = IF newFloor = 0 THEN orders ELSE signed]
    /\ UNCHANGED <<ms, chain, page, panel, theBook, retired, pageFaults>>

CancelOne(o) == Presses({o}, 0)

(* Mutant: everything listed is retired. *)
FloorAboveListed(mine) == 1 + CHOOSE n \in {o.nonce : o \in mine} : \A o \in mine : o.nonce <= n

FloorOf(mine) == ms

(* mine, when it shows an order: the list may be an old one.                *)
Lists == SUBSET placed \ {{}}

CancelAll == \E mine \in Lists : Presses(mine, FloorOf(mine))

(* cancelOrders, or setMinNonce, which reverts unless it raises the floor.  *)
CancelMined ==
    /\ cancel.at = "wallet"
    /\ cancel.floor # 0 => cancel.floor > floor
    /\ IF cancel.floor = 0
       THEN dead' = dead \union cancel.orders /\ UNCHANGED floor
       ELSE floor' = cancel.floor /\ UNCHANGED dead
    /\ retired' = retired \union cancel.signed
    /\ cancel' = [cancel EXCEPT !.at = "sync", !.attempt = 1]
    /\ UNCHANGED <<ms, feeRates, allowance, balance, page, panel, theBook, cancels, pageFaults>>

CancelFails ==
    /\ cancel.at = "wallet"
    /\ cancel' = NoCancel
    /\ UNCHANGED <<ms, chain, page, panel, theBook, cancels, retired, pageFaults>>

Live(o) == o.nonce >= floor /\ o \notin dead

(* syncBook: the server drops what the chain calls dead. *)
SyncAttempt(removed) ==
    /\ cancel.at = "sync"
    /\ resting' = resting \ removed
    /\ LET left == cancel.orders \ removed
       IN  cancel' = IF left = {} \/ cancel.attempt = SyncAttempts THEN NoCancel
                     ELSE [cancel EXCEPT !.orders = left, !.attempt = @ + 1]
    /\ UNCHANGED <<ms, chain, page, panel, placed, cancels, retired>>

Syncs == SyncAttempt({o \in resting : ~Live(o)}) /\ UNCHANGED pageFaults

(* The node is behind, or the request fails. *)
SyncMisses == PageFault /\ SyncAttempt({})

CancelStep ==
    \/ \E o \in placed : CancelOne(o)
    \/ CancelAll
    \/ CancelMined \/ CancelFails \/ Syncs \/ SyncMisses

----------------------------------------------------------------------------
(* The page's queries, the chain and the engine.                            *)

Queries ==
    /\ page' \in {[page EXCEPT !.rate = FeeRate],
                  [page EXCEPT !.balance = balance]}
    /\ UNCHANGED <<ms, chain, panel, theBook, list, pageFaults>>

(* An error of the rate's query takes the page back to the fallback.        *)
QueryFails ==
    /\ PageFault
    /\ page' = [page EXCEPT !.rate = NoRate]
    /\ UNCHANGED <<ms, chain, panel, theBook, list>>

(* The chain would settle the order. *)
CanFill(o) ==
    /\ Live(o)
    /\ IF Buys(o.kind) THEN allowance["clob"] >= o.amountIn
       ELSE balance[SideOf(o.kind)] >= o.amountIn

Fills(o) ==
    /\ o \in resting /\ CanFill(o)
    /\ dead' = dead \union {o}
    /\ resting' = resting \ {o}
    /\ IF Buys(o.kind)
       THEN /\ allowance' = [allowance EXCEPT !["clob"] = @ - o.amountIn]
            /\ balance' = [balance EXCEPT ![SideOf(o.kind)] = @ + TokenAmount(SideOf(o.kind))]
       ELSE /\ balance' = [balance EXCEPT ![SideOf(o.kind)] = @ - o.amountIn]
            /\ UNCHANGED allowance
    /\ UNCHANGED <<ms, feeRates, floor, page, panel, placed, list, pageFaults>>

AdminSetsRate ==
    /\ Len(feeRates) <= MaxRateChanges
    /\ \E r \in FeeRates \ {FeeRate} : feeRates' = Append(feeRates, r)
    /\ UNCHANGED <<ms, allowance, balance, floor, dead, page, panel, theBook, list, pageFaults>>

Tick ==
    /\ ms < MaxMs
    /\ ms' = ms + 1
    /\ UNCHANGED <<chain, page, panel, theBook, list, pageFaults>>

PanelInit ==
    /\ ms = 1
    /\ feeRates \in {<<r>> : r \in FeeRates}
    /\ allowance = [s \in {"clob", "market"} |-> 0]
    /\ balance \in {[side \in {"YES", "NO"} |-> n] : n \in StartBalances}
    /\ floor = 0
    /\ dead = {}
    /\ page = [rate |-> NoRate, balance |-> balance]
    /\ busy = FALSE
    /\ clicks = [c \in Clicks |-> Idle]
    /\ signed = {} /\ resting = {} /\ placed = {}
    /\ cancel = NoCancel /\ cancels = 0 /\ retired = {}
    /\ pageFaults = 0

PanelNext ==
    \/ \E c \in Clicks : SubmitStep(c)
    \/ CancelStep
    \/ Queries \/ QueryFails
    \/ \E o \in resting : Fills(o)
    \/ AdminSetsRate \/ Tick
=============================================================================
