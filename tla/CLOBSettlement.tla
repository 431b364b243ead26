--------------------------- MODULE CLOBSettlement ---------------------------
(***************************************************************************)
(* Signed orders and their fills (src/contracts/src/CLOBSettlement.sol):   *)
(* how much of each order is used up, what a fill is priced at, the ways a *)
(* maker cancels, and the trading fee.                                     *)
(*                                                                         *)
(* An order is identified with its content, as the contract identifies it  *)
(* with its digest.  Every order of Orders is signed.  A fill also settles *)
(* both parties in CreditMarket and moves tokens and USDC; that part, and  *)
(* what it may refuse, is SellYES and SellNO of CreditProtocol.tla.  Here  *)
(* the ledger refuses nothing, which allows every fill it could allow.     *)
(***************************************************************************)
EXTENDS Clock

CONSTANTS
    Makers,
    Orders,         \* the records of Order that are ever signed
    Nonces,         \* the nonce floors a maker ever sets
    TradeSizes,     \* tokens the operator may fill in one call
    QuoteSizes,     \* sizes at which the inversion of the fee is looked at
    QuoteDebts,     \* carry debts at which it is
    FeeRates,       \* the fee rates the admin ever proposes
    BPS,            \* 10_000 in the code
    MAX_FEE_BPS     \* 500 in the code

Order == [maker : Makers, buys : BOOLEAN, token : {"YES", "NO"},
          amountIn : Nat, minAmountOut : Nat, expiry : Nat, nonce : Nat]

ASSUME OrderConstants ==
    /\ Orders \subseteq Order
    /\ Nonces \subseteq Nat
    /\ TradeSizes \subseteq Nat \ {0}
    /\ QuoteSizes \subseteq Nat
    /\ QuoteDebts \subseteq Nat
    /\ FeeRates \subseteq Nat
    /\ BPS \in Nat \ {0}
    /\ MAX_FEE_BPS \in Nat
    /\ MAX_FEE_BPS < BPS

VARIABLES
    filled,       \* tokens filled, by order; a cancelled order counts as filled
    spent,        \* USDC a buy order has paid so far
    minNonce,     \* by maker: orders with a lower nonce are void
    feeBps

orderVars == <<filled, spent, minNonce, feeBps>>

OrdersInit ==
    /\ filled = [o \in Orders |-> 0]
    /\ spent = [o \in Orders |-> 0]
    /\ minNonce = [m \in Makers |-> 0]
    /\ feeBps = 0

----------------------------------------------------------------------------
(* Fees                                                                    *)

Least(a, b) == IF a < b THEN a ELSE b

CeilDiv(a, b) == IF a = 0 THEN 0 ELSE (a - 1) \div b + 1

(* tradeFee: the rate times the cheaper side of the trade. *)
TradeFee(q, price) ==
    IF price >= q THEN 0 ELSE (Least(price, q - price) * feeBps) \div BPS

(* Mutant: the low branch is taken whatever the size. *)
MinGrossLowBranch(net, q) == CeilDiv(net * BPS, BPS + feeBps)

(* _minGrossForNet: the gross at which a NO seller nets its floor after the *)
(* buyer-paid fee.                                                          *)
MinGrossForNet(net, q) ==
    LET low == CeilDiv(net * BPS, BPS - feeBps)
    IN  IF feeBps = 0 \/ net = 0 THEN net
        ELSE IF low * 2 <= q THEN low
        ELSE CeilDiv(net * BPS + feeBps * q, BPS + feeBps)

(* The part of a YES seller's debt that a fill collects. *)
DebtShare(tokens, debt, held) ==
    IF tokens >= held THEN debt ELSE (debt * tokens) \div held

(* The order book server on a YES sell order of a maker in debt: what it    *)
(* asks of the order's proceeds, and the floor it quotes when it refuses.   *)
RequiredProceeds(offered, debt, held) ==
    IF offered >= held THEN debt ELSE CeilDiv(debt * offered, held)

PreFilterAccepts(offered, floorUsdc, debt, held) ==
    floorUsdc >= RequiredProceeds(offered, debt, held) + TradeFee(offered, floorUsdc)

MinSellProceeds(offered, debt, held) ==
    MinGrossForNet(RequiredProceeds(offered, debt, held), offered)

----------------------------------------------------------------------------
(* Orders                                                                  *)

TokenQuantity(o) == IF o.buys THEN o.minAmountOut ELSE o.amountIn

(* remaining: what a reader of the chain takes to be fillable. *)
Remaining(o) ==
    IF \/ now > o.expiry
       \/ o.nonce < minNonce[o.maker]
       \/ o.buys /\ spent[o] >= o.amountIn
       \/ filled[o] >= TokenQuantity(o)
    THEN 0
    ELSE TokenQuantity(o) - filled[o]

(* Mutant: the nonce floor is not looked at. *)
CheckOrderIgnoresFloor(o, tokens) ==
    /\ now <= o.expiry
    /\ TokenQuantity(o) # 0
    /\ filled[o] + tokens <= TokenQuantity(o)

(* _checkOrder. *)
CheckOrder(o, tokens) ==
    /\ now <= o.expiry
    /\ o.nonce >= minNonce[o.maker]
    /\ TokenQuantity(o) # 0
    /\ filled[o] + tokens <= TokenQuantity(o)

(* Mutant: the budget left from earlier fills is not a cap. *)
BuyerCapPerFill(buy, tokens) == CeilDiv(tokens * buy.amountIn, buy.minAmountOut)

(* The most the buyer pays for this fill: its limit price, rounded up, and *)
(* never more than is left of what it signed for.                          *)
BuyerCap(buy, tokens) ==
    Least(CeilDiv(tokens * buy.amountIn, buy.minAmountOut), buy.amountIn - spent[buy])

(* The price a resting seller asks: its floor, on the gross for YES and net *)
(* of the fee for NO.                                                       *)
SellerAsk(sell, tokens) ==
    LET floorUsdc == CeilDiv(tokens * sell.minAmountOut, sell.amountIn)
    IN  IF sell.token = "YES" THEN floorUsdc ELSE MinGrossForNet(floorUsdc, tokens)

(* _price: the maker's limit, clamped to the buyer's cap. *)
TradePrice(sell, buy, tokens, makerSells) ==
    IF makerSells THEN Least(SellerAsk(sell, tokens), BuyerCap(buy, tokens))
    ELSE BuyerCap(buy, tokens)

(* What a seller's floor is measured on. *)
SellerBasis(sell, tokens, price) ==
    IF sell.token = "YES" THEN price ELSE price - TradeFee(tokens, price)

(* Mutant: the crossing of the two limits is not checked. *)
CrossesAnyway(sell, buy, tokens, makerSells) ==
    TradePrice(sell, buy, tokens, makerSells) > 0

(* The two limits cross at this size. *)
Crosses(sell, buy, tokens, makerSells) ==
    LET price == TradePrice(sell, buy, tokens, makerSells)
    IN  /\ price > 0
        /\ SellerBasis(sell, tokens, price)
             >= (tokens * sell.minAmountOut) \div sell.amountIn

RecordFill(sell, buy, tokens, makerSells) ==
    /\ filled' = [filled EXCEPT ![sell] = @ + tokens, ![buy] = @ + tokens]
    /\ spent' = [spent EXCEPT ![buy] = @ + TradePrice(sell, buy, tokens, makerSells)]

(* fillOrders, called by the matching engine's settler: a resting maker     *)
(* order and a crossing taker order, one of which sells what the other buys.*)
FillOrders(sell, buy, tokens, makerSells) ==
    /\ ~sell.buys /\ buy.buys /\ sell.token = buy.token
    /\ CheckOrder(sell, tokens) /\ CheckOrder(buy, tokens)
    /\ Crosses(sell, buy, tokens, makerSells)
    /\ RecordFill(sell, buy, tokens, makerSells)
    /\ UNCHANGED <<now, minNonce, feeBps>>

(* cancelOrders: a batch, all of the caller's own orders. *)
CancelOrders(m, S) ==
    /\ \A o \in S : o.maker = m
    /\ filled' = [o \in Orders |-> IF o \in S THEN TokenQuantity(o) ELSE filled[o]]
    /\ UNCHANGED <<now, spent, minNonce, feeBps>>

SetMinNonce(m, n) ==
    /\ n > minNonce[m]
    /\ minNonce' = [minNonce EXCEPT ![m] = n]
    /\ UNCHANGED <<now, filled, spent, feeBps>>

(* setFeeConfig; the recipients and the split of the fee are FeeSplits of   *)
(* CreditProtocol.tla.                                                      *)
SetFeeConfig(rate) ==
    /\ rate <= MAX_FEE_BPS
    /\ feeBps' = rate
    /\ UNCHANGED <<now, filled, spent, minNonce>>

----------------------------------------------------------------------------
OrdersTypeOK ==
    /\ now \in Nat
    /\ filled \in [Orders -> Nat]
    /\ spent \in [Orders -> Nat]
    /\ minNonce \in [Makers -> Nat]
    /\ feeBps \in 0 .. MAX_FEE_BPS

(* However an order is filled, in pieces and against any counterparties, it *)
(* is never filled beyond its size, and a buyer never pays more in total    *)
(* than it signed for: "budget" never underflows.  (fillOrders, _price.)    *)
NeverOverfilled ==
    \A o \in Orders :
        /\ filled[o] <= TokenQuantity(o)
        /\ o.buys => spent[o] <= o.amountIn
        /\ ~o.buys => spent[o] = 0

(* What is asked for covers what is taken out of it.  A NO seller's own     *)
(* asking price nets it its floor at every size.  The floor the server      *)
(* quotes to a YES seller is one it accepts, and at that floor a first fill *)
(* of any size pays its fee and its share of the carry debt.  (A debt above *)
(* par for all the seller holds is beyond what any price can cover.)        *)
(* (_minGrossForNet, tradeFee, runChainPreFilter.)                          *)
AskCoversItsCosts ==
    \A q \in QuoteSizes :
        /\ \A net \in 0 .. q :
             LET gross == MinGrossForNet(net, q) IN gross - TradeFee(q, gross) >= net
        /\ \A debt \in {d \in QuoteDebts : d <= q}, offered \in 1 .. q :
             LET quote == MinSellProceeds(offered, debt, q)
                 price(n) == CeilDiv(n * quote, offered)
             IN  /\ PreFilterAccepts(offered, quote, debt, q)
                 /\ \A n \in 1 .. offered :
                      price(n) >= TradeFee(n, price(n)) + DebtShare(n, debt, q)
============================================================================
