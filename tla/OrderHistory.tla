---------------------------- MODULE OrderHistory ----------------------------
(***************************************************************************)
(* CLOBSettlement as a machine of its own, with history variables that     *)
(* record what each order actually traded.  The history variables are read *)
(* by no action of the program.                                            *)
(***************************************************************************)
EXTENDS CLOBSettlement

VARIABLES
    traded,     \* tokens that changed hands, by order; a cancel trades nothing
    fills,      \* in how many fills
    earned      \* the USDC a sell order's floor is measured on, summed up

historyVars == <<traded, fills, earned>>
vars == <<now, orderVars, historyVars>>

Init ==
    /\ now = 0
    /\ OrdersInit
    /\ traded = [o \in Orders |-> 0]
    /\ fills = [o \in Orders |-> 0]
    /\ earned = [o \in Orders |-> 0]

OperatorFills ==
    \E sell, buy \in Orders, tokens \in TradeSizes, makerSells \in BOOLEAN :
        LET price == TradePrice(sell, buy, tokens, makerSells)
        IN  /\ FillOrders(sell, buy, tokens, makerSells)
            /\ traded' = [traded EXCEPT ![sell] = @ + tokens, ![buy] = @ + tokens]
            /\ fills' = [fills EXCEPT ![sell] = @ + 1, ![buy] = @ + 1]
            /\ earned' = [earned EXCEPT ![sell] = @ + SellerBasis(sell, tokens, price)]

MakerCancels ==
    /\ \E m \in Makers : \E S \in SUBSET {o \in Orders : o.maker = m} : CancelOrders(m, S)
    /\ UNCHANGED historyVars

MakerRaisesFloor ==
    /\ \E m \in Makers, n \in Nonces : SetMinNonce(m, n)
    /\ UNCHANGED historyVars

AdminSetsFee ==
    /\ \E rate \in FeeRates : SetFeeConfig(rate)
    /\ UNCHANGED historyVars

TimePasses ==
    /\ \E d \in Steps : Later(d)
    /\ UNCHANGED <<orderVars, historyVars>>

Next ==
    \/ OperatorFills
    \/ MakerCancels
    \/ MakerRaisesFloor
    \/ AdminSetsFee
    \/ TimePasses

Spec == Init /\ [][Next]_vars

----------------------------------------------------------------------------
TypeOK ==
    /\ OrdersTypeOK
    /\ traded \in [Orders -> Nat]
    /\ fills \in [Orders -> Nat]
    /\ earned \in [Orders -> Nat]

(* Limit prices hold across all the fills of an order, whatever sizes the   *)
(* operator chose and whichever side rested: over its life a buyer pays     *)
(* less than one unit per fill above its limit, and what a seller's floor   *)
(* is measured on comes to less than one unit per fill below it.            *)
(* (_price.)                                                                *)
LimitsRespected ==
    \A o \in Orders : fills[o] > 0 =>
        IF o.buys
        THEN spent[o] * o.minAmountOut
               <= traded[o] * o.amountIn + fills[o] * (o.minAmountOut - 1)
        ELSE earned[o] * o.amountIn
               >= traded[o] * o.minAmountOut - fills[o] * (o.amountIn - 1)

(* An order that is used up, cancelled, voided by its maker's nonce floor   *)
(* or expired is finished for good: nothing reopens it, and it trades no    *)
(* more.  (remaining is what the order book prunes by.)                     *)
ClosedStaysClosed ==
    [][\A o \in Orders :
         Remaining(o) = 0 => Remaining(o)' = 0 /\ traded'[o] = traded[o]]_vars
============================================================================
