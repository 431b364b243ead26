--------------------------- MODULE MCOrderHistory ---------------------------
(* Two makers.  Sells and buys of YES and of NO that cross one another,   *)
(* at limits that do not divide the sizes they fill in, one order that      *)
(* expires, and one with a nonce below the floor its maker may set.         *)
EXTENDS OrderHistory, TLC

CONSTANTS m1, m2

Sell(m, token, tokens, floor, expiry, nonce) ==
    [maker |-> m, buys |-> FALSE, token |-> token, amountIn |-> tokens,
     minAmountOut |-> floor, expiry |-> expiry, nonce |-> nonce]

Buy(m, token, tokens, budget, expiry, nonce) ==
    [maker |-> m, buys |-> TRUE, token |-> token, amountIn |-> budget,
     minAmountOut |-> tokens, expiry |-> expiry, nonce |-> nonce]

MCMakers == {m1, m2}
MCOrders ==
    {Sell(m1, "YES", 4, 3, 1, 2), Buy(m2, "YES", 5, 4, 0, 1),
     Sell(m2, "NO", 4, 1, 1, 1), Buy(m1, "NO", 3, 2, 1, 1),
     Buy(m2, "YES", 3, 1, 1, 2)}
============================================================================
