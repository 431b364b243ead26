-------------------------- MODULE MCMatchingEngine --------------------------
(* The orders of one side-by-side book: a bid with a cheap ask and a dearer *)
(* one, of various sizes, or with one ask that its maker posts twice.       *)
EXTENDS MatchingEngine, TLC

CONSTANTS c1, c2

Bid(size, price, nonce) == [bid |-> TRUE, size |-> size, price |-> price, nonce |-> nonce]
Ask(size, price, nonce) == [bid |-> FALSE, size |-> size, price |-> price, nonce |-> nonce]

ThreeIds == {"bid", "cheap", "dear"}
TwinAsk == ("bid" :> Bid(3, 2, 1)) @@ ("cheap" :> Ask(2, 1, 2)) @@ ("dear" :> Ask(2, 1, 2))
TwoAsks == ("bid" :> Bid(2, 2, 1)) @@ ("cheap" :> Ask(1, 1, 2)) @@ ("dear" :> Ask(2, 2, 3))
SmallAsks == ("bid" :> Bid(3, 2, 1)) @@ ("cheap" :> Ask(1, 1, 2)) @@ ("dear" :> Ask(1, 2, 3))

CheapPairBlocked == {<<"bid", "cheap">>}
TheBid == {Bid(3, 2, 1)}
TheCheapAsk == {Ask(1, 1, 2)}
============================================================================
