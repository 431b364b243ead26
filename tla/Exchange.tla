------------------------------ MODULE Exchange ------------------------------
(***************************************************************************)
(* What the order book, the matching engine and the settler together       *)
(* promise the makers of one side-by-side book, whatever fails among them: *)
(* orders trade in pairs that cross, each trade as large as both sides     *)
(* still allow, and each is a trade of its own: nothing trades twice.      *)
(***************************************************************************)
EXTENDS Integers

CONSTANT Orders     \* records with bid, size and price

VARIABLE filled     \* tokens filled, by order; one that has ended is full

Init == filled = [o \in Orders |-> 0]

Left(o) == o.size - filled[o]

Open(o) == Left(o) > 0

(* The smaller of the two is used up. *)
Trade ==
    \E b, a \in Orders :
        LET tokens == IF Left(b) < Left(a) THEN Left(b) ELSE Left(a)
        IN  /\ b.bid /\ ~a.bid /\ b.price >= a.price
            /\ Open(b) /\ Open(a)
            /\ filled' = [filled EXCEPT ![b] = @ + tokens, ![a] = @ + tokens]

(* An order is cancelled, voided or expires. *)
End ==
    \E o \in Orders :
        /\ Open(o)
        /\ filled' = [filled EXCEPT ![o] = o.size]

Next == Trade \/ End

Spec == Init /\ [][Next]_filled
============================================================================
