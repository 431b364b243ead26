-------------------------- MODULE MCFundingHistory --------------------------
(* A ten-step mark: CarryRate is the contract's formula evaluated at that  *)
(* precision, (1 - m) * -ln(1 - m) rounded down.                           *)
EXTENDS FundingHistory, TLC

MCMarks == {0, 2, 5, 9, 10}
MCCarryRate == (2 :> 1) @@ (5 :> 3) @@ (9 :> 2)
MCMarkBounds ==
    {[step |-> 0, interval |-> 1], [step |-> 3, interval |-> 2],
     [step |-> 4, interval |-> 3]}
============================================================================
