-------------------------- MODULE MCCreditProtocol --------------------------
(* Two holders; a mark of tenths.  CarryRate is the contract's formula at  *)
(* that precision, (1 - m) * -ln(1 - m) rounded down.                      *)
EXTENDS CreditProtocol, TLC

MCTwoMarks == {0, 2, 6}
MCTwoRates == (2 :> 1) @@ (6 :> 3)
MCOneMark == {6, 10}
MCOneRate == (6 :> 3)
MCMarkBounds == {[step |-> 0, interval |-> 0], [step |-> 10, interval |-> 0]}
MCNoFee == {[fee |-> 0, toInsurance |-> 0]}
MCFees == {[fee |-> 0, toInsurance |-> 0], [fee |-> 2, toInsurance |-> 1]}
MCSymmetry == Permutations(Users)

(* The transactions of holders, keepers and liquidators while the roles     *)
(* that pause, open a motion or confirm a credit event stay quiet.          *)
QuietSpec == Init /\ [][Next /\ UNCHANGED adminVars]_vars
============================================================================
