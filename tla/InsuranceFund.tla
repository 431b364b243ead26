--------------------------- MODULE InsuranceFund ---------------------------
(***************************************************************************)
(* The reserve that tops up the tail case of a liquidation                 *)
(* (src/contracts/src/InsuranceFund.sol): anyone deposits, the admin       *)
(* withdraws behind a timelock, the LiquidationEngine draws on it at once. *)
(***************************************************************************)
EXTENDS Clock, Sequences

CONSTANTS
    TIMELOCK,          \* 48 hours in the code
    DepositAmounts,    \* USDC anyone may deposit in one call
    WithdrawAmounts,   \* USDC the admin may queue in one call
    MaxReserve,        \* bound on the reserve
    MaxWithdrawals     \* bound on the withdrawals ever queued

ASSUME FundConstants ==
    /\ TIMELOCK \in Nat
    /\ MaxReserve \in Nat
    /\ MaxWithdrawals \in Nat
    /\ DepositAmounts \subseteq Nat
    /\ WithdrawAmounts \subseteq Nat

VARIABLES
    reserve,               \* the fund's USDC balance
    pendingWithdrawals     \* by id, from 1; the next id is one past the last

fundVars == <<reserve, pendingWithdrawals>>

Withdrawal == [amount : Nat, initiatedAt : Nat, executed : BOOLEAN]

FundInit ==
    /\ reserve = 0
    /\ pendingWithdrawals = <<>>

Receive(amount) ==
    /\ reserve + amount <= MaxReserve
    /\ reserve' = reserve + amount
    /\ UNCHANGED pendingWithdrawals

Deposit(amount) == Receive(amount)

InitiateWithdrawal(amount) ==
    /\ Len(pendingWithdrawals) < MaxWithdrawals
    /\ pendingWithdrawals' =
         Append(pendingWithdrawals,
                [amount |-> amount, initiatedAt |-> now, executed |-> FALSE])
    /\ UNCHANGED reserve

(* Mutant: the executed flag is not set. *)
ExecuteWithdrawalAgain(id) ==
    LET w == pendingWithdrawals[id]
    IN  /\ ~w.executed
        /\ now >= w.initiatedAt + TIMELOCK
        /\ w.amount <= reserve
        /\ reserve' = reserve - w.amount
        /\ UNCHANGED pendingWithdrawals

(* The id exists, has not been executed, and its timelock has run out. *)
ExecuteWithdrawal(id) ==
    LET w == pendingWithdrawals[id]
    IN  /\ ~w.executed
        /\ now >= w.initiatedAt + TIMELOCK
        /\ w.amount <= reserve
        /\ reserve' = reserve - w.amount
        /\ pendingWithdrawals' = [pendingWithdrawals EXCEPT ![id].executed = TRUE]

(* coverShortfall: the LiquidationEngine's draw is not behind the timelock, *)
(* and reverts the whole claim when the reserve falls short.                *)
CoverShortfall(amount) ==
    /\ amount <= reserve
    /\ reserve' = reserve - amount
    /\ UNCHANGED pendingWithdrawals

FundTypeOK ==
    /\ reserve \in Nat
    /\ pendingWithdrawals \in Seq(Withdrawal)
    /\ Len(pendingWithdrawals) <= MaxWithdrawals
============================================================================
