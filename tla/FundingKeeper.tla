--------------------------- MODULE FundingKeeper ---------------------------
(***************************************************************************)
(* backend/keepers/funding-keeper.ts: a run accrues the carry of a market  *)
(* and then flags every holder it finds seizable.  Both transactions are   *)
(* retried over failures of the node, and neither may be sent again once   *)
(* it has taken effect.                                                    *)
(***************************************************************************)
EXTENDS Positions

CONSTANTS
    MaxAttempts,        \* KEEPER_MAX_ATTEMPTS
    MaxKeeperFaults     \* bounds the keeper's failures

ASSUME AttemptsAssumption ==
    /\ MaxAttempts \in Nat \ {0}
    /\ MaxKeeperFaults \in Nat
    /\ "accrue" \notin Holders         \* a call is to accrue, or to flag a holder

VARIABLES
    run,            \* the run in flight
    moved,          \* lastFundingTime has moved since it was read
    accrued,        \* and since the run began
    unanswered      \* calls broadcast that nobody waits for

keeperVars == <<run, moved, accrued, unanswered>>

(* The accrual comes first, then a flag for each holder that needs one.     *)
Asleep ==
    [at |-> "idle", call |-> "accrue", attempt |-> 1, t0 |-> FALSE, tx |-> "none",
     todo |-> {}, success |-> FALSE]

KeeperInit ==
    /\ run = Asleep
    /\ moved = FALSE
    /\ accrued = FALSE
    /\ unanswered = {}

RunIs(step) == run.at = step

----------------------------------------------------------------------------
(* A run, from await to await.                                              *)

StartsRun ==
    /\ RunIs("idle")
    /\ run' = [Asleep EXCEPT !.at = "snapshot", !.todo = Holders]
    /\ moved' = FALSE
    /\ accrued' = FALSE
    /\ UNCHANGED <<marketVars, unanswered, faults>>

(* t0, unless the read fails; then the second attempt reads it.             *)
ReadsLastFundingTime(answered) ==
    /\ RunIs("snapshot")
    /\ IF answered THEN UNCHANGED faults ELSE Fault(MaxKeeperFaults)
    /\ run' = [run EXCEPT !.at = "try", !.t0 = answered]
    /\ moved' = FALSE
    /\ UNCHANGED <<marketVars, accrued, unanswered>>

(* Mutant: a failed accrual ends the run. *)
EndsAll(success) ==
    /\ run' = IF ~success /\ run.call = "accrue" THEN Asleep
              ELSE [run EXCEPT !.at = "holders", !.attempt = 1, !.tx = "none",
                               !.success = @ \/ (success /\ run.call = "accrue")]
    /\ unanswered' = IF run.tx = "sent" THEN unanswered \union {run.call} ELSE unanswered

(* The call is over and the keeper turns to the holders that are left; what *)
(* was broadcast stays broadcast.                                           *)
Ends(success) ==
    /\ run' = [run EXCEPT !.at = "holders", !.attempt = 1, !.tx = "none",
                          !.success = @ \/ (success /\ run.call = "accrue")]
    /\ unanswered' = IF run.tx = "sent" THEN unanswered \union {run.call} ELSE unanswered

(* Before an attempt after the first the keeper looks whether an earlier    *)
(* one has landed.                                                          *)
Landed ==
    IF run.call = "accrue" THEN run.t0 /\ moved ELSE run.tx = "none" /\ run.call \in flagged

(* Mutant: a run that could not read t0 takes zero for it. *)
TriesWithoutT0 ==
    /\ RunIs("try")
    /\ IF run.attempt > 1 /\ (Landed \/ (run.call = "accrue" /\ ~run.t0))
       THEN Ends(TRUE) /\ UNCHANGED moved
       ELSE /\ run' = [run EXCEPT !.at = IF run.tx = "none" THEN "send" ELSE "wait"]
            /\ UNCHANGED <<moved, unanswered>>
    /\ UNCHANGED <<marketVars, accrued, faults>>

Tries ==
    /\ RunIs("try")
    /\ IF run.attempt > 1 /\ Landed
       THEN Ends(TRUE) /\ UNCHANGED moved
       ELSE /\ run' = [run EXCEPT !.at = IF run.tx = "none" THEN "send" ELSE "wait",
                                  !.t0 = @ \/ run.attempt > 1]
            /\ moved' = (moved /\ run.t0)
            /\ UNCHANGED unanswered
    /\ UNCHANGED <<marketVars, accrued, faults>>

Sends ==
    /\ RunIs("send")
    /\ run.call = "accrue" \/ CanFlag(run.call)
    /\ run' = [run EXCEPT !.at = "wait", !.tx = "sent"]
    /\ UNCHANGED <<marketVars, moved, accrued, unanswered, faults>>

(* The estimate reverts, or the wallet has no gas: no retry.                *)
Refused ==
    /\ RunIs("send")
    /\ run.call = "accrue" \/ ~CanFlag(run.call)
    /\ Ends(FALSE)
    /\ UNCHANGED <<marketVars, moved, accrued, faults>>

SeesReceipt ==
    /\ RunIs("wait")
    /\ run.tx \in {"success", "reverted"}
    /\ Ends(run.tx = "success")
    /\ UNCHANGED <<marketVars, moved, accrued, faults>>

Retries ==
    IF run.attempt < MaxAttempts
    THEN /\ run' = [run EXCEPT !.at = "try", !.attempt = @ + 1]
         /\ UNCHANGED unanswered
    ELSE Ends(FALSE)

(* A transient error: of the read, of the submission, of the wait.          *)
NodeFails ==
    /\ Fault(MaxKeeperFaults)
    /\ (RunIs("try") /\ run.attempt > 1) \/ RunIs("send") \/ RunIs("wait")
    /\ Retries
    /\ UNCHANGED <<marketVars, moved, accrued>>

(* The transaction is broadcast and the answer lost.                        *)
AnswerLost ==
    /\ Fault(MaxKeeperFaults)
    /\ RunIs("send")
    /\ run.call = "accrue" \/ CanFlag(run.call)
    /\ run' = IF run.attempt < MaxAttempts
              THEN [run EXCEPT !.at = "try", !.attempt = @ + 1]
              ELSE [run EXCEPT !.at = "holders", !.attempt = 1]
    /\ unanswered' = unanswered \union {run.call}
    /\ UNCHANGED <<marketVars, moved, accrued>>

(* checkAndFlagHolder up to the decision; a failed read skips the holder.   *)
ChecksHolder(h, answered) ==
    /\ RunIs("holders")
    /\ h \in run.todo
    /\ IF answered THEN UNCHANGED faults ELSE Fault(MaxKeeperFaults)
    /\ run' = IF answered /\ h \notin flagged /\ h \in weak
              THEN [run EXCEPT !.at = "try", !.call = h, !.todo = @ \ {h}]
              ELSE [run EXCEPT !.todo = @ \ {h}]
    /\ UNCHANGED <<marketVars, moved, accrued, unanswered>>

RunEnds ==
    /\ RunIs("holders")
    /\ run.todo = {}
    /\ run' = Asleep
    /\ UNCHANGED <<marketVars, moved, accrued, unanswered, faults>>

KeeperRestarts ==
    /\ Fault(MaxKeeperFaults)
    /\ ~RunIs("idle")
    /\ run' = Asleep
    /\ unanswered' = IF run.tx = "sent" THEN unanswered \union {run.call} ELSE unanswered
    /\ UNCHANGED <<marketVars, moved, accrued>>

----------------------------------------------------------------------------
(* The chain takes the wallet's transactions in the order of their nonces:  *)
(* those nobody waits for are the older ones.                               *)

Executes(call) ==
    \/ /\ call = "accrue"
       /\ moved' = TRUE
       /\ accrued' = TRUE
       /\ UNCHANGED marketVars
    \/ /\ call \in Holders
       /\ Flag(call)
       /\ UNCHANGED <<moved, accrued>>

Reverts(call) ==
    /\ call \in Holders /\ ~CanFlag(call)
    /\ UNCHANGED <<marketVars, moved, accrued>>

KeeperTxMined ==
    /\ run.tx = "sent"
    /\ unanswered = {}
    /\ \/ Executes(run.call) /\ run' = [run EXCEPT !.tx = "success"]
       \/ Reverts(run.call) /\ run' = [run EXCEPT !.tx = "reverted"]
    /\ UNCHANGED <<unanswered, faults>>

UnansweredMined(call) ==
    /\ call \in unanswered
    /\ Executes(call) \/ Reverts(call)
    /\ unanswered' = unanswered \ {call}
    /\ UNCHANGED <<run, faults>>

(* Every trade, mint and settlement accrues too.                            *)
OthersAccrue ==
    /\ ~(moved /\ accrued)
    /\ moved' = TRUE
    /\ accrued' = TRUE
    /\ UNCHANGED <<marketVars, run, unanswered, faults>>

----------------------------------------------------------------------------
RunStep ==
    \/ StartsRun
    \/ ReadsLastFundingTime(TRUE)
    \/ Tries
    \/ Sends
    \/ Refused
    \/ SeesReceipt
    \/ \E h \in Holders : ChecksHolder(h, TRUE)
    \/ RunEnds

KeeperMining == KeeperTxMined \/ \E call \in unanswered : UnansweredMined(call)

KeeperFault ==
    \/ ReadsLastFundingTime(FALSE)
    \/ NodeFails
    \/ AnswerLost
    \/ \E h \in Holders : ChecksHolder(h, FALSE)
    \/ KeeperRestarts

KeeperTypeOK ==
    /\ run \in [at : {"idle", "snapshot", "try", "send", "wait", "holders"},
                call : {"accrue"} \union Holders, attempt : 1 .. MaxAttempts,
                t0 : BOOLEAN, tx : {"none", "sent", "success", "reverted"},
                todo : SUBSET Holders, success : BOOLEAN]
    /\ {moved, accrued} \subseteq BOOLEAN
    /\ unanswered \subseteq {"accrue"} \union Holders
============================================================================
