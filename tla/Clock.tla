------------------------------- MODULE Clock -------------------------------
(***************************************************************************)
(* Block time, shared by every contract: block.timestamp of the block that *)
(* executes a transaction.  Several transactions may share a block.        *)
(***************************************************************************)
EXTENDS Integers

CONSTANTS
    Steps,      \* by how many seconds one block may follow another
    MaxTime     \* bound on the clock

ASSUME ClockConstants ==
    /\ MaxTime \in Nat
    /\ Steps \subseteq Nat \ {0}

VARIABLE now

(* A later block. *)
Later(d) ==
    /\ now + d <= MaxTime
    /\ now' = now + d
============================================================================
