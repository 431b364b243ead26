----------------------------- MODULE Positions -----------------------------
(***************************************************************************)
(* What the keepers of backend/keepers see of one market and can do to it: *)
(* who holds YES, whose position meets the seizure trigger, who is flagged.*)
(* CreditProtocol has the ledger behind this; here a position weakens,     *)
(* recovers or sinks beyond what the insurance fund can cover at any time, *)
(* and other keepers and liquidators flag and claim too.                   *)
(***************************************************************************)
EXTENDS Integers, FiniteSets

CONSTANTS
    Holders,        \* every holder the index knows, the bot among them
    Bot,            \* the liquidator bot's address
    Marks,
    Purse,          \* the bot's USDC at the start
    MaxMoves        \* bounds what happens to the market by itself

ASSUME MarketAssumption ==
    /\ Bot \in Holders
    /\ Marks \subseteq Nat \ {0}
    /\ {Purse, MaxMoves} \subseteq Nat

VARIABLES
    yes,            \* YES by holder
    weak,           \* holders for whom isSeizable is true
    flagged,        \* claimable
    sunk,           \* holders whose claim the fund cannot cover
    motion,         \* motionPending
    mark,           \* currentMark
    usdc,           \* the bot's USDC
    moves,
    faults

positionVars == <<yes, weak, flagged, sunk>>
marketVars == <<positionVars, motion, mark, usdc>>

PositionsInit ==
    /\ yes = [h \in Holders |-> IF h = Bot THEN 0 ELSE 1]
    /\ weak \in SUBSET (Holders \ {Bot})
    /\ flagged \in SUBSET weak
    /\ sunk \in SUBSET flagged
    /\ motion = FALSE
    /\ mark \in Marks
    /\ usdc = Purse
    /\ moves = 0
    /\ faults = 0

(* A failure of a service, or between it and the rest. *)
Fault(bound) ==
    /\ faults < bound
    /\ faults' = faults + 1

----------------------------------------------------------------------------
(* The calls of the keepers.                                                *)

CanFlag(h) == ~motion /\ h \notin flagged /\ h \in weak

Flag(h) ==
    /\ CanFlag(h)
    /\ flagged' = flagged \union {h}
    /\ UNCHANGED <<yes, weak, sunk, motion, mark, usdc>>

(* What the bot pays at most; the sliver a liquidator keeps is left out.    *)
Value(h) == yes[h] * mark

CanClaim(h) ==
    /\ h \in flagged /\ ~motion
    /\ Bot \notin flagged
    /\ h \notin sunk
    /\ usdc >= Value(h)

Leaves(h) ==
    /\ weak' = weak \ {h}
    /\ flagged' = flagged \ {h}
    /\ sunk' = sunk \ {h}

BotClaims(h) ==
    /\ CanClaim(h)
    /\ Leaves(h)
    /\ yes' = [yes EXCEPT ![h] = 0, ![Bot] = @ + yes[h]]
    /\ usdc' = usdc - Value(h)
    /\ UNCHANGED <<motion, mark>>

----------------------------------------------------------------------------
(* Everybody else.                                                          *)

Weakens(h) ==
    /\ yes[h] > 0 /\ h \notin weak
    /\ weak' = weak \union {h}
    /\ UNCHANGED <<yes, flagged, sunk, motion, mark, usdc>>

(* The mark or a payment lifts the position; a flag stays. *)
Recovers(h) ==
    /\ h \in weak
    /\ weak' = weak \ {h}
    /\ sunk' = sunk \ {h}
    /\ UNCHANGED <<yes, flagged, motion, mark, usdc>>

Sinks(h) ==
    /\ h \in weak \ sunk
    /\ sunk' = sunk \union {h}
    /\ UNCHANGED <<yes, weak, flagged, motion, mark, usdc>>

FundFilledUp ==
    /\ sunk # {}
    /\ sunk' = {}
    /\ UNCHANGED <<yes, weak, flagged, motion, mark, usdc>>

Cures(h) ==
    /\ h \in flagged
    /\ Leaves(h)
    /\ UNCHANGED <<yes, motion, mark, usdc>>

RivalClaims(h) ==
    /\ h \in flagged \ sunk /\ ~motion
    /\ Leaves(h)
    /\ yes' = [yes EXCEPT ![h] = 0]
    /\ UNCHANGED <<motion, mark, usdc>>

MotionFlips ==
    /\ motion' = ~motion
    /\ UNCHANGED <<positionVars, mark, usdc>>

MarkMoves ==
    /\ mark' \in Marks \ {mark}
    /\ UNCHANGED <<positionVars, motion, usdc>>

MarketStep ==
    /\ moves < MaxMoves
    /\ moves' = moves + 1
    /\ \/ \E h \in Holders :
             \/ Weakens(h) \/ Recovers(h) \/ Sinks(h)
             \/ Cures(h) \/ Flag(h) \/ RivalClaims(h)
       \/ FundFilledUp \/ MotionFlips \/ MarkMoves

PositionsTypeOK ==
    /\ yes \in [Holders -> Nat]
    /\ weak \subseteq {h \in Holders : yes[h] > 0}
    /\ flagged \subseteq {h \in Holders : yes[h] > 0}
    /\ sunk \subseteq weak
    /\ motion \in BOOLEAN
    /\ mark \in Marks
    /\ usdc \in Nat
    /\ moves \in 0 .. MaxMoves
    /\ faults \in Nat
============================================================================
