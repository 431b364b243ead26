------------------------- MODULE LiquidationKeeper -------------------------
(***************************************************************************)
(* backend/keepers/liquidation-keeper.ts, for one market: every poll reads *)
(* who can be claimed and for how much, and GET /claimable shows the list  *)
(* of the poll that ended last.  The timer does not wait for a poll, so    *)
(* several are under way when the node is slow.                            *)
(***************************************************************************)
EXTENDS Positions, Functions

CONSTANTS
    Polls,              \* the polls that can be under way at once
    MaxViewerFaults     \* bounds the viewer's failures

ASSUME ViewerAssumption == IsFiniteSet(Polls) /\ MaxViewerFaults \in Nat

VARIABLES
    polling,        \* by poll under way: where it is and what it has read
    shown           \* what GET /claimable answers

viewerVars == <<polling, shown>>

ViewerInit ==
    /\ polling = << >>
    /\ shown = {}

UnderWay == DOMAIN polling

At(p, step) == p \in UnderWay /\ polling[p].at = step

Moves(p, progress) == polling' = [polling EXCEPT ![p] = progress]

Over(p) == polling' = Restrict(polling, UnderWay \ {p})

----------------------------------------------------------------------------
(* computePosition: with the mark and the motion of the poll's start.  What *)
(* is owed is not in Positions; the price is at most the value.             *)
Position(h, read) ==
    [user |-> h, claimPrice |-> yes[h] * read.mark, frozen |-> read.motion]

(* The holders are those the index knows, whether or not its refresh fails. *)
StartsPoll(p) ==
    /\ p \notin UnderWay
    /\ polling' = [q \in UnderWay \union {p} |->
                      IF q = p
                      THEN [at |-> "market", mark |-> mark, motion |-> FALSE,
                            todo |-> Holders, found |-> {}]
                      ELSE polling[q]]
    /\ UNCHANGED <<marketVars, shown, faults>>

(* Without the mark and the motion there is no poll, and the old list stays. *)
ReadsMarkAndMotion(p) ==
    /\ At(p, "market")
    /\ Moves(p, [polling[p] EXCEPT !.at = "holders", !.mark = mark, !.motion = motion])
    /\ UNCHANGED <<marketVars, shown, faults>>

MarketUnread(p) ==
    /\ At(p, "market")
    /\ Fault(MaxViewerFaults)
    /\ Over(p)
    /\ UNCHANGED <<marketVars, shown>>

(* Mutant: a holder once shown is not looked at again. *)
ReadsShownHolderOnce(p, h) ==
    /\ At(p, "holders")
    /\ h \in polling[p].todo
    /\ Moves(p, [polling[p] EXCEPT
                    !.todo = @ \ {h},
                    !.found = IF \E c \in shown : c.user = h
                              THEN @ \union {c \in shown : c.user = h}
                              ELSE IF h \in flagged THEN @ \union {Position(h, polling[p])} ELSE @])
    /\ UNCHANGED <<marketVars, shown, faults>>

ReadsClaimable(p, h) ==
    /\ At(p, "holders")
    /\ h \in polling[p].todo
    /\ Moves(p, [polling[p] EXCEPT
                    !.todo = @ \ {h},
                    !.found = IF h \in flagged THEN @ \union {Position(h, polling[p])} ELSE @])
    /\ UNCHANGED <<marketVars, shown, faults>>

HolderUnread(p, h) ==
    /\ At(p, "holders")
    /\ h \in polling[p].todo
    /\ Fault(MaxViewerFaults)
    /\ Moves(p, [polling[p] EXCEPT !.todo = @ \ {h}])
    /\ UNCHANGED <<marketVars, shown>>

(* The list of this poll replaces that of the poll before, which may have   *)
(* started later.                                                           *)
EndsPoll(p) ==
    /\ At(p, "holders")
    /\ polling[p].todo = {}
    /\ shown' = polling[p].found
    /\ Over(p)
    /\ UNCHANGED <<marketVars, faults>>

ViewerRestarts ==
    /\ Fault(MaxViewerFaults)
    /\ polling' = << >>
    /\ shown' = {}
    /\ UNCHANGED marketVars

PollAdvances(p) ==
    \/ ReadsMarkAndMotion(p)
    \/ \E h \in Holders : ReadsClaimable(p, h)
    \/ EndsPoll(p)

ViewerStep == \E p \in Polls : StartsPoll(p) \/ PollAdvances(p)

ViewerFault ==
    \/ \E p \in Polls : MarketUnread(p) \/ \E h \in Holders : HolderUnread(p, h)
    \/ ViewerRestarts

(* What a poll that took no time would show. *)
Claimable == {Position(h, [mark |-> mark, motion |-> motion]) : h \in flagged}
============================================================================
