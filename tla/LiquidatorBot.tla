--------------------------- MODULE LiquidatorBot ---------------------------
(***************************************************************************)
(* backend/keepers/liquidator-bot.ts and clob-seller.ts: a cycle reads the *)
(* market, claims the flagged positions it can pay for, one after the      *)
(* other, and then puts the YES it holds on offer.                         *)
(*                                                                         *)
(* The bot takes an ask back with DELETE, from the server and never from   *)
(* the chain: a settlement the engine has under way may still fill it.     *)
(***************************************************************************)
EXTENDS Positions, FiniteSetsExt, Functions

CONSTANTS
    Asks,           \* ids of the bot's asks
    MaxDiscount,    \* maxDiscountBps, in hundredths
    MaxBotFaults    \* bounds the bot's failures

ASSUME BotAssumption == MaxDiscount \in 0 .. 100 /\ MaxBotFaults \in Nat

VARIABLES
    cycle,          \* the cycle in flight
    claiming,       \* claims broadcast that the bot does not wait for
    asks            \* the bot's asks: listed, late, or deleted and not forgotten

botVars == <<cycle, claiming, asks>>

Resting ==
    [at |-> "idle", mark |-> 0, motion |-> FALSE, pending |-> {}, call |-> Bot,
     tx |-> "none", amount |-> 0, own |-> {}, target |-> 0]

BotInit ==
    /\ cycle = Resting
    /\ claiming = {}
    /\ asks = [a \in {} |-> Resting]

CycleIs(step) == cycle.at = step

----------------------------------------------------------------------------
(* Claims.                                                                  *)

ReadsMarket ==
    /\ CycleIs("idle")
    /\ cycle' = [Resting EXCEPT !.at = "discover", !.mark = mark, !.motion = motion]
    /\ UNCHANGED <<marketVars, claiming, asks>>

(* The flagged holders, less those for whom a read fails, with what each    *)
(* claim costs at most at the mark read before.                             *)
Discovers(missed) ==
    /\ CycleIs("discover")
    /\ cycle' = [cycle EXCEPT !.at = "claim", !.pending =
         IF cycle.motion THEN {}
         ELSE {[holder |-> h, cost |-> yes[h] * cycle.mark] : h \in flagged \ missed}]
    /\ UNCHANGED <<marketVars, claiming, asks>>

(* What the simulation of a claim reverts with, in the order of the checks. *)
ClaimRevert(h) ==
    CASE h \notin flagged                 -> "NotClaimable"
      [] h \in flagged /\ motion          -> "MotionPending"
      [] CanClaim(h)                      -> "none"
      [] h \in flagged /\ ~motion /\ Bot \in flagged -> "PositionFrozen"
      [] OTHER                            -> "ERC20InsufficientBalance"

(* The float and the simulation allow the claim.  The holders are taken in  *)
(* no particular order.                                                     *)
TriesClaim(p) ==
    /\ CycleIs("claim")
    /\ p \in cycle.pending
    /\ p.cost <= usdc /\ ClaimRevert(p.holder) = "none"
    /\ cycle' = [cycle EXCEPT !.at = "send", !.call = p.holder, !.pending = @ \ {p}]
    /\ UNCHANGED <<marketVars, claiming, asks>>

Skips(p, rest) ==
    /\ CycleIs("claim")
    /\ p \in cycle.pending
    /\ p.cost > usdc \/ ClaimRevert(p.holder) # "none"
    /\ cycle' = [cycle EXCEPT !.pending = rest]
    /\ UNCHANGED <<marketVars, claiming, asks>>

(* Mutant: the first claim that cannot be made ends the claims. *)
GivesUpOnFirst(p) == Skips(p, {})

(* A claim that cannot be made is skipped, for whatever reason. *)
SkipsClaim(p) == Skips(p, cycle.pending \ {p})

SendsClaim ==
    /\ CycleIs("send")
    /\ cycle' = [cycle EXCEPT !.at = "wait", !.tx = "sent"]
    /\ UNCHANGED <<marketVars, claiming, asks>>

NextClaim == [cycle EXCEPT !.at = "claim", !.call = Bot, !.tx = "none"]

SeesClaim ==
    /\ CycleIs("wait")
    /\ cycle.tx \in {"success", "reverted"}
    /\ cycle' = NextClaim
    /\ UNCHANGED <<marketVars, claiming, asks>>

ClaimEffect(h) == IF CanClaim(h) THEN BotClaims(h) ELSE UNCHANGED marketVars

ClaimMined ==
    /\ cycle.tx = "sent"
    /\ claiming = {}
    /\ ClaimEffect(cycle.call)
    /\ cycle' = [cycle EXCEPT !.tx = IF CanClaim(cycle.call) THEN "success" ELSE "reverted"]
    /\ UNCHANGED <<claiming, asks>>

OldClaimMined(h) ==
    /\ h \in claiming
    /\ ClaimEffect(h)
    /\ claiming' = claiming \ {h}
    /\ UNCHANGED <<cycle, asks>>

----------------------------------------------------------------------------
(* The resale.                                                              *)

ReadsYES ==
    /\ CycleIs("claim")
    /\ cycle.pending = {}
    /\ cycle' = IF yes[Bot] = 0 THEN Resting
                ELSE [cycle EXCEPT !.at = "book", !.amount = yes[Bot]]
    /\ UNCHANGED <<marketVars, claiming, asks>>

Listed == {a \in DOMAIN asks : asks[a].where = "listed"}

(* findOwnYesAsks: one the server shows as filled is none.                  *)
Own == {a \in Listed : asks[a].shown > 0}

OnOffer == MapThenSumSet(LAMBDA a : asks[a].shown, Own)

(* findBestYesBid: 0 when nobody bids. *)
BestBids == Marks \union {0}

(* The best bid, when it is within the discount of the mark; else the mark. *)
Target(bid) == IF bid * 100 >= cycle.mark * (100 - MaxDiscount) THEN bid ELSE cycle.mark

(* isAlreadyCovered; an ask that expires within the hour does not count.    *)
IsCovered(target, expiring) ==
    /\ Own # {}
    /\ OnOffer = cycle.amount
    /\ \A a \in Own : asks[a].price = target
    /\ ~expiring

(* Mutant: the asks that are there already stay. *)
KeepsOldAsks(bid, expiring) ==
    /\ CycleIs("book")
    /\ cycle' = IF IsCovered(Target(bid), expiring) THEN Resting
                ELSE [cycle EXCEPT !.at = "cancel", !.target = Target(bid)]
    /\ UNCHANGED <<marketVars, claiming, asks>>

ReadsBook(bid, expiring) ==
    /\ CycleIs("book")
    /\ cycle' = IF IsCovered(Target(bid), expiring) THEN Resting
                ELSE [cycle EXCEPT !.at = "cancel", !.own = Own, !.target = Target(bid)]
    /\ UNCHANGED <<marketVars, claiming, asks>>

Without(a) == Restrict(asks, DOMAIN asks \ {a})

Deleted(a) == IF a \in Listed THEN [asks EXCEPT ![a].where = "deleted"] ELSE asks

(* DELETE; 404 is as good as done. *)
Cancels(a) ==
    /\ CycleIs("cancel")
    /\ a \in cycle.own
    /\ asks' = Deleted(a)
    /\ cycle' = [cycle EXCEPT !.own = @ \ {a}]
    /\ UNCHANGED <<marketVars, claiming>>

NewAsk(where, price) ==
    LET fresh == Asks \ DOMAIN asks
        id == CHOOSE a \in fresh : TRUE
    IN  /\ fresh # {}
        /\ asks' = [a \in DOMAIN asks \union {id} |->
                       IF a = id
                       THEN [where |-> where, shown |-> cycle.amount, left |-> cycle.amount,
                             price |-> price]
                       ELSE asks[a]]

(* POST of the whole balance, at the target or, when that does not cover    *)
(* the bot's carry debt, at what the server says does.  A flagged position  *)
(* is refused.                                                              *)
Posts(price) ==
    /\ CycleIs("cancel") /\ cycle.own = {}
    /\ price >= cycle.target
    /\ IF Bot \in flagged THEN UNCHANGED asks ELSE NewAsk("listed", price)
    /\ cycle' = Resting
    /\ UNCHANGED <<marketVars, claiming>>

----------------------------------------------------------------------------
(* The engine and the server on the other side.                             *)

(* A settlement of one token. *)
Fills(a) ==
    /\ a \in DOMAIN asks
    /\ asks[a].where # "late" /\ asks[a].left > 0
    /\ yes[Bot] > 0 /\ Bot \notin flagged
    /\ asks' = [asks EXCEPT ![a].left = @ - 1]
    /\ yes' = [yes EXCEPT ![Bot] = @ - 1]
    /\ usdc' = usdc + asks[a].price
    /\ weak' = IF yes[Bot] = 1 THEN weak \ {Bot} ELSE weak
    /\ sunk' = sunk \intersect weak'
    /\ UNCHANGED <<flagged, motion, mark, cycle, claiming>>

RecordsFill(a) ==
    /\ a \in Listed
    /\ asks[a].shown # asks[a].left
    /\ asks' = IF asks[a].left = 0 THEN Without(a) ELSE [asks EXCEPT ![a].shown = asks[a].left]
    /\ UNCHANGED <<marketVars, cycle, claiming>>

EngineForgets(a) ==
    /\ a \in DOMAIN asks
    /\ asks[a].where = "deleted"
    /\ asks' = Without(a)
    /\ UNCHANGED <<marketVars, cycle, claiming>>

LateAskArrives(a) ==
    /\ a \in DOMAIN asks
    /\ asks[a].where = "late"
    /\ asks' = [asks EXCEPT ![a].where = "listed"]
    /\ UNCHANGED <<marketVars, cycle, claiming>>

----------------------------------------------------------------------------
(* Failures.                                                                *)

(* A read of the node or of the book fails, or a DELETE: the cycle is over. *)
(* The DELETE may have been done all the same.                              *)
CycleBreaksOff ==
    /\ CycleIs("book") \/ CycleIs("cancel")
    /\ cycle' = Resting
    /\ \/ UNCHANGED asks
       \/ \E a \in cycle.own : asks' = Deleted(a)
    /\ UNCHANGED <<marketVars, claiming>>

(* The settlement's allowance for the YES cannot be read or set: nothing is *)
(* offered this time.                                                       *)
YESNotApproved ==
    /\ CycleIs("book")
    /\ cycle' = Resting
    /\ UNCHANGED <<marketVars, claiming, asks>>

ClaimNotSent ==
    /\ CycleIs("send")
    /\ cycle' = NextClaim
    /\ UNCHANGED <<marketVars, claiming, asks>>

(* The answer of the submission is lost, or the receipt does not come. *)
ClaimUnanswered ==
    /\ CycleIs("send") \/ (CycleIs("wait") /\ cycle.tx = "sent")
    /\ claiming' = claiming \union {cycle.call}
    /\ cycle' = NextClaim
    /\ UNCHANGED <<marketVars, asks>>

(* The answer to the POST is lost; the server gets to it sooner or later. *)
PostUnanswered(price) ==
    /\ CycleIs("cancel") /\ cycle.own = {}
    /\ Bot \notin flagged
    /\ price >= cycle.target
    /\ NewAsk("late", price)
    /\ cycle' = Resting
    /\ UNCHANGED <<marketVars, claiming>>

BotRestarts ==
    /\ ~CycleIs("idle")
    /\ cycle' = Resting
    /\ claiming' = IF cycle.tx = "sent" THEN claiming \union {cycle.call} ELSE claiming
    /\ UNCHANGED <<marketVars, asks>>

----------------------------------------------------------------------------
CycleStep ==
    \/ ReadsMarket
    \/ Discovers({})
    \/ \E p \in cycle.pending : TriesClaim(p) \/ SkipsClaim(p)
    \/ SendsClaim
    \/ SeesClaim
    \/ ReadsYES
    \/ \E bid \in BestBids, expiring \in BOOLEAN : ReadsBook(bid, expiring)
    \/ \E a \in cycle.own : Cancels(a)
    \/ \E price \in Marks : Posts(price)

BotMining == ClaimMined \/ \E h \in claiming : OldClaimMined(h)

BookStep == \E a \in DOMAIN asks : RecordsFill(a) \/ EngineForgets(a) \/ LateAskArrives(a)

BuyerStep == \E a \in DOMAIN asks : Fills(a)

BotFault ==
    /\ Fault(MaxBotFaults)
    /\ \/ \E missed \in SUBSET flagged \ {{}} : Discovers(missed)
       \/ CycleBreaksOff
       \/ YESNotApproved
       \/ ClaimNotSent
       \/ ClaimUnanswered
       \/ \E price \in Marks : PostUnanswered(price)
       \/ BotRestarts

BotTypeOK ==
    /\ cycle \in [at : {"idle", "discover", "claim", "send", "wait", "book", "cancel"},
                  mark : Marks \union {0}, motion : BOOLEAN,
                  pending : SUBSET [holder : Holders, cost : Nat], call : Holders,
                  tx : {"none", "sent", "success", "reverted"}, amount : Nat,
                  own : SUBSET Asks, target : Marks \union {0}]
    /\ claiming \subseteq Holders
    /\ DOMAIN asks \subseteq Asks
    /\ \A a \in DOMAIN asks :
         asks[a] \in [where : {"listed", "late", "deleted"}, shown : Nat, left : Nat, price : Marks]
============================================================================
