------------------------------ MODULE Keepers ------------------------------
(***************************************************************************)
(* The funding keeper, the liquidator bot and the liquidation keeper of    *)
(* one market, next to the keepers and liquidators of others.  Each meets  *)
(* the others only through the chain, so any may be the one that is up     *)
(* while the others are down.  The process that turns to one market after  *)
(* the other, and the index of holders that two services share, run in     *)
(* worlds of their own.                                                    *)
(***************************************************************************)
EXTENDS FundingKeeper, LiquidatorBot, LiquidationKeeper, KeeperProcess

CONSTANTS
    Deployments,    \* the sets of services that may be up
    Indexed,        \* the holders of the index
    Scanners,       \* the services that share it
    BatchSize, Overlap, Depth, MaxBlock, MaxIndexFaults

VARIABLES
    up,
    chain, stored, cursor, known, synced, sync, indexFaults

Index == INSTANCE HolderIndex
            WITH Holders <- Indexed, Keepers <- Scanners,
                 MaxFaults <- MaxIndexFaults, faults <- indexFaults

worldVars == <<marketVars, moves, faults, keeperVars, botVars, viewerVars, processVars>>
indexVars == <<chain, stored, cursor, known, synced, sync, indexFaults>>
besides == <<up, indexVars>>
vars == <<worldVars, besides>>

ASSUME IndexAssumption == Index!NumbersFit /\ Index!OverlapCovers

Init ==
    /\ PositionsInit
    /\ KeeperInit
    /\ BotInit
    /\ ViewerInit
    /\ ProcessInit
    /\ Index!Init
    /\ up \in Deployments

KeeperStep ==
    /\ "keeper" \in up
    /\ RunStep \/ KeeperFault
    /\ UNCHANGED <<moves, botVars, viewerVars, processVars, besides>>

KeeperChainStep == KeeperMining /\ UNCHANGED <<moves, botVars, viewerVars, processVars, besides>>

BotStep ==
    /\ "bot" \in up
    /\ \/ CycleStep /\ UNCHANGED faults
       \/ BotFault
    /\ UNCHANGED <<moves, keeperVars, viewerVars, processVars, besides>>

BotChainStep == (BotMining \/ BuyerStep \/ BookStep) /\ UNCHANGED <<moves, faults, keeperVars, viewerVars, processVars, besides>>

ViewerUp ==
    /\ "viewer" \in up
    /\ ViewerStep \/ ViewerFault
    /\ UNCHANGED <<moves, keeperVars, botVars, processVars, besides>>

ProcessUp ==
    /\ "process" \in up
    /\ ProcessStep
    /\ UNCHANGED <<marketVars, moves, faults, keeperVars, botVars, viewerVars, besides>>

IndexUp == "index" \in up /\ Index!Next /\ UNCHANGED <<worldVars, up>>

OutsideStep ==
    \/ up \subseteq {"keeper", "bot", "viewer"} /\ MarketStep /\ UNCHANGED <<faults, keeperVars, botVars, viewerVars, processVars, besides>>
    \/ "keeper" \in up /\ OthersAccrue /\ UNCHANGED <<moves, botVars, viewerVars, processVars, besides>>

Next ==
    \/ KeeperStep \/ KeeperChainStep \/ BotStep \/ BotChainStep
    \/ ViewerUp \/ ProcessUp \/ IndexUp \/ OutsideStep

Spec == Init /\ [][Next]_vars

(* The cron and the poll timer fire for ever and every await ends; what is  *)
(* broadcast is mined; the server and the engine get to what they have.     *)
Fairness ==
    /\ WF_vars("keeper" \in up /\ RunStep /\ UNCHANGED <<moves, botVars, viewerVars, processVars, besides>>)
    /\ WF_vars(KeeperChainStep)
    /\ WF_vars("bot" \in up /\ CycleStep /\ UNCHANGED <<faults, moves, keeperVars, viewerVars, processVars, besides>>)
    /\ \A p \in Polls :
          WF_vars("viewer" \in up /\ (StartsPoll(p) \/ PollAdvances(p))
                  /\ UNCHANGED <<moves, keeperVars, botVars, processVars, besides>>)
    /\ WF_vars("process" \in up /\ (Ticks \/ PassStep(1) \/ TimesOut)
               /\ UNCHANGED <<marketVars, moves, faults, keeperVars, botVars, viewerVars, besides>>)
    /\ \A k \in Scanners :
          WF_vars("index" \in up /\ Index!SyncStep(k) /\ UNCHANGED <<worldVars, up>>)
    /\ WF_vars((BotMining \/ BookStep) /\ UNCHANGED <<moves, faults, keeperVars, viewerVars, processVars, besides>>)

LiveSpec == Spec /\ Fairness

----------------------------------------------------------------------------
TypeOK ==
    /\ PositionsTypeOK
    /\ KeeperTypeOK
    /\ BotTypeOK
    /\ Index!TypeOK
    /\ up \in Deployments

(* A run is reported as a success, and lastRunAt moved, only when the index *)
(* has been brought up to date since the run began, by whomever.            *)
(* (FundingKeeper.accrue.)                                                  *)
SuccessIsReal == run.success => accrued

(* No holder stays seizable for ever without a flag: not behind an accrual  *)
(* that keeps failing, nor behind a holder that cannot be flagged.          *)
(* (runOnce, checkHolders.)                                                 *)
SeizableIsFlagged ==
    \A h \in Holders :
        []<>("keeper" \in up => ~(h \in weak \ flagged /\ ~motion))

(* No position stays flagged for ever that the bot could claim, whichever   *)
(* others it cannot.  (runCycle, tryClaim.)                                 *)
FlaggedIsClaimed ==
    \A h \in Holders : []<>("bot" \in up => ~CanClaim(h))

(* Once the market rests, GET /claimable shows who can be claimed and for   *)
(* how much, and goes on showing it: polls that overlap, or fail, or end in *)
(* another order than they began in, leave nothing behind.  (poll.)         *)
ClaimableIsShown == <>[]("viewer" \in up => shown = Claimable)

(* A process with a wallet has one transaction out at a time, whatever its  *)
(* timer does, and exits cleanly only with none.  (runAll, cycle, stop.)    *)
OneStream ==
    host # "viewer" =>
        /\ Cardinality({i \in DOMAIN passes : passes[i].tx = "out"}) <= 1
        /\ exitCode = "clean" => passes = << >>

(* Every market of the directory gets its turn again and again, whatever    *)
(* becomes of the others' turns, until a signal; and then the process ends, *)
(* whatever hangs.  (runAllInner, runCycle, poll; shutdown.ts.)             *)
ServesOrEnds ==
    \A m \in Markets :
        []<>("process" \in up /\ Alive =>
                shutdown = 0 /\ (m \in Served => \E i \in DOMAIN passes : m \in passes[i].turn))

(* holder-index.ts:18-19: a stored cursor says that every recipient up to   *)
(* there is in the stored set, and a keeper's own progress, scanned or      *)
(* loaded, that it knows them.  A holder passed over would never be flagged.*)
(* It holds up to the overlap, which every sync scans again, whatever dies  *)
(* between the two writes and whoever's progress this is.                   *)
NoHolderPassedOver ==
    /\ Index!Covered(cursor) \subseteq stored
    /\ \A k \in Scanners : Index!Covered(synced[k]) \subseteq known[k]

(* Whoever stays a recipient is found by every keeper, after any number of  *)
(* crashes, failures, late nodes and short reorganisations that come to an  *)
(* end.                                                                     *)
EveryHolderIsFound ==
    \A k \in Scanners, h \in Indexed :
        []<>("index" \in up => (h \in Index!Recipients(DOMAIN chain) => h \in known[k]))

(* Whatever YES the bot ends up with, it gets to offer all of it and no     *)
(* more, after fills, lost answers, cancels and fills of cancelled asks.    *)
(* (sell, isAlreadyCovered.)                                                *)
OffersWhatItHolds ==
    []<>("bot" \in up /\ yes[Bot] > 0 /\ Bot \notin flagged => OnOffer = yes[Bot])
============================================================================
