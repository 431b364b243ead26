----------------------------- MODULE OrderEntry -----------------------------
(***************************************************************************)
(* What surrounds the book of OrderBook: the page on which a maker signs   *)
(* and cancels, the pages next to it whose buttons act on the chain alone, *)
(* the process of the server, and the sweep of the keys that the server    *)
(* before it wrote.  They share the book, which is the subject of          *)
(* OrderBook, and the allowance that a mint of the one page leaves to the  *)
(* others, which may start with it; so each is looked at by itself.        *)
(***************************************************************************)
EXTENDS LegacySweep, ServerProcess, OrderPanel, AccountPages

CONSTANT Parts      \* of "page", "pages", "process", "sweep"

VARIABLE part

vars == <<sweepVars, serverVars, panelVars, pagesVars, part>>

Init ==
    /\ SweepInit
    /\ ServerInit
    /\ PanelInit
    /\ PagesInit
    /\ part \in Parts

Sweep(step) == part = "sweep" /\ step /\ UNCHANGED <<serverVars, panelVars, pagesVars, part>>

Process(step) == part = "process" /\ step /\ UNCHANGED <<sweepVars, panelVars, pagesVars, part>>

Page(step) == part = "page" /\ step /\ UNCHANGED <<sweepVars, serverVars, pagesVars, part>>

Beside(step) == part = "pages" /\ step /\ UNCHANGED <<sweepVars, serverVars, panelVars, part>>

Next == Sweep(SweepNext) \/ Process(ServerNext) \/ Page(PanelNext) \/ Beside(PagesNext)

Spec == Init /\ [][Next]_vars

(* The sweep's timer fires for ever and every tenth sweep takes the nonces  *)
(* too; Redis keeps time.  The server's awaits end, its timers fire for     *)
(* ever, and the platform starts it again.  The pages owe nothing.          *)
Fairness ==
    /\ \A r \in Replicas : WF_vars(Sweep(SweepStep(r)))
    /\ WF_vars(Sweep(LockExpires(TRUE)))
    /\ WF_vars(Process(Serves))
    /\ WF_vars(Process(StepOver \/ TimesOut))
    /\ \A m \in Markets :
          WF_vars(Process(FeeReadAnswered(m))) /\ WF_vars(Process(FeeTimerTicks(m)))

LiveSpec == Spec /\ Fairness

----------------------------------------------------------------------------
(* An order accepted by either server and removed by nobody is in one of    *)
(* the books, with its JSON, and a nonce accepted is remembered, whichever  *)
(* command of whichever sweep is the last before a crash and whatever the   *)
(* old server does in between.  (migrateLegacyKeys.)                        *)
NothingLost ==
    /\ \A o \in posted \ removed : json[o] # "none" /\ o \in legacy \union book
    /\ posted \subseteq oldNonces \union nonces
    /\ \A o \in book : json[o] # "plain"

(* Whatever the old server still writes, the legacy keys are empty in the   *)
(* end: no crash leaves the lock, no sweep leaves an order for good.        *)
EverythingSwept == <>[](legacy = {} /\ oldNonces = {})

(* An order is in the store whole or not at all, JSON, nonce and listing,   *)
(* once its POST has been answered without an error, and when the process   *)
(* exits cleanly: a redeployment cuts no POST short.  (main.ts, shutdown.ts.) *)
NoOrderHalfPosted ==
    \A p \in Posts :
        posts[p].at \in {"created", "refused", "clean"} =>
            posts[p].written \in {{}, {"order", "nonce", "listing"}}

(* The server ends up up, with the chain's fee rate for every market it     *)
(* serves: after failed and late reads, markets registered while it runs,   *)
(* changes of the rate, restarts.  (FeeSource, MarketServicesRegistry.)     *)
FeesSettle ==
    <>[](part = "process" =>
            /\ stage = "listening"
            /\ \A m \in IF legacyMode THEN {LegacyMarket} ELSE registered :
                  m \in DOMAIN services /\ services[m].feeBps = FeeBps(m))

(* Nothing can fill that its maker has called off or does not know: no      *)
(* order signed before the press of a cancel that was confirmed, also if it *)
(* was still on its way to the book; no NO bid whose fee was sized at a     *)
(* rate the chain never had.  (handleSubmit, cancelAll, useFeeBps.)         *)
OnlyMeantOrdersFill ==
    \A o \in signed :
        CanFill(o) => /\ o \notin retired
                      /\ o.kind = "buyNO" => \E i \in DOMAIN feeRates : feeRates[i] = o.rate

(* A claim costs the account no more USDC than the most that the list has  *)
(* shown it, and the padding; nor does a cure, unless what it takes is of   *)
(* an allowance for a mint that was not carried out, which is less than     *)
(* twice the most a mint was for: whatever accrues between the read and the *)
(* transaction, in whatever order cures and mints set the one allowance,    *)
(* and whatever tries that failed have left.  (handleCure, handleClaim,     *)
(* ensureAllowance.)                                                        *)
NeverMoreThanAgreed ==
    /\ taken["claim"] <= quoted["claim"] + quoted["claim"] \div 100 + 1
    /\ \/ taken["cure"] <= quoted["cure"] + (quoted["cure"] * 5) \div 1000 + 1
       \/ taken["cure"] < 2 * quoted["mint"]

(* frontend/app/docs/liquidations-and-cure/page.tsx:80: the portfolio shows *)
(* an approve and cure flow whenever a position is locked.  So a read that  *)
(* finds the position locked has the flow offered, unless it is under way.  *)
(* (The cureStatus of PositionCard.)                                        *)
CureIsOffered ==
    [][ /\ portfolio' # portfolio
        /\ portfolio'.account.locked /\ portfolio'.account.yes > 0
        /\ button'["cure"] # "pending"
        => CureOffered' ]_vars
=============================================================================
