--------------------------- MODULE KeeperProcess ---------------------------
(***************************************************************************)
(* The processes of backend/keepers around their markets: the timer, the   *)
(* pass over every market of the directory, and the shutdown on a signal   *)
(* (FundingKeeperService, LiquidatorBot, LiquidationKeeperService,         *)
(* shutdown.ts).  What a market's turn does is FundingKeeper,              *)
(* LiquidatorBot and LiquidationKeeper; here it may send a transaction,    *)
(* and it succeeds or fails.                                               *)
(***************************************************************************)
EXTENDS Integers, FiniteSets, Sequences, SequencesExt

CONSTANTS
    Markets,
    Hosts,          \* the services to choose from
    MaxPasses,      \* bounds the passes of the viewer that overlap
    MaxChanges      \* bounds the changes of the directory

ASSUME ProcessAssumption ==
    /\ Hosts \subseteq {"keeper", "bot", "viewer"}
    /\ {MaxPasses, MaxChanges} \subseteq Nat

VARIABLES
    host,           \* which of the services this is
    directory,      \* by market: the entry it knows of
    changes,
    passes,         \* under way, the oldest first
    tracked,        \* the last pass started is under way, and stop() awaits it
    stopped,
    shutdown,       \* 0 before a signal, then the step of the shutdown
    exitCode        \* "running", then "clean" or "forced"

processVars == <<host, directory, changes, passes, tracked, stopped, shutdown, exitCode>>

ProcessInit ==
    /\ host \in Hosts
    /\ directory \in [Markets -> {"none", "active", "inactive"}]
    /\ changes = 0
    /\ passes = << >>
    /\ tracked = FALSE
    /\ stopped = FALSE
    /\ shutdown = 0
    /\ exitCode = "running"

Alive == exitCode = "running"

----------------------------------------------------------------------------
(* The directory is refreshed on a timer of its own, from a node that may   *)
(* be behind.                                                               *)
DirectoryChanges ==
    /\ Alive
    /\ changes < MaxChanges
    /\ changes' = changes + 1
    /\ \E m \in Markets, e \in {"none", "active", "inactive"} :
          directory' = [directory EXCEPT ![m] = e]
    /\ UNCHANGED <<host, passes, tracked, stopped, shutdown, exitCode>>

(* Carry accrues on active markets; positions are claimed, and shown, on    *)
(* all that are known.                                                      *)
ActiveMarkets == {m \in Markets : directory[m] = "active"}

KnownMarkets == {m \in Markets : directory[m] # "none"}

Served == IF host = "keeper" THEN ActiveMarkets ELSE KnownMarkets

(* The bot looks at every market, then claims, then sells.                  *)
Phases == IF host = "bot" THEN << "look", "claim", "sell" >> ELSE << "run" >>

(* The markets of a pass, those its phase has yet to turn to, and those     *)
(* whose turn it is, with the transaction of that turn, which stands for all *)
(* it sends.                                                                *)
NewPass == [phase |-> 1, live |-> Served, todo |-> Served, turn |-> {}, tx |-> "none"]

Starts ==
    /\ passes' = Append(passes, NewPass)
    /\ tracked' = TRUE
    /\ UNCHANGED <<host, directory, changes, stopped, shutdown, exitCode>>

(* Mutant: a tick starts a pass whether or not one is under way. *)
TicksAnyway == Alive /\ ~stopped /\ Len(passes) < MaxPasses /\ Starts

(* A tick while a pass is under way joins it; the viewer's starts another.  *)
Ticks ==
    /\ Alive /\ ~stopped
    /\ IF host = "viewer" THEN Len(passes) < MaxPasses ELSE passes = << >>
    /\ Starts

----------------------------------------------------------------------------
(* The i-th pass.                                                           *)

Becomes(i, pass) ==
    /\ passes' = [passes EXCEPT ![i] = pass]
    /\ UNCHANGED <<host, directory, changes, tracked, stopped, shutdown, exitCode>>

(* One market at a time where transactions are sent, all at once elsewhere; *)
(* once stopped the keeper turns to no further one.                         *)
Turns(i, m) ==
    /\ m \in passes[i].todo
    /\ host = "viewer" \/ passes[i].turn = {}
    /\ ~(host = "keeper" /\ stopped)
    /\ Becomes(i, [passes[i] EXCEPT !.todo = @ \ {m}, !.turn = @ \union {m}, !.tx = "none"])

SendsTx(i) ==
    /\ host # "viewer"
    /\ passes[i].turn # {} /\ passes[i].tx = "none"
    /\ Phases[passes[i].phase] # "look"
    /\ Becomes(i, [passes[i] EXCEPT !.tx = "out"])

(* The receipt, or the end of waiting for it. *)
TxAnswered(i) ==
    /\ passes[i].tx = "out"
    /\ Becomes(i, [passes[i] EXCEPT !.tx = "answered"])

TurnOver(i, m) == m \in passes[i].turn /\ passes[i].tx # "out"

Succeeds(i, m) ==
    /\ TurnOver(i, m)
    /\ Becomes(i, [passes[i] EXCEPT !.turn = @ \ {m}])

(* Mutant: what a market's turn throws ends the pass. *)
FailsForAll(i, m) ==
    /\ TurnOver(i, m)
    /\ Becomes(i, [passes[i] EXCEPT !.turn = {}, !.todo = {}])

(* A failure is the market's own; what the bot could not look at it leaves  *)
(* alone for the rest of the cycle.                                         *)
Fails(i, m) ==
    /\ TurnOver(i, m)
    /\ Becomes(i, [passes[i] EXCEPT !.turn = @ \ {m},
                                    !.live = IF Phases[passes[i].phase] = "look"
                                             THEN @ \ {m} ELSE @])

PhaseOver(i) ==
    /\ passes[i].turn = {}
    /\ passes[i].todo = {} \/ (host = "keeper" /\ stopped)

NextPhase(i) ==
    /\ PhaseOver(i)
    /\ passes[i].phase < Len(Phases)
    /\ Becomes(i, [passes[i] EXCEPT !.phase = @ + 1, !.todo = passes[i].live])

PassEnds(i) ==
    /\ PhaseOver(i)
    /\ passes[i].phase = Len(Phases)
    /\ passes' = RemoveAt(passes, i)
    /\ tracked' = (tracked /\ i # Len(passes))
    /\ UNCHANGED <<host, directory, changes, stopped, shutdown, exitCode>>

PassStep(i) ==
    /\ Alive
    /\ i \in DOMAIN passes
    /\ \/ \E m \in Markets : Turns(i, m) \/ Succeeds(i, m) \/ Fails(i, m)
       \/ SendsTx(i) \/ TxAnswered(i) \/ NextPhase(i) \/ PassEnds(i)

----------------------------------------------------------------------------
ShutdownSteps == << "service", "http server", "registry", "holder index" >>

Steps == Len(ShutdownSteps)

(* stop() of the service resolves with the pass it awaits; the other steps  *)
(* wait for nothing that is modelled.                                       *)
StepResolves == ShutdownSteps[shutdown] = "service" => ~tracked

Exits(code) ==
    /\ exitCode' = code
    /\ UNCHANGED <<host, directory, changes, passes, tracked, stopped>>

(* A second signal ends the process at once. *)
Signal ==
    /\ Alive
    /\ IF shutdown = 0
       THEN /\ shutdown' = 1
            /\ stopped' = TRUE
            /\ UNCHANGED <<host, directory, changes, passes, tracked, exitCode>>
       ELSE Exits("forced") /\ UNCHANGED shutdown

(* Mutant: stop() does not wait. *)
StepOverAnyway ==
    /\ Alive
    /\ shutdown \in 1 .. Steps
    /\ IF shutdown < Steps
       THEN /\ shutdown' = shutdown + 1
            /\ UNCHANGED <<host, directory, changes, passes, tracked, stopped, exitCode>>
       ELSE Exits("clean") /\ UNCHANGED shutdown

(* A step that fails is over too; after the last the process exits.         *)
StepOver ==
    /\ Alive
    /\ shutdown \in 1 .. Steps
    /\ StepResolves
    /\ IF shutdown < Steps
       THEN /\ shutdown' = shutdown + 1
            /\ UNCHANGED <<host, directory, changes, passes, tracked, stopped, exitCode>>
       ELSE Exits("clean") /\ UNCHANGED shutdown

(* The budget of all steps together. *)
TimesOut == Alive /\ shutdown \in 1 .. Steps /\ Exits("forced") /\ UNCHANGED shutdown

ProcessStep ==
    \/ Ticks \/ DirectoryChanges
    \/ \E i \in DOMAIN passes : PassStep(i)
    \/ Signal \/ StepOver \/ TimesOut
============================================================================
