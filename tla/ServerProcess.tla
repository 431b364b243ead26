---------------------------- MODULE ServerProcess ----------------------------
(***************************************************************************)
(* The process of the order book server around its book: startup, the      *)
(* directory of markets, each market's services with their copy of its     *)
(* fee rate, the POSTs under way, and the shutdown on a signal (main.ts,   *)
(* feeSource.ts, marketServices.ts, shutdown.ts, server.ts).  In legacy    *)
(* mode there is one market, whose services the process makes itself.      *)
(*                                                                         *)
(* What a POST asks of the book and of the chain is in OrderBook and       *)
(* CLOBSettlement; here it may be refused at either.                       *)
(***************************************************************************)
EXTENDS Integers, Sequences, FiniteSets, Functions

CONSTANTS
    Markets,
    LegacyMarket,
    Rates,              \* fee rates of the chain
    EnvFeeBps,          \* FEE_BPS of the environment
    Posts,              \* the POSTs that are ever sent
    MaxFeeChanges,      \* bounds the admin's changes of a rate
    MaxSignals,         \* bounds the signals
    MaxServerFaults     \* bounds failed and late reads, Redis errors, crashes

ASSUME ServerAssumption ==
    /\ LegacyMarket \in Markets
    /\ {MaxFeeChanges, MaxSignals, MaxServerFaults} \subseteq Nat

VARIABLES
    legacyMode,     \* MARKET_REGISTRY_ADDRESS is not set
    registered,     \* the markets of the registry
    rates,          \* by market: the rates its CLOBSettlement has had, the last in force
    known,          \* the markets of the process' directory
    services,       \* by market that has them: its fee source
    stage,          \* of the process
    posts,          \* by POST: where it is and what it has written
    signals, mishaps

serverVars == <<legacyMode, registered, rates, known, services, stage, posts, signals, mishaps>>

chainVars == <<legacyMode, registered, rates>>
memoryVars == <<known, services>>
boundVars == <<signals, mishaps>>

Mishap == mishaps < MaxServerFaults /\ mishaps' = mishaps + 1

FeeBps(m) == rates[m][Len(rates[m])]

----------------------------------------------------------------------------
(* Fee sources.  A read under way is "first" or "next"; since is how many   *)
(* rates there were when it began.                                          *)

(* The constructor, and start() up to its read. *)
NewFeeSource(m) ==
    [feeBps |-> EnvFeeBps, timer |-> FALSE, reading |-> "first", since |-> Len(rates[m])]

(* create, for those of the markets that have none yet. *)
WithServices(S) ==
    [m \in DOMAIN services \union S |->
        IF m \in DOMAIN services THEN services[m] ELSE NewFeeSource(m)]

Started(m) == m \in DOMAIN services /\ services[m].reading # "first"

(* Mutant: a first read that fails leaves no timer. *)
FeeReadOverUnlessRead(m, bps) ==
    services' = [services EXCEPT ![m].feeBps = bps, ![m].reading = "none",
                                 ![m].timer = (@ \/ bps # EnvFeeBps)]

(* The end of refreshOnce; the first time the timer is set after it, and    *)
(* whether or not the read succeeded.                                       *)
FeeReadOver(m, bps) ==
    services' = [services EXCEPT ![m].feeBps = bps, ![m].reading = "none", ![m].timer = TRUE]

Reading(m) == m \in DOMAIN services /\ services[m].reading # "none"

FeeReadAnswered(m) ==
    /\ Reading(m)
    /\ \E i \in services[m].since .. Len(rates[m]) : FeeReadOver(m, rates[m][i])
    /\ UNCHANGED <<chainVars, known, stage, posts, boundVars>>

(* The node is behind. *)
FeeReadLate(m) ==
    /\ Reading(m)
    /\ Mishap
    /\ \E i \in 1 .. services[m].since - 1 : FeeReadOver(m, rates[m][i])
    /\ UNCHANGED <<chainVars, known, stage, posts, signals>>

(* An error, a rate out of range or no answer in time: the environment's    *)
(* rate at first, the last good one later.                                  *)
FeeReadFails(m) ==
    /\ Reading(m)
    /\ Mishap
    /\ FeeReadOver(m, IF services[m].reading = "first" THEN EnvFeeBps ELSE services[m].feeBps)
    /\ UNCHANGED <<chainVars, known, stage, posts, signals>>

----------------------------------------------------------------------------
(* The process.  Its shutdown has four steps: the HTTP server, the registry *)
(* with its timers, the process' own fee source, Redis.                     *)

ShutdownSteps == <<"fastify", "registry", "fee-source", "quit">>

ShuttingDown == \E i \in DOMAIN ShutdownSteps : stage = ShutdownSteps[i]

FeeTimerTicks(m) ==
    /\ m \in DOMAIN services
    /\ services[m].timer /\ services[m].reading = "none"
    /\ services' = [services EXCEPT ![m].reading = "next", ![m].since = Len(rates[m])]
    /\ UNCHANGED <<chainVars, known, stage, posts, boundVars>>

BootDirectory == IF legacyMode THEN {LegacyMarket} ELSE {}

(* In legacy mode the fee source is made and started before anything else.  *)
BootServices == [m \in BootDirectory |-> NewFeeSource(m)]

Starts ==
    /\ stage = "down"
    /\ stage' = "connecting"
    /\ known' = BootDirectory
    /\ services' = BootServices
    /\ UNCHANGED <<chainVars, posts, boundVars>>

GoesOn(next) == stage' = next /\ UNCHANGED <<chainVars, memoryVars, posts, boundVars>>

Connects == stage = "connecting" /\ (legacyMode => Started(LegacyMarket)) /\ GoesOn("sweep")

FirstSweepOver == stage = "sweep" /\ GoesOn(IF legacyMode THEN "listening" ELSE "directory")

(* directory.start and the beginning of sync.  A first read that fails      *)
(* leaves the directory empty.                                              *)
ReadsDirectory(markets) ==
    /\ stage = "directory"
    /\ stage' = "services"
    /\ known' = markets
    /\ services' = WithServices(markets)
    /\ UNCHANGED <<chainVars, posts, signals>>

Listens == stage = "services" /\ (\A m \in DOMAIN services : Started(m)) /\ GoesOn("listening")

(* The directory's timer. *)
RefreshesDirectory(markets) ==
    /\ ~legacyMode
    /\ stage \in {"services", "listening", "fastify"}
    /\ known' = markets
    /\ UNCHANGED <<chainVars, services, stage, posts, signals>>

(* The sync timer, and GET /health, make what a market lacks. *)
SyncsServices ==
    /\ ~legacyMode
    /\ stage \in {"listening", "fastify"}
    /\ services' = WithServices(known)
    /\ UNCHANGED <<chainVars, known, stage, posts, boundVars>>

----------------------------------------------------------------------------
(* POST /order.                                                             *)

Pending == {p \in Posts : posts[p].at \in {"checks", "save", "mark", "list"}}

Steps(p, from, to, writes) ==
    /\ posts[p].at = from
    /\ posts' = [posts EXCEPT ![p].at = to, ![p].written = @ \union writes]
    /\ UNCHANGED <<chainVars, known, stage, boundVars>>

(* The market is looked up, and its services, which may be new. *)
PostArrives(p) ==
    /\ stage = "listening"
    /\ \E m \in known :
          /\ posts[p].at = "unsent"
          /\ posts' = [posts EXCEPT ![p].at = "checks"]
          /\ services' = WithServices({m})
    /\ UNCHANGED <<chainVars, known, stage, boundVars>>

(* The nonce, the signature and the pre-filter are good, or one is not.     *)
PostPasses(p) == Steps(p, "checks", "save", {}) /\ UNCHANGED services

PostRefused(p) == Steps(p, "checks", "refused", {}) /\ UNCHANGED services

PostSaved(p) == Steps(p, "save", "mark", {"order"}) /\ UNCHANGED services

NonceMarked(p) == Steps(p, "mark", "list", {"nonce"}) /\ UNCHANGED services

PostListed(p) == Steps(p, "list", "created", {"listing"}) /\ UNCHANGED services

PostStep(p) ==
    /\ stage \in {"listening"} \union Range(ShutdownSteps)
    /\ \/ PostRefused(p) \/ PostPasses(p)
       \/ PostSaved(p) \/ NonceMarked(p) \/ PostListed(p)

(* Redis refuses a command: the answer is an error. *)
PostFails(p) ==
    /\ Mishap
    /\ posts[p].at \in {"checks", "save", "mark", "list"}
    /\ posts' = [posts EXCEPT ![p].at = "failed"]
    /\ UNCHANGED <<chainVars, memoryVars, stage, signals>>

----------------------------------------------------------------------------
(* The process ends, and with it what it was doing.                         *)
Ends(code) ==
    /\ stage' = "down"
    /\ known' = {}
    /\ services' = << >>
    /\ posts' = [p \in Posts |-> IF p \in Pending THEN [posts[p] EXCEPT !.at = code] ELSE posts[p]]
    /\ UNCHANGED chainVars

(* Before it listens, and again during the shutdown, a signal ends it.      *)
Signal ==
    /\ stage # "down"
    /\ signals < MaxSignals /\ signals' = signals + 1
    /\ IF stage = "listening"
       THEN stage' = "fastify" /\ UNCHANGED <<chainVars, memoryVars, posts>>
       ELSE Ends("forced")
    /\ UNCHANGED mishaps

(* Timers of the registry mode are stopped in step 2, the legacy mode's fee *)
(* source in step 3; a source whose first read is under way sets its timer  *)
(* afterwards.                                                              *)
StopsTimers(step) ==
    services' = IF step = (IF legacyMode THEN "fee-source" ELSE "registry")
                THEN [m \in DOMAIN services |-> [services[m] EXCEPT !.timer = FALSE]]
                ELSE services

ShutsDownTo(i) == stage' = ShutdownSteps[i] /\ UNCHANGED <<chainVars, known, posts>>

(* Mutant: the HTTP server is not waited for. *)
StepOverAnyway ==
    \E i \in DOMAIN ShutdownSteps :
        /\ stage = ShutdownSteps[i]
        /\ IF i < Len(ShutdownSteps) THEN StopsTimers(ShutdownSteps[i]) /\ ShutsDownTo(i + 1)
           ELSE Ends("clean")
        /\ UNCHANGED boundVars

(* A step that fails is over too; the HTTP server's is when every request   *)
(* has its answer.                                                          *)
StepOver ==
    \E i \in DOMAIN ShutdownSteps :
        /\ stage = ShutdownSteps[i]
        /\ ShutdownSteps[i] = "fastify" => Pending = {}
        /\ IF i < Len(ShutdownSteps) THEN StopsTimers(ShutdownSteps[i]) /\ ShutsDownTo(i + 1)
           ELSE Ends("clean")
        /\ UNCHANGED boundVars

TimesOut == ShuttingDown /\ Ends("forced") /\ UNCHANGED boundVars

(* A crash at any time; at startup also a Redis that cannot be reached or a *)
(* sweep that fails.                                                        *)
ServerCrashes == stage # "down" /\ Mishap /\ Ends("forced") /\ UNCHANGED signals

----------------------------------------------------------------------------
(* The chain.                                                               *)
SetsFee(m) ==
    /\ FoldFunction(+, 0, [n \in Markets |-> Len(rates[n]) - 1]) < MaxFeeChanges
    /\ \E bps \in Rates : rates' = [rates EXCEPT ![m] = Append(@, bps)]
    /\ UNCHANGED <<legacyMode, registered, memoryVars, stage, posts, boundVars>>

Registers(m) ==
    /\ m \notin registered
    /\ registered' = registered \union {m}
    /\ UNCHANGED <<legacyMode, rates, memoryVars, stage, posts, boundVars>>

ServerInit ==
    /\ legacyMode \in BOOLEAN
    /\ registered \in {{}, {LegacyMarket}}
    /\ rates \in [Markets -> {<<bps>> : bps \in Rates}]
    /\ stage = "connecting"
    /\ known = BootDirectory
    /\ services = BootServices
    /\ posts = [p \in Posts |->
                  [at |-> "unsent", written |-> {}]]
    /\ signals = 0 /\ mishaps = 0

(* What goes on by itself while nothing fails. *)
Serves ==
    \/ Starts \/ Connects \/ FirstSweepOver \/ Listens
    \/ (ReadsDirectory(registered) \/ RefreshesDirectory(registered)) /\ UNCHANGED mishaps
    \/ SyncsServices

ServerFault ==
    \/ \E m \in Markets : FeeReadLate(m) \/ FeeReadFails(m)
    \/ \E S \in SUBSET registered :
          Mishap /\ (ReadsDirectory(S) \/ RefreshesDirectory(S))
    \/ \E p \in Posts : PostFails(p)
    \/ ServerCrashes

ServerNext ==
    \/ Serves \/ ServerFault
    \/ \E m \in Markets : FeeReadAnswered(m) \/ FeeTimerTicks(m) \/ SetsFee(m) \/ Registers(m)
    \/ \E p \in Posts : PostArrives(p) \/ PostStep(p)
    \/ Signal \/ StepOver \/ TimesOut
=============================================================================
