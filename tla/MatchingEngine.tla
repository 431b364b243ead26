--------------------------- MODULE MatchingEngine ---------------------------
(***************************************************************************)
(* The matching engine and its settler (src/backend/matching-engine):      *)
(* cycles that fetch the book and match a snapshot of it, a queue of       *)
(* settlements run one at a time, each of which estimates, submits, waits  *)
(* for the receipt and writes the fill back to Redis, the transactions it  *)
(* has sent, and the chain that mines them.                                *)
(*                                                                         *)
(* JavaScript runs to the next await: an action is the code between two.   *)
(* A cycle is not awaited before the next one starts, so several overlap.  *)
(* A signal lets what is under way end and then the process, and another    *)
(* starts: a redeployment.                                                  *)
(* Failures the code handles or is exposed to are the actions of FaultStep; *)
(* MaxFaults bounds how many happen.                                       *)
(*                                                                         *)
(* What the market's ledger thinks of a fill (a flagged party, a seller    *)
(* whose price cannot cover its carry debt) is CreditProtocol's subject:   *)
(* here it may refuse any estimate on account of either party, if          *)
(* LedgerRefuses.                                                          *)
(***************************************************************************)
EXTENDS Matching

CONSTANTS
    Cycles,         \* poll cycles that may be in flight at once
    Unfillable,     \* pairs <<bid, ask>> the contract cannot price
    LedgerRefuses,  \* whether the ledger ever refuses a fill
    Faults,         \* the kinds of failure that happen
    MaxFaults,      \* bound on the failures
    MaxTxs,         \* bound on the transactions ever sent
    MaxExpiries,    \* bound on the incompatible pairs that expire
    MaxRedeploys    \* bound on the redeployments

ASSUME EngineConstants ==
    /\ Unfillable \subseteq Ids \X Ids
    /\ LedgerRefuses \in BOOLEAN
    /\ MaxFaults \in Nat
    /\ MaxTxs \in Nat
    /\ MaxExpiries \in Nat
    /\ MaxRedeploys \in Nat

VARIABLES
    pending,        \* pendingSettlement
    incompatible,   \* pairs the settler found not to fill
    fetched,        \* by cycle in flight: the snapshot it will match
    queue,          \* settlements; the first one is running
    writes,         \* Redis writes issued and not yet done
    txs,            \* transactions broadcast, in the order of their nonces
    drain,          \* what a shutdown is waiting for, if there is one
    faults,         \* failures so far
    expiries,       \* pairs expired so far
    redeploys       \* signals so far

engineVars == <<pending, incompatible, fetched>>
settlerVars == <<queue, writes>>
boundVars == <<drain, faults, expiries, redeploys>>
vars == <<bookVars, engineVars, settlerVars, txs, boundVars>>

Init ==
    /\ BookInit
    /\ pending = {}
    /\ incompatible = {}
    /\ fetched = [c \in {} |-> book]
    /\ queue = <<>>
    /\ writes = {}
    /\ txs = <<>>
    /\ drain = "no"
    /\ faults = 0
    /\ expiries = 0
    /\ redeploys = 0

----------------------------------------------------------------------------
(* The engine                                                              *)

(* GET /orderbook answers a cycle; the answer is under way until it matches. *)
(* Only an active market is polled.  A signal ends the polling, but the     *)
(* fetches under way are answered.                                          *)
CycleFetches(c) ==
    /\ listed["engine"] = "active" /\ listed["server"] # "none"
    /\ drain # "queue"
    /\ c \notin DOMAIN fetched
    /\ fetched' = [d \in DOMAIN fetched \union {c} |-> IF d = c THEN book ELSE fetched[d]]
    /\ UNCHANGED <<bookVars, pending, incompatible, settlerVars, txs, boundVars>>

(* Mutant: fills go one token at a time. *)
SettlementOfOneToken(snapshot, b, a) ==
    [bid |-> b, ask |-> a,
     seenBid |-> snapshot[b], seenAsk |-> snapshot[a],
     tokens |-> 1,
     phase |-> "validate", tx |-> 0, atEnd |-> {}]

(* A settlement remembers the orders as the snapshot had them. *)
Settlement(snapshot, b, a) ==
    [bid |-> b, ask |-> a,
     seenBid |-> snapshot[b], seenAsk |-> snapshot[a],
     tokens |-> Smaller(RemainingIn(snapshot, b), RemainingIn(snapshot, a)),
     phase |-> "validate", tx |-> 0, atEnd |-> {}]

(* Mutant: orders in flight are matched again. *)
ExcludesNobody == {}

(* pendingSettlement as it is when the walk runs. *)
Excluded == pending

Settlements(snapshot, pairs) ==
    [k \in DOMAIN pairs |-> Settlement(snapshot, pairs[k][1], pairs[k][2])]

(* emit("matched"): the settler's listener puts them in its queue. *)
Enqueue(settlements) == queue' = queue \o settlements

(* matchBook: the walk, its marks and the hand-over to the settler's queue   *)
(* run without an await.                                                    *)
CycleMatches(c) ==
    /\ c \in DOMAIN fetched
    /\ LET candidates == Candidates(fetched[c], Excluded, incompatible)
       IN  \E pairs \in PairSequences(candidates) :
              /\ IsWalk(pairs, candidates)
              /\ Enqueue(Settlements(fetched[c], pairs))
              /\ pending' = pending \union UNION {{pairs[k][1], pairs[k][2]} : k \in DOMAIN pairs}
    /\ fetched' = Restrict(fetched, DOMAIN fetched \ {c})
    /\ UNCHANGED <<bookVars, incompatible, writes, txs, boundVars>>

(* INCOMPATIBLE_TTL_MS has passed. *)
Expire(pair) ==
    /\ pair \in incompatible
    /\ expiries < MaxExpiries
    /\ expiries' = expiries + 1
    /\ incompatible' = incompatible \ {pair}
    /\ UNCHANGED <<bookVars, pending, fetched, settlerVars, txs, drain, faults, redeploys>>

----------------------------------------------------------------------------
(* The settler: the settlement at the head of the queue                    *)

Job == queue[1]
Running(phase) == queue # <<>> /\ Job.phase = phase
Parties == {Job.bid, Job.ask}

Continue(job) == queue' = [queue EXCEPT ![1] = job]

(* The attempt ends and the queue goes on with the next; the orders in S    *)
(* go back to matching.                                                     *)
Release(S) ==
    /\ queue' = Tail(queue)
    /\ pending' = pending \ S

(* validatePair: the market is looked up once, when the settlement starts.  *)
(* Orders of one book are a pair the contract takes.                        *)
Validates ==
    /\ Running("validate")
    /\ listed["engine"] = "active"
    /\ Continue([Job EXCEPT !.phase = "estimate"])
    /\ UNCHANGED <<bookVars, engineVars, writes, txs, boundVars>>

(* Mutant: the orders of an inactive market stay out of matching. *)
KeepsOutOfInactive ==
    /\ Running("validate")
    /\ listed["engine"] # "active"
    /\ Release({})
    /\ UNCHANGED <<bookVars, incompatible, fetched, writes, txs, boundVars>>

(* The market is not in the directory any more, or inactive since. *)
FindsMarketClosed ==
    /\ Running("validate")
    /\ listed["engine"] # "active"
    /\ Release(Parties)
    /\ UNCHANGED <<bookVars, incompatible, fetched, writes, txs, boundVars>>

(* What the contract looks at in the orders themselves. *)
Fits(b, a, tokens) ==
    /\ filled[Signed[b]] + tokens <= Size(b)
    /\ filled[Signed[a]] + tokens <= Size(a)

(* The error the contract refuses a fill with, as the settler tells them    *)
(* apart.                                                                   *)
RevertOf(fill) ==
    IF ~Fits(fill.bid, fill.ask, fill.tokens) THEN "FillExceedsRemaining"
    ELSE IF <<fill.bid, fill.ask>> \in Unfillable THEN "SlippageExceeded"
    ELSE "none"

(* Gas estimation runs the call against the chain as it is. *)
Estimates ==
    /\ Running("estimate")
    /\ RevertOf(Job) = "none"
    /\ Continue([Job EXCEPT !.phase = "submit"])
    /\ UNCHANGED <<bookVars, engineVars, writes, txs, boundVars>>

(* Mutant: the pair is not remembered. *)
ForgetsIncompatible ==
    /\ Running("estimate")
    /\ RevertOf(Job) = "SlippageExceeded"
    /\ Release(Parties)
    /\ UNCHANGED <<bookVars, incompatible, fetched, writes, txs, boundVars>>

(* SlippageExceeded or FillTooSmall: nobody's order is at fault. *)
FindsIncompatible ==
    /\ Running("estimate")
    /\ RevertOf(Job) = "SlippageExceeded"
    /\ incompatible' = incompatible \union {<<Job.bid, Job.ask>>}
    /\ Release(Parties)
    /\ UNCHANGED <<bookVars, fetched, writes, txs, boundVars>>

(* FillExceedsRemaining, OrderInvalidated: one of the orders is not what    *)
(* the snapshot said; handleRemaining will read them both from the chain.   *)
FindsOrderChanged ==
    /\ Running("estimate")
    /\ RevertOf(Job) = "FillExceedsRemaining"
    /\ Continue([Job EXCEPT !.phase = "remaining"])
    /\ UNCHANGED <<bookVars, engineVars, writes, txs, boundVars>>

Removal(i) == [id |-> i, gone |-> TRUE, filled |-> 0]
Rewrite(i, n) == [id |-> i, gone |-> FALSE, filled |-> n]

(* pruneOrder, of the orders in S *)
Prunes(S) == {Removal(i) : i \in S}

(* What the chain says has been filled of an order: its size less remaining. *)
OnChain(i) == filled[Signed[i]]

(* FundingShortfall or PositionFrozen: the orders in S are pruned, and the  *)
(* other goes back to matching when that is done.  S is empty when a read   *)
(* after the revert finds nobody flagged.                                   *)
LedgerRefusesFill(S) ==
    /\ LedgerRefuses
    /\ Running("estimate")
    /\ S \subseteq Parties
    /\ Fits(Job.bid, Job.ask, Job.tokens)
    /\ IF S = {}
       THEN Release(Parties) /\ UNCHANGED writes
       ELSE /\ Continue([Job EXCEPT !.phase = "writing", !.atEnd = Parties \ S])
            /\ writes' = writes \union Prunes(S)
            /\ UNCHANGED pending
    /\ UNCHANGED <<bookVars, incompatible, fetched, txs, boundVars>>

(* Mutant: both orders are pruned when the pair cannot fill. *)
PrunesBoth ==
    /\ Running("remaining")
    /\ writes' = writes \union Prunes(Parties)
    /\ Continue([Job EXCEPT !.phase = "writing"])
    /\ UNCHANGED <<bookVars, engineVars, txs, boundVars>>

(* syncRemaining of both orders: a closed one is pruned, one whose filled   *)
(* is news to the settler is rewritten, one that was right is released.     *)
SyncsRemaining ==
    LET seen(i) == IF i = Job.bid THEN Job.seenBid ELSE Job.seenAsk
        known == {i \in Parties : ~Closed(i) /\ OnChain(i) = seen(i)}
    IN  /\ Running("remaining")
        /\ writes' = writes
             \union Prunes({j \in Parties : Closed(j)})
             \union {Rewrite(i, OnChain(i)) :
                       i \in {j \in Parties : ~Closed(j) /\ j \notin known}}
        /\ pending' = pending \ known
        /\ Continue([Job EXCEPT !.phase = "writing"])
        /\ UNCHANGED <<bookVars, incompatible, fetched, txs, boundVars>>

Broadcasts ==
    /\ Len(txs) < MaxTxs
    /\ txs' = Append(txs, [bid |-> Job.bid, ask |-> Job.ask, tokens |-> Job.tokens,
                          status |-> "sent"])

Submits ==
    /\ Running("submit")
    /\ Broadcasts
    /\ Continue([Job EXCEPT !.phase = "receipt", !.tx = Len(txs) + 1])
    /\ UNCHANGED <<bookVars, engineVars, writes, boundVars>>

(* recordFill: on top of what the snapshot had. *)
RecordedFill(i, seen, tokens) ==
    IF seen + tokens >= Size(i) THEN Removal(i) ELSE Rewrite(i, seen + tokens)

(* Mutant: the fill is recorded when the transaction is broadcast. *)
SeesSent ==
    /\ Running("receipt")
    /\ txs[Job.tx].status # "reverted"
    /\ writes' = writes \union {RecordedFill(Job.bid, Job.seenBid, Job.tokens),
                                RecordedFill(Job.ask, Job.seenAsk, Job.tokens)}
    /\ Continue([Job EXCEPT !.phase = "writing"])
    /\ UNCHANGED <<bookVars, engineVars, txs, boundVars>>

SeesFilled ==
    /\ Running("receipt")
    /\ txs[Job.tx].status = "filled"
    /\ writes' = writes \union {RecordedFill(Job.bid, Job.seenBid, Job.tokens),
                                RecordedFill(Job.ask, Job.seenAsk, Job.tokens)}
    /\ Continue([Job EXCEPT !.phase = "writing"])
    /\ UNCHANGED <<bookVars, engineVars, txs, boundVars>>

SeesReverted ==
    /\ Running("receipt")
    /\ txs[Job.tx].status = "reverted"
    /\ Release(Parties)
    /\ UNCHANGED <<bookVars, incompatible, fetched, writes, txs, boundVars>>

(* Mutant: setFilled writes whether or not the order is still there. *)
WriteResurrects(w) ==
    /\ w \in writes
    /\ writes' = writes \ {w}
    /\ IF w.gone
       THEN book' = Without(w.id) /\ UNCHANGED pending
       ELSE /\ book' = [i \in DOMAIN book \union {w.id} |->
                          IF i = w.id THEN w.filled ELSE book[i]]
            /\ pending' = pending \ {w.id}
    /\ UNCHANGED <<serverVars, filled, directoryVars, incompatible, fetched, queue, txs, boundVars>>

(* removeOrder, or setFilled (which rewrites an existing order only) and    *)
(* then the order's release.                                                *)
Write(w) ==
    /\ w \in writes
    /\ writes' = writes \ {w}
    /\ IF w.gone
       THEN book' = Without(w.id) /\ UNCHANGED pending
       ELSE /\ book' = IF w.id \in DOMAIN book THEN [book EXCEPT ![w.id] = w.filled] ELSE book
            /\ pending' = pending \ {w.id}
    /\ UNCHANGED <<serverVars, filled, directoryVars, incompatible, fetched, queue, txs, boundVars>>

Unwritten == {w \in writes : w.id \in Parties}

Finishes ==
    /\ Running("writing")
    /\ Unwritten = {}
    /\ Release(Job.atEnd)
    /\ UNCHANGED <<bookVars, incompatible, fetched, writes, txs, boundVars>>

----------------------------------------------------------------------------
(* The chain: the settler's transactions execute in the order of their      *)
(* nonces, each atomically.                                                 *)

Mined(k) == txs[k].status # "sent"

Executes(k) ==
    LET b == Signed[txs[k].bid]
        a == Signed[txs[k].ask]
    IN  /\ RevertOf(txs[k]) = "none"
        /\ txs' = [txs EXCEPT ![k].status = "filled"]
        /\ filled' = [filled EXCEPT ![b] = @ + txs[k].tokens, ![a] = @ + txs[k].tokens]

Reverts(k) ==
    /\ LedgerRefuses \/ ~Fits(txs[k].bid, txs[k].ask, txs[k].tokens)
    /\ txs' = [txs EXCEPT ![k].status = "reverted"]
    /\ UNCHANGED filled

Mine(k) ==
    /\ ~Mined(k)
    /\ \A j \in 1 .. k - 1 : Mined(j)
    /\ Executes(k) \/ Reverts(k)
    /\ UNCHANGED <<book, serverVars, directoryVars, engineVars, settlerVars, boundVars>>

----------------------------------------------------------------------------
(* Failures                                                                *)

Fault(kind) ==
    /\ kind \in Faults
    /\ faults < MaxFaults
    /\ faults' = faults + 1
    /\ UNCHANGED <<expiries, redeploys>>

(* The RPC node does not answer an estimate or a read, or refuses the       *)
(* submission: nothing was broadcast.                                       *)
GivesUp ==
    /\ Fault("rpc")
    /\ \E phase \in {"estimate", "remaining", "submit"} : Running(phase)
    /\ Release(Parties)
    /\ UNCHANGED <<bookVars, incompatible, fetched, writes, txs, drain>>

(* The transaction is broadcast and the answer is lost. *)
SubmitsUnanswered ==
    /\ Fault("lost_answer")
    /\ Running("submit")
    /\ Broadcasts
    /\ Release(Parties)
    /\ UNCHANGED <<bookVars, incompatible, fetched, writes, drain>>

(* The wait for the receipt runs out; the orders are not released. *)
ReceiptUnknown ==
    /\ Fault("no_receipt")
    /\ Running("receipt")
    /\ Release({})
    /\ UNCHANGED <<bookVars, incompatible, fetched, writes, txs, drain>>

(* Redis refuses a write.  The settlement fails at once, if it is still     *)
(* the one that waits for this write, and its other write goes on alone.    *)
WriteFails(w) ==
    /\ Fault("redis")
    /\ w \in writes
    /\ writes' = writes \ {w}
    /\ IF Running("writing") /\ w \in Unwritten THEN Release({}) ELSE UNCHANGED <<queue, pending>>
    /\ UNCHANGED <<bookVars, incompatible, fetched, txs, drain>>

(* A cycle's fetch fails, or its answer never arrives. *)
FetchFails(c) ==
    /\ Fault("fetch")
    /\ c \in DOMAIN fetched
    /\ fetched' = Restrict(fetched, DOMAIN fetched \ {c})
    /\ UNCHANGED <<bookVars, pending, incompatible, settlerVars, txs, drain>>

(* A directory is refreshed from a node that is behind. *)
DirectoryFallsBack(s) ==
    /\ Fault("late_node")
    /\ RefreshBehind(s)
    /\ UNCHANGED <<book, serverVars, filled, engineVars, settlerVars, txs, drain>>

(* What the process kept in memory is gone, and the next one starts. *)
ProcessIsReplaced ==
    /\ pending' = {}
    /\ incompatible' = {}
    /\ fetched' = [c \in {} |-> book]
    /\ queue' = <<>>
    /\ writes' = {}
    /\ drain' = "no"
    /\ StartsOver("engine")
    /\ UNCHANGED <<book, serverVars, filled, entry, before, switches, txs>>

(* The process dies, or a shutdown takes longer than it may. *)
EngineRestarts == Fault("crash") /\ ProcessIsReplaced

----------------------------------------------------------------------------
(* The shutdown: the cycles first, then the settlements they led to.        *)

SignalArrives ==
    /\ drain = "no"
    /\ redeploys < MaxRedeploys
    /\ drain' = "cycles"
    /\ redeploys' = redeploys + 1
    /\ UNCHANGED <<bookVars, engineVars, settlerVars, txs, faults, expiries>>

(* engine.stop has resolved. *)
CyclesHaveEnded ==
    /\ drain = "cycles"
    /\ DOMAIN fetched = {}
    /\ drain' = "queue"
    /\ UNCHANGED <<bookVars, engineVars, settlerVars, txs, faults, expiries, redeploys>>

(* Mutant: the settlements are not waited for. *)
ExitsWithTheQueue ==
    /\ drain = "queue"
    /\ ProcessIsReplaced
    /\ UNCHANGED <<faults, expiries, redeploys>>

(* NonceQueue.idle: no settlement is queued or running. *)
QueueIdle == queue = <<>>

(* settler.whenIdle has resolved: the process exits. *)
Exits ==
    /\ drain = "queue"
    /\ QueueIdle
    /\ ProcessIsReplaced
    /\ UNCHANGED <<faults, expiries, redeploys>>

----------------------------------------------------------------------------
EngineStep ==
    \/ \E c \in Cycles : CycleFetches(c) \/ CycleMatches(c)
    \/ \E pair \in incompatible : Expire(pair)

SettlerStep ==
    \/ Validates
    \/ FindsMarketClosed
    \/ Estimates
    \/ FindsIncompatible
    \/ FindsOrderChanged
    \/ \E S \in SUBSET Ids : LedgerRefusesFill(S)
    \/ SyncsRemaining
    \/ Submits
    \/ SeesFilled
    \/ SeesReverted
    \/ \E w \in writes : Write(w)
    \/ Finishes

ChainStep == \E k \in DOMAIN txs : Mine(k)

FaultStep ==
    \/ GivesUp
    \/ SubmitsUnanswered
    \/ ReceiptUnknown
    \/ \E w \in writes : WriteFails(w)
    \/ \E c \in Cycles : FetchFails(c)
    \/ \E s \in Services : DirectoryFallsBack(s)
    \/ EngineRestarts

DrainStep == CyclesHaveEnded \/ Exits

OutsideStep ==
    /\ ServerStep \/ MakerStep \/ DirectoryStep
    /\ UNCHANGED <<engineVars, settlerVars, txs, boundVars>>

Next ==
    \/ EngineStep \/ SettlerStep \/ ChainStep
    \/ FaultStep \/ SignalArrives \/ DrainStep
    \/ OutsideStep

Spec == Init /\ [][Next]_vars

(* The poll timer keeps firing, every await of a cycle and of the settler   *)
(* comes to an end, the chain mines what was broadcast, and the directories *)
(* are refreshed.  Users, and failures, owe nothing.                        *)
LiveSpec ==
    /\ Spec
    /\ \A c \in Cycles : WF_vars(CycleFetches(c) \/ CycleMatches(c))
    /\ WF_vars(SettlerStep)
    /\ WF_vars(ChainStep)
    /\ WF_vars(DrainStep)
    /\ \A s \in Services : WF_vars(Refreshes(s) /\ UNCHANGED <<engineVars, settlerVars, txs, boundVars>>)

----------------------------------------------------------------------------
Phases == {"validate", "estimate", "remaining", "submit", "receipt", "writing"}

SettlementType ==
    [bid : Ids, ask : Ids, seenBid : Nat, seenAsk : Nat, tokens : Nat \ {0},
     phase : Phases, tx : Nat, atEnd : SUBSET Ids]

TxType ==
    [bid : Ids, ask : Ids, tokens : Nat \ {0}, status : {"sent", "filled", "reverted"}]

(* The queue runs one settlement at a time, the first. *)
TypeOK ==
    /\ BookTypeOK
    /\ pending \subseteq Ids
    /\ incompatible \subseteq Ids \X Ids
    /\ DOMAIN fetched \subseteq Cycles
    /\ \A c \in DOMAIN fetched : Snapshot(fetched[c])
    /\ queue \in Seq(SettlementType)
    /\ \A k \in DOMAIN queue : k > 1 => queue[k].phase = "validate"
    /\ writes \subseteq [id : Ids, gone : BOOLEAN, filled : Nat]
    /\ txs \in Seq(TxType)
    /\ faults \in 0 .. MaxFaults
    /\ drain \in {"no", "cycles", "queue"}
    /\ expiries \in 0 .. MaxExpiries
    /\ redeploys \in 0 .. MaxRedeploys

(* The book never promises less than is left on chain: what Redis, a        *)
(* snapshot, a settlement and a write under way say is filled, the chain    *)
(* has filled already.  An order's size is then never understated, and one  *)
(* that still has tokens to sell never drops out of matching for the lack   *)
(* of them.  (recordFill, syncRemaining, setFilled.)                        *)
BookNeverAhead ==
    LET confirmed(i, n) == n <= filled[Signed[i]]
    IN  /\ \A i \in DOMAIN book : confirmed(i, book[i])
        /\ \A c \in DOMAIN fetched : \A i \in DOMAIN fetched[c] : confirmed(i, fetched[c][i])
        /\ \A k \in DOMAIN queue : /\ confirmed(queue[k].bid, queue[k].seenBid)
                                   /\ confirmed(queue[k].ask, queue[k].seenAsk)
        /\ \A w \in writes : w.gone \/ confirmed(w.id, w.filled)

(* An order is in at most one settlement that has yet to trade, stays out   *)
(* of matching meanwhile, and does not go into the next one before what the *)
(* last one wrote of it is in Redis.  (pendingSettlement.)                  *)
InFlightOnce ==
    LET ahead == {k \in DOMAIN queue : queue[k].phase # "writing"}
        ids(k) == {queue[k].bid, queue[k].ask}
    IN  /\ \A k \in ahead : ids(k) \subseteq pending
        /\ \A j, k \in ahead : j # k => ids(j) \intersect ids(k) = {}
        /\ \A k \in ahead, w \in writes : w.id \notin ids(k)

(* An order its maker has deleted never comes back, whatever the settler    *)
(* was writing at the time.  (setFilled: "must not resurrect".)             *)
DeletedStaysDeleted == deleted \intersect DOMAIN book = {}

(* Whatever the book believes, the chain sees trades of crossing orders,    *)
(* each as large as both sides still allow.  A fill sent again after a lost *)
(* answer or a restart then finds one of its orders used up, and cannot     *)
(* trade twice.  (remainingTokens, matchMarket; writeContract's catch: a    *)
(* duplicate "would safely revert".)                                        *)
Abstract == INSTANCE Exchange WITH Orders <- SignedOrders
ImplementsExchange == Abstract!Spec

(* The removal policy: unless its maker deletes it, an order leaves the     *)
(* book only when the chain will fill it no more.  Checked where the ledger *)
(* refuses nothing.  (handleRemaining, recordFill, POST /orders/sync.)      *)
RemovedForItsOwnState ==
    [][\A i \in DOMAIN book :
         i \in DOMAIN book' \/ i \in deleted' \/ Closed(i)]_vars

(* A redeployment loses nothing: while nothing else has failed, the process *)
(* exits with every transaction mined and every fill written back.          *)
(* (main.ts: draining "closes that window".)                                *)
DrainLeavesNothing ==
    [][drain = "queue" /\ drain' = "no" /\ faults' = 0 =>
         /\ writes = {}
         /\ \A k \in DOMAIN txs :
              /\ Mined(k)
              /\ txs[k].status = "filled" =>
                   \A i \in {txs[k].bid, txs[k].ask} \intersect DOMAIN book : book[i] > 0]_vars

Tradable ==
    {p \in (Ids \X Ids) \ Unfillable :
        Signed[p[1]].bid /\ ~Signed[p[2]].bid /\ Crosses(p[1], p[2])}

BothOpen(pair) ==
    \A k \in {1, 2} : pair[k] \in DOMAIN book /\ ~Closed(pair[k])

(* Two resting orders of an active market that cross and can be filled do   *)
(* not rest side by side for ever, whatever better-priced order one of them *)
(* cannot be filled with, and whatever a settlement met while the market    *)
(* was not active.  (matchMarket's walk, markIncompatible, validatePair.)   *)
CrossingOrdersTrade ==
    \A pair \in Tradable :
        BothOpen(pair) /\ entry = "active" ~> ~BothOpen(pair) \/ entry # "active"

(* settler.ts, types.ts: an order's "filled" is what the chain has filled,  *)
(* written after each confirmed fill.  With nothing left to settle, write   *)
(* or mine, and nobody having touched an open order on chain but the        *)
(* settler, the book agrees with the chain.                                 *)
BookExactAtRest ==
    queue = <<>> /\ writes = {} =>
        \A i \in DOMAIN book : Closed(i) \/ book[i] = filled[Signed[i]]

(* engine.ts:53-57: an attempt that ends without the order leaving the book *)
(* releases it; nothing stays pending with no settlement to release it.     *)
NothingWedged ==
    \A i \in pending \intersect DOMAIN book :
        \/ \E k \in DOMAIN queue : i \in {queue[k].bid, queue[k].ask}
        \/ \E w \in writes : w.id = i
============================================================================
