# Pari: a verification of the credit prediction market

TLA+ models of the contracts of `contracts/src` and the scripts that deploy them, of
the order book, matching engine, settler and keepers of `backend/`, and of the pages
of `frontend/` that act; TLC runs that check them on small
instances, and TLAPS proofs of what matters most. Paths are relative to the repository root.

## 1. The system

One market is a set of contracts: holders put in USDC and get YES and NO tokens
one for one, trade them through signed orders, and YES holders pay NO holders a
continuous carry that depends on the mark, the market's implied default
probability. Around the contracts run services: an order book, a matching engine
with a settler, and keepers. A web page signs orders and calls the contracts.

| Component | State | Operations | Talks to |
|---|---|---|---|
| Funding index and mark (`CreditMarket.sol`) | mark, stored carry rate, two cumulative indices, last accrual, guard-rails of the mark | `accrueFunding`, `setMark`, `adminSetMark`, `setMarkBounds` | read by every settlement |
| Ledger (`CreditMarket.sol`, `YESToken.sol`, `NOToken.sol`, `OracleRouter.sol`) | balances, index snapshots, recorded debt, seizure flags, USDC, admin switches | `mint`, `redeem`, `settleYES`, `settleFunding`, `cure`, `flagClaimable`, `collectDebt`, `clearLiquidatedPosition`, roles' calls | called by CLOB and LiquidationEngine |
| `CLOBSettlement.sol` | filled and spent per order, nonce floors, fee | `fillOrders`, `cancelOrders`, `setMinNonce`, `setFeeConfig` | settles both parties in the ledger, collects the seller's debt, pays a fee to the fund |
| `LiquidationEngine.sol` | none | `claim` | ledger, fund |
| `InsuranceFund.sol` | reserve, queued withdrawals | `deposit`, `initiateWithdrawal`, `executeWithdrawal`, `coverShortfall` | called by LiquidationEngine, paid by the CLOB |
| `MarketRegistry.sol`, `backend/shared/registry.ts` | list of markets; a cached copy of it | add, deactivate; poll | every service |
| Order book server (`backend/order-book-server`) | orders and used nonces in Redis | POST, DELETE, sync from the chain | read by the engine over HTTP |
| Matching engine, settler (`backend/matching-engine`) | orders pending settlement, incompatible pairs, a queue of fills | poll and match, estimate, submit, wait, record, drain on a signal | server's Redis, chain |
| Server process (`order-book-server/src/main.ts`, `feeSource.ts`, `marketServices.ts`, `shutdown.ts`) | startup stage, directory, a fee rate per market, POSTs under way | start, read fees, sync, POST, shut down | chain, Redis |
| Migration of legacy keys (`order-book-server/src/migration.ts`) | a sweep and its lock in Redis | move the single-market orders and nonces to their market's keys | Redis, next to the old server |
| Holder index (`backend/keepers/holder-index.ts`) | holders and a cursor in Redis, a copy of both in each keeper | scan blocks, store, advance | chain, Redis |
| Funding keeper (`backend/keepers/funding-keeper.ts`) | the run under way | accrue, flag | chain, holder index |
| Liquidator bot (`backend/keepers/liquidator-bot.ts`, `clob-seller.ts`) | the cycle under way; its asks in the book | claim, cancel, resell | chain, holder index, order book |
| Liquidation keeper (`backend/keepers/liquidation-keeper.ts`) | the list of claimable positions | poll, `GET /claimable` | chain, holder index |
| Keeper processes (the services in those files, `keepers/shutdown.ts`) | the pass over the markets, the shutdown | tick, turn to a market, stop | market directory, signals |
| Order panel (`TradePanel.tsx`, `OpenOrders.tsx`) | submits and a cancel under way, what the page has read | approve, mint, sign, POST; cancel one, cancel all | wallet, chain, order book |
| Account pages (`portfolio`, `liquidate`, `admin`) | the status of each button, what the page has read | cure, mint for a sale, redeem, settle, claim, pause, accrue, confirm | wallet, chain |
| Deployment scripts (`contracts/script`) | the files under `deployments/` | deploy, redeploy, add a market | chain, each other's files |

**What is hard.** In the contracts: many settlements round, in an order nobody
chose, and the rounding has to add up; a mark change must not rewrite the past;
anyone may settle or accrue for anyone between any two other calls; a seizure
flag has to freeze a position that five entry points can touch; partial fills
leave caps, debts and floors behind that a later fill must respect; the reserve
is drawn on by claims while withdrawals wait out a timelock. In the services:
snapshots of the book go stale while a fill settles, answers of submitted
transactions get lost, processes die or are replaced between the chain and Redis,
each service learns of a market's deactivation at another time, and two keepers
share one cursor. A keeper works on holders it read a moment ago, against
rivals that do the same, over a node that fails between a transaction and its
receipt. During a deployment the old server writes the keys the new one is moving.
A script checks its work and writes its files before it has sent anything, and what
it sends may stop anywhere. A page acts on what it read some seconds ago, in
handlers that wait for a wallet.

**What makes each part correct.** The index charges what was due, second by
second, and never falls. The ledger stays backed and neither loses nor invents
carry; what a holder owes is not reset by trading; a flag is a lock and is never
left on nothing. An order is never filled beyond its size or limits, and once
closed stays closed. A claim costs a holder its YES side and nothing else. The
reserve is spent once, for a reason. For the services: the book never offers for
long what the chain no longer has, no order stays out of matching without
cause, the chain sees only trades that two orders allow; no holder is missing from the
index behind the cursor, none stays seizable without a flag or claimable without
a claim, and the bot offers the YES it holds, once; no order and no nonce is lost
on the way from the old keys to the new. What is called off cannot fill, nobody pays
more than a page showed, and what a script lists is wired.

Every hazard, at its line, with the properties that address it, is in
`PROJECT.json` under `hazards`.

## 2. The modules

```
Clock ── FundingIndex ─┬─ FundingHistory            MCFundingHistory
                       └─ CreditMarket ─┐
Clock ── InsuranceFund ─────────────────┴─ CreditProtocol     MCCreditProtocol
Clock ── CLOBSettlement ── OrderHistory             MCOrderHistory

MarketDirectory ── OrderBook ── Matching ── MatchingEngine    MCMatchingEngine
                                                 └─ implements Exchange

Positions ─┬─ FundingKeeper ─────┐
           ├─ LiquidatorBot ─────┤
           └─ LiquidationKeeper ─┼─ Keepers          MCKeepers
KeeperProcess ───────────────────┤
HolderIndex (INSTANCE) ──────────┘

LegacySweep ───┐
ServerProcess ─┼─ OrderEntry                         MCOrderEntry
OrderPanel ────┤
AccountPages ──┘

MarketRegistry ── Deployment                         MCDeployment

FundingIndex_proofs ─┬─ FundingHistory_proofs
                     └─ CreditProtocol_proofs
OrderHistory_proofs     MatchingEngine_proofs
Keepers_proofs          OrderEntry_proofs          Deployment_proofs
```

A module `M_proofs` holds the theorems about `M`, and extends it.

A transaction is atomic and a revert changes nothing, so a revert is an action
that is not enabled, and every `require`, `if (...) revert` and failing
transfer on the path of a call is a conjunct of its action. A role (keeper,
admin, oracle) may act at any time. Time is `block.timestamp`: any number of
transactions share a block, and `Clock!Later` moves it on.

* **`FundingIndex`** is the mark and the index. `Accrue` is `_accrueFunding`,
  and is a conjunct of every action whose code calls it. `ProjectedCumYES` is the
  view the guards read. `carryRateFor` calls a library logarithm; the model has a
  table `CarryRate` with the range the contract enforces, and the MC modules fill
  it with the contract's own formula at their precision.
* **`FundingHistory`** makes it a machine of its own and records in history
  variables what the index promises over time: `carryDue`, the integral of the
  rate in force, and `anchorMark`, from where the keeper started.
* **`CreditMarket`** is the ledger. `settleFunding` is split into `CreditPaid`,
  `DebtSettled` and `SettleSnapshots`, because its callers (mint, redeem, a fill,
  a claim) go on to change the debt and the collateral in the same transaction.
* **`InsuranceFund`** is the reserve. `Receive` is shared by a deposit and by the
  fee of a fill.
* **`CreditProtocol`** composes the four contracts of a market. `SellYES` and
  `SellNO` are `_settleFundingAndSwap`; `Claim` is `claim` with
  `clearLiquidatedPosition` and `coverShortfall` in the order the code calls
  them. Here a fill may have any size and price; which ones two orders allow is
  the next module's subject, and leaving it open only adds behaviours.
* **`CLOBSettlement`** is the accounting of orders: sizes, budgets, nonce floors,
  expiry, the price of a fill and the fee, and beside it the pre-filter with which
  the order book server mirrors that arithmetic for a seller in debt (`fee.ts`,
  `runChainPreFilter`). **`OrderHistory`** adds what each order has really traded.

* **`MarketDirectory`** is the market's entry in `MarketRegistry.sol` and each
  service's copy of it (`registry.ts`). `Refresh` is a poll, `RefreshBehind` one
  that a node answers which has not seen the entry's last change, `StartsOver` the
  first read of a new process, which may fail. A failed poll changes nothing.
* **`OrderBook`** is one market's side-by-side book in Redis with the handlers of
  the server that change it, next to `filled`, what the chain says of the same
  orders. A POST takes two steps, because it awaits the signature check and the
  chain between looking at the nonce and marking it; every other handler reads
  and writes what cannot change back under it. `PostRefused` ends a POST that the
  checks in between refuse. A handler finds the market in the server's directory;
  only a POST asks that it be active. An id is in the book while its
  JSON exists, which is what GET returns; the sorted sets are left out.
* **`Matching`** is the walk of `matchMarket` over a snapshot.
* **`MatchingEngine`** is the engine with its settler. JavaScript runs to the next
  `await`, so an action is the code between two of them. `CycleFetches` and
  `CycleMatches` are the two halves of a cycle; `queue` is the `NonceQueue`, whose
  first settlement runs through the phases validate, estimate, submit, receipt, writing, or
  from a refused estimate to one of the four ways the settler handles it;
  `writes` are Redis commands issued and not yet done; `txs` what was
  broadcast, which the chain mines in the order of nonces. A retry of a read is
  part of the read. `FaultStep` has the failures: an RPC error, a lost answer, a
  receipt that never comes, a refused write, a failed fetch, a late node, a crash.
  `drain` is the shutdown on a signal: `CyclesHaveEnded` when `engine.stop`
  resolves, `Exits` when `whenIdle` does, and the next process starts with an empty
  memory. Its timeout, and a second signal, end the process wherever it is: a crash.
  `Withdrawn` and `Lapsing` say which orders users withdraw, so that a run can
  leave that freedom out; `LedgerRefuses` lets the ledger of `CreditProtocol`
  refuse any fill on account of either party. The reads of one GET are taken at
  one moment, and so are the two of `handleRemaining`.
* **`Exchange`** is the abstract specification: the chain as makers see it, on
  which crossing orders trade as much as both allow or end. `MatchingEngine`
  implements it with `filled` as it is (`ImplementsExchange`).

* **`HolderIndex`** is one token's index with the services that share it. An action is a
  read or a write of Redis or a call to the node; the two commands of a commit
  are two actions. A scan may miss the last `Depth` blocks, and these may be
  replaced: a node behind the load balancer and a reorganisation look alike to a
  scan. Blocks are scanned in batches of `BatchSize`, which stands for
  `chunkSize * concurrency`. Seeds, status and the store in memory are left out.
  Redis is taken to keep what it has answered for.
* **`Positions`** is the market as the keepers see it: who holds YES, for whom
  `isSeizable` and `claimable` are true, whose claim the fund cannot cover
  (`sunk`), the mark and the motion flag. `CreditProtocol` has the arithmetic behind
  these; here a position weakens, recovers or sinks at any time, and rivals flag,
  claim and cure. A claim costs the bot the whole value of the position.
* **`FundingKeeper`** is a run: `run` is the call under way with its attempt, `t0`
  and transaction, `unanswered` what was broadcast and is no longer waited for.
  Both phases retry alike and share their actions; `Landed` is where they differ.
  `moved` says whether `lastFundingTime` is past `t0`. `isSeizable` reads the
  projected debt, so it does not depend on the accrual (the comment at
  `funding-keeper.ts:396` says the stored index; `CreditMarket.sol:300` calls `owed`).
* **`LiquidatorBot`** is a cycle: the market, the flagged holders with the price
  the bot expects, the claims one after the other, and the resale. The bot's asks
  are `listed` at the server, `late` (posted, not yet arrived) or `deleted` there
  while a settlement of the engine may still fill them; `shown` is what the server
  says is left of one and `left` what the chain will still take. The server may
  ask for a higher price than the target, any one in the model; the price
  tolerance is equality. Allowances, alerts, counters and the loop over markets
  are left out, and what a pass reads of one holder is read at one moment.
* **`LiquidationKeeper`** is the list of `GET /claimable`: polls that overlap, each
  with the mark it began with, the last to end replacing the list.
* **`KeeperProcess`** is the service around any of the three: the tick, the pass over
  the markets of a directory that changes, one market at a time where transactions
  are sent, and the shutdown. A market's turn is one transaction that ends either way.
* **`Keepers`** composes them, each in a world of its own: the three services over one
  market, the process over several, and the index, instantiated with `Scanners` in
  place of the services.
* **`LegacySweep`** is `migrateLegacyKeys`, a Redis command to an action, run by
  replicas under the lock while the old server posts. The bids and the asks are
  one book, the orders are one maker's, and an order stands for its nonce.
* **`ServerProcess`** is the server from start to exit. A fee source is a rate, a read
  under way and a timer; the read's timeout is shorter than the timer's period, so
  there is one read at a time. A POST is its three writes; what is asked of it before
  them is `OrderBook`'s and `CLOBSettlement`'s subject.
* **`OrderPanel`** is the page of one maker: `handleSubmit` from await to await, several
  at once as far as the button lets them, and the list that cancels. `signed` are all
  orders the wallet has signed, `resting` those in the book. One wallet in one
  browser, whose clock does not go back; to sign takes a millisecond at least.
* **`AccountPages`** is the three pages whose buttons send one call of a contract. A
  handler is a job that outlives the page it was started on; each page acts on what
  it read last. The portfolio's sale mints what the account lacks (`ensureAllowance`,
  then `mint`; what follows is `OrderPanel`'s subject), so cures and mints set the one
  allowance of the market contract, a cure to what it needs and a mint on top of what it
  finds; a mint begun on a trade page may have left one before. The panel of the sale
  lets a submit through until its own read says that the position is locked, so a mint
  may be approved of a locked position and then refused. `quoted` and `taken`
  record the most shown, or to be minted, and the most paid.
* **`OrderEntry`** puts the four beside each other. They meet in the book, which
  is `OrderBook`'s subject, and in the allowance that a mint leaves behind, which
  `AccountPages` may start with, so each is looked at by itself.
* **`MarketRegistry`** is `register` with its checks and claims, as operators over a
  record. **`Deployment`** is a chain of contracts with their roles, the JSON files,
  and the six scripts: `Runs` simulates a script's transactions with its assertions
  and writes its files, `Sends` sends the next one. A dry run stops in between; a
  broadcast may be resumed as long as nothing else was sent, and is given up when
  another script runs. One deployer administers everything, and a contract's address
  is the nonce that created it, which stands for the block number too.

Left out of the contracts: `costBasis` (read by display views only, except that
its division makes an empty first mint revert, which `Mint` keeps), the USDC in
holders' own wallets (a payment a wallet cannot make is a step not taken; what
the contract pays out is modelled and bounded by its balance), signatures and
digests (every order of `Orders` is signed, and is its own digest), recipients
of fees and withdrawals, events and views without a caller. `YESToken` and
`NOToken` refuse transfers between holders except through the contracts that
are modelled, so there is no free transfer to model.

## 3. What the runs check

All runs are exhaustive over their bounds. In the contracts' runs `WAD` is 10 in
place of 1e18 and a year is 1 or 4 seconds in place of 31,536,000: coarse units
make every rounding large enough to break a property that holds only "up to dust".
These runs state no fairness, because nothing on chain is scheduled.
`engine_retries` checks liveness under `LiveSpec`: the poll timer fires for ever
and a fetch answers or fails, so a cycle is taken up again and again; each await
of the settler ends, by an answer or by the failure of its retries; what is
broadcast is mined; each directory is refreshed on its own timer. Users, the
registry's admin and failures are under no fairness. The same holds for
`keepers`: the cron and the poll timers, the turns of a pass, each await of a shutdown
or its timeout, each service's syncs of the index, and the server's writes for the
bot's asks; buyers owe nothing. In `order_entry` the sweep's timer of each replica,
every tenth tick of which takes the nonces too, and the expiry of the lock are fair, and
of the server its startup, its timers, the answers of its fee reads, the steps of its
shutdown, and the platform that starts it again. Their timers are `setInterval` and
cron callbacks that a failed pass leaves running, and every await of a pass ends in an
answer or an exception that is caught. The pages and the deployment owe nothing: their
properties are about safety.

| Run | Bounds | Question |
|---|---|---|
| `funding_history` | three valid marks, two invalid; three guard-rails, one of them invalid; 9 seconds; at most 4 accruals that move time | Does the index charge what was due and stay sound? Can the keeper outrun the guard-rails? |
| `ledger` | two holders, sets of 10, half-position mints, redemptions and fills, two valid marks, two seconds of carry; deposits of 5, one withdrawal of 5, reserve up to 5, timelock 1 | Is every set backed, whatever settles when? Does any step reset the seizure clock, shed debt or take more than the YES side? Does every unit leave the reserve once and for one reason? |
| `roles` | sets of 5, one mark, two seconds, a fill without a fee and one with a fee of 2 of which the fund gets 1, a reserve of at most 1; pauses, cap, motion, credit event at any time; empty burns | Are sets complete before the event, is carry conserved by every step, is a flag a lock and never on nothing? |
| `orders` | five orders of two makers on both tokens, fills of 1 to 3 tokens, fees 0 and 30% (60% refused), floors, cancels, expiry; quotes for debts of 2 and 5 | No overfill; limits hold over an order's life; closed is closed; no quote, the contract's or the server's, is short of fee and debt. |
| `engine_faults` | a bid for 3, an ask of 2 posted twice; the bid deleted and cancelled on chain at any time; any fill refused; one failure of any kind; one redeployment; two transactions | Is the book ever ahead of the chain, an order in two settlements, a deleted order back? Does the chain see anything `Exchange` does not allow? Does a graceful shutdown leave a fill unrecorded? |
| `engine_retries` | a bid for 2, an ask of 1 that it cannot be filled with and one of 2 behind it, the first cancelled on chain at any time; one failure the settler retries, or a late node; one expiry of the pair's mark; a market in any state that is registered or switched once | Is anything left pending or removed on account of another order? Do crossing orders of an active market trade in the end? |
| `keepers` | one of five up: the keeper, the bot or the viewer over two holders and the bot, two marks, one move of the market, two failures of the keeper or one of the bot or the viewer, two attempts, three asks, two polls at once; or the process with two markets, one change of its directory, two passes; or the index of one holder with two services, three blocks, batches of 1, overlap and depth 1, one fault | Is a success real? Does anybody stay seizable or claimable for ever, or wrongly shown? Does the bot offer what it holds? Is there one transaction out at a time, does every market get its turn, does a signal end the process? Does a cursor pass a holder that is not stored, and is every holder found by both? |
| `order_entry` | one part at a time: two orders, two replicas, one fault; two markets, one change of a rate, one signal, one fault, one POST; two clicks, one cancel, 3 ms, one change of the rate, one fault; two presses, two turns of the market, one lost receipt, prices 1 and 4, carry up to 3, mints of 2, one of them left approved before or none | Is anything lost between the keys, and do the old ones run empty? Does the server end up with the right fees, and cut a POST short? Can an order fill that was called off? Does anybody pay more than the page showed or had approved for a mint? |
| `deployment` | three scripts or registrations by hand, one dry run, markets `mstr` and `crwv` by script and a third slug by hand | Do the files name what the registry lists? Is what a script lists wired and registered as it asserted, with a start block that misses nothing? |

Why the bounds are enough to be interesting: two holders are the seller and the
buyer, or the flagged holder and the liquidator, and a trade needs no third; two
seconds are enough to settle one holder, let the index move, and settle the
other; a second mark is enough for a rate change between the two. In `ledger`
the higher mark with the coarse units makes positions seizable after one second,
both with and without a tail beyond their value. The holders are interchangeable,
so the ledger runs use symmetry. `QuietSpec` is `Spec` with the admin switches
untouched; `roles` gives the switches their freedom back in a smaller ledger.
In the engine's runs one bid and two asks make every interesting pair: two
counterparties for one order, one order posted twice, a pair that is skipped.
One cycle in flight is enough for a snapshot to go stale, since the settlements
of the cycles before it run on meanwhile; `stale_snapshot` has two. One failure
is enough for each recovery to start anywhere; the second transaction is the one
sent again. `MaxExpiries` bounds how often the mark on a pair expires: it takes
ten minutes, against half a second for a cycle. `MaxSwitches`: one change of the
registry puts server and engine on different sides of it for as long as either
likes; with the change bounded, a market that stays active is seen by both in the
end. `MaxRedeploys`: one signal at any point of a settlement, with the next process
at work afterwards. `QuoteSizes` and `QuoteDebts` put a debt below, at and above
what the offered tokens carry, on both branches of the fee.

In `keepers` each service meets the other only through the chain, where `Positions`
has rivals that do what the other would, so the run has one up at a time. One
move of the market between any two awaits is a cure, a rival's claim, a motion or
a new mark; three asks are one listed, one deleted and still in a settlement, and one
new. Three blocks let one service be a whole sync ahead of the other, with a block
before the overlap that only the first scan can cover; one fault puts the crash, the
failed commit, the late node or the reorganisation at any point of either sync, and
what the index does for a holder depends on no other. Two overlapping polls are one
that began before a move and one after it. In
`order_entry` the second order is the one the old server adds under a sweep; one
signal, one fault and one POST are a redeployment at any point of a POST; two clicks
and a cancel are an order on its way while the maker calls off the rest; two presses
are a try that failed and the next, or a mint and a cure, and two turns carry that
accrues before each; both ways in which a cure takes of a mint's allowance, one left by
an earlier page and one approved between the read and the cure, are among them. In
`deployment` three runs are a registry and two markets, or a market given up and run
again; MCOrderEntry and MCKeepers fix what a part that is not the subject could start with.

The type invariants of the index, the ledger, the orders, the engine, the keepers and the
deployment are proved (section 4), with `IndexSound`,
`SnapshotsBehindIndex`, `IndexNeverFalls` and `LookupsAgree`, and no run spends a
property on them.

`CreditProtocol!CarryIsConserved` deserves a word. `Surplus` is the USDC of the
contract, plus what YES holders owe at the stored index, less what NO holders
have earned, less par for each YES, scaled so that nothing is rounded. A step may
change it only by the carry the index move charges to YES without an equal NO
(nothing, before the event), and by rounding in the contract's favour: less than
a unit for each of the two sides of the two positions a transaction can settle.
A debt collected twice, forgotten, or netted against a credit already paid shows
up in it at once; `Solvent` then says the total never goes negative before a
credit event.

### Disagreements between the repository and its code

* `par_after_event`. `README.md:23`: YES redeems at par after a credit event.
  `settleYES` burns YES alone, while the index goes on crediting all NO, on the
  assumption of `CreditMarket.sol:128` that the supplies are equal. Once some YES
  has been settled, NO earns more than YES pays, and the last YES cannot be
  redeemed in full.
* `stale_snapshot`. `docs/partial-fills-plan.md:109`: "the next fill waits until
  `filled` is recorded". It waits until `filled` is recorded in Redis, but the
  cycle that matches it may have read the book before that. `recordFill` then
  adds the fill to the old value and the fill in between is lost from the book.
  No failure is needed, only a fetch that straddles the two writes after a fill.
  `BookNeverAhead` and `ImplementsExchange` show that the damage stops there:
  the book errs on the side of offering too much, and the chain refuses that.
* `cure_button`. `frontend/app/docs/liquidations-and-cure/page.tsx:79`: the portfolio
  "shows a live cure-cost estimate and an approve → cure flow whenever your position is
  locked". The button of `PositionCard.tsx:321` is disabled once it has succeeded, and
  nothing sets its status back while the card is on the page. The property is about a
  read that finds the position locked: after a cure the page reads that it is not, the
  position is flagged again, and the next read shows it locked, as it is on chain, with
  a button that says "Cured". Reloading helps.

Met on the way, and not the subject of a run:

* The invariant test says that what a flagged holder owes never decreases
  (`contracts/test/invariant/CreditMarketInvariant.t.sol:290`), and a comment at
  `CreditMarket.sol:448` that settling a flagged holder happens only through `cure`
  and `settleYES`. `settleFunding` is public and takes any user: it nets the
  holder's NO credit and the obligation falls, flag still up. Nobody gains by it.
* `CLOBSettlement.sol:398` calls `_minGrossForNet` the smallest gross that nets the
  floor. The fee rounds down, the inversion does not know it, and it may ask for a
  unit more. `AskCoversItsCosts` says it never asks for less than needed.
* `engine.ts:53`: an attempt that ends without the order being removed releases
  it. A Redis write that rejects ends the attempt in the queue's catch, which
  releases nothing; `engine_faults` has that failure, `engine_retries`, which
  checks `NothingWedged`, does not. The other silent end, a receipt that never
  comes, is deliberate (`settler.ts:382`).
* `server.ts:144`: the pre-filter's check of an order "covers all of its partial
  fills". It does, to a rounding: the contract collects `debt * tokens / held`
  rounded down and leaves the remainder on what the seller still holds. Selling
  four tokens with a debt of two at exactly the quoted floor of two, fills of one
  and one collect nothing, the last fill of two is to pay two out of a price of one,
  and the order is pruned as a `FundingShortfall`. `AskCoversItsCosts` has the
  quote's acceptance and the first fill of any size, for a debt of at most par for all
  the seller holds; a larger one is more than any price below par can pay, and no quote
  covers it.
* `registry.ts:8`: "a refresh can only ADD markets or flip `active`". An answer from a
  node that is behind replaces a newer list, so a refresh may also take a market
  away until the next one; `RefreshBehind` is that, and `CrossingOrdersTrade` says
  the book recovers.
* `RedeployCLOBSettlement.s.sol:24` and `docs/HANDOVER.md:175`: the script revokes the
  old CLOB's roles, and guards against a dry run having written the new address. After
  such a dry run the guard skips the revocation, and the CLOB that was there before
  keeps its three roles. The new CLOB is never granted `OPERATOR_ROLE`.
* `docs/redeploy-batch2-runbook.md:62`: "if a run dies part-way, nothing live references
  the new contracts". An `AddMarket` given up after its grants leaves an engine with
  `LIQUIDATOR_ROLE` on the shared fund. The assertions that runbook asks to see
  printed as "post-broadcast" (`MarketScriptBase.sol:161`) run before anything is sent.
* `TradePanel.tsx:367`: to sell tokens the maker lacks, the panel mints shortfall times
  price, though minting is one for one, and the order is not covered. `ensureAllowance`
  says other resting orders "stay covered" (`:328`); an allowance that is enough for this
  order alone is left as it is (`:338`). A second click while the first reads the
  allowance submits again, because the status is still idle. None of this is harmful: what is
  not covered does not fill.
* `liquidation-keeper.ts:170`: `stop` "waits for" a poll in flight; when polls overlap it
  waits for the one that began last. Nothing is lost, the polls only read.
* `server.ts`: the price the book shows for a NO bid uses the fee at the time of the
  POST, and goes stale when the admin changes it. A POST that dies between
  `markNonceUsed` and the listing leaves a nonce used by an order nobody lists;
  `NoOrderHalfPosted` says a graceful shutdown does not do that.
* `liquidator-bot.ts:434`: each Upbet is resold, "so the float never has to cover" the
  sum. Within one cycle all claims come before the sale.
* `PositionCard.tsx`, `LiquidationCard.tsx`: a cure that failed is tried again with the
  amount read before it; a claim may use a larger allowance that an earlier try left, and
  so cost more than the price shown with it, up to the most that was ever shown
  (`NeverMoreThanAgreed`).
* `PositionCard.tsx:241`: a cure that shows nothing due skips the approval, since it
  "won't attempt a transferFrom". It does when carry has accrued since the read. With
  nothing approved the cure is refused; with an allowance that a mint of
  `TradePanel.tsx:371` has set and not used, it is paid out of that. So a cure can cost
  more than was shown and the padding, and `NeverMoreThanAgreed` says how much: less
  than twice the most a mint was for, because `ensureAllowance` adds to the allowance
  only when that is too small.
* `migration.ts:92-97`: an order deleted between the sweep's GET and its SET is
  written back. `LegacySweep` has the race, and none of its properties is about it.

## 4. What is proved

Every theorem holds for all values of the constants that satisfy the assumptions the
modules name: any number of holders, orders, cycles, scanners, replicas, blocks and
clicks, any amounts, marks, fees and bounds. The assumptions say of what kind a constant
is, and little else: that a set of users, orders or polls is finite, that sizes, units
and prices of orders are positive, that a rate is below its mark and a fee below what it
is taken from (what the contracts enforce), that the overlap of two scans is at least
the depth of a reorganisation (what `reorgOverlap` is for, `holder-index.ts:25`), that
"accrue" is not the name of a holder, that the slugs which have a file of `markets/` are
not those the admin registers by hand. The bounds of the runs, such as `MaxFaults`, are
any naturals.

| Module | Theorems (the property of a run each one states) |
|---|---|
| `FundingHistory_proofs` | `TypeCorrect`, `IndexIsSound`, `CarryIsTracked` (`IndexTracksCarryDue`), `KeeperIsSlow` (`KeeperWalkIsSlow`), `IndexIsMonotone` |
| `CreditProtocol_proofs` | `TypeCorrect`, `SnapshotsStayBehind`, `FlagsHoldYES` (`FlaggedHoldsYES`), `FlagIsALock` (`FlaggedYESIsLocked`), `CarryConserved` (`CarryIsConserved`), `MarketSolvent` (`Solvent`), `SetsComplete` (`CompleteSets`), `ClaimTakesYESOnly` (`ClaimTouchesYESOnly`), `ReserveSpentOnce` (`ReserveIsSpentOnce`), `SalesKeepDebtPerYES` (`SaleKeepsDebtPerYES`), `ClockIsNotReset` (`OwedIsNotReset`) |
| `OrderHistory_proofs` | `TypeCorrect`, `NoneOverfilled` (`NeverOverfilled`), `LimitsHold` (`LimitsRespected`), `CostsCovered` (`AskCoversItsCosts`), `ClosedForGood` (`ClosedStaysClosed`) |
| `MatchingEngine_proofs` | `TypeCorrect`, `NeverAhead` (`BookNeverAhead`), `FlightOnce` (`InFlightOnce`), `StaysDeleted` (`DeletedStaysDeleted`), `RefinesExchange` (`ImplementsExchange`), `OwnStateRemoves` (`RemovedForItsOwnState`), `NoneWedged` (`NothingWedged`), `DrainSafe` (`DrainLeavesNothing`) |
| `Keepers_proofs` | `TypeCorrect`, `SuccessReal` (`SuccessIsReal`), `OneAtATime` (`OneStream`), `NoHolderLost` (`NoHolderPassedOver`) |
| `OrderEntry_proofs` | `SweepLosesNothing` (`NothingLost`), `PostsAreWhole` (`NoOrderHalfPosted`), `FillsAreMeant` (`OnlyMeantOrdersFill`), `OnlyAgreedIsTaken` (`NeverMoreThanAgreed`) |
| `Deployment_proofs` | `TypeCorrect`, `FilesNameWhatIsListed` (`FilesMatchRegistry`), `OnlyWiredIsListed` (`ListsOnlyWired`), `LookupsLeadToOneMarket` (`LookupsAgree`) |

**Arithmetic and sums.** The solvers know no non-linear arithmetic, so every product and
every floor division of a proof goes through a lemma at the head of `FundingIndex_proofs`
or `OrderHistory_proofs`: bounds, monotonicity, exactness. The supplies and the surplus
are sums over all holders. What a fold computes for a finite set is an induction over
data, which the library's induction theorems cannot give here; the head of
`CreditProtocol_proofs` does the induction with sets instead of
predicates (the set of numbers, or of subsets, for which a statement holds, is
everything), and so gets that a sum splits off one term and that changes of the terms
add up.

**The index** (`FundingIndex_proofs`, `FundingHistory_proofs`). The inductive invariant
is the conjunction of the four state properties: `IndexTracksCarryDue` needs
`IndexSound` (no time before the last accrual is charged again), and `KeeperWalkIsSlow`
needs that the anchor is not later than the last update. The step that matters is
`AccrualKeepsTrack`: one accrual turns the carry not yet written into index, less a
remainder below a year's unit.

**The ledger** (`CreditProtocol_proofs`). The inductive invariant is type correctness
with `IndexSound`, `SnapshotsBehindIndex` and `FlaggedHoldsYES`. Type correctness is the
absence of underflow: it needs the snapshots behind the index, or a debit would be
negative; the snapshots need the two indices equal, or settling NO against the YES index
would run ahead. `CarryConserved` looks at each action one holder at a time: what a
holder owes or has earned changes by the index's move on its balance and by a rounding
of less than a unit on each side, and a holder the transaction does not touch has no
rounding. Summed up, the index's moves charge YES what they credit to NO while the
supplies are equal, which is `SetsComplete`, and `MarketSolvent` follows.
`ClockIsNotReset` goes through what is owed at the projected index: an accrual writes
down exactly what was projected (`AccrualKeepsProjection`), time only raises it
(`TickRaisesProjection`), and no rounding of a settlement falls below it.

**Orders** (`OrderHistory_proofs`). `LimitsRespected` is inductive with types and
`NeverOverfilled` once it is stated for orders without a fill too (`LimitKept`): each
fill adds to what was traded at the limit, and less than a unit of rounding.
`CostsCovered` is about arithmetic alone: the inversion of the fee, on the branch where
it is charged on the price and on the branch where it is charged on the complement, and
that a share of a debt rounded down is covered by a price rounded up.

**The engine** (`MatchingEngine_proofs`). `EngineInv` says that each snapshot,
settlement and write agrees with the chain of some earlier moment: what it believes
filled is no more than what is (`Told`, `Confirmed`), the orders of a settlement cross
and are ones the server has known (`Crossed`, `KnownInv`), and one that waits for a
receipt waits for its own transaction (`Sound`). `NeverAhead` and `StaysDeleted` are
parts of it. `FlightInv` adds that two settlements of the queue, and the writes after
them, hold disjoint orders, all of them pending. `RefinesExchange` maps each fill the
chain mines to a trade of as much as both orders allow: the engine asks for the least of
what it believes is left of the two, which is no less than what is left (`Ample`), and
the chain refuses more than that. Every other step leaves `filled` alone or ends an
order. `DrainSafe` rests on `DrainInv`: the outcome of a transaction that is mined is
recorded, is being written, or has a settlement that will write it.

Two theorems have a hypothesis, each the case its run checks. `OwnStateRemoves` assumes
that the ledger refuses no fill (`LedgerRefuses` is false): a refusal prunes the order
the revert names, and it may be the counterparty's affairs that changed. `NoneWedged`
assumes that no receipt and no Redis write fails for good: after either the code leaves
the orders pending, one of them on purpose (section 3).

**The keepers** (`Keepers_proofs`). `SuccessReal` (`RunInv`): that `lastFundingTime` is
past the run's `t0`, that an accrual of the run has landed, and that the run has noted a
success, each mean that somebody accrued since it began, whatever became of the
transactions before. `OneAtATime` (`ProcessInv`): a pass over the markets is tracked
from its start, a tick that finds one starts none, and a shutdown goes on when the
tracked pass has ended. `NoHolderLost`: all blocks up to the cursor less the overlap are
covered by the stored holders, and no reorganisation reaches below that; each scanner's
own copy and the batch it has in hand are covered in the same way relative to where it
resumed (`Covers`, `Sound`), so a cursor that another scanner has moved, or a batch
stored twice, does no harm. `TypeCorrect` (`TypeInv`) is these two invariants with the
types of the rest. In it is what the bot relies on: whoever is weak or flagged holds YES
(`Held`), so a claim never pays for nothing; what it pays it has, and a fill takes one YES
it has, also from a deleted ask or one whose POST was lost.

**Around the book** (`OrderEntry_proofs`). One inductive invariant for each part:
`SweepInv` (a replica takes off the old key only what is on the new one, or was removed
since), `PostsInv` (how far a POST has come says exactly what of it is written),
`PanelInv` (a signed order was sized with a rate the chain had, and its clock is past
its nonce; what a confirmed cancel retired is below the floor or dead), `PagesInv` (an
allowance, and what a handler under way is to approve, is at most what was shown,
padded, or less than twice what was to be minted; this is kept when less is left of an
allowance and when more is shown, `AgreedHolds`).

**The deployment** (`Deployment_proofs`). `LookupsAgree` follows from the claims of
`register` alone: what is listed is claimed, and nothing claimed is listed again
(`AfterAgrees`). The other two are about what is still to be sent. `BroadcastInv` says
of a broadcast that it registers last (`RegistersLast`), in the registry of `core.json`
what the market's file names, with a start block before its contracts (`Filed`), and, as
long as the deployer has sent nothing else, that it leaves behind what its script asserted
(`Promised`). A simulation is a recursive function, which unfolds by one
transaction: what is left of a broadcast after its first transaction leads, from the chain
as it then is, to the same end (`SimulationGoesOn`; that the recursion has a solution is
an induction with sets, as for the sums). A transaction that lists is therefore the last,
and the end it leads to is the chain after it (`ListsWired`). Once something else was
sent, by hand or by another script, the broadcast's nonce is behind the chain's for good
and nothing of it is sent. For the files: a script writes the market's file when it begins
to send, under a slug its preflight found free, and the register that is still to come is
in no other registry than the one `core.json` names. A legacy file with all its fields
has a start block before its contracts (`LegacyInv`): every script that replaces one of
them drops the field, and `DeployMarketRegistry` needs it.

TLC finds each of these invariants true on the instance of its module's run (those of
the engine on `engine_faults`, `engine_retries` and `stale_snapshot`).

**Only model-checked.** Liveness and ENABLED are out of these provers' reach:
`CrossingOrdersTrade`, `SeizableIsFlagged`, `FlaggedIsClaimed`, `OffersWhatItHolds`,
`ClaimableIsShown`, `ServesOrEnds`, `EveryHolderIsFound`, `EverythingSwept`,
`FeesSettle`. The three runs that expect a violation are TLC's alone.

## 5. The plan

Done: the contracts of a market, the registry and the scripts that deploy, the order
book with its engine, settler and shutdown, the server's process and the migration, the
keepers with their processes and index, the pages that act, their runs, and proofs of
all the safety properties the runs check. What is left: the types of the pages, of the
server's process and of the sweep, of which the proofs above state only what they need.

### Not modelled

* `DeployLocal`, which runs on a fresh local chain, and `VerifyContracts`, which sends
  nothing.
* The legacy mode of the keepers and of the engine, with one market that never changes.
* `pairProblem`, which refuses pairs of tokens or markets that `matchMarket` has not
  formed.
* Wallets: a maker without tokens or allowance makes a fill revert in a way the
  settler does not decode, and it goes on trying.
* HTTP wiring, rate limits, CORS, health endpoints and alerts, which keep no state of the
  protocol.
* The pages that only show: charts, docs, history, what a page computes for display; and
  the tests, smoke scripts and seeders, which drive the system from outside.
