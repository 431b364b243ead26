----------------------------- MODULE Deployment -----------------------------
(***************************************************************************)
(* src/contracts/script: the scripts that deploy a market, the registry,   *)
(* and replacements of single contracts, with the JSON files they leave    *)
(* for each other and for the services.                                    *)
(*                                                                         *)
(* forge runs a script against the state it finds, its assertions and its  *)
(* writes included, and then sends the transactions it recorded, one by    *)
(* one.  A dry run stops before that.  A broadcast may stop anywhere and   *)
(* be resumed, as long as the deployer has sent nothing else meanwhile; it *)
(* is given up when another script is run.                                 *)
(*                                                                         *)
(* There is one deployer, who administers every contract.  A contract's    *)
(* address follows from the nonce it was created with and is that nonce;   *)
(* the nonce also stands for the block number.                             *)
(***************************************************************************)
EXTENDS MarketRegistry, SequencesExt

CONSTANTS
    Slugs,          \* of the markets AddMarket is run for
    LegacySlug,     \* the one DeployMarketRegistry gives the first market
    HandSlugs,      \* slugs the admin registers by hand
    NoFile,
    MaxRuns,        \* bounds the scripts broadcast and the calls made by hand
    MaxDryRuns      \* bounds the dry runs

ASSUME RunsAssumption == MaxRuns \in Nat /\ MaxDryRuns \in Nat

(* A file of markets/ is a script's, and no market is registered by hand    *)
(* under a slug that has one.                                               *)
ASSUME SlugsAssumption == LegacySlug \in Slugs /\ Slugs \cap HandSlugs = {}

VARIABLES
    chain,          \* nonce, contracts, roles and settings, registries
    legacy,         \* deployments/base-sepolia.json
    core,           \* core.json
    marketFile,     \* markets/<slug>.json
    broadcast,      \* transactions still to send, and the nonce of the next
    runs, dryRuns

fileVars == <<legacy, core, marketFile>>
vars == <<chain, fileVars, broadcast, runs, dryRuns>>

----------------------------------------------------------------------------
(* Transactions.  A role is a fact <<contract, role, holder>>; a setting is *)
(* one too: the scripts give each the same value every time.                *)

Create(contract) == [call |-> "create", contract |-> contract]
Grant(on, role, to) == [call |-> "grant", fact |-> <<on, role, to>>]
Revoke(on, role, to) == [call |-> "revoke", fact |-> <<on, role, to>>]
Register(registry, slug, m, startBlock) ==
    [call |-> "register", on |-> registry, slug |-> slug, set |-> m, startBlock |-> startBlock]

(* The contracts that know a role or a setting.  A call to any other, or to *)
(* an address without code, reverts.                                        *)
Knowing(role) ==
    CASE role \in {"MINTER_ROLE", "BURNER_ROLE"} -> {"YESToken", "NOToken"}
      [] role = "CLOB_ROLE" -> {"YESToken", "NOToken", "CreditMarket"}
      [] role = "LIQUIDATOR_ROLE" -> {"CreditMarket", "InsuranceFund"}
      [] role = "ORACLE_ROLE" -> {"CreditMarket", "OracleRouter"}
      [] role \in {"KEEPER_ROLE", "PAUSER_ROLE", "depositCap", "markBounds"} -> {"CreditMarket"}
      [] role \in {"OPERATOR_ROLE", "feeConfig"} -> {"CLOBSettlement"}

IsA(c, a, kinds) == a \in DOMAIN c.code /\ c.code[a].kind \in kinds

(* The CLOB's constructor asks its market for the tokens. *)
Succeeds(c, tx) ==
    CASE tx.call = "create" ->
            tx.contract.kind = "CLOBSettlement" =>
                IsA(c, tx.contract.creditMarket, {"CreditMarket"})
      [] tx.call \in {"grant", "revoke"} -> IsA(c, tx.fact[1], Knowing(tx.fact[2]))
      [] tx.call = "register" ->
            /\ tx.on \in DOMAIN c.registries
            /\ CanRegister(c.registries[tx.on], c.code, tx.slug, tx.set, tx.startBlock, c.nonce)

After(c, tx) ==
    LET mined == [c EXCEPT !.nonce = @ + 1]
        new == tx.contract
    IN  CASE tx.call = "create" /\ new.kind # "MarketRegistry" ->
                [mined EXCEPT !.code = With(@, c.nonce, new)]
          [] tx.call = "create" /\ new.kind = "MarketRegistry" ->
                [mined EXCEPT !.code = With(@, c.nonce, new),
                              !.registries = With(@, c.nonce, EmptyRegistry(new.insuranceFund))]
          [] tx.call = "grant" -> [mined EXCEPT !.wired = @ \cup {tx.fact}]
          [] tx.call = "revoke" -> [mined EXCEPT !.wired = @ \ {tx.fact}]
          [] tx.call = "register" ->
                [mined EXCEPT !.registries[tx.on] = Registering(@, tx.slug, tx.set, tx.startBlock)]

(* What a script finds after its own transactions; a revert ends it. *)
Simulated(c, txs) ==
    LET s[i \in 0 .. Len(txs)] ==
            IF i = 0 THEN [ok |-> TRUE, chain |-> c]
            ELSE LET before == s[i - 1]
                 IN  IF before.ok /\ Succeeds(before.chain, txs[i])
                     THEN [ok |-> TRUE, chain |-> After(before.chain, txs[i])]
                     ELSE [before EXCEPT !.ok = FALSE]
    IN  s[Len(txs)]

----------------------------------------------------------------------------
(* What the scripts send.                                                   *)

(* The addresses of a market's contracts, the engine's given. *)
MarketAt(n, engine) ==
    [yesToken |-> n, noToken |-> n + 1, creditMarket |-> n + 2, clobSettlement |-> n + 3,
     oracleRouter |-> n + 4, liquidationEngine |-> engine]

CLOBFor(m) == [kind |-> "CLOBSettlement", creditMarket |-> m.creditMarket,
               yesToken |-> m.yesToken, noToken |-> m.noToken]

EngineFor(m, fund) ==
    [kind |-> "LiquidationEngine", creditMarket |-> m.creditMarket, insuranceFund |-> fund]

MarketCreations(m) ==
    << Create([kind |-> "YESToken"]), Create([kind |-> "NOToken"]),
       Create([kind |-> "CreditMarket", yesToken |-> m.yesToken, noToken |-> m.noToken]),
       Create(CLOBFor(m)),
       Create([kind |-> "OracleRouter", creditMarket |-> m.creditMarket]) >>

(* The roles and settings a market needs, in the order they are given. *)
CLOBRoles(m, clob) ==
    << <<m.yesToken, "CLOB_ROLE", clob>>, <<m.noToken, "CLOB_ROLE", clob>>,
       <<m.creditMarket, "CLOB_ROLE", clob>> >>

EngineRoles(m, engine, fund) ==
    << <<m.yesToken, "CLOB_ROLE", engine>>, <<m.creditMarket, "LIQUIDATOR_ROLE", engine>>,
       <<fund, "LIQUIDATOR_ROLE", engine>> >>

Wiring(m, fund) ==
    << <<m.yesToken, "MINTER_ROLE", m.creditMarket>>, <<m.yesToken, "BURNER_ROLE", m.creditMarket>>,
       <<m.noToken, "MINTER_ROLE", m.creditMarket>>, <<m.noToken, "BURNER_ROLE", m.creditMarket>> >>
    \o CLOBRoles(m, m.clobSettlement)
    \o << <<m.creditMarket, "ORACLE_ROLE", m.oracleRouter>> >>
    \o EngineRoles(m, m.liquidationEngine, fund)
    \o << <<m.creditMarket, "KEEPER_ROLE", "keeper">>,
          <<m.clobSettlement, "OPERATOR_ROLE", "operator">>,
          <<m.creditMarket, "PAUSER_ROLE", "pauser">>,
          <<m.oracleRouter, "ORACLE_ROLE", "attester">>,
          <<m.creditMarket, "depositCap", "set">>, <<m.creditMarket, "markBounds", "set">>,
          <<m.clobSettlement, "feeConfig", fund>> >>

Granting(facts) == [i \in DOMAIN facts |-> [call |-> "grant", fact |-> facts[i]]]

(* _assertConfiguration: Deploy asserts the roles and settings, the scripts *)
(* of MarketScriptBase also that the set is wired to itself and registered. *)
IsWired(c, m, fund) == ToSet(Wiring(m, fund)) \subseteq c.wired

IsConfigured(c, m, fund) == IsConsistent(c.code, m, fund) /\ IsWired(c, m, fund)

IsRegistered(c, registry, slug, m, startBlock, fund) ==
    /\ c.registries[registry].insuranceFund = fund
    /\ Lists(c.registries[registry], slug)
    /\ MarketBySlug(c.registries[registry], slug)
           = [slug |-> slug, set |-> m, startBlock |-> startBlock]
    /\ \A a \in ContractsOf(m) :
          Read(c.registries[registry].addressToIdPlusOne, a)
              = c.registries[registry].slugToIdPlusOne[slug]

----------------------------------------------------------------------------
(* A script runs: its transactions succeed on the state it finds, and its   *)
(* assertions are about their Outcome.  Unless it is a dry run they then go *)
(* out, in place of those of a broadcast that has not ended.                *)

Outcome(txs) == Simulated(chain, txs).chain

Runs(real, txs) ==
    /\ IF real
       THEN /\ runs < MaxRuns
            /\ runs' = runs + 1
            /\ broadcast' = [todo |-> txs, nonce |-> chain.nonce]
            /\ UNCHANGED dryRuns
       ELSE /\ dryRuns < MaxDryRuns
            /\ dryRuns' = dryRuns + 1
            /\ UNCHANGED <<runs, broadcast>>
    /\ Simulated(chain, txs).ok
    /\ UNCHANGED chain

(* _shouldWrite: what MarketScriptBase writes, it writes when it broadcasts. *)
ShouldWriteAlways(real) == TRUE

ShouldWrite(real) == real

WritesCore(real, registry, fund) ==
    core' = IF ShouldWrite(real)
            THEN [marketRegistry |-> registry, insuranceFund |-> fund] ELSE core

WritesMarket(real, slug, m) ==
    marketFile' = IF ShouldWrite(real) THEN [marketFile EXCEPT ![slug] = m] ELSE marketFile

(* _updateJson: what is written back lacks the fields that only Deploy      *)
(* writes.                                                                  *)
Updated(name, new) == [legacy EXCEPT !.set[name] = new, !.full = FALSE]

(* Deploy: a market with a fund of its own.  It writes its file either way. *)
FirstMarket(n) == MarketAt(n, n + 6)
OwnFund(n) == n + 5

DeployTxs(n) ==
    MarketCreations(FirstMarket(n))
    \o << Create([kind |-> "InsuranceFund"]), Create(EngineFor(FirstMarket(n), OwnFund(n))) >>
    \o Granting(Wiring(FirstMarket(n), OwnFund(n)))

DeployedAt(n) ==
    [set |-> FirstMarket(n), insuranceFund |-> OwnFund(n), full |-> TRUE, startBlock |-> n]

Deploy(real) ==
    LET n == chain.nonce
    IN  /\ Runs(real, DeployTxs(n))
        /\ IsWired(Outcome(DeployTxs(n)), FirstMarket(n), OwnFund(n))
        /\ legacy' = DeployedAt(n)
        /\ UNCHANGED <<core, marketFile>>

(* RedeployCLOBSettlement: the file says which CLOB loses its roles.        *)
RedeployCLOBSettlement(real) ==
    /\ LET m == legacy.set
           new == chain.nonce
           txs == << Create(CLOBFor(m)) >>
                  \o Granting(CLOBRoles(m, new))
                  \o (IF m.clobSettlement # new
                      THEN [i \in 1 .. 3 |-> [call |-> "revoke",
                                              fact |-> CLOBRoles(m, m.clobSettlement)[i]]]
                      ELSE << >>)
                  \o Granting(<< <<new, "feeConfig", legacy.insuranceFund>> >>)
       IN  /\ Runs(real, txs)
           /\ legacy' = Updated("clobSettlement", new)
    /\ UNCHANGED <<core, marketFile>>

(* DeployLiquidationEngine *)
DeployLiquidationEngine(real) ==
    /\ LET m == legacy.set
           new == chain.nonce
           txs == << Create(EngineFor(m, legacy.insuranceFund)) >>
                  \o Granting(EngineRoles(m, new, legacy.insuranceFund))
       IN  /\ Runs(real, txs)
           /\ legacy' = Updated("liquidationEngine", new)
    /\ UNCHANGED <<core, marketFile>>

(* DeployMarketRegistry: a registry, and the market of the legacy file in   *)
(* it.                                                                      *)
DeployMarketRegistry(real) ==
    /\ legacy.full
    /\ LET m == legacy.set
           fund == legacy.insuranceFund
           new == chain.nonce
           txs == << Create([kind |-> "MarketRegistry", insuranceFund |-> fund]),
                     Register(new, LegacySlug, m, legacy.startBlock) >>
       IN  /\ Runs(real, txs)
           /\ IsConfigured(Outcome(txs), m, fund)
           /\ IsRegistered(Outcome(txs), new, LegacySlug, m, legacy.startBlock, fund)
           /\ WritesCore(real, new, fund)
           /\ WritesMarket(real, LegacySlug, m)
    /\ UNCHANGED legacy

(* DeployEmptyRegistry *)
DeployEmptyRegistry(real) ==
    /\ core # NoFile
    /\ LET new == chain.nonce
           fund == core.insuranceFund
           txs == << Create([kind |-> "MarketRegistry", insuranceFund |-> fund]) >>
       IN  /\ IsA(chain, fund, {"InsuranceFund"})
           /\ Runs(real, txs)
           /\ Outcome(txs).registries[new] = EmptyRegistry(fund)
           /\ WritesCore(real, new, fund)
    /\ UNCHANGED <<legacy, marketFile>>

(* AddMarket: the registry and the fund are those of core.json, and the     *)
(* market is registered last.                                               *)
Preflight(slug) ==
    /\ core.marketRegistry \in DOMAIN chain.registries
    /\ chain.registries[core.marketRegistry].insuranceFund = core.insuranceFund
    /\ ~Lists(chain.registries[core.marketRegistry], slug)

(* Mutant: the market is listed as soon as it exists. *)
AddMarketTxsListsEarly(m, fund, registry, slug, startBlock) ==
    MarketCreations(m)
    \o << Create(EngineFor(m, fund)), Register(registry, slug, m, startBlock) >>
    \o Granting(Wiring(m, fund))

AddMarketTxs(m, fund, registry, slug, startBlock) ==
    MarketCreations(m) \o << Create(EngineFor(m, fund)) >>
    \o Granting(Wiring(m, fund))
    \o << Register(registry, slug, m, startBlock) >>

AddMarket(slug, real) ==
    /\ core # NoFile
    /\ Preflight(slug)
    /\ LET n == chain.nonce
           m == MarketAt(n, n + 5)
           fund == core.insuranceFund
           txs == AddMarketTxs(m, fund, core.marketRegistry, slug, n)
       IN  /\ Runs(real, txs)
           /\ IsConfigured(Outcome(txs), m, fund)
           /\ IsRegistered(Outcome(txs), core.marketRegistry, slug, m, n, fund)
           /\ WritesMarket(real, slug, m)
    /\ UNCHANGED <<legacy, core>>

(* The next transaction of a broadcast. *)
Sends ==
    /\ broadcast.todo # << >>
    /\ broadcast.nonce = chain.nonce
    /\ Succeeds(chain, Head(broadcast.todo))
    /\ chain' = After(chain, Head(broadcast.todo))
    /\ broadcast' = [todo |-> Tail(broadcast.todo), nonce |-> broadcast.nonce + 1]
    /\ UNCHANGED <<fileVars, runs, dryRuns>>

(* The admin registers a market by hand, whose contracts the files name. *)
FiledMarkets ==
    {marketFile[s] : s \in {s \in Slugs : marketFile[s] # NoFile}} \cup {legacy.set}

RegistersByHand ==
    /\ runs < MaxRuns
    /\ \E registry \in DOMAIN chain.registries, slug \in HandSlugs,
          a, b \in FiledMarkets, name \in ContractNames :
          LET tx == Register(registry, slug, [a EXCEPT ![name] = b[name]], chain.nonce)
          IN  Succeeds(chain, tx) /\ chain' = After(chain, tx)
    /\ runs' = runs + 1
    /\ UNCHANGED <<fileVars, broadcast, dryRuns>>

(* Deploy has been run, which is where the registry found the system. *)
Init ==
    /\ chain = Simulated([nonce |-> 0, code |-> << >>, wired |-> {}, registries |-> << >>],
                         DeployTxs(0)).chain
    /\ legacy = DeployedAt(0)
    /\ core = NoFile
    /\ marketFile = [s \in Slugs |-> NoFile]
    /\ broadcast = [todo |-> << >>, nonce |-> 0]
    /\ runs = 0 /\ dryRuns = 0

ScriptRuns(real) ==
    \/ Deploy(real) \/ RedeployCLOBSettlement(real) \/ DeployLiquidationEngine(real)
    \/ DeployMarketRegistry(real) \/ DeployEmptyRegistry(real)
    \/ \E slug \in Slugs : AddMarket(slug, real)

Next == ScriptRuns(TRUE) \/ ScriptRuns(FALSE) \/ Sends \/ RegistersByHand

Spec == Init /\ [][Next]_vars

----------------------------------------------------------------------------
(* The types.  Addresses are nonces. *)

Market == [ContractNames -> Nat]

Entry == [slug : Slugs \cup HandSlugs, set : Market, startBlock : Nat]

Contract ==
    [kind : {"YESToken", "NOToken", "InsuranceFund"}]
    \cup [kind : {"CreditMarket"}, yesToken : Nat, noToken : Nat]
    \cup [kind : {"CLOBSettlement"}, creditMarket : Nat, yesToken : Nat, noToken : Nat]
    \cup [kind : {"OracleRouter"}, creditMarket : Nat]
    \cup [kind : {"LiquidationEngine"}, creditMarket : Nat, insuranceFund : Nat]
    \cup [kind : {"MarketRegistry"}, insuranceFund : Nat]

Roles == {"MINTER_ROLE", "BURNER_ROLE", "CLOB_ROLE", "LIQUIDATOR_ROLE", "ORACLE_ROLE",
          "KEEPER_ROLE", "PAUSER_ROLE", "OPERATOR_ROLE", "depositCap", "markBounds", "feeConfig"}

Fact == Nat \X Roles \X (Nat \cup {"keeper", "operator", "pauser", "attester", "set"})

Transaction ==
    [call : {"create"}, contract : Contract]
    \cup [call : {"grant", "revoke"}, fact : Fact]
    \cup [call : {"register"}, on : Nat, slug : Slugs \cup HandSlugs, set : Market,
          startBlock : Nat]

RegistryTypeOK(registry) ==
    /\ DOMAIN registry = {"insuranceFund", "markets", "slugToIdPlusOne", "addressToIdPlusOne"}
    /\ registry.insuranceFund \in Nat
    /\ registry.markets \in Seq(Entry)
    /\ \A slug \in DOMAIN registry.slugToIdPlusOne :
          registry.slugToIdPlusOne[slug] \in DOMAIN registry.markets

ChainTypeOK(c) ==
    /\ DOMAIN c = {"nonce", "code", "wired", "registries"}
    /\ c.nonce \in Nat
    /\ \A a \in DOMAIN c.code : a \in Nat /\ a < c.nonce /\ c.code[a] \in Contract
    /\ c.wired \subseteq Fact
    /\ \A r \in DOMAIN c.registries :
          r \in Nat /\ r < c.nonce /\ RegistryTypeOK(c.registries[r])

TypeOK ==
    /\ ChainTypeOK(chain)
    /\ legacy \in [set : Market, insuranceFund : Nat, full : BOOLEAN, startBlock : Nat]
    /\ core \in [marketRegistry : Nat, insuranceFund : Nat] \cup {NoFile}
    /\ marketFile \in [Slugs -> Market \cup {NoFile}]
    /\ broadcast \in [todo : Seq(Transaction), nonce : Nat]
    /\ broadcast.nonce <= chain.nonce
    /\ runs \in 0 .. MaxRuns /\ dryRuns \in 0 .. MaxDryRuns

----------------------------------------------------------------------------
(* What a script lists in a registry is wired as its assertions demand, and *)
(* a scan from its start block misses nothing.  (MarketScriptBase.sol, and  *)
(* the register at the end of AddMarket and DeployMarketRegistry)           *)
ListsOnlyWired ==
    [][\A r \in DOMAIN chain.registries :
         LET listed == chain'.registries[r].markets
             m == Last(listed).set
         IN  Sends /\ Len(listed) > Len(chain.registries[r].markets) =>
                /\ IsConfigured(chain', m, chain.registries[r].insuranceFund)
                /\ Last(listed).startBlock <= Min(ContractsOf(m))]_vars

(* A slug and any of six addresses lead to the one market they belong to.   *)
(* (MarketRegistry.sol, register and its views)                             *)
LookupsAgree ==
    \A r \in DOMAIN chain.registries :
        LET registry == chain.registries[r] IN
        \A i \in DOMAIN registry.markets :
            /\ registry.slugToIdPlusOne[registry.markets[i].slug] = i
            /\ \A a \in ContractsOf(registry.markets[i].set) :
                  registry.addressToIdPlusOne[a] = i

(* A market's file names the contracts that the registry of core.json lists *)
(* under its slug.  (MarketScriptBase.sol, the files)                       *)
FilesMatchRegistry ==
    \A slug \in Slugs :
        core # NoFile /\ core.marketRegistry \in DOMAIN chain.registries =>
            LET registry == chain.registries[core.marketRegistry] IN
            Lists(registry, slug) => MarketBySlug(registry, slug).set = marketFile[slug]
============================================================================
