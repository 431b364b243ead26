--------------------------- MODULE MarketRegistry ---------------------------
(***************************************************************************)
(* src/contracts/src/MarketRegistry.sol: the directory of markets, as      *)
(* values and operators.  A market is the record of its six contracts.     *)
(* There is one USDC, so what the registry asks of it is left out, and     *)
(* MarketDirectory has the flag `active`, the only thing that changes in   *)
(* an entry.                                                               *)
(***************************************************************************)
EXTENDS Naturals, Sequences, FiniteSets

(* f with x mapped to v: a write to a Solidity mapping. *)
With(f, x, v) == [y \in DOMAIN f \cup {x} |-> IF y = x THEN v ELSE f[y]]

(* A mapping reads as zero where nothing was written. *)
Read(f, x) == IF x \in DOMAIN f THEN f[x] ELSE 0

ContractNames ==
    {"creditMarket", "yesToken", "noToken", "clobSettlement", "oracleRouter", "liquidationEngine"}

ContractsOf(m) == {m[name] : name \in ContractNames}

EmptyRegistry(fund) ==
    [insuranceFund |-> fund, markets |-> << >>,
     slugToIdPlusOne |-> << >>, addressToIdPlusOne |-> << >>]

(* _verifyConsistency: the set is wired to itself and to the shared fund.   *)
(* A call to an address that has no such function reverts.                  *)
IsConsistent(code, m, fund) ==
    LET Has(a, kind, fields) == /\ a \in DOMAIN code
                                /\ code[a].kind = kind
                                /\ \A f \in DOMAIN fields : code[a][f] = fields[f]
    IN  /\ Has(m.creditMarket, "CreditMarket", [yesToken |-> m.yesToken, noToken |-> m.noToken])
        /\ Has(m.clobSettlement, "CLOBSettlement",
               [creditMarket |-> m.creditMarket, yesToken |-> m.yesToken, noToken |-> m.noToken])
        /\ Has(m.liquidationEngine, "LiquidationEngine",
               [creditMarket |-> m.creditMarket, insuranceFund |-> fund])
        /\ Has(m.oracleRouter, "OracleRouter", [creditMarket |-> m.creditMarket])

(* _claimAddress: which of the market's addresses are already some market's. *)
Claimed(registry, m) == {a \in ContractsOf(m) : Read(registry.addressToIdPlusOne, a) # 0}

(* register, its guards and what it writes. *)
CanRegister(registry, code, slug, m, startBlock, now) ==
    /\ Read(registry.slugToIdPlusOne, slug) = 0
    /\ startBlock <= now
    /\ IsConsistent(code, m, registry.insuranceFund)
    /\ Claimed(registry, m) = {}
    /\ Cardinality(ContractsOf(m)) = Cardinality(ContractNames)

Registering(registry, slug, m, startBlock) ==
    LET idPlusOne == Len(registry.markets) + 1
        claims == registry.addressToIdPlusOne
    IN  [registry EXCEPT
            !.markets = Append(@, [slug |-> slug, set |-> m, startBlock |-> startBlock]),
            !.slugToIdPlusOne = With(@, slug, idPlusOne),
            !.addressToIdPlusOne = [a \in DOMAIN claims \cup ContractsOf(m) |->
                                        IF a \in ContractsOf(m) THEN idPlusOne ELSE claims[a]]]

(* marketIdBySlug does not revert. *)
Lists(registry, slug) == Read(registry.slugToIdPlusOne, slug) # 0

MarketBySlug(registry, slug) == registry.markets[registry.slugToIdPlusOne[slug]]
============================================================================
