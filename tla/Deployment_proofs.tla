------------------------- MODULE Deployment_proofs -------------------------
(***************************************************************************)
(* The scripts and the registry, for any slugs, files and runs: slugs and  *)
(* addresses lead to one market, a market's file names what is listed, and *)
(* what a script lists is what its simulation asserted, whenever nothing   *)
(* else was sent since.                                                    *)
(***************************************************************************)
EXTENDS Deployment, WellFoundedInduction, TLAPS

(* A broadcast registers last, if at all, ...                               *)
RegistersLast(todo) == \A k \in DOMAIN todo : todo[k].call = "register" => k = Len(todo)

(* ... in the registry of core.json what the market's file names, with a    *)
(* start block before its contracts, ...                                    *)
Filed(tx) ==
    tx.call = "register" =>
        /\ tx.slug \in Slugs
        /\ core.marketRegistry = tx.on
        /\ marketFile[tx.slug] = tx.set
        /\ \A a \in ContractsOf(tx.set) : tx.startBlock <= a

(* ... and leaves behind what the script asserted.                          *)
Promised(c, todo) ==
    todo # << >> /\ Last(todo).call = "register" =>
        LET tx == Last(todo)
            final == Simulated(c, todo).chain
        IN  IsConfigured(final, tx.set, final.registries[tx.on].insuranceFund)

(* A market whose file has all its fields is as Deploy left it.             *)
LegacyInv ==
    legacy.full => \A a \in ContractsOf(legacy.set) : legacy.startBlock <= a

BroadcastInv ==
    /\ RegistersLast(broadcast.todo)
    /\ \A k \in DOMAIN broadcast.todo : Filed(broadcast.todo[k])
    /\ broadcast.nonce = chain.nonce => Promised(chain, broadcast.todo)

(* What is listed is claimed, and by nothing else.                          *)
Agrees(registry) ==
    \A i \in DOMAIN registry.markets :
        LET entry == registry.markets[i] IN
        /\ entry.slug \in DOMAIN registry.slugToIdPlusOne
        /\ registry.slugToIdPlusOne[entry.slug] = i
        /\ \A a \in ContractsOf(entry.set) : /\ a \in DOMAIN registry.addressToIdPlusOne
                                             /\ registry.addressToIdPlusOne[a] = i

Agreed(c) == \A r \in DOMAIN c.registries : Agrees(c.registries[r])

IInv == TypeOK /\ LegacyInv /\ BroadcastInv /\ FilesMatchRegistry /\ Agreed(chain)

----------------------------------------------------------------------------
(* The simulation of a script                                              *)

Sent(before, tx) ==
    IF before.ok /\ Succeeds(before.chain, tx)
    THEN [ok |-> TRUE, chain |-> After(before.chain, tx)]
    ELSE [before EXCEPT !.ok = FALSE]

SimulatedStep(c, txs, s, i) ==
    IF i = 0 THEN [ok |-> TRUE, chain |-> c] ELSE Sent(s[i - 1], txs[i])

Run(c, txs) == CHOOSE s : s = [i \in 0 .. Len(txs) |-> SimulatedStep(c, txs, s, i)]

(* The simulation is the last state of the run. *)
LEMMA SimulatedIsRun == ASSUME NEW c, NEW txs PROVE Simulated(c, txs) = Run(c, txs)[Len(txs)]
  BY DEF Simulated, Run, SimulatedStep, Sent

(* The numbers: a set that holds 0 and, with each number, the next one      *)
(* holds every number; a number left out would have a least such.           *)
LEMMA EveryNumber ==
     ASSUME NEW N, 0 \in N, \A n \in Nat : n \in N => n + 1 \in N
     PROVE  \A n \in Nat : n \in N
<1> SUFFICES ASSUME \E n \in Nat : n \notin N PROVE FALSE
  OBVIOUS
<1> DEFINE T == {n \in Nat : n \notin N}
           below == {p \in Nat \X Nat : p[1] < p[2]}
<1>0. IsWellFoundedOn(below, Nat)
  BY NatLessThanWellFounded DEF OpToRel
<1>1. PICK m \in T : \A k \in T : <<k, m>> \notin below
  <2>1. T \subseteq Nat /\ T # {}
    OBVIOUS
  <2> HIDE DEF T, below
  <2> QED BY <1>0, <2>1, WFMin
<1>2. m \in Nat /\ m # 0 /\ m - 1 \in Nat
  OBVIOUS
<1>3. m - 1 \notin T
  <2>1. <<m - 1, m>> \in below
    BY <1>2
  <2> QED BY <1>1, <2>1
<1> QED
  BY <1>2, <1>3

(* The recursion has a solution: one that is right up to n gives one that   *)
(* is right up to n + 1.                                                    *)
LEMMA RunExists ==
    ASSUME NEW S, NEW txs \in Seq(S), NEW c
    PROVE  \E s : s = [i \in 0 .. Len(txs) |-> SimulatedStep(c, txs, s, i)]
<1> DEFINE I == 0 .. Len(txs)
           Solves(s, n) == /\ s = [i \in I |-> s[i]]
                           /\ \A i \in I : i <= n => s[i] = SimulatedStep(c, txs, s, i)
           N == {n \in Nat : \E s : Solves(s, n)}
<1>1. 0 \in N
  <2> DEFINE s == [i \in I |-> [ok |-> TRUE, chain |-> c]]
  <2>1. Solves(s, 0)
    BY DEF SimulatedStep
  <2> HIDE DEF Solves, s
  <2> QED BY <2>1
<1>2. ASSUME NEW n \in Nat, n \in N PROVE n + 1 \in N
  <2>1. PICK s : Solves(s, n)
    BY <1>2
  <2> DEFINE t == [i \in I |-> SimulatedStep(c, txs, s, i)]
  <2>2. ASSUME NEW i \in I, i <= n + 1 PROVE t[i] = SimulatedStep(c, txs, t, i)
    <3>1. CASE i = 0
      BY <3>1 DEF SimulatedStep
    <3>2. CASE i # 0
      <4>1. i - 1 \in I /\ i - 1 <= n
        BY <2>2, <3>2
      <4>2. t[i - 1] = s[i - 1]
        BY <2>1, <4>1
      <4> QED BY <4>2, Zenon DEF SimulatedStep
    <3> QED BY <3>1, <3>2
  <2>3. Solves(t, n + 1)
    BY <2>2
  <2> HIDE DEF Solves, t
  <2> QED BY <2>3
<1>3. Len(txs) \in N
  <2> HIDE DEF N
  <2> QED BY <1>1, <1>2, EveryNumber
<1>4. PICK s : Solves(s, Len(txs))
  BY <1>3
<1> QED
  BY <1>4

(* A run begins with the chain it is given and goes on transaction by       *)
(* transaction.                                                             *)
LEMMA RunUnfolds ==
    ASSUME NEW S, NEW txs \in Seq(S), NEW c
    PROVE  /\ Run(c, txs)[0] = [ok |-> TRUE, chain |-> c]
           /\ \A i \in 1 .. Len(txs) :
                Run(c, txs)[i] = Sent(Run(c, txs)[i - 1], txs[i])
<1>1. Run(c, txs) = [i \in 0 .. Len(txs) |-> SimulatedStep(c, txs, Run(c, txs), i)]
  <2>1. \E s : s = [i \in 0 .. Len(txs) |-> SimulatedStep(c, txs, s, i)]
    BY RunExists
  <2> QED BY <2>1, Zenon DEF Run
<1>2. \A i \in 0 .. Len(txs) : Run(c, txs)[i] = SimulatedStep(c, txs, Run(c, txs), i)
  BY <1>1
<1>3. 0 \in 0 .. Len(txs) /\ \A i \in 1 .. Len(txs) : i \in 0 .. Len(txs) /\ i # 0
  OBVIOUS
<1> QED
  BY <1>2, <1>3, Zenon DEF SimulatedStep

(* To send the first transaction leads to the chain that the simulation of  *)
(* the rest begins with.                                                    *)
LEMMA SimulationGoesOn ==
    ASSUME NEW S, NEW txs \in Seq(S), txs # << >>, NEW c, Succeeds(c, Head(txs))
    PROVE  Simulated(c, txs) = Simulated(After(c, Head(txs)), Tail(txs))
<1> DEFINE next == After(c, Head(txs))
           rest == Tail(txs)
           r == Run(c, txs)
           q == Run(next, rest)
           N == {n \in Nat : n <= Len(rest) => q[n] = r[n + 1]}
<1>1. rest \in Seq(S) /\ Len(txs) = Len(rest) + 1 /\ Head(txs) = txs[1]
      /\ \A i \in 1 .. Len(rest) : rest[i] = txs[i + 1]
  OBVIOUS
<1>2. /\ r[0] = [ok |-> TRUE, chain |-> c] /\ q[0] = [ok |-> TRUE, chain |-> next]
      /\ \A i \in 1 .. Len(txs) : r[i] = Sent(r[i - 1], txs[i])
      /\ \A i \in 1 .. Len(rest) : q[i] = Sent(q[i - 1], rest[i])
  <2> HIDE DEF next, rest
  <2>1. r[0] = [ok |-> TRUE, chain |-> c] /\ \A i \in 1 .. Len(txs) : r[i] = Sent(r[i - 1], txs[i])
    BY RunUnfolds
  <2>2. q[0] = [ok |-> TRUE, chain |-> next] /\ \A i \in 1 .. Len(rest) : q[i] = Sent(q[i - 1], rest[i])
    BY <1>1, RunUnfolds
  <2> QED BY <2>1, <2>2
<1>3. r[1] = [ok |-> TRUE, chain |-> next]
  <2>1. 1 \in 1 .. Len(txs) /\ 1 - 1 = 0
    BY <1>1
  <2>2. r[1] = Sent(r[0], txs[1])
    BY <1>2, <2>1
  <2>3. r[0].ok /\ r[0].chain = c /\ Succeeds(c, txs[1]) /\ next = After(c, txs[1])
    <3> HIDE DEF r
    <3> QED BY <1>1, <1>2
  <2> HIDE DEF next, r
  <2> QED BY <2>2, <2>3, Zenon DEF Sent
<1>4. 0 \in N
  BY <1>2, <1>3
<1>5. ASSUME NEW n \in Nat, n \in N PROVE n + 1 \in N
  <2> SUFFICES ASSUME n + 1 <= Len(rest) PROVE q[n + 1] = r[n + 2]
    OBVIOUS
  <2>1. q[n] = r[n + 1] /\ rest[n + 1] = txs[n + 2]
    BY <1>1, <1>5
  <2>2. n + 1 \in 1 .. Len(rest) /\ n + 2 \in 1 .. Len(txs) /\ (n + 1) - 1 = n /\ (n + 2) - 1 = n + 1
    BY <1>1
  <2> HIDE DEF q, r, rest
  <2>3. q[n + 1] = Sent(q[n], rest[n + 1]) /\ r[n + 2] = Sent(r[n + 1], txs[n + 2])
    BY <1>2, <2>2
  <2> QED BY <2>1, <2>3
<1>6. q[Len(rest)] = r[Len(rest) + 1]
  <2>1. Len(rest) \in N
    <3> HIDE DEF N
    <3> QED BY <1>1, <1>4, <1>5, EveryNumber
  <2> QED BY <2>1
<1> QED
  BY <1>1, <1>6, SimulatedIsRun
----------------------------------------------------------------------------
(* A transaction and the types                                             *)

(* What a call leaves of the chain's record, and of its registries.         *)
LEMMA AfterCall ==
    ASSUME NEW c, ChainTypeOK(c), NEW tx \in Transaction
    PROVE  LET d == After(c, tx) IN
           /\ DOMAIN d = DOMAIN c /\ d.nonce = c.nonce + 1
           /\ d.code = IF tx.call = "create" THEN With(c.code, c.nonce, tx.contract) ELSE c.code
           /\ d.wired = CASE tx.call = "grant" -> c.wired \cup {tx.fact}
                          [] tx.call = "revoke" -> c.wired \ {tx.fact}
                          [] OTHER -> c.wired
           /\ d.registries =
                CASE tx.call = "create" /\ tx.contract.kind = "MarketRegistry" ->
                        With(c.registries, c.nonce, EmptyRegistry(tx.contract.insuranceFund))
                  [] tx.call = "register" ->
                        [c.registries EXCEPT
                            ![tx.on] = Registering(@, tx.slug, tx.set, tx.startBlock)]
                  [] OTHER -> c.registries
<1>1. tx.call \in {"create", "grant", "revoke", "register"}
  BY DEF Transaction
<1>2. DOMAIN c = {"nonce", "code", "wired", "registries"}
  BY DEF ChainTypeOK
<1>3. CASE tx.call = "create"
  BY <1>2, <1>3 DEF After
<1>4. CASE tx.call = "grant"
  BY <1>2, <1>4 DEF After
<1>5. CASE tx.call = "revoke"
  BY <1>2, <1>5 DEF After
<1>6. CASE tx.call = "register"
  BY <1>2, <1>6 DEF After
<1> QED
  BY <1>1, <1>3, <1>4, <1>5, <1>6, Zenon

(* To register a market appends it, and writes its slug.                    *)
LEMMA RegistersTyped ==
    ASSUME NEW registry, RegistryTypeOK(registry), NEW slug \in Slugs \cup HandSlugs,
           NEW m \in Market, NEW startBlock \in Nat
    PROVE  LET new == Registering(registry, slug, m, startBlock) IN
           /\ RegistryTypeOK(new)
           /\ new.insuranceFund = registry.insuranceFund
           /\ new.markets = Append(registry.markets,
                                   [slug |-> slug, set |-> m, startBlock |-> startBlock])
           /\ new.slugToIdPlusOne = With(registry.slugToIdPlusOne, slug, Len(registry.markets) + 1)
<1> DEFINE new == Registering(registry, slug, m, startBlock)
           entry == [slug |-> slug, set |-> m, startBlock |-> startBlock]
<1>1. DOMAIN registry = {"insuranceFund", "markets", "slugToIdPlusOne", "addressToIdPlusOne"}
      /\ registry.markets \in Seq(Entry)
  BY DEF RegistryTypeOK
<1>2. /\ DOMAIN new = DOMAIN registry
      /\ new.insuranceFund = registry.insuranceFund
      /\ new.markets = Append(registry.markets, entry)
      /\ new.slugToIdPlusOne = With(registry.slugToIdPlusOne, slug, Len(registry.markets) + 1)
  BY <1>1 DEF Registering
<1>3. entry \in Entry
  BY DEF Entry
<1>4. new.markets \in Seq(Entry) /\ DOMAIN new.markets = 1 .. Len(registry.markets) + 1
      /\ DOMAIN registry.markets = 1 .. Len(registry.markets) /\ Len(registry.markets) \in Nat
  <2> HIDE DEF new, entry
  <2> QED BY <1>1, <1>2, <1>3
<1>5. \A s \in DOMAIN new.slugToIdPlusOne : new.slugToIdPlusOne[s] \in DOMAIN new.markets
  <2> HIDE DEF new, entry
  <2> QED BY <1>2, <1>4 DEF With, RegistryTypeOK
<1>6. RegistryTypeOK(new)
  <2> HIDE DEF new, entry
  <2> QED BY <1>1, <1>2, <1>4, <1>5 DEF RegistryTypeOK
<1> QED
  BY <1>2, <1>6, Zenon

(* A transaction that succeeds leaves a chain.                              *)
LEMMA AfterTyped ==
    ASSUME NEW c, ChainTypeOK(c), NEW tx \in Transaction, Succeeds(c, tx)
    PROVE  ChainTypeOK(After(c, tx))
<1> DEFINE d == After(c, tx)
<1>1. /\ DOMAIN c = {"nonce", "code", "wired", "registries"} /\ c.nonce \in Nat
      /\ DOMAIN d = DOMAIN c /\ d.nonce = c.nonce + 1
  BY AfterCall DEF ChainTypeOK
<1>2. \A a \in DOMAIN d.code : a \in Nat /\ a < d.nonce /\ d.code[a] \in Contract
  <2>1. \A a \in DOMAIN c.code : a \in Nat /\ a < c.nonce /\ c.code[a] \in Contract
    BY DEF ChainTypeOK
  <2>2. tx.call = "create" => tx.contract \in Contract
    BY DEF Transaction
  <2>3. d.code = IF tx.call = "create" THEN With(c.code, c.nonce, tx.contract) ELSE c.code
    BY AfterCall
  <2> HIDE DEF d
  <2> QED BY <1>1, <2>1, <2>2, <2>3 DEF With
<1>3. d.wired \subseteq Fact
  <2>1. tx.call = "grant" => tx.fact \in Fact
    BY DEF Transaction
  <2>2. c.wired \subseteq Fact
    BY DEF ChainTypeOK
  <2>3. d.wired = CASE tx.call = "grant" -> c.wired \cup {tx.fact}
                    [] tx.call = "revoke" -> c.wired \ {tx.fact}
                    [] OTHER -> c.wired
    BY AfterCall
  <2> HIDE DEF d
  <2> QED BY <2>1, <2>2, <2>3
<1>4. \A r \in DOMAIN d.registries : r \in Nat /\ r < d.nonce /\ RegistryTypeOK(d.registries[r])
  <2>1. \A r \in DOMAIN c.registries : r \in Nat /\ r < c.nonce /\ RegistryTypeOK(c.registries[r])
    BY DEF ChainTypeOK
  <2>2. CASE tx.call = "create" /\ tx.contract.kind = "MarketRegistry"
    <3>1. d.registries = With(c.registries, c.nonce, EmptyRegistry(tx.contract.insuranceFund))
      BY <2>2, AfterCall
    <3>2. tx.contract.insuranceFund \in Nat
      BY <2>2 DEF Transaction, Contract
    <3>3. RegistryTypeOK(EmptyRegistry(tx.contract.insuranceFund))
      BY <3>2 DEF RegistryTypeOK, EmptyRegistry
    <3> HIDE DEF d
    <3> QED BY <1>1, <2>1, <3>1, <3>3 DEF With
  <2>3. CASE tx.call = "register"
    <3>1. d.registries = [c.registries EXCEPT
                            ![tx.on] = Registering(@, tx.slug, tx.set, tx.startBlock)]
      BY <2>3, AfterCall
    <3>2. tx.on \in DOMAIN c.registries
      BY <2>3 DEF Succeeds
    <3>3. tx.slug \in Slugs \cup HandSlugs /\ tx.set \in Market /\ tx.startBlock \in Nat
      BY <2>3 DEF Transaction
    <3>4. RegistryTypeOK(Registering(c.registries[tx.on], tx.slug, tx.set, tx.startBlock))
      BY <2>1, <3>2, <3>3, RegistersTyped
    <3> HIDE DEF d
    <3> QED BY <1>1, <2>1, <3>1, <3>2, <3>4
  <2>4. CASE tx.call # "register" /\ ~(tx.call = "create" /\ tx.contract.kind = "MarketRegistry")
    <3>1. d.registries = c.registries
      BY <2>4, AfterCall
    <3> HIDE DEF d
    <3> QED BY <1>1, <2>1, <3>1
  <2> QED BY <2>2, <2>3, <2>4
<1> QED
  <2> HIDE DEF d
  <2>1. ChainTypeOK(d)
    BY <1>1, <1>2, <1>3, <1>4 DEF ChainTypeOK
  <2> QED BY <2>1 DEF d

(* A market is registered under a slug and with addresses of its own.       *)
LEMMA RegisteringAgrees ==
    ASSUME NEW registry, RegistryTypeOK(registry), Agrees(registry),
           NEW slug \in Slugs \cup HandSlugs, NEW m \in Market, NEW startBlock \in Nat,
           Read(registry.slugToIdPlusOne, slug) = 0, Claimed(registry, m) = {}
    PROVE  Agrees(Registering(registry, slug, m, startBlock))
<1> DEFINE new == Registering(registry, slug, m, startBlock)
           markets == registry.markets
<1>1. /\ new.markets = Append(markets, [slug |-> slug, set |-> m, startBlock |-> startBlock])
      /\ new.slugToIdPlusOne = With(registry.slugToIdPlusOne, slug, Len(markets) + 1)
      /\ new.addressToIdPlusOne =
           [a \in DOMAIN registry.addressToIdPlusOne \cup ContractsOf(m) |->
               IF a \in ContractsOf(m) THEN Len(markets) + 1 ELSE registry.addressToIdPlusOne[a]]
      /\ markets \in Seq(Entry)
  <2>1. DOMAIN registry = {"insuranceFund", "markets", "slugToIdPlusOne", "addressToIdPlusOne"}
        /\ markets \in Seq(Entry)
    BY DEF RegistryTypeOK
  <2> QED BY <2>1 DEF Registering
<1>2. \A i \in DOMAIN markets :
        /\ i # 0 /\ new.markets[i] = markets[i]
        /\ markets[i].slug \in DOMAIN registry.slugToIdPlusOne
        /\ registry.slugToIdPlusOne[markets[i].slug] = i
        /\ \A a \in ContractsOf(markets[i].set) : /\ a \in DOMAIN registry.addressToIdPlusOne
                                                  /\ registry.addressToIdPlusOne[a] = i
  <2> HIDE DEF new
  <2> QED BY <1>1 DEF Agrees
<1>3. \A i \in DOMAIN markets :
        markets[i].slug # slug /\ \A a \in ContractsOf(markets[i].set) : a \notin ContractsOf(m)
  <2> HIDE DEF new, markets
  <2> TAKE i \in DOMAIN markets
  <2>1. markets[i].slug # slug
    BY <1>2 DEF Read
  <2>2. ASSUME NEW a \in ContractsOf(markets[i].set) PROVE a \notin ContractsOf(m)
    <3>1. Read(registry.addressToIdPlusOne, a) # 0
      BY <1>2 DEF Read
    <3> QED BY <3>1 DEF Claimed
  <2> QED BY <2>1, <2>2
<1>4. DOMAIN new.markets = DOMAIN markets \cup {Len(markets) + 1}
      /\ new.markets[Len(markets) + 1] = [slug |-> slug, set |-> m, startBlock |-> startBlock]
  <2> HIDE DEF new, markets
  <2> QED BY <1>1
<1>5. ASSUME NEW i \in DOMAIN markets
      PROVE  LET entry == new.markets[i] IN
             /\ entry.slug \in DOMAIN new.slugToIdPlusOne
             /\ new.slugToIdPlusOne[entry.slug] = i
             /\ \A a \in ContractsOf(entry.set) : /\ a \in DOMAIN new.addressToIdPlusOne
                                                  /\ new.addressToIdPlusOne[a] = i
  <2> HIDE DEF new, markets
  <2> QED BY <1>1, <1>2, <1>3, <1>5 DEF With
<1>6. LET entry == new.markets[Len(markets) + 1] IN
      /\ entry.slug \in DOMAIN new.slugToIdPlusOne
      /\ new.slugToIdPlusOne[entry.slug] = Len(markets) + 1
      /\ \A a \in ContractsOf(entry.set) : /\ a \in DOMAIN new.addressToIdPlusOne
                                           /\ new.addressToIdPlusOne[a] = Len(markets) + 1
  <2> HIDE DEF new, markets
  <2> QED BY <1>1, <1>4 DEF With
<1> QED
  <2> HIDE DEF new, markets
  <2>1. Agrees(new)
    BY <1>4, <1>5, <1>6, Zenon DEF Agrees
  <2> QED BY <2>1 DEF new

(* No transaction lets two markets share a slug or an address.              *)
LEMMA AfterAgrees ==
    ASSUME NEW c, ChainTypeOK(c), Agreed(c), NEW tx \in Transaction, Succeeds(c, tx)
    PROVE  Agreed(After(c, tx))
<1> DEFINE d == After(c, tx)
<1>1. CASE tx.call = "create" /\ tx.contract.kind = "MarketRegistry"
  <2>1. d.registries = With(c.registries, c.nonce, EmptyRegistry(tx.contract.insuranceFund))
    BY <1>1, AfterCall
  <2>2. Agrees(EmptyRegistry(tx.contract.insuranceFund))
    BY DEF Agrees, EmptyRegistry
  <2> HIDE DEF d
  <2>3. Agreed(d)
    BY <2>1, <2>2 DEF Agreed, With
  <2> QED BY <2>3 DEF d
<1>2. CASE tx.call = "register"
  <2>1. d.registries = [c.registries EXCEPT
                          ![tx.on] = Registering(@, tx.slug, tx.set, tx.startBlock)]
    BY <1>2, AfterCall
  <2>2. /\ tx.on \in DOMAIN c.registries
        /\ Read(c.registries[tx.on].slugToIdPlusOne, tx.slug) = 0
        /\ Claimed(c.registries[tx.on], tx.set) = {}
    BY <1>2 DEF Succeeds, CanRegister
  <2>3. tx.slug \in Slugs \cup HandSlugs /\ tx.set \in Market /\ tx.startBlock \in Nat
    BY <1>2 DEF Transaction
  <2>4. Agrees(Registering(c.registries[tx.on], tx.slug, tx.set, tx.startBlock))
    BY <2>2, <2>3, RegisteringAgrees DEF ChainTypeOK, Agreed
  <2> HIDE DEF d
  <2>5. Agreed(d)
    BY <2>1, <2>2, <2>4 DEF Agreed
  <2> QED BY <2>5 DEF d
<1>3. CASE tx.call # "register" /\ ~(tx.call = "create" /\ tx.contract.kind = "MarketRegistry")
  <2>1. d.registries = c.registries
    BY <1>3, AfterCall
  <2> HIDE DEF d
  <2>2. Agreed(d)
    BY <2>1 DEF Agreed
  <2> QED BY <2>2 DEF d
<1> QED
  BY <1>1, <1>2, <1>3

(* So the simulation of a script leads from a chain to a chain.             *)
LEMMA SimulatedTyped ==
    ASSUME NEW c, ChainTypeOK(c), Agreed(c), NEW txs \in Seq(Transaction)
    PROVE  ChainTypeOK(Simulated(c, txs).chain) /\ Agreed(Simulated(c, txs).chain)
<1> DEFINE r == Run(c, txs)
           N == {n \in Nat : n <= Len(txs) =>
                    DOMAIN r[n] = {"ok", "chain"} /\ ChainTypeOK(r[n].chain) /\ Agreed(r[n].chain)}
<1>1. r[0] = [ok |-> TRUE, chain |-> c] /\ \A i \in 1 .. Len(txs) : r[i] = Sent(r[i - 1], txs[i])
  BY RunUnfolds
<1>2. 0 \in N
  <2> HIDE DEF r
  <2> QED BY <1>1
<1>3. ASSUME NEW n \in Nat, n \in N PROVE n + 1 \in N
  <2> SUFFICES ASSUME n + 1 <= Len(txs)
               PROVE  /\ DOMAIN r[n + 1] = {"ok", "chain"}
                      /\ ChainTypeOK(r[n + 1].chain) /\ Agreed(r[n + 1].chain)
    OBVIOUS
  <2>1. DOMAIN r[n] = {"ok", "chain"} /\ ChainTypeOK(r[n].chain) /\ Agreed(r[n].chain)
    BY <1>3
  <2>2. n + 1 \in 1 .. Len(txs) /\ (n + 1) - 1 = n /\ txs[n + 1] \in Transaction
    OBVIOUS
  <2>3. r[n + 1] = Sent(r[n], txs[n + 1])
    BY <1>1, <2>2
  <2> HIDE DEF r
  <2>4. CASE r[n].ok /\ Succeeds(r[n].chain, txs[n + 1])
    <3>1. r[n + 1] = [ok |-> TRUE, chain |-> After(r[n].chain, txs[n + 1])]
      BY <2>3, <2>4, Zenon DEF Sent
    <3>2. ChainTypeOK(After(r[n].chain, txs[n + 1])) /\ Agreed(After(r[n].chain, txs[n + 1]))
      BY <2>1, <2>2, <2>4, AfterTyped, AfterAgrees
    <3> QED BY <3>1, <3>2
  <2>5. CASE ~(r[n].ok /\ Succeeds(r[n].chain, txs[n + 1]))
    <3>1. r[n + 1] = [r[n] EXCEPT !.ok = FALSE]
      BY <2>3, <2>5, Zenon DEF Sent
    <3> QED BY <2>1, <3>1
  <2> QED BY <2>4, <2>5
<1>4. Len(txs) \in N
  <2> HIDE DEF N
  <2> QED BY <1>2, <1>3, EveryNumber
<1> QED
  BY <1>4, SimulatedIsRun
----------------------------------------------------------------------------
(* What the scripts send                                                   *)

(* The transactions that list no market.                                    *)
Plain == {tx \in Transaction : tx.call # "register"}

(* To join two sequences of a set, or to add one of its elements.           *)
LEMMA Joined ==
    ASSUME NEW S, NEW s \in Seq(S), NEW t \in Seq(S)
    PROVE  s \o t \in Seq(S)
  OBVIOUS

(* Roles that are granted make plain transactions.                          *)
LEMMA GrantingPlain ==
    ASSUME NEW facts \in Seq(Fact)
    PROVE  Granting(facts) \in Seq(Plain)
<1>1. \A i \in 1 .. Len(facts) : [call |-> "grant", fact |-> facts[i]] \in Plain
  BY DEF Plain, Transaction
<1>2. Granting(facts) \in [1 .. Len(facts) -> Plain] /\ Len(facts) \in Nat
  BY <1>1 DEF Granting
<1> HIDE DEF Plain
<1> QED
  BY <1>2

(* The addresses of a market that is deployed at n are no less than n.      *)
LEMMA MarketAtTyped ==
    ASSUME NEW n \in Nat, NEW e \in Nat, n <= e
    PROVE  MarketAt(n, e) \in Market /\ \A a \in ContractsOf(MarketAt(n, e)) : a \in Nat /\ n <= a
  BY DEF MarketAt, Market, ContractsOf, ContractNames

(* The roles are granted on contracts, to contracts and to the operators.   *)
LEMMA RolesTyped ==
    ASSUME NEW m \in Market, NEW a \in Nat, NEW fund \in Nat
    PROVE  /\ CLOBRoles(m, a) \in Seq(Fact) /\ Len(CLOBRoles(m, a)) = 3
           /\ EngineRoles(m, a, fund) \in Seq(Fact)
           /\ << <<a, "feeConfig", fund>> >> \in Seq(Fact)
<1>1. m.yesToken \in Nat /\ m.noToken \in Nat /\ m.creditMarket \in Nat
  BY DEF Market, ContractNames
<1> QED
  BY <1>1 DEF CLOBRoles, EngineRoles, Fact, Roles

(* All the roles and settings of a market are facts.                        *)
LEMMA WiringTyped ==
    ASSUME NEW m \in Market, NEW fund \in Nat
    PROVE  Wiring(m, fund) \in Seq(Fact)
<1>1. /\ m.yesToken \in Nat /\ m.noToken \in Nat /\ m.creditMarket \in Nat
      /\ m.clobSettlement \in Nat /\ m.oracleRouter \in Nat /\ m.liquidationEngine \in Nat
  BY DEF Market, ContractNames
<1>2. << <<m.yesToken, "MINTER_ROLE", m.creditMarket>>, <<m.yesToken, "BURNER_ROLE", m.creditMarket>>,
         <<m.noToken, "MINTER_ROLE", m.creditMarket>>, <<m.noToken, "BURNER_ROLE", m.creditMarket>> >>
      \in Seq(Fact)
  BY <1>1 DEF Fact, Roles
<1>3. << <<m.creditMarket, "ORACLE_ROLE", m.oracleRouter>> >> \in Seq(Fact)
  BY <1>1 DEF Fact, Roles
<1>4. << <<m.creditMarket, "KEEPER_ROLE", "keeper">>,
          <<m.clobSettlement, "OPERATOR_ROLE", "operator">>,
          <<m.creditMarket, "PAUSER_ROLE", "pauser">>,
          <<m.oracleRouter, "ORACLE_ROLE", "attester">>,
          <<m.creditMarket, "depositCap", "set">>, <<m.creditMarket, "markBounds", "set">>,
          <<m.clobSettlement, "feeConfig", fund>> >> \in Seq(Fact)
  BY <1>1 DEF Fact, Roles
<1> QED
  BY <1>1, <1>2, <1>3, <1>4, RolesTyped, Joined DEF Wiring

(* The contracts of a market.                                               *)
LEMMA CreationsPlain ==
    ASSUME NEW m \in Market, NEW fund \in Nat
    PROVE  /\ MarketCreations(m) \in Seq(Plain)
           /\ << Create(EngineFor(m, fund)) >> \in Seq(Plain)
           /\ << Create(CLOBFor(m)) >> \in Seq(Plain)
           /\ << Create([kind |-> "InsuranceFund"]), Create(EngineFor(m, fund)) >> \in Seq(Plain)
           /\ << Create([kind |-> "MarketRegistry", insuranceFund |-> fund]) >> \in Seq(Plain)
<1>1. /\ m.yesToken \in Nat /\ m.noToken \in Nat /\ m.creditMarket \in Nat
      /\ m.clobSettlement \in Nat /\ m.oracleRouter \in Nat /\ m.liquidationEngine \in Nat
  BY DEF Market, ContractNames
<1>2. \A k \in Contract : Create(k) \in Plain
  BY DEF Create, Plain, Transaction
<1>3. /\ [kind |-> "YESToken"] \in Contract /\ [kind |-> "NOToken"] \in Contract
      /\ [kind |-> "InsuranceFund"] \in Contract
      /\ [kind |-> "CreditMarket", yesToken |-> m.yesToken, noToken |-> m.noToken] \in Contract
      /\ CLOBFor(m) \in Contract
      /\ [kind |-> "OracleRouter", creditMarket |-> m.creditMarket] \in Contract
      /\ EngineFor(m, fund) \in Contract
      /\ [kind |-> "MarketRegistry", insuranceFund |-> fund] \in Contract
  BY <1>1 DEF Contract, CLOBFor, EngineFor
<1> HIDE DEF Plain, Contract
<1> QED
  BY <1>2, <1>3 DEF MarketCreations

(* Deploy and the redeployments list nothing.                               *)
LEMMA DeployTxsPlain == ASSUME NEW n \in Nat PROVE DeployTxs(n) \in Seq(Plain)
<1>1. FirstMarket(n) \in Market /\ OwnFund(n) \in Nat
  BY MarketAtTyped DEF FirstMarket, OwnFund
<1> HIDE DEF Plain
<1> QED
  BY <1>1, CreationsPlain, WiringTyped, GrantingPlain, Joined DEF DeployTxs

(* What is plain is a transaction, and lists nothing.                       *)
LEMMA PlainRegistersNothing ==
    ASSUME NEW txs \in Seq(Plain)
    PROVE  txs \in Seq(Transaction) /\ \A k \in DOMAIN txs : txs[k].call # "register"
  BY DEF Plain

(* A transaction after plain ones is the last, and the only one that may    *)
(* list a market.                                                           *)
LEMMA RegisterAfterPlain ==
    ASSUME NEW txs \in Seq(Plain), NEW tx \in Transaction
    PROVE  /\ txs \o << tx >> \in Seq(Transaction)
           /\ Last(txs \o << tx >>) = tx
           /\ \A k \in DOMAIN (txs \o << tx >>) : k # Len(txs \o << tx >>) =>
                 (txs \o << tx >>)[k].call # "register"
<1>1. txs \in Seq(Transaction) /\ << tx >> \in Seq(Transaction)
  BY PlainRegistersNothing
<1>2. \A k \in DOMAIN txs : txs[k].call # "register"
  BY PlainRegistersNothing
<1> QED
  BY <1>1, <1>2 DEF Last
----------------------------------------------------------------------------
(* A script runs                                                           *)

(* A script moves the bounds and the broadcast, and nothing on the chain.   *)
LEMMA RunsTyped ==
    ASSUME TypeOK, NEW real \in BOOLEAN, NEW txs \in Seq(Transaction), Runs(real, txs)
    PROVE  /\ chain' = chain
           /\ broadcast' \in [todo : Seq(Transaction), nonce : Nat]
           /\ broadcast'.nonce <= chain.nonce
           /\ runs' \in 0 .. MaxRuns /\ dryRuns' \in 0 .. MaxDryRuns
           /\ IF real THEN broadcast' = [todo |-> txs, nonce |-> chain.nonce]
                      ELSE broadcast' = broadcast
<1>1. chain' = chain
  BY DEF Runs
<1>2. CASE real
  BY <1>2, RunsAssumption DEF Runs, TypeOK, ChainTypeOK
<1>3. CASE ~real
  BY <1>3, RunsAssumption DEF Runs, TypeOK
<1> QED
  BY <1>1, <1>2, <1>3

(* What a script that lists nothing leaves: the files and the registry      *)
(* agree, and core.json may name a registry that is not there yet.          *)
LEMMA PlainScript ==
    ASSUME IInv, NEW real \in BOOLEAN, NEW txs \in Seq(Plain), Runs(real, txs),
           UNCHANGED marketFile,
           core' = core \/ (real /\ core'.marketRegistry = chain.nonce)
    PROVE  BroadcastInv' /\ FilesMatchRegistry' /\ Agreed(chain)'
<1>1. txs \in Seq(Transaction) /\ \A k \in DOMAIN txs : txs[k].call # "register"
  BY PlainRegistersNothing
<1>2. chain' = chain
      /\ IF real THEN broadcast' = [todo |-> txs, nonce |-> chain.nonce]
                 ELSE broadcast' = broadcast
  BY <1>1, RunsTyped DEF IInv
<1>3. BroadcastInv'
  <2>1. CASE real
    <3>1. broadcast'.todo = txs
      BY <1>2, <2>1
    <3>2. txs # << >> => Last(txs).call # "register"
      BY <1>1 DEF Last
    <3> QED BY <1>1, <1>2, <3>1, <3>2 DEF BroadcastInv, RegistersLast, Filed, Promised
  <2>2. CASE ~real
    <3>1. UNCHANGED <<broadcast, chain, core, marketFile>>
      BY <1>2, <2>2
    <3> QED BY <3>1, Zenon DEF IInv, BroadcastInv, Filed
  <2> QED BY <2>1, <2>2
<1>4. FilesMatchRegistry'
  <2>1. CASE core' = core
    BY <1>2, <2>1, Zenon DEF IInv, FilesMatchRegistry
  <2>2. CASE core'.marketRegistry = chain.nonce
    <3>1. chain.nonce \notin DOMAIN chain.registries
      BY DEF IInv, TypeOK, ChainTypeOK
    <3> QED BY <1>2, <2>2, <3>1 DEF FilesMatchRegistry
  <2> QED BY <2>1, <2>2
<1> QED
  BY <1>2, <1>3, <1>4 DEF IInv

(* A script that lists a market last has asserted that it is wired, and     *)
(* writes its file.                                                         *)
LEMMA ListingScript ==
    ASSUME IInv, NEW real \in BOOLEAN, NEW first \in Seq(Plain),
           NEW on \in Nat, NEW slug \in Slugs, NEW m \in Market, NEW startBlock \in Nat,
           \A a \in ContractsOf(m) : startBlock <= a,
           NEW txs, txs = first \o << Register(on, slug, m, startBlock) >>,
           Runs(real, txs),
           NEW fund, IsConfigured(Outcome(txs), m, fund),
           Outcome(txs).registries[on].insuranceFund = fund,
           IF real THEN core'.marketRegistry = on /\ marketFile' = [marketFile EXCEPT ![slug] = m]
                   ELSE UNCHANGED <<core, marketFile>>,
           on = chain.nonce \/ (core' = core /\ ~Lists(chain.registries[on], slug))
    PROVE  BroadcastInv' /\ FilesMatchRegistry' /\ Agreed(chain)'
<1> DEFINE tx == Register(on, slug, m, startBlock)
<1>1. tx \in Transaction
  BY DEF Register, Transaction
<1>2. /\ txs \in Seq(Transaction) /\ Last(txs) = tx
      /\ \A k \in DOMAIN txs : k # Len(txs) => txs[k].call # "register"
  <2> HIDE DEF tx
  <2> QED BY <1>1, RegisterAfterPlain DEF tx
<1>3. chain' = chain
      /\ IF real THEN broadcast' = [todo |-> txs, nonce |-> chain.nonce]
                 ELSE broadcast' = broadcast
  BY <1>2, RunsTyped DEF IInv
<1>4. marketFile[slug]' = IF real THEN m ELSE marketFile[slug]
  BY DEF IInv, TypeOK
<1>5. BroadcastInv'
  <2>1. CASE real
    <3>1. broadcast'.todo = txs /\ broadcast'.nonce = chain.nonce
      BY <1>3, <2>1
    <3>2. RegistersLast(txs)
      BY <1>2, Zenon DEF RegistersLast
    <3>3. tx.slug = slug /\ tx.on = on /\ tx.set = m /\ tx.startBlock = startBlock
      BY DEF Register
    <3>4. \A k \in DOMAIN txs : txs[k].call = "register" => txs[k] = tx
      BY <1>2 DEF Last
    <3> HIDE DEF tx
    <3>5. Filed(tx)'
      BY <1>4, <2>1, <3>3 DEF Filed
    <3>6. Promised(chain, txs)
      <4>1. Simulated(chain, txs).chain = Outcome(txs)
        BY DEF Outcome
      <4> QED BY <1>2, <3>3, <4>1, Zenon DEF Promised
    <3>7. \A k \in DOMAIN txs : Filed(txs[k])'
      BY <3>4, <3>5, Zenon DEF Filed
    <3> QED BY <1>3, <3>1, <3>2, <3>6, <3>7, Zenon DEF BroadcastInv
  <2>2. CASE ~real
    <3>1. UNCHANGED <<broadcast, chain, core, marketFile>>
      BY <1>3, <2>2
    <3> QED BY <3>1, Zenon DEF IInv, BroadcastInv, Filed
  <2> QED BY <2>1, <2>2
<1>6. FilesMatchRegistry'
  <2>1. CASE ~real
    BY <1>3, <2>1, Zenon DEF IInv, FilesMatchRegistry
  <2>2. CASE real /\ on = chain.nonce
    <3>1. chain.nonce \notin DOMAIN chain.registries
      BY DEF IInv, TypeOK, ChainTypeOK
    <3> QED BY <1>3, <2>2, <3>1 DEF FilesMatchRegistry
  <2>3. CASE real /\ core' = core /\ ~Lists(chain.registries[on], slug)
    <3>1. \A s \in Slugs : s # slug => marketFile'[s] = marketFile[s]
      BY <2>3 DEF IInv, TypeOK
    <3> QED BY <1>3, <2>3, <3>1 DEF IInv, FilesMatchRegistry
  <2> QED BY <2>1, <2>2, <2>3
<1> QED
  BY <1>3, <1>5, <1>6 DEF IInv

(* A script whose files keep their types keeps all of them.                 *)
LEMMA ScriptTyped ==
    ASSUME TypeOK, NEW real \in BOOLEAN, NEW txs \in Seq(Transaction), Runs(real, txs),
           legacy' \in [set : Market, insuranceFund : Nat, full : BOOLEAN, startBlock : Nat],
           core' \in [marketRegistry : Nat, insuranceFund : Nat] \cup {NoFile},
           marketFile' \in [Slugs -> Market \cup {NoFile}]
    PROVE  TypeOK'
  BY RunsTyped DEF TypeOK

(* A market whose file was just written by Deploy starts before it exists.  *)
LEMMA DeployedTyped ==
    ASSUME NEW n \in Nat
    PROVE  /\ DeployedAt(n) \in [set : Market, insuranceFund : Nat, full : BOOLEAN, startBlock : Nat]
           /\ \A a \in ContractsOf(DeployedAt(n).set) : DeployedAt(n).startBlock <= a
<1>1. FirstMarket(n) \in Market /\ \A a \in ContractsOf(FirstMarket(n)) : a \in Nat /\ n <= a
  BY MarketAtTyped DEF FirstMarket
<1> QED
  BY <1>1 DEF DeployedAt, OwnFund

(* Deploy replaces the legacy file (Deploy.s.sol).                          *)
LEMMA DeployKeeps == ASSUME IInv, NEW real \in BOOLEAN, Deploy(real) PROVE IInv'
<1> DEFINE n == chain.nonce
<1>1. n \in Nat /\ TypeOK
  BY DEF IInv, TypeOK, ChainTypeOK
<1>2. DeployTxs(n) \in Seq(Plain) /\ Runs(real, DeployTxs(n)) /\ legacy' = DeployedAt(n)
      /\ UNCHANGED <<core, marketFile>>
  BY <1>1, DeployTxsPlain DEF Deploy
<1> HIDE DEF n
<1>3. BroadcastInv' /\ FilesMatchRegistry' /\ Agreed(chain)'
  BY <1>2, PlainScript
<1>4. TypeOK'
  BY <1>1, <1>2, PlainRegistersNothing, DeployedTyped, ScriptTyped DEF TypeOK
<1>5. LegacyInv'
  BY <1>1, <1>2, DeployedTyped DEF LegacyInv
<1> QED
  BY <1>3, <1>4, <1>5 DEF IInv

(* A file that is written back lacks what a registry needs.                 *)
LEMMA UpdatedTyped ==
    ASSUME TypeOK, NEW name \in ContractNames, NEW new \in Nat
    PROVE  /\ Updated(name, new)
                \in [set : Market, insuranceFund : Nat, full : BOOLEAN, startBlock : Nat]
           /\ ~Updated(name, new).full
<1>1. legacy \in [set : Market, insuranceFund : Nat, full : BOOLEAN, startBlock : Nat]
  BY DEF TypeOK
<1>2. [legacy.set EXCEPT ![name] = new] \in Market
  BY <1>1 DEF Market
<1> QED
  BY <1>1, <1>2 DEF Updated

(* A new CLOB for the market of the legacy file.                            *)
LEMMA RedeployCLOBKeeps ==
    ASSUME IInv, NEW real \in BOOLEAN, RedeployCLOBSettlement(real) PROVE IInv'
<1> DEFINE m == legacy.set
           new == chain.nonce
           revokes == [i \in 1 .. 3 |-> [call |-> "revoke", fact |-> CLOBRoles(m, m.clobSettlement)[i]]]
           txs == << Create(CLOBFor(m)) >>
                  \o Granting(CLOBRoles(m, new))
                  \o (IF m.clobSettlement # new THEN revokes ELSE << >>)
                  \o Granting(<< <<new, "feeConfig", legacy.insuranceFund>> >>)
<1>1. /\ new \in Nat /\ TypeOK /\ m \in Market /\ legacy.insuranceFund \in Nat
      /\ m.clobSettlement \in Nat
  BY DEF IInv, TypeOK, ChainTypeOK, Market, ContractNames
<1>2. Runs(real, txs) /\ legacy' = Updated("clobSettlement", new) /\ UNCHANGED <<core, marketFile>>
  BY Zenon DEF RedeployCLOBSettlement
<1>3. revokes \in Seq(Plain)
  <2> DEFINE roles == CLOBRoles(m, m.clobSettlement)
  <2>1. roles \in Seq(Fact) /\ Len(roles) = 3
    BY <1>1, RolesTyped
  <2> HIDE DEF roles
  <2>2. \A i \in 1 .. 3 : [call |-> "revoke", fact |-> roles[i]] \in Plain
    BY <2>1 DEF Plain, Transaction
  <2> HIDE DEF Plain
  <2> QED BY <2>2 DEF roles
<1>4. /\ << Create(CLOBFor(m)) >> \in Seq(Plain)
      /\ Granting(CLOBRoles(m, new)) \in Seq(Plain)
      /\ Granting(<< <<new, "feeConfig", legacy.insuranceFund>> >>) \in Seq(Plain)
  BY <1>1, CreationsPlain, RolesTyped, GrantingPlain
<1>5. txs \in Seq(Plain)
  <2> HIDE DEF revokes, m, new
  <2>1. (IF m.clobSettlement # new THEN revokes ELSE << >>) \in Seq(Plain)
    BY <1>3
  <2> QED BY <1>4, <2>1, Joined
<1> HIDE DEF txs, m, new
<1>6. BroadcastInv' /\ FilesMatchRegistry' /\ Agreed(chain)'
  BY <1>2, <1>5, PlainScript
<1>7. TypeOK' /\ LegacyInv'
  <2>1. /\ legacy' \in [set : Market, insuranceFund : Nat, full : BOOLEAN, startBlock : Nat]
        /\ ~legacy'.full
    BY <1>1, <1>2, UpdatedTyped DEF ContractNames
  <2>2. TypeOK'
    BY <1>1, <1>2, <1>5, <2>1, PlainRegistersNothing, ScriptTyped DEF TypeOK
  <2> QED BY <2>1, <2>2 DEF LegacyInv
<1> QED
  BY <1>6, <1>7 DEF IInv

(* A new engine for it.                                                     *)
LEMMA DeployEngineKeeps ==
    ASSUME IInv, NEW real \in BOOLEAN, DeployLiquidationEngine(real) PROVE IInv'
<1> DEFINE m == legacy.set
           new == chain.nonce
           txs == << Create(EngineFor(m, legacy.insuranceFund)) >>
                  \o Granting(EngineRoles(m, new, legacy.insuranceFund))
<1>1. new \in Nat /\ TypeOK /\ m \in Market /\ legacy.insuranceFund \in Nat
  BY DEF IInv, TypeOK, ChainTypeOK
<1>2. Runs(real, txs) /\ legacy' = Updated("liquidationEngine", new) /\ UNCHANGED <<core, marketFile>>
  BY Zenon DEF DeployLiquidationEngine
<1>3. txs \in Seq(Plain)
  <2>1. /\ << Create(EngineFor(m, legacy.insuranceFund)) >> \in Seq(Plain)
        /\ Granting(EngineRoles(m, new, legacy.insuranceFund)) \in Seq(Plain)
    BY <1>1, CreationsPlain, RolesTyped, GrantingPlain
  <2> QED BY <2>1, Joined
<1> HIDE DEF txs, m, new
<1>4. BroadcastInv' /\ FilesMatchRegistry' /\ Agreed(chain)'
  BY <1>2, <1>3, PlainScript
<1>5. TypeOK' /\ LegacyInv'
  <2>1. /\ legacy' \in [set : Market, insuranceFund : Nat, full : BOOLEAN, startBlock : Nat]
        /\ ~legacy'.full
    BY <1>1, <1>2, UpdatedTyped DEF ContractNames
  <2>2. TypeOK'
    BY <1>1, <1>2, <1>3, <2>1, PlainRegistersNothing, ScriptTyped DEF TypeOK
  <2> QED BY <2>1, <2>2 DEF LegacyInv
<1> QED
  BY <1>4, <1>5 DEF IInv

(* A registry that lists the market of the legacy file.                     *)
LEMMA DeployRegistryKeeps ==
    ASSUME IInv, NEW real \in BOOLEAN, DeployMarketRegistry(real) PROVE IInv'
<1> DEFINE m == legacy.set
           fund == legacy.insuranceFund
           new == chain.nonce
           first == << Create([kind |-> "MarketRegistry", insuranceFund |-> fund]) >>
           txs == << Create([kind |-> "MarketRegistry", insuranceFund |-> fund]),
                     Register(new, LegacySlug, m, legacy.startBlock) >>
<1>1. /\ new \in Nat /\ TypeOK /\ m \in Market /\ fund \in Nat /\ legacy.startBlock \in Nat
      /\ LegacySlug \in Slugs
  BY SlugsAssumption DEF IInv, TypeOK, ChainTypeOK
<1>2. /\ legacy.full /\ Runs(real, txs) /\ IsConfigured(Outcome(txs), m, fund)
      /\ IsRegistered(Outcome(txs), new, LegacySlug, m, legacy.startBlock, fund)
      /\ WritesCore(real, new, fund) /\ WritesMarket(real, LegacySlug, m) /\ UNCHANGED legacy
  BY Zenon DEF DeployMarketRegistry
<1>3. first \in Seq(Plain) /\ txs = first \o << Register(new, LegacySlug, m, legacy.startBlock) >>
  <2>1. first \in Seq(Plain)
    BY <1>1, CreationsPlain
  <2> QED BY <2>1
<1>4. txs \in Seq(Transaction)
  <2>1. Register(new, LegacySlug, m, legacy.startBlock) \in Transaction
    BY <1>1 DEF Register, Transaction
  <2> HIDE DEF first, m, new, txs
  <2> QED BY <1>3, <2>1, RegisterAfterPlain
<1>5. \A a \in ContractsOf(m) : legacy.startBlock <= a
  BY <1>2 DEF IInv, LegacyInv
<1>6. /\ Outcome(txs).registries[new].insuranceFund = fund
      /\ core' = IF real THEN [marketRegistry |-> new, insuranceFund |-> fund] ELSE core
      /\ marketFile' = IF real THEN [marketFile EXCEPT ![LegacySlug] = m] ELSE marketFile
  BY <1>2, Zenon DEF IsRegistered, WritesCore, WritesMarket, ShouldWrite
<1>7. core'.marketRegistry = new \/ ~real
  BY <1>6
<1> HIDE DEF txs, m, new, first, fund
<1>8. BroadcastInv' /\ FilesMatchRegistry' /\ Agreed(chain)'
  <2>1. new = chain.nonce
    BY DEF new
  <2> QED BY <1>1, <1>2, <1>3, <1>5, <1>6, <1>7, <2>1, ListingScript
<1>9. TypeOK'
  <2>1. core' \in [marketRegistry : Nat, insuranceFund : Nat] \cup {NoFile}
    BY <1>1, <1>6 DEF TypeOK
  <2>2. marketFile' \in [Slugs -> Market \cup {NoFile}]
    BY <1>1, <1>6 DEF TypeOK
  <2> QED BY <1>1, <1>2, <1>4, <2>1, <2>2, ScriptTyped DEF TypeOK
<1> QED
  BY <1>2, <1>8, <1>9 DEF IInv, LegacyInv

(* An empty registry beside the first.                                      *)
LEMMA DeployEmptyKeeps ==
    ASSUME IInv, NEW real \in BOOLEAN, DeployEmptyRegistry(real) PROVE IInv'
<1> DEFINE new == chain.nonce
           fund == core.insuranceFund
           txs == << Create([kind |-> "MarketRegistry", insuranceFund |-> fund]) >>
<1>1. new \in Nat /\ TypeOK /\ core # NoFile /\ fund \in Nat
  BY DEF IInv, TypeOK, ChainTypeOK, DeployEmptyRegistry
<1>2. Runs(real, txs) /\ WritesCore(real, new, fund) /\ UNCHANGED <<legacy, marketFile>>
  BY Zenon DEF DeployEmptyRegistry
<1>3. txs \in Seq(Plain)
  <2>1. legacy.set \in Market
    BY <1>1 DEF TypeOK
  <2> QED BY <1>1, <2>1, CreationsPlain
<1>4. core' = IF real THEN [marketRegistry |-> new, insuranceFund |-> fund] ELSE core
  BY <1>2, Zenon DEF WritesCore, ShouldWrite
<1>5. core' = core \/ (real /\ core'.marketRegistry = chain.nonce)
  BY <1>4
<1> HIDE DEF txs, new, fund
<1>6. BroadcastInv' /\ FilesMatchRegistry' /\ Agreed(chain)'
  BY <1>2, <1>3, <1>5, PlainScript
<1>7. TypeOK'
  <2>1. core' \in [marketRegistry : Nat, insuranceFund : Nat] \cup {NoFile}
    BY <1>1, <1>4 DEF TypeOK
  <2> QED BY <1>1, <1>2, <1>3, <2>1, PlainRegistersNothing, ScriptTyped DEF TypeOK
<1> QED
  BY <1>2, <1>6, <1>7 DEF IInv, LegacyInv

(* A market in the registry of core.json.                                   *)
LEMMA AddMarketKeeps ==
    ASSUME IInv, NEW real \in BOOLEAN, NEW slug \in Slugs, AddMarket(slug, real) PROVE IInv'
<1> DEFINE n == chain.nonce
           m == MarketAt(n, n + 5)
           fund == core.insuranceFund
           registry == core.marketRegistry
           first == MarketCreations(m) \o << Create(EngineFor(m, fund)) >>
                      \o Granting(Wiring(m, fund))
           txs == AddMarketTxs(m, fund, registry, slug, n)
<1>1. n \in Nat /\ TypeOK /\ core # NoFile /\ fund \in Nat /\ registry \in Nat
  BY DEF IInv, TypeOK, ChainTypeOK, AddMarket
<1>2. m \in Market /\ \A a \in ContractsOf(m) : n <= a
  BY <1>1, MarketAtTyped
<1>3. /\ Preflight(slug) /\ Runs(real, txs) /\ IsConfigured(Outcome(txs), m, fund)
      /\ IsRegistered(Outcome(txs), registry, slug, m, n, fund)
      /\ WritesMarket(real, slug, m) /\ UNCHANGED <<legacy, core>>
  BY Zenon DEF AddMarket
<1> HIDE DEF m, n, fund, registry
<1>4. first \in Seq(Plain) /\ txs = first \o << Register(registry, slug, m, n) >>
  <2>1. /\ MarketCreations(m) \in Seq(Plain) /\ << Create(EngineFor(m, fund)) >> \in Seq(Plain)
        /\ Granting(Wiring(m, fund)) \in Seq(Plain)
    BY <1>1, <1>2, CreationsPlain, WiringTyped, GrantingPlain
  <2>2. first \in Seq(Plain)
    BY <2>1, Joined
  <2>3. txs = first \o << Register(registry, slug, m, n) >>
    BY Zenon DEF AddMarketTxs
  <2> QED BY <2>2, <2>3
<1> HIDE DEF first, txs
<1>5. txs \in Seq(Transaction)
  <2>1. Register(registry, slug, m, n) \in Transaction
    BY <1>1, <1>2 DEF Register, Transaction
  <2> QED BY <1>4, <2>1, RegisterAfterPlain
<1>6. /\ Outcome(txs).registries[registry].insuranceFund = fund
      /\ marketFile' = IF real THEN [marketFile EXCEPT ![slug] = m] ELSE marketFile
      /\ ~Lists(chain.registries[registry], slug) /\ core'.marketRegistry = registry
  BY <1>3, Zenon DEF IsRegistered, WritesMarket, ShouldWrite, Preflight, registry
<1>7. BroadcastInv' /\ FilesMatchRegistry' /\ Agreed(chain)'
  BY <1>1, <1>2, <1>3, <1>4, <1>6, ListingScript
<1>8. TypeOK'
  <2>1. marketFile' \in [Slugs -> Market \cup {NoFile}]
    BY <1>1, <1>2, <1>6 DEF TypeOK
  <2> QED BY <1>1, <1>3, <1>5, <2>1, ScriptTyped DEF TypeOK
<1> QED
  BY <1>3, <1>7, <1>8 DEF IInv, LegacyInv
----------------------------------------------------------------------------
(* A transaction is mined                                                  *)

(* What is listed under another slug stays what it was.                     *)
LEMMA RegisteringKeepsOthers ==
    ASSUME NEW registry, RegistryTypeOK(registry), NEW slug \in Slugs \cup HandSlugs,
           NEW m \in Market, NEW startBlock \in Nat
    PROVE  LET new == Registering(registry, slug, m, startBlock) IN
           /\ MarketBySlug(new, slug).set = m
           /\ \A s : s # slug /\ Lists(new, s) =>
                 Lists(registry, s) /\ MarketBySlug(new, s) = MarketBySlug(registry, s)
<1> DEFINE new == Registering(registry, slug, m, startBlock)
           markets == registry.markets
<1>1. /\ new.markets = Append(markets, [slug |-> slug, set |-> m, startBlock |-> startBlock])
      /\ new.slugToIdPlusOne = With(registry.slugToIdPlusOne, slug, Len(markets) + 1)
      /\ markets \in Seq(Entry)
      /\ \A s \in DOMAIN registry.slugToIdPlusOne :
            registry.slugToIdPlusOne[s] \in DOMAIN markets
  <2>1. /\ new.markets = Append(markets, [slug |-> slug, set |-> m, startBlock |-> startBlock])
        /\ new.slugToIdPlusOne = With(registry.slugToIdPlusOne, slug, Len(markets) + 1)
    BY RegistersTyped, Zenon
  <2> HIDE DEF new
  <2> QED BY <2>1 DEF RegistryTypeOK
<1> HIDE DEF new, markets
<1>2. new.markets[Len(markets) + 1].set = m
      /\ \A i \in DOMAIN markets : new.markets[i] = markets[i]
  BY <1>1
<1>3. MarketBySlug(new, slug).set = m
  BY <1>1, <1>2 DEF MarketBySlug, With
<1>4. ASSUME NEW s, s # slug, Lists(new, s)
      PROVE  Lists(registry, s) /\ MarketBySlug(new, s) = MarketBySlug(registry, s)
  <2>1. /\ s \in DOMAIN registry.slugToIdPlusOne
        /\ new.slugToIdPlusOne[s] = registry.slugToIdPlusOne[s]
    BY <1>1, <1>4 DEF Lists, Read, With
  <2>2. Lists(registry, s)
    BY <1>1, <1>4, <2>1 DEF Lists, Read, With
  <2> QED BY <1>1, <1>2, <2>1, <2>2 DEF MarketBySlug, markets
<1> QED
  BY <1>3, <1>4 DEF new

(* The files agree with the registry after a transaction that lists what    *)
(* they name, or a slug that has no file.                                   *)
LEMMA MinedFiles ==
    ASSUME TypeOK, FilesMatchRegistry, NEW tx \in Transaction, Succeeds(chain, tx),
           chain' = After(chain, tx), UNCHANGED fileVars,
           tx.call = "register" =>
                tx.slug \in HandSlugs \/ (core.marketRegistry = tx.on /\ marketFile[tx.slug] = tx.set)
    PROVE  FilesMatchRegistry'
<1> DEFINE r == core.marketRegistry
<1>1. ChainTypeOK(chain) /\ UNCHANGED <<core, marketFile>>
  BY DEF TypeOK, fileVars
<1> SUFFICES ASSUME NEW slug \in Slugs, core # NoFile, r \in DOMAIN chain'.registries,
                    Lists(chain'.registries[r], slug)
             PROVE  MarketBySlug(chain'.registries[r], slug).set = marketFile[slug]
  BY <1>1, Zenon DEF FilesMatchRegistry
<1>2. r \in DOMAIN chain.registries /\ Lists(chain.registries[r], slug) =>
        MarketBySlug(chain.registries[r], slug).set = marketFile[slug]
  BY DEF FilesMatchRegistry
<1> HIDE DEF r
<1>3. CASE tx.call = "create" /\ tx.contract.kind = "MarketRegistry"
  <2>1. chain'.registries = With(chain.registries, chain.nonce, EmptyRegistry(tx.contract.insuranceFund))
    BY <1>1, <1>3, AfterCall
  <2>2. ~Lists(EmptyRegistry(tx.contract.insuranceFund), slug)
    BY DEF Lists, EmptyRegistry, Read
  <2> QED BY <1>2, <2>1, <2>2 DEF With
<1>4. CASE tx.call = "register"
  <2>1. chain'.registries = [chain.registries EXCEPT
                                ![tx.on] = Registering(@, tx.slug, tx.set, tx.startBlock)]
    BY <1>1, <1>4, AfterCall
  <2>2. tx.on \in DOMAIN chain.registries /\ RegistryTypeOK(chain.registries[tx.on])
    BY <1>1, <1>4 DEF Succeeds, ChainTypeOK
  <2>3. tx.slug \in Slugs \cup HandSlugs /\ tx.set \in Market /\ tx.startBlock \in Nat
    BY <1>4 DEF Transaction
  <2>4. CASE r # tx.on
    BY <1>2, <2>1, <2>4
  <2>5. CASE r = tx.on
    <3> DEFINE old == chain.registries[tx.on]
               new == Registering(old, tx.slug, tx.set, tx.startBlock)
    <3>1. chain'.registries[r] = new /\ r \in DOMAIN chain.registries
      BY <2>1, <2>2, <2>5
    <3>2. /\ MarketBySlug(new, tx.slug).set = tx.set
          /\ \A s : s # tx.slug /\ Lists(new, s) =>
                Lists(old, s) /\ MarketBySlug(new, s) = MarketBySlug(old, s)
      BY <2>2, <2>3, RegisteringKeepsOthers
    <3> HIDE DEF new
    <3>3. CASE slug = tx.slug
      <4>1. marketFile[tx.slug] = tx.set
        BY <1>4, <3>3, SlugsAssumption
      <4> QED BY <3>1, <3>2, <3>3, <4>1
    <3>4. CASE slug # tx.slug
      BY <1>2, <2>5, <3>1, <3>2, <3>4
    <3> QED BY <3>3, <3>4
  <2> QED BY <2>4, <2>5
<1>5. CASE tx.call # "register" /\ ~(tx.call = "create" /\ tx.contract.kind = "MarketRegistry")
  <2>1. chain'.registries = chain.registries
    BY <1>1, <1>5, AfterCall
  <2> QED BY <1>2, <2>1
<1> QED
  BY <1>3, <1>4, <1>5

(* What the rest of a broadcast promises.                                   *)
LEMMA RestPromised ==
    ASSUME NEW c, NEW todo \in Seq(Transaction), todo # << >>,
           Succeeds(c, Head(todo)), Promised(c, todo)
    PROVE  Promised(After(c, Head(todo)), Tail(todo))
<1> DEFINE rest == Tail(todo)
<1> SUFFICES ASSUME rest # << >>, Last(rest).call = "register"
             PROVE  LET tx == Last(rest)
                        final == Simulated(After(c, Head(todo)), rest).chain
                    IN  IsConfigured(final, tx.set, final.registries[tx.on].insuranceFund)
  BY Zenon DEF Promised
<1>1. Last(rest) = Last(todo)
  BY DEF Last
<1>2. Simulated(c, todo) = Simulated(After(c, Head(todo)), rest)
  BY SimulationGoesOn
<1> HIDE DEF rest
<1> QED
  BY <1>1, <1>2, Zenon DEF Promised

(* The next transaction of a broadcast is sent.                             *)
LEMMA SendsKeeps == ASSUME IInv, Sends PROVE IInv'
<1> DEFINE todo == broadcast.todo
           rest == Tail(broadcast.todo)
           tx == Head(broadcast.todo)
<1>1. /\ TypeOK /\ ChainTypeOK(chain) /\ Agreed(chain) /\ todo \in Seq(Transaction) /\ todo # << >>
      /\ broadcast.nonce \in Nat /\ broadcast.nonce = chain.nonce
  BY DEF IInv, TypeOK, Sends
<1>2. tx \in Transaction /\ tx = todo[1] /\ 1 \in DOMAIN todo /\ rest \in Seq(Transaction)
      /\ DOMAIN rest = 1 .. Len(todo) - 1 /\ \A k \in DOMAIN rest : rest[k] = todo[k + 1]
      /\ DOMAIN todo = 1 .. Len(todo) /\ Len(rest) = Len(todo) - 1 /\ Len(todo) \in Nat
  BY <1>1
<1>3. /\ Succeeds(chain, tx) /\ chain' = After(chain, tx)
      /\ broadcast' = [todo |-> rest, nonce |-> broadcast.nonce + 1]
      /\ UNCHANGED <<fileVars, runs, dryRuns>> /\ UNCHANGED <<legacy, core, marketFile>>
  BY Zenon DEF Sends, fileVars
<1>4. RegistersLast(todo) /\ (\A k \in DOMAIN todo : Filed(todo[k])) /\ Promised(chain, todo)
  BY <1>1, Zenon DEF IInv, BroadcastInv
<1> HIDE DEF todo, rest, tx
<1>5. chain'.nonce = chain.nonce + 1 /\ ChainTypeOK(chain') /\ Agreed(chain')
  BY <1>1, <1>2, <1>3, AfterCall, AfterTyped, AfterAgrees
<1>6. TypeOK'
  <2>1. broadcast' \in [todo : Seq(Transaction), nonce : Nat] /\ broadcast'.nonce <= chain'.nonce
    BY <1>1, <1>2, <1>3, <1>5 DEF ChainTypeOK
  <2> QED BY <1>1, <1>3, <1>5, <2>1 DEF TypeOK
<1>7. LegacyInv'
  BY <1>3 DEF IInv, LegacyInv
<1>8. BroadcastInv'
  <2>1. RegistersLast(rest)
    <3>1. \A k \in DOMAIN rest : k + 1 \in DOMAIN todo
      BY <1>2
    <3> QED BY <1>2, <1>4, <3>1 DEF RegistersLast
  <2>2. \A k \in DOMAIN rest : rest[k].call = "register" =>
            /\ rest[k].slug \in Slugs
            /\ core'.marketRegistry = rest[k].on
            /\ marketFile'[rest[k].slug] = rest[k].set
            /\ \A a \in ContractsOf(rest[k].set) : rest[k].startBlock <= a
    <3>1. \A k \in DOMAIN rest : Filed(rest[k])
      BY <1>2, <1>4
    <3> QED BY <1>3, <3>1, Zenon DEF Filed
  <2>3. Promised(chain', rest)
    BY <1>1, <1>3, <1>4, RestPromised DEF todo, rest, tx
  <2>4. broadcast'.todo = rest
    BY <1>3
  <2> QED BY <2>1, <2>2, <2>3, <2>4, Zenon DEF BroadcastInv, Filed
<1>9. FilesMatchRegistry'
  <2>1. tx.call = "register" => core.marketRegistry = tx.on /\ marketFile[tx.slug] = tx.set
    BY <1>2, <1>4 DEF Filed
  <2>2. FilesMatchRegistry
    BY DEF IInv
  <2> QED BY <1>1, <1>2, <1>3, <2>1, <2>2, MinedFiles
<1> QED
  BY <1>3, <1>5, <1>6, <1>7, <1>8, <1>9 DEF IInv

(* A market that is registered by hand has no file, and a broadcast that    *)
(* has not ended does not go on after it.                                   *)
LEMMA ByHandKeeps == ASSUME IInv, RegistersByHand PROVE IInv'
<1>1. /\ TypeOK /\ ChainTypeOK(chain) /\ Agreed(chain)
      /\ broadcast \in [todo : Seq(Transaction), nonce : Nat] /\ broadcast.nonce <= chain.nonce
      /\ chain.nonce \in Nat
  BY DEF IInv, TypeOK, ChainTypeOK
<1>2. PICK registry \in DOMAIN chain.registries, slug \in HandSlugs, a \in FiledMarkets,
           b \in FiledMarkets, name \in ContractNames :
        LET tx == Register(registry, slug, [a EXCEPT ![name] = b[name]], chain.nonce)
        IN  Succeeds(chain, tx) /\ chain' = After(chain, tx)
  BY Zenon DEF RegistersByHand
<1> DEFINE m == [a EXCEPT ![name] = b[name]]
           tx == Register(registry, slug, m, chain.nonce)
<1>3. Succeeds(chain, tx) /\ chain' = After(chain, tx)
  BY <1>2
<1>4. tx \in Transaction /\ tx.call = "register" /\ tx.slug = slug
  <2>1. FiledMarkets \subseteq Market
    BY <1>1 DEF FiledMarkets, TypeOK
  <2>2. m \in Market
    BY <2>1 DEF Market
  <2>3. registry \in Nat
    BY <1>1 DEF ChainTypeOK
  <2> HIDE DEF m
  <2> QED BY <1>1, <2>2, <2>3 DEF Register, Transaction
<1> HIDE DEF tx
<1>5. UNCHANGED <<legacy, core, marketFile>> /\ UNCHANGED fileVars /\ UNCHANGED <<broadcast, dryRuns>>
      /\ runs' = runs + 1 /\ runs < MaxRuns
  BY DEF RegistersByHand, fileVars
<1>6. chain'.nonce = chain.nonce + 1 /\ ChainTypeOK(chain') /\ Agreed(chain')
  BY <1>1, <1>3, <1>4, AfterCall, AfterTyped, AfterAgrees
<1>7. TypeOK'
  <2>1. runs' \in 0 .. MaxRuns
    BY <1>1, <1>5, RunsAssumption DEF TypeOK
  <2>2. broadcast'.nonce <= chain'.nonce
    BY <1>1, <1>5, <1>6
  <2> QED BY <1>1, <1>5, <1>6, <2>1, <2>2 DEF TypeOK
<1>8. LegacyInv'
  BY <1>5 DEF IInv, LegacyInv
<1>9. BroadcastInv'
  <2>1. broadcast'.nonce # chain'.nonce
    BY <1>1, <1>5, <1>6
  <2>2. RegistersLast(broadcast.todo) /\ \A k \in DOMAIN broadcast.todo : Filed(broadcast.todo[k])
    BY DEF IInv, BroadcastInv
  <2>3. broadcast' = broadcast
    BY <1>5
  <2> QED BY <1>5, <2>1, <2>2, <2>3, Zenon DEF BroadcastInv, Filed
<1>10. FilesMatchRegistry'
  <2>1. FilesMatchRegistry
    BY DEF IInv
  <2> QED BY <1>1, <1>3, <1>4, <1>5, <2>1, MinedFiles
<1> QED
  BY <1>6, <1>7, <1>8, <1>9, <1>10 DEF IInv

(* Deploy has been run on a chain with nothing on it.                       *)
LEMMA InitIInv == Init => IInv
<1> SUFFICES ASSUME Init PROVE IInv
  OBVIOUS
<1> DEFINE c0 == [nonce |-> 0, code |-> << >>, wired |-> {}, registries |-> << >>]
<1>1. ChainTypeOK(c0) /\ Agreed(c0)
  BY DEF ChainTypeOK, Agreed
<1>2. DeployTxs(0) \in Seq(Transaction)
  BY DeployTxsPlain, PlainRegistersNothing
<1>3. chain = Simulated(c0, DeployTxs(0)).chain
  BY DEF Init
<1> HIDE DEF c0
<1>4. ChainTypeOK(chain) /\ Agreed(chain) /\ chain.nonce \in Nat
  BY <1>1, <1>2, <1>3, SimulatedTyped DEF ChainTypeOK
<1>5. /\ legacy \in [set : Market, insuranceFund : Nat, full : BOOLEAN, startBlock : Nat]
      /\ LegacyInv
  BY DeployedTyped DEF Init, LegacyInv
<1>6. /\ core = NoFile /\ marketFile = [s \in Slugs |-> NoFile]
      /\ broadcast = [todo |-> << >>, nonce |-> 0] /\ runs = 0 /\ dryRuns = 0
  BY DEF Init
<1>7. TypeOK
  BY <1>4, <1>5, <1>6, RunsAssumption DEF TypeOK
<1>8. BroadcastInv
  BY <1>6 DEF BroadcastInv, RegistersLast, Promised
<1>9. FilesMatchRegistry
  BY <1>6 DEF FilesMatchRegistry
<1> QED
  BY <1>4, <1>5, <1>7, <1>8, <1>9 DEF IInv

(* Every step keeps the invariant.                                          *)
LEMMA NextIInv == IInv /\ [Next]_vars => IInv'
<1> SUFFICES ASSUME IInv, [Next]_vars PROVE IInv'
  OBVIOUS
<1>1. ASSUME NEW real \in BOOLEAN, ScriptRuns(real) PROVE IInv'
  BY <1>1, DeployKeeps, RedeployCLOBKeeps, DeployEngineKeeps, DeployRegistryKeeps,
     DeployEmptyKeeps, AddMarketKeeps DEF ScriptRuns
<1>2. CASE UNCHANGED vars
  <2>1. UNCHANGED <<chain, legacy, core, marketFile, broadcast, runs, dryRuns>>
    BY <1>2 DEF vars, fileVars
  <2> QED BY <2>1, Zenon DEF IInv, TypeOK, LegacyInv, BroadcastInv, Filed, FilesMatchRegistry
<1>3. CASE Next
  <2>1. TRUE \in BOOLEAN /\ FALSE \in BOOLEAN
    BY Zenon
  <2> QED BY <1>1, <1>3, <2>1, SendsKeeps, ByHandKeeps DEF Next
<1> QED
  BY <1>2, <1>3

(* The invariant holds throughout.                                          *)
THEOREM Invariance == Spec => []IInv
  BY InitIInv, NextIInv, PTL DEF Spec
----------------------------------------------------------------------------
(* The properties                                                          *)

(* The variables keep their types: the chain, its registries and contracts, *)
(* the files and the transactions still to send.                            *)
THEOREM TypeCorrect == Spec => []TypeOK
<1>1. IInv => TypeOK
  BY DEF IInv
<1> QED
  BY <1>1, Invariance, PTL

(* A market's file names what the registry of core.json lists under its     *)
(* slug: a script writes the file when it begins to send, and nobody else   *)
(* lists that slug.                                                         *)
THEOREM FilesNameWhatIsListed == Spec => []FilesMatchRegistry
<1>1. IInv => FilesMatchRegistry
  BY DEF IInv
<1> QED
  BY <1>1, Invariance, PTL

(* Slugs and addresses lead to one market each.                             *)
THEOREM LookupsLeadToOneMarket == Spec => []LookupsAgree
<1>1. IInv => LookupsAgree
  BY DEF IInv, Agreed, Agrees, LookupsAgree
<1> QED
  BY <1>1, Invariance, PTL

(* The least address of a market is one of its addresses.                   *)
LEMMA LeastContract ==
    ASSUME NEW m \in Market
    PROVE  Min(ContractsOf(m)) \in ContractsOf(m)
<1> DEFINE S == ContractsOf(m)
           below == {p \in Nat \X Nat : p[1] < p[2]}
<1>1. S \subseteq Nat /\ S # {}
  BY DEF Market, ContractsOf, ContractNames
<1>2. IsWellFoundedOn(below, Nat)
  BY NatLessThanWellFounded DEF OpToRel
<1>3. PICK x \in S : \A y \in S : <<y, x>> \notin below
  <2> HIDE DEF S, below
  <2> QED BY <1>1, <1>2, WFMin
<1>4. \A y \in S : x <= y
  <2> TAKE y \in S
  <2>1. x \in Nat /\ y \in Nat /\ <<y, x>> \notin below
    <3> HIDE DEF S, below
    <3> QED BY <1>1, <1>3
  <2> QED BY <2>1
<1> HIDE DEF S
<1> QED
  BY <1>3, <1>4, Zenon DEF Min, S

(* What a script lists is wired as it asserted, and a scan from its start   *)
(* block misses nothing: a transaction that lists is the last of its        *)
(* broadcast, and what the simulation ended with is what the chain becomes. *)
LEMMA ListsWired ==
    ASSUME IInv, Sends, NEW r \in DOMAIN chain.registries,
           Len(chain'.registries[r].markets) > Len(chain.registries[r].markets)
    PROVE  LET listed == chain'.registries[r].markets
               m == Last(listed).set
           IN  /\ IsConfigured(chain', m, chain.registries[r].insuranceFund)
               /\ Last(listed).startBlock <= Min(ContractsOf(m))
<1> DEFINE todo == broadcast.todo
           tx == Head(broadcast.todo)
<1>1. /\ ChainTypeOK(chain) /\ todo \in Seq(Transaction) /\ todo # << >>
      /\ broadcast.nonce = chain.nonce /\ Succeeds(chain, tx) /\ chain' = After(chain, tx)
  BY DEF IInv, TypeOK, Sends
<1>2. tx \in Transaction /\ tx = todo[1] /\ 1 \in DOMAIN todo
  BY <1>1
<1>3. RegistersLast(todo) /\ Filed(tx) /\ Promised(chain, todo)
  BY <1>1, <1>2 DEF IInv, BroadcastInv
<1> HIDE DEF todo, tx
<1>4. RegistryTypeOK(chain.registries[r]) /\ r \in Nat /\ r < chain.nonce
  BY <1>1 DEF ChainTypeOK
<1>5. tx.call = "register" /\ tx.on = r
  <2>1. ~(tx.call = "create" /\ tx.contract.kind = "MarketRegistry")
    <3> SUFFICES ASSUME tx.call = "create" /\ tx.contract.kind = "MarketRegistry" PROVE FALSE
      OBVIOUS
    <3>1. chain'.registries
            = With(chain.registries, chain.nonce, EmptyRegistry(tx.contract.insuranceFund))
      BY <1>1, <1>2, AfterCall
    <3>2. chain'.registries[r] = chain.registries[r]
      BY <1>1, <1>4, <3>1 DEF With, ChainTypeOK
    <3> QED BY <1>4, <3>2 DEF RegistryTypeOK
  <2>2. tx.call = "register"
    <3> SUFFICES ASSUME tx.call # "register" PROVE FALSE
      OBVIOUS
    <3>1. chain'.registries = chain.registries
      BY <1>1, <1>2, <2>1, AfterCall
    <3> QED BY <1>4, <3>1 DEF RegistryTypeOK
  <2>3. tx.on = r
    <3> SUFFICES ASSUME tx.on # r PROVE FALSE
      OBVIOUS
    <3>1. chain'.registries = [chain.registries EXCEPT
                                  ![tx.on] = Registering(@, tx.slug, tx.set, tx.startBlock)]
      BY <1>1, <1>2, <2>2, AfterCall
    <3>2. chain'.registries[r] = chain.registries[r]
      BY <3>1
    <3> QED BY <1>4, <3>2 DEF RegistryTypeOK
  <2> QED BY <2>2, <2>3
<1>6. tx.slug \in Slugs \cup HandSlugs /\ tx.set \in Market /\ tx.startBlock \in Nat
  BY <1>2, <1>5 DEF Transaction
<1>7. /\ chain'.registries[r].insuranceFund = chain.registries[r].insuranceFund
      /\ Last(chain'.registries[r].markets)
            = [slug |-> tx.slug, set |-> tx.set, startBlock |-> tx.startBlock]
  <2>1. chain'.registries[r] = Registering(chain.registries[r], tx.slug, tx.set, tx.startBlock)
    <3>1. chain'.registries = [chain.registries EXCEPT
                                  ![tx.on] = Registering(@, tx.slug, tx.set, tx.startBlock)]
      BY <1>1, <1>2, <1>5, AfterCall
    <3> QED BY <1>5, <3>1
  <2>2. /\ chain'.registries[r].insuranceFund = chain.registries[r].insuranceFund
        /\ chain'.registries[r].markets = Append(chain.registries[r].markets,
                [slug |-> tx.slug, set |-> tx.set, startBlock |-> tx.startBlock])
    BY <1>4, <1>6, <2>1, RegistersTyped
  <2>3. chain.registries[r].markets \in Seq(Entry)
    BY <1>4 DEF RegistryTypeOK
  <2> QED BY <2>2, <2>3 DEF Last
<1>8. IsConfigured(chain', tx.set, chain.registries[r].insuranceFund)
  <2>1. Len(todo) = 1 /\ Last(todo) = tx /\ Tail(todo) = << >>
    <3>1. Len(todo) = 1
      BY <1>2, <1>3, <1>5 DEF RegistersLast
    <3>2. Last(todo) = tx
      BY <1>2, <3>1 DEF Last
    <3>3. Tail(todo) \in Seq(Transaction) /\ Len(Tail(todo)) = 0
      BY <1>1, <3>1
    <3>4. Tail(todo) = << >>
      <4> DEFINE rest == Tail(todo)
      <4>1. rest \in Seq(Transaction) /\ Len(rest) = 0
        BY <3>3
      <4> HIDE DEF rest
      <4>2. rest = << >>
        BY <4>1
      <4> QED BY <4>2 DEF rest
    <3> QED BY <3>1, <3>2, <3>4
  <2>2. Simulated(chain, todo) = Simulated(chain', << >>)
    BY <1>1, <2>1, SimulationGoesOn DEF todo, tx
  <2>3. Simulated(chain', << >>).chain = chain'
    <3>1. << >> \in Seq(Transaction) /\ Len(<< >>) = 0
      OBVIOUS
    <3>2. Run(chain', << >>)[0] = [ok |-> TRUE, chain |-> chain']
      BY <3>1, RunUnfolds
    <3> QED BY <3>1, <3>2, SimulatedIsRun
  <2>4. IsConfigured(chain', tx.set, chain'.registries[tx.on].insuranceFund)
    BY <1>1, <1>3, <1>5, <2>1, <2>2, <2>3, Zenon DEF Promised
  <2> QED BY <1>5, <1>7, <2>4
<1>9. tx.startBlock <= Min(ContractsOf(tx.set))
  BY <1>3, <1>5, <1>6, LeastContract DEF Filed
<1> QED
  BY <1>7, <1>8, <1>9

(* So every market that a script lists is wired, whatever else was sent in  *)
(* between.                                                                 *)
THEOREM OnlyWiredIsListed == Spec => ListsOnlyWired
<1>1. IInv /\ [Next]_vars =>
        [\A r \in DOMAIN chain.registries :
            LET listed == chain'.registries[r].markets
                m == Last(listed).set
            IN  Sends /\ Len(listed) > Len(chain.registries[r].markets) =>
                   /\ IsConfigured(chain', m, chain.registries[r].insuranceFund)
                   /\ Last(listed).startBlock <= Min(ContractsOf(m))]_vars
  BY ListsWired, Zenon
<1> QED
  BY <1>1, Invariance, PTL DEF Spec, ListsOnlyWired
=============================================================================
