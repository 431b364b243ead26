----------------------- MODULE CreditProtocol_proofs -----------------------
(***************************************************************************)
(* The composed contracts, for any number of holders and any amounts: type *)
(* correctness, snapshots that never run ahead of the index, the lock that *)
(* a seizure flag is, conservation of carry, solvency, complete sets, and  *)
(* what a claim, a sale, the reserve and the seizure clock may do.         *)
(***************************************************************************)
EXTENDS CreditProtocol, FundingIndex_proofs, FiniteSetsExt, FiniteSetTheorems, SequenceTheorems

----------------------------------------------------------------------------
(* Sums over a finite set.  The community modules define a sum by recursion *)
(* over the subsets; what it computes follows from the two induction        *)
(* principles, stated for a set of numbers or of subsets.                   *)

SumOf(f, S) == MapThenSumSet(LAMBDA u : f[u], S)

Pick(s) == CHOOSE x \in s : TRUE

SumStep(f, g, s) == IF s = {} THEN 0 ELSE f[Pick(s)] + g[s \ {Pick(s)}]

PartialSums(f, S) == CHOOSE g : g = [s \in SUBSET S |-> SumStep(f, g, s)]

(* The numbers: a set that holds 0 and, with each number, the next one      *)
(* holds every number; a number left out would have a least such.           *)
LEMMA EveryNumber ==
     ASSUME NEW N, 0 \in N, \A n \in Nat : n \in N => n + 1 \in N
     PROVE  \A n \in Nat : n \in N
<1> SUFFICES ASSUME \E n \in Nat : n \notin N PROVE FALSE
  OBVIOUS
<1> DEFINE T == {n \in Nat : n \notin N}
           below == {p \in Nat \X Nat : p[1] < p[2]}
<1>0. IsWellFoundedOn(below, Nat)
  BY NatLessThanWellFounded DEF OpToRel
<1>1. PICK m \in T : \A k \in T : <<k, m>> \notin below
  <2>1. T \subseteq Nat /\ T # {}
    OBVIOUS
  <2> HIDE DEF T, below
  <2> QED BY <1>0, <2>1, WFMin
<1>2. m \in Nat /\ m # 0 /\ m - 1 \in Nat
  OBVIOUS
<1>3. m - 1 \notin T
  <2>1. <<m - 1, m>> \in below
    BY <1>2
  <2> QED BY <1>1, <2>1
<1> QED
  BY <1>2, <1>3

(* The parts of a finite set: a family that holds {}, and every part all of *)
(* whose parts short of one element it holds, holds every part; a part left *)
(* out would have a minimal such.                                           *)
LEMMA EverySubset ==
     ASSUME NEW S, IsFiniteSet(S), NEW C,
            {} \in C,
            \A T \in SUBSET S : T # {} /\ (\A x \in T : T \ {x} \in C) => T \in C
     PROVE  \A T \in SUBSET S : T \in C
<1> DEFINE bad == {T \in SUBSET S : T \notin C}
<1> SUFFICES ASSUME bad # {} PROVE FALSE
  OBVIOUS
<1>1. PICK T \in bad : \A U \in bad : <<U, T>> \notin StrictSubsetOrdering(S)
  <2>1. bad \subseteq FiniteSubsetsOf(S)
    BY FS_Subset DEF FiniteSubsetsOf
  <2> HIDE DEF bad
  <2> QED BY <2>1, FS_StrictSubsetOrderingWellFounded, WFMin
<1>2. T \in SUBSET S /\ T # {}
  OBVIOUS
<1>3. ASSUME NEW x \in T PROVE T \ {x} \in C
  <2>1. <<T \ {x}, T>> \in StrictSubsetOrdering(S)
    BY <1>2, <1>3 DEF StrictSubsetOrdering
  <2> QED BY <1>1, <1>2, <2>1
<1> QED
  BY <1>2, <1>3

(* What Pick returns is an element. *)
LEMMA Picks == ASSUME NEW s, s # {} PROVE Pick(s) \in s
  BY DEF Pick

(* The recursion has a solution: one that is right for the parts of at most *)
(* n elements gives one that is right for n + 1.                            *)
LEMMA PartialSumsExist ==
    ASSUME NEW S, IsFiniteSet(S), NEW f \in [S -> Int]
    PROVE  \E g \in [SUBSET S -> Int] : \A s \in SUBSET S : g[s] = SumStep(f, g, s)
<1> DEFINE Upto(n) == {s \in SUBSET S : Cardinality(s) <= n}
           N == {n \in Nat : \E g \in [SUBSET S -> Int] :
                               \A s \in Upto(n) : g[s] = SumStep(f, g, s)}
<1>1. \A s \in SUBSET S : Cardinality(s) \in Nat /\ Cardinality(s) <= Cardinality(S)
  BY FS_Subset, FS_CardinalityType
<1>2. \A s \in SUBSET S : (Cardinality(s) = 0 <=> s = {})
  BY FS_Subset, FS_EmptySet
<1>3. 0 \in N
  <2> DEFINE g == [s \in SUBSET S |-> 0]
  <2>1. \A s \in Upto(0) : g[s] = SumStep(f, g, s)
    BY <1>1, <1>2 DEF SumStep
  <2>2. g \in [SUBSET S -> Int]
    OBVIOUS
  <2> HIDE DEF g, Upto
  <2> QED BY <2>1, <2>2
<1>4. ASSUME NEW n \in Nat, n \in N PROVE n + 1 \in N
  <2>1. PICK g \in [SUBSET S -> Int] : \A s \in Upto(n) : g[s] = SumStep(f, g, s)
    BY <1>4
  <2> DEFINE h == [s \in SUBSET S |-> SumStep(f, g, s)]
  <2>2. h \in [SUBSET S -> Int]
    BY Picks DEF SumStep
  <2>3. ASSUME NEW s \in Upto(n + 1) PROVE h[s] = SumStep(f, h, s)
    <3>1. CASE s = {}
      BY <3>1 DEF SumStep
    <3>2. CASE s # {}
      <4> DEFINE r == s \ {Pick(s)}
      <4>1. Pick(s) \in s
        BY <3>2, Picks
      <4>2. Cardinality(r) <= n /\ r \in SUBSET S
        <5>1. IsFiniteSet(s) 
          BY FS_Subset
        <5>2. Cardinality(r) = Cardinality(s) - 1
          BY <4>1, <5>1, FS_RemoveElement
        <5> QED BY <5>2, <1>1
      <4>3. g[r] = SumStep(f, g, r) /\ h[r] = SumStep(f, g, r)
        BY <2>1, <4>2
      <4> QED BY <3>2, <4>3 DEF SumStep
    <3> QED BY <3>1, <3>2
  <2> HIDE DEF h, Upto
  <2> QED BY <2>2, <2>3
<1>5. Cardinality(S) \in N
  <2>1. \A n \in Nat : n \in N
    <3> HIDE DEF N
    <3> QED BY <1>3, <1>4, EveryNumber
  <2> QED BY <2>1, FS_CardinalityType
<1>6. PICK g \in [SUBSET S -> Int] : \A s \in Upto(Cardinality(S)) : g[s] = SumStep(f, g, s)
  BY <1>5
<1>7. \A s \in SUBSET S : g[s] = SumStep(f, g, s)
  BY <1>1, <1>6
<1> QED
  BY <1>7

(* So PartialSums solves it, and unfolds one element at a time. *)
LEMMA PartialSumsUnfold ==
    ASSUME NEW S, IsFiniteSet(S), NEW f \in [S -> Int]
    PROVE  /\ PartialSums(f, S)[{}] = 0
           /\ \A T \in SUBSET S : T # {} => 
                 /\ Pick(T) \in T
                 /\ PartialSums(f, S)[T] = f[Pick(T)] + PartialSums(f, S)[T \ {Pick(T)}]
<1>1. PartialSums(f, S) = [s \in SUBSET S |-> SumStep(f, PartialSums(f, S), s)]
  <2>1. PICK h \in [SUBSET S -> Int] : \A s \in SUBSET S : h[s] = SumStep(f, h, s)
    BY PartialSumsExist
  <2>2. h = [s \in SUBSET S |-> SumStep(f, h, s)]
    BY <2>1
  <2> QED BY <2>2, Zenon DEF PartialSums
<1>2. \A s \in SUBSET S : PartialSums(f, S)[s] = SumStep(f, PartialSums(f, S), s)
  BY <1>1
<1> QED
  BY <1>2, Picks DEF SumStep

(* A partial sum of integers is an integer. *)
LEMMA PartialSumsAreInt ==
    ASSUME NEW S, IsFiniteSet(S), NEW f \in [S -> Int], NEW T \in SUBSET S
    PROVE  PartialSums(f, S)[T] \in Int
<1> DEFINE s == PartialSums(f, S)
           C == {U \in SUBSET S : s[U] \in Int}
<1>1. {} \in C
  BY PartialSumsUnfold
<1>2. ASSUME NEW U \in SUBSET S, U # {}, \A x \in U : U \ {x} \in C
      PROVE  U \in C
  <2>1. Pick(U) \in U /\ s[U] = f[Pick(U)] + s[U \ {Pick(U)}]
    BY <1>2, PartialSumsUnfold
  <2>2. f[Pick(U)] \in Int /\ s[U \ {Pick(U)}] \in Int
    BY <1>2, <2>1
  <2> QED BY <2>1, <2>2
<1>3. T \in C
  <2> HIDE DEF C
  <2> QED BY <1>1, <1>2, EverySubset
<1> QED
  BY <1>3

(* The sum over S is the last partial sum. *)
LEMMA SumUnfold == ASSUME NEW f, NEW S PROVE SumOf(f,S) = PartialSums(f,S)[S]
  BY DEF SumOf, MapThenSumSet, MapThenFoldSet, PartialSums, Pick, SumStep

(* A sum of integers is an integer. *)
LEMMA SumIsInt ==
    ASSUME NEW S, IsFiniteSet(S), NEW f \in [S -> Int]
    PROVE  SumOf(f, S) \in Int
  BY PartialSumsAreInt, SumUnfold

(* No sum of balances is negative. *)
LEMMA SumIsNat ==
    ASSUME NEW S, IsFiniteSet(S), NEW f \in [S -> Nat]
    PROVE  SumOf(f, S) \in Nat
<1> DEFINE s == PartialSums(f, S)
           C == {U \in SUBSET S : s[U] \in Nat}
<1>0. f \in [S -> Int]
  OBVIOUS
<1>1. {} \in C
  BY <1>0, PartialSumsUnfold
<1>2. ASSUME NEW U \in SUBSET S, U # {}, \A x \in U : U \ {x} \in C
      PROVE  U \in C
  <2>1. Pick(U) \in U /\ s[U] = f[Pick(U)] + s[U \ {Pick(U)}]
    BY <1>0, <1>2, PartialSumsUnfold
  <2>2. f[Pick(U)] \in Nat /\ s[U \ {Pick(U)}] \in Nat
    BY <1>2, <2>1
  <2> QED BY <2>1, <2>2
<1>3. S \in C
  <2> HIDE DEF C
  <2> QED BY <1>1, <1>2, EverySubset
<1> QED
  BY <1>3, SumUnfold

(* The sum of a pointwise sum is the sum of the sums. *)
LEMMA SumPlus ==
    ASSUME NEW S, IsFiniteSet(S), NEW f \in [S -> Int], NEW g \in [S -> Int],
           NEW h \in [S -> Int], \A u \in S : h[u] = f[u] + g[u]
    PROVE  SumOf(h, S) = SumOf(f, S) + SumOf(g, S)
<1> DEFINE C == {U \in SUBSET S :
                   PartialSums(h, S)[U] = PartialSums(f, S)[U] + PartialSums(g, S)[U]}
<1>1. {} \in C
  BY PartialSumsUnfold
<1>2. ASSUME NEW U \in SUBSET S, U # {}, \A x \in U : U \ {x} \in C
      PROVE  U \in C
  <2> DEFINE x == Pick(U)
             R == U \ {x}
  <2>1. /\ x \in U
        /\ PartialSums(h, S)[U] = h[x] + PartialSums(h, S)[R]
        /\ PartialSums(f, S)[U] = f[x] + PartialSums(f, S)[R]
        /\ PartialSums(g, S)[U] = g[x] + PartialSums(g, S)[R]
    BY <1>2, PartialSumsUnfold
  <2>2. /\ PartialSums(h, S)[R] = PartialSums(f, S)[R] + PartialSums(g, S)[R]
        /\ f[x] \in Int /\ g[x] \in Int /\ h[x] = f[x] + g[x]
        /\ R \in SUBSET S
    BY <1>2, <2>1
  <2>3. PartialSums(f, S)[R] \in Int /\ PartialSums(g, S)[R] \in Int
    BY <2>2, PartialSumsAreInt
  <2> QED BY <2>1, <2>2, <2>3
<1>3. S \in C
  <2> HIDE DEF C
  <2> QED BY <1>1, <1>2, EverySubset
<1> QED
  BY <1>3, SumUnfold

(* A common factor comes out of the sum. *)
LEMMA SumScaled ==
    ASSUME NEW S, IsFiniteSet(S), NEW f \in [S -> Int], NEW c \in Int,
           NEW h \in [S -> Int], \A u \in S : h[u] = c * f[u]
    PROVE  SumOf(h, S) = c * SumOf(f, S)
<1> DEFINE C == {U \in SUBSET S : PartialSums(h, S)[U] = c * PartialSums(f, S)[U]}
<1>1. {} \in C
  BY PartialSumsUnfold
<1>2. ASSUME NEW U \in SUBSET S, U # {}, \A x \in U : U \ {x} \in C
      PROVE  U \in C
  <2> DEFINE x == Pick(U)
             R == U \ {x}
  <2>1. /\ x \in U
        /\ PartialSums(h, S)[U] = h[x] + PartialSums(h, S)[R]
        /\ PartialSums(f, S)[U] = f[x] + PartialSums(f, S)[R]
    BY <1>2, PartialSumsUnfold
  <2>2. /\ PartialSums(h, S)[R] = c * PartialSums(f, S)[R]
        /\ f[x] \in Int /\ h[x] = c * f[x]
        /\ R \in SUBSET S
    BY <1>2, <2>1
  <2>3. PartialSums(f, S)[R] \in Int
    BY <2>2, PartialSumsAreInt
  <2> HIDE DEF x, R
  <2> QED BY <2>1, <2>2, <2>3
<1>3. S \in C
  <2> HIDE DEF C
  <2> QED BY <1>1, <1>2, EverySubset
<1> QED
  BY <1>3, SumUnfold

(* One holder counts. *)
LEMMA SumOfOne ==
    ASSUME NEW S, IsFiniteSet(S), NEW f \in [S -> Int], NEW a \in S,
           \A u \in S : u # a => f[u] = 0
    PROVE  SumOf(f, S) = f[a]
<1> DEFINE C == {U \in SUBSET S : PartialSums(f, S)[U] = IF a \in U THEN f[a] ELSE 0}
<1>1. {} \in C
  BY PartialSumsUnfold
<1>2. ASSUME NEW U \in SUBSET S, U # {}, \A x \in U : U \ {x} \in C
      PROVE  U \in C
  <2> DEFINE x == Pick(U)
             R == U \ {x}
  <2>1. /\ x \in U
        /\ PartialSums(f, S)[U] = f[x] + PartialSums(f, S)[R]
    <3>1. U # {}
      BY <1>2
    <3> HIDE DEF C
    <3> QED BY <3>1, PartialSumsUnfold
  <2>2. /\ PartialSums(f, S)[R] = IF a \in R THEN f[a] ELSE 0
        /\ f[x] \in Int /\ f[a] \in Int
    BY <1>2, <2>1
  <2>3. CASE x = a
    BY <2>1, <2>2, <2>3
  <2>4. CASE x # a
    <3>1. f[x] = 0 /\ (a \in R <=> a \in U)
      BY <2>1, <2>4
    <3> QED BY <2>1, <2>2, <3>1
  <2> QED BY <2>3, <2>4
<1>3. S \in C
  <2> HIDE DEF C
  <2> QED BY <1>1, <1>2, EverySubset
<1> QED
  BY <1>3, SumUnfold

(* No holder counts. *)
LEMMA SumOfNone ==
    ASSUME NEW S, IsFiniteSet(S), NEW f \in [S -> Int], \A u \in S : f[u] = 0
    PROVE  SumOf(f, S) = 0
<1>1. \A u \in S : f[u] = 0 * f[u]
  OBVIOUS
<1>2. SumOf(f, S) = 0 * SumOf(f, S)
  BY <1>1, SumScaled
<1> QED
  BY <1>2, SumIsInt

(* A change of one holder changes the sum by as much. *)
LEMMA SumChangedAtOne ==
    ASSUME NEW S, IsFiniteSet(S), NEW f \in [S -> Int], NEW h \in [S -> Int],
           NEW a \in S, \A u \in S : u # a => h[u] = f[u]
    PROVE  SumOf(h, S) = SumOf(f, S) + (h[a] - f[a])
<1> DEFINE d == [u \in S |-> h[u] - f[u]]
<1>1. d \in [S -> Int] /\ d[a] = h[a] - f[a]
  OBVIOUS
<1>2. \A u \in S : u # a => d[u] = 0
  OBVIOUS
<1>3. \A u \in S : h[u] = f[u] + d[u]
  OBVIOUS
<1> HIDE DEF d
<1>4. SumOf(d, S) = d[a]
  BY <1>1, <1>2, SumOfOne
<1>5. SumOf(h, S) = SumOf(f, S) + SumOf(d, S)
  BY <1>1, <1>3, SumPlus
<1> QED
  BY <1>1, <1>4, <1>5

(* A change of two holders changes the sum by both. *)
LEMMA SumChangedAtTwo ==
    ASSUME NEW S, IsFiniteSet(S), NEW f \in [S -> Int], NEW h \in [S -> Int],
           NEW a \in S, NEW b \in S, a # b,
           \A u \in S : u # a /\ u # b => h[u] = f[u]
    PROVE  SumOf(h, S) = SumOf(f, S) + (h[a] - f[a]) + (h[b] - f[b])
<1> DEFINE m == [f EXCEPT ![a] = h[a]]
<1>1. /\ m \in [S -> Int] /\ m[a] = h[a] /\ m[b] = f[b]
      /\ \A u \in S : u # a => m[u] = f[u]
      /\ \A u \in S : u # b => h[u] = m[u]
  OBVIOUS
<1> HIDE DEF m
<1>2. SumOf(m, S) = SumOf(f, S) + (m[a] - f[a])
  BY <1>1, SumChangedAtOne
<1>3. SumOf(h, S) = SumOf(m, S) + (h[b] - m[b])
  BY <1>1, SumChangedAtOne
<1>4. SumOf(f, S) \in Int /\ f[a] \in Int /\ f[b] \in Int /\ h[a] \in Int /\ h[b] \in Int
  BY SumIsInt
<1> QED
  BY <1>1, <1>2, <1>3, <1>4

(* Two holders count. *)
LEMMA SumOfTwo ==
    ASSUME NEW S, IsFiniteSet(S), NEW f \in [S -> Int], NEW a \in S, NEW b \in S, a # b,
           \A u \in S : u # a /\ u # b => f[u] = 0
    PROVE  SumOf(f, S) = f[a] + f[b]
<1> DEFINE m == [f EXCEPT ![b] = 0]
<1>1. /\ m \in [S -> Int] /\ m[a] = f[a] /\ m[b] = 0
      /\ \A u \in S : u # a => m[u] = 0
      /\ \A u \in S : u # b => f[u] = m[u]
  OBVIOUS
<1> HIDE DEF m
<1>2. SumOf(m, S) = m[a]
  BY <1>1, SumOfOne
<1>3. SumOf(f, S) = SumOf(m, S) + (f[b] - m[b])
  BY <1>1, SumChangedAtOne
<1> QED
  BY <1>1, <1>2, <1>3

(* The sum of a pointwise difference, with a factor on what is taken off. *)
LEMMA SumMinusScaled ==
    ASSUME NEW S, IsFiniteSet(S), NEW f \in [S -> Int], NEW g \in [S -> Int], NEW c \in Int,
           NEW h \in [S -> Int], \A u \in S : h[u] = f[u] - g[u] * c
    PROVE  SumOf(h, S) = SumOf(f, S) - SumOf(g, S) * c
<1> DEFINE k == [u \in S |-> (-c) * g[u]]
<1>1. \A u \in S : (-c) * g[u] \in Int /\ h[u] = f[u] + (-c) * g[u]
  <2> TAKE u \in S
  <2>1. f[u] \in Int /\ g[u] \in Int /\ h[u] = f[u] - g[u] * c
    OBVIOUS
  <2>2. \A x, y \in Int : (-c) * x \in Int /\ y - x * c = y + (-c) * x
    BY SMT
  <2> QED BY <2>1, <2>2
<1>2. k \in [S -> Int] /\ \A u \in S : k[u] = (-c) * g[u] /\ h[u] = f[u] + k[u]
  BY <1>1
<1> HIDE DEF k
<1>3. -c \in Int
  OBVIOUS
<1>4. SumOf(k, S) = (-c) * SumOf(g, S)
  BY <1>2, <1>3, SumScaled
<1>5. SumOf(h, S) = SumOf(f, S) + SumOf(k, S)
  BY <1>2, SumPlus
<1>6. SumOf(f, S) \in Int /\ SumOf(g, S) \in Int
  BY SumIsInt
<1>7. \A x, y \in Int : y + (-c) * x = y - x * c
  BY SMT
<1> QED
  BY <1>4, <1>5, <1>6, <1>7

(* The sum of a pointwise sum, with a factor on what is added. *)
LEMMA SumPlusScaled ==
    ASSUME NEW S, IsFiniteSet(S), NEW f \in [S -> Int], NEW g \in [S -> Int], NEW c \in Int,
           NEW h \in [S -> Int], \A u \in S : h[u] = f[u] + g[u] * c
    PROVE  SumOf(h, S) = SumOf(f, S) + SumOf(g, S) * c
<1> DEFINE k == [u \in S |-> c * g[u]]
<1>1. \A u \in S : c * g[u] \in Int /\ h[u] = f[u] + c * g[u]
  <2> TAKE u \in S
  <2>1. f[u] \in Int /\ g[u] \in Int /\ h[u] = f[u] + g[u] * c
    OBVIOUS
  <2>2. \A x, y \in Int : c * x \in Int /\ y + x * c = y + c * x
    BY SMT
  <2> QED BY <2>1, <2>2
<1>2. k \in [S -> Int] /\ \A u \in S : k[u] = c * g[u] /\ h[u] = f[u] + k[u]
  BY <1>1
<1> HIDE DEF k
<1>3. SumOf(k, S) = c * SumOf(g, S)
  BY <1>2, SumScaled
<1>4. SumOf(h, S) = SumOf(f, S) + SumOf(k, S)
  BY <1>2, SumPlus
<1>5. SumOf(f, S) \in Int /\ SumOf(g, S) \in Int
  BY SumIsInt
<1>6. \A x, y \in Int : y + c * x = y + x * c
  BY SMT
<1> QED
  BY <1>3, <1>4, <1>5, <1>6

----------------------------------------------------------------------------
USE ClockConstants, IndexConstants, MarketConstants, FundConstants, ProtocolConstants

(* Types, the soundness of the index and the order of the snapshots hold    *)
(* each other up: a debt is a natural number only while no snapshot is      *)
(* ahead of the index.                                                      *)
IInv ==
    /\ TypeOK
    /\ IndexSound
    /\ SnapshotsBehindIndex
    /\ FlaggedHoldsYES

----------------------------------------------------------------------------
(* What one holder owes and is owed                                        *)

(* _yesDebit returns an unsigned integer that covers the carry and exceeds *)
(* it by less than one unit.                                               *)
LEMMA DebitRoundsUp ==
    ASSUME NEW bal \in Nat, NEW moved \in Nat
    PROVE  /\ YesDebit(bal, moved) \in Nat
           /\ bal * moved <= YesDebit(bal, moved) * WAD
           /\ YesDebit(bal, moved) * WAD <= bal * moved + (WAD - 1)
<1> DEFINE carry == bal * moved
<1>1. carry \in Nat
  BY ProductIsNat
<1>2. CASE carry = 0
  BY <1>2 DEF YesDebit
<1>3. CASE carry # 0
  <2> DEFINE q == (carry - 1) \div WAD
  <2>1. YesDebit(bal, moved) = q + 1
    BY <1>3 DEF YesDebit
  <2> HIDE DEF carry
  <2>2. q \in Nat /\ q * WAD <= carry - 1 /\ carry - 1 <= q * WAD + (WAD - 1)
    BY <1>1, <1>3, DivBounds, carry - 1 \in Nat
  <2>3. (q + 1) * WAD = q * WAD + WAD /\ q * WAD \in Nat
    <3> HIDE DEF q
    <3> QED BY <2>2, Distribute, ProductIsNat
  <2>4. /\ q + 1 \in Nat
        /\ carry <= (q + 1) * WAD
        /\ (q + 1) * WAD <= carry + (WAD - 1)
    <3> HIDE DEF q
    <3> QED BY <1>1, <2>2, <2>3
  <2> QED BY <2>1, <2>4 DEF carry
<1> QED
  BY <1>2, <1>3

(* Settling pays out or records exactly the difference between what a       *)
(* holder earned and what it owes, never both, and in whole units.          *)
LEMMA SettlementNets ==
    ASSUME MarketTypeOK, IndexSound, SnapshotsBehindIndex, NEW u \in Users
    PROVE  /\ Owed(u) \in Nat
           /\ NoCredit(u) \in Nat
           /\ CreditPaid(u) \in Nat
           /\ DebtSettled(u) \in Nat
           /\ DebtSettled(u) <= Owed(u)
           /\ CreditPaid(u) - DebtSettled(u) = NoCredit(u) - Owed(u)
           /\ CreditPaid(u) = 0 \/ DebtSettled(u) = 0
<1> USE DEF MarketTypeOK
<1>1. /\ ProjectedCumYES \in Nat /\ ProjectedCumNO = ProjectedCumYES
      /\ ProjectedCumYES >= cumulativeFundingPerYES
  BY ProjectionSound
<1>2. /\ ProjectedCumYES - fundingSnapshot[u] \in Nat
      /\ ProjectedCumNO - snapNO[u] \in Nat
      /\ fundingDebt[u] \in Nat /\ yes[u] \in Nat /\ no[u] \in Nat
  BY <1>1 DEF SnapshotsBehindIndex, IndexSound, IndexTypeOK
<1>3. Owed(u) \in Nat
  <2>1. YesDebit(yes[u], ProjectedCumYES - fundingSnapshot[u]) \in Nat
    BY <1>2, DebitRoundsUp
  <2> QED BY <1>2, <2>1 DEF Owed
<1>4. NoCredit(u) \in Nat
  <2>1. no[u] * (ProjectedCumNO - snapNO[u]) \in Nat
    BY <1>2, ProductIsNat
  <2> QED BY <2>1, DivBounds DEF NoCredit
<1> QED
  BY <1>3, <1>4 DEF CreditPaid, DebtSettled

(* What settling any holders leaves: debts in their type, a sound index,   *)
(* and snapshots no further than it.                                       *)
LEMMA SettlementKeeps ==
    ASSUME MarketTypeOK, IndexSound, SnapshotsBehindIndex, NEW S \in SUBSET Users,
           SettleSnapshots(S), UNCHANGED priceVars
    PROVE  /\ IndexTypeOK' /\ IndexSound' /\ SnapshotsBehindIndex'
           /\ fundingSnapshot' \in [Users -> Nat]
           /\ snapNO' \in [Users -> Nat]
           /\ DebtsSettled(S) \in [Users -> Nat]
<1>1. Accrue /\ UNCHANGED <<now, markVars, boundVars>> /\ IndexTypeOK
  BY DEF SettleSnapshots, priceVars, MarketTypeOK
<1>2. IndexTypeOK' /\ IndexSound'
  BY <1>1, AccrualKeepsIndex
<1>3. /\ cumulativeFundingPerYES' = ProjectedCumYES
      /\ cumFundingPerNO' = ProjectedCumYES
      /\ ProjectedCumYES \in Nat
      /\ ProjectedCumYES >= cumulativeFundingPerYES
      /\ cumFundingPerNO = cumulativeFundingPerYES
      /\ ProjectedCumNO = ProjectedCumYES
  BY <1>1, AccrualSound, ProjectionSound DEF IndexSound
<1>4. fundingSnapshot' \in [Users -> Nat] /\ snapNO' \in [Users -> Nat]
  BY <1>3 DEF SettleSnapshots, MarketTypeOK
<1>5. SnapshotsBehindIndex'
  <2> SUFFICES ASSUME NEW u \in Users
               PROVE  /\ fundingSnapshot'[u] <= ProjectedCumYES
                      /\ snapNO'[u] <= ProjectedCumYES
    BY <1>3 DEF SnapshotsBehindIndex
  <2>1. /\ fundingSnapshot[u] \in Nat /\ snapNO[u] \in Nat
        /\ fundingSnapshot[u] <= cumulativeFundingPerYES
        /\ snapNO[u] <= cumulativeFundingPerYES
        /\ cumulativeFundingPerYES \in Nat
    BY <1>3 DEF SnapshotsBehindIndex, MarketTypeOK, IndexTypeOK
  <2>2. /\ fundingSnapshot'[u] = IF u \in S THEN ProjectedCumYES ELSE fundingSnapshot[u]
        /\ snapNO'[u] = IF u \in S THEN ProjectedCumNO ELSE snapNO[u]
    BY DEF SettleSnapshots
  <2> QED BY <1>3, <2>1, <2>2
<1>6. DebtsSettled(S) \in [Users -> Nat]
  BY SettlementNets DEF DebtsSettled, MarketTypeOK
<1> QED
  BY <1>2, <1>4, <1>5, <1>6

(* Tokens in a transfer the sender can cover stay natural numbers. *)
LEMMA MovedBalances ==
    ASSUME NEW balance \in [Users -> Nat], NEW from \in Users, NEW to \in Users,
           NEW tokens \in Nat, tokens <= balance[from]
    PROVE  /\ Moved(balance, from, to, tokens) \in [Users -> Nat]
           /\ \A u \in Users : u # from =>
                Moved(balance, from, to, tokens)[u] >= balance[u]
  BY DEF Moved

(* The seller's debt share is part of its debt. *)
LEMMA ShareOfDebt ==
    ASSUME MarketTypeOK, IndexSound, SnapshotsBehindIndex,
           NEW u \in Users, NEW tokens \in Nat \ {0}
    PROVE  /\ DebtShare(u, tokens) \in Nat
           /\ yes[u] > 0 => DebtShare(u, tokens) <= DebtSettled(u)
<1> DEFINE debt == DebtSettled(u)
           held == yes[u]
<1>1. debt \in Nat /\ held \in Nat
  BY SettlementNets DEF MarketTypeOK
<1>2. CASE tokens >= held
  BY <1>1, <1>2 DEF DebtShare
<1>3. CASE ~(tokens >= held)
  <2>1. DebtShare(u, tokens) = (debt * tokens) \div held
    BY <1>3 DEF DebtShare
  <2> HIDE DEF debt, held
  <2>2. held \in Nat \ {0} /\ tokens <= held /\ debt * tokens \in Nat
    BY <1>1, <1>3, ProductIsNat
  <2>3. (debt * tokens) \div held \in Nat
    BY <2>2, DivBounds
  <2>4. (debt * tokens) \div held <= debt
    <3>1. debt * tokens <= debt * held /\ debt * held \in Nat
      <4>1. tokens * debt <= held * debt
        BY <1>1, <2>2, ProductMonotone
      <4>2. tokens * debt = debt * tokens /\ held * debt = debt * held
        BY <1>1, SMT
      <4> QED BY <1>1, <4>1, <4>2, ProductIsNat
    <3>2. (debt * tokens) \div held <= (debt * held) \div held
      BY <2>2, <3>1, DivMonotone
    <3>3. (debt * held) \div held = debt
      BY <1>1, <2>2, DivOfProduct
    <3> QED BY <3>2, <3>3
  <2> QED BY <2>1, <2>3, <2>4 DEF debt
<1> QED
  BY <1>2, <1>3

----------------------------------------------------------------------------
(* The inductive invariant holds at first and is kept by every action      *)

(* The constructors leave an empty ledger: no snapshot, no flag. *)
LEMMA InitIInv == Init => IInv
<1> SUFFICES ASSUME Init PROVE IInv
  OBVIOUS
<1> USE DEF Init, MarketInit, IndexInit, FundInit
<1>1. IndexTypeOK /\ IndexSound
  BY DEF IndexTypeOK, IndexSound, ValidMarks
<1>2. MarketTypeOK /\ FundTypeOK
  <2>1. MarketTypeOK
    BY <1>1 DEF MarketTypeOK
  <2>2. <<>> \in Seq(Withdrawal) /\ Len(<<>>) = 0
    BY EmptySeq
  <2> QED BY <2>1, <2>2 DEF FundTypeOK
<1>3. SnapshotsBehindIndex /\ FlaggedHoldsYES
  BY DEF SnapshotsBehindIndex, FlaggedHoldsYES
<1> QED
  BY <1>1, <1>2, <1>3 DEF IInv, TypeOK

(* Marks, bounds, accruals and time: the ledger is untouched and the index *)
(* does not fall.                                                          *)
LEMMA IndexStepKeeps ==
    ASSUME IInv, IndexStep, UNCHANGED fundVars
    PROVE  IInv'
<1> USE DEF IInv, TypeOK, MarketTypeOK
<1>0. UNCHANGED marketVars
  BY DEF IndexStep
<1>1. IndexTypeOK' /\ IndexSound' /\ cumulativeFundingPerYES' >= cumulativeFundingPerYES
  <2>1. CASE \E m \in Marks : SetMark(m) \/ AdminSetMark(m)
    <3>1. PICK m \in Marks : ValidMark(m) /\ ReplaceMark(m) /\ UNCHANGED <<now, boundVars>>
      BY <2>1 DEF SetMark, AdminSetMark
    <3>2. Accrue
      BY <3>1 DEF ReplaceMark
    <3> QED BY <3>1, <3>2, ReplacementKeepsIndex, AccrualSound
  <2>2. CASE \E b \in MarkBounds : SetMarkBounds(b)
    BY <2>2 DEF SetMarkBounds, IndexTypeOK, IndexSound, markVars, accrualVars
  <2>3. CASE AccrueFunding
    <3>1. Accrue /\ UNCHANGED <<now, markVars, boundVars>>
      BY <2>3 DEF AccrueFunding
    <3> QED BY <3>1, AccrualKeepsIndex, AccrualSound
  <2>4. CASE \E d \in Steps : Tick(d)
    <3>1. PICK d \in Steps : now' = now + d /\ UNCHANGED <<markVars, boundVars, accrualVars>>
      BY <2>4 DEF Tick, Later
    <3> QED
      BY <3>1 DEF IndexTypeOK, IndexSound, markVars, boundVars, accrualVars
  <2> QED BY <2>1, <2>2, <2>3, <2>4 DEF IndexStep
<1>2. MarketTypeOK' /\ FundTypeOK'
  BY <1>0, <1>1
     DEF marketVars, ledgerVars, tokenVars, snapshotVars, adminVars, fundVars, FundTypeOK
<1>3. SnapshotsBehindIndex'
  BY <1>0, <1>1
     DEF SnapshotsBehindIndex, marketVars, ledgerVars, snapshotVars, IndexSound, IndexTypeOK
<1>4. FlaggedHoldsYES'
  BY <1>0 DEF FlaggedHoldsYES, marketVars, ledgerVars, tokenVars
<1> QED
  BY <1>1, <1>2, <1>3, <1>4

(* Settling, minting, redeeming, settling YES, curing and flagging. *)
LEMMA UserStepKeeps ==
    ASSUME IInv, UserStep, UNCHANGED fundVars
    PROVE  IInv'
<1> USE DEF IInv, TypeOK, MarketTypeOK
<1>0. FundTypeOK'
  BY DEF FundTypeOK, fundVars
<1>1. PICK u \in Users :
        \/ SettleFunding(u)
        \/ Cure(u)
        \/ FlagClaimable(u)
        \/ \E amount \in MintAmounts : Mint(u, amount)
        \/ \E amount \in BurnAmounts : Redeem(u, amount) \/ SettleYES(u, amount)
  BY DEF UserStep
<1>2. /\ CreditPaid(u) \in Nat /\ DebtSettled(u) \in Nat
  BY SettlementNets
<1>3. SettleSnapshots({u}) /\ UNCHANGED priceVars =>
        /\ IndexTypeOK' /\ IndexSound' /\ SnapshotsBehindIndex'
        /\ fundingSnapshot' \in [Users -> Nat]
        /\ snapNO' \in [Users -> Nat]
        /\ DebtsSettled({u}) \in [Users -> Nat]
  BY SettlementKeeps, {u} \in SUBSET Users
<1>4. CASE SettleFunding(u)
  <2>1. MarketTypeOK'
    <3>1. collateral' \in Nat
      BY <1>2, <1>4 DEF SettleFunding
    <3> QED BY <1>3, <1>4, <3>1 DEF SettleFunding, tokenVars, adminVars
  <2>2. FlaggedHoldsYES'
    BY <1>4 DEF SettleFunding, FlaggedHoldsYES, tokenVars
  <2> QED BY <1>0, <1>3, <1>4, <2>1, <2>2 DEF SettleFunding
<1>5. CASE Cure(u)
  <2>1. MarketTypeOK'
    <3>1. collateral' \in Nat
      BY <1>2, <1>5 DEF Cure
    <3>2. fundingDebt' \in [Users -> Nat] /\ claimable' \in [Users -> BOOLEAN]
      BY <1>5 DEF Cure
    <3> QED BY <1>3, <1>5, <3>1, <3>2 DEF Cure, tokenVars, adminVars
  <2>2. FlaggedHoldsYES'
    BY <1>5 DEF Cure, FlaggedHoldsYES, tokenVars
  <2> QED BY <1>0, <1>3, <1>5, <2>1, <2>2 DEF Cure
<1>6. CASE FlagClaimable(u)
  <2>1. /\ Accrue /\ UNCHANGED <<now, markVars, boundVars>>
        /\ UNCHANGED <<yes, no, fundingSnapshot, snapNO, fundingDebt, collateral,
                       depositCap, paused, motionPending, creditEventConfirmed>>
        /\ claimable' = [claimable EXCEPT ![u] = TRUE]
        /\ yes[u] > 0
    BY <1>6 DEF FlagClaimable, IsSeizable, priceVars, tokenVars, snapshotVars, adminVars
  <2>2. IndexTypeOK' /\ IndexSound'
    BY <2>1, AccrualKeepsIndex
  <2>3. SnapshotsBehindIndex'
    <3>1. cumulativeFundingPerYES' >= cumulativeFundingPerYES
      BY <2>1, AccrualSound
    <3> QED
      BY <2>1, <2>2, <3>1 DEF SnapshotsBehindIndex, IndexSound, IndexTypeOK
  <2>4. MarketTypeOK' /\ FlaggedHoldsYES'
    BY <2>1, <2>2 DEF FlaggedHoldsYES
  <2> QED BY <1>0, <2>2, <2>3, <2>4
<1>7. CASE \E amount \in MintAmounts : Mint(u, amount)
  <2>1. PICK amount \in MintAmounts : Mint(u, amount)
    BY <1>7
  <2>2. amount \in Nat
    OBVIOUS
  <2>3. MarketTypeOK'
    <3>1. collateral' \in Nat
      BY <1>2, <2>1, <2>2 DEF Mint
    <3>2. yes' \in [Users -> Nat] /\ no' \in [Users -> Nat]
      BY <2>1, <2>2 DEF Mint
    <3> QED BY <1>3, <2>1, <3>1, <3>2 DEF Mint, adminVars
  <2>4. FlaggedHoldsYES'
    BY <2>1, <2>2 DEF Mint, FlaggedHoldsYES
  <2> QED BY <1>0, <1>3, <2>1, <2>3, <2>4 DEF Mint
<1>8. CASE \E amount \in BurnAmounts : Redeem(u, amount)
  <2>1. PICK amount \in BurnAmounts : Redeem(u, amount)
    BY <1>8
  <2>2. amount \in Nat
    OBVIOUS
  <2>3. SettleSnapshots({u}) /\ UNCHANGED priceVars
    BY <2>1 DEF Redeem, PayOut
  <2>4. collateral' \in Nat /\ fundingDebt' \in [Users -> Nat]
    BY <1>2, <2>1, <2>2 DEF Redeem, PayOut
  <2>5. yes' \in [Users -> Nat] /\ no' \in [Users -> Nat]
    BY <2>1, <2>2 DEF Redeem
  <2>6. MarketTypeOK'
    BY <1>3, <2>1, <2>3, <2>4, <2>5 DEF Redeem, adminVars
  <2>7. FlaggedHoldsYES'
    BY <2>1 DEF Redeem, FlaggedHoldsYES
  <2> QED BY <1>0, <1>3, <2>3, <2>6, <2>7
<1>9. CASE \E amount \in BurnAmounts : SettleYES(u, amount)
  <2>1. PICK amount \in BurnAmounts : SettleYES(u, amount)
    BY <1>9
  <2>2. amount \in Nat
    OBVIOUS
  <2>3. SettleSnapshots({u}) /\ UNCHANGED priceVars
    BY <2>1 DEF SettleYES, PayOut
  <2>4. collateral' \in Nat /\ fundingDebt' \in [Users -> Nat]
    BY <1>2, <2>1, <2>2 DEF SettleYES, PayOut
  <2>5. yes' \in [Users -> Nat]
    BY <2>1, <2>2 DEF SettleYES
  <2>6. MarketTypeOK'
    BY <1>3, <2>1, <2>3, <2>4, <2>5 DEF SettleYES, adminVars
  <2>7. FlaggedHoldsYES'
    BY <2>1 DEF SettleYES, FlaggedHoldsYES
  <2> QED BY <1>0, <1>3, <2>3, <2>6, <2>7
<1> QED
  BY <1>1, <1>4, <1>5, <1>6, <1>7, <1>8, <1>9

(* The pauser, the oracle and the admin leave every balance alone. *)
LEMMA RoleStepKeeps ==
    ASSUME IInv, RoleStep, UNCHANGED fundVars
    PROVE  IInv'
<1>1. UNCHANGED <<indexVars, ledgerVars, fundVars>>
  BY DEF RoleStep, ConfirmCreditEvent, SetMotionPending, Pause, Unpause, SetDepositCap
<1>2. /\ depositCap' \in Nat /\ paused' \in BOOLEAN
      /\ motionPending' \in BOOLEAN /\ creditEventConfirmed' \in BOOLEAN
  BY DEF RoleStep, ConfirmCreditEvent, SetMotionPending, Pause, Unpause, SetDepositCap,
         IInv, TypeOK, MarketTypeOK
<1>3. IndexTypeOK' /\ IndexSound'
  BY <1>1 DEF IInv, TypeOK, MarketTypeOK, IndexTypeOK, IndexSound, indexVars, markVars,
              boundVars, accrualVars
<1>4. MarketTypeOK' /\ FundTypeOK'
  BY <1>1, <1>2, <1>3 DEF IInv, TypeOK, MarketTypeOK, FundTypeOK, ledgerVars, tokenVars,
                          snapshotVars, fundVars
<1>5. SnapshotsBehindIndex' /\ FlaggedHoldsYES'
  BY <1>1 DEF IInv, SnapshotsBehindIndex, FlaggedHoldsYES, indexVars, accrualVars,
              ledgerVars, tokenVars, snapshotVars
<1> QED
  BY <1>3, <1>4, <1>5 DEF IInv, TypeOK

(* A payment into the reserve. *)
LEMMA ReceiptKeepsFund ==
    ASSUME FundTypeOK, NEW amount \in Nat, Receive(amount)
    PROVE  FundTypeOK'
  BY DEF Receive, FundTypeOK

(* A fill: an unflagged seller and buyer are settled and exchange tokens. *)
LEMMA TradeStepKeeps ==
    ASSUME IInv, TradeStep
    PROVE  IInv'
<1> USE DEF IInv, TypeOK, MarketTypeOK
<1>1. PICK seller \in Users, buyer \in Users, tokens \in FillSizes,
           price \in FillPrices, f \in FeeSplits :
        SellYES(seller, buyer, tokens, price, f) \/ SellNO(seller, buyer, tokens, price, f)
  BY DEF TradeStep
<1>2. /\ {seller, buyer} \in SUBSET Users
      /\ tokens \in Nat \ {0} /\ f.toInsurance \in Nat
  OBVIOUS
<1>3. /\ CreditsPaid(seller, buyer) \in Nat
      /\ DebtSettled(seller) \in Nat
      /\ DebtShare(seller, tokens) \in Nat
  BY <1>2, SettlementNets, ShareOfDebt DEF CreditsPaid
<1>4. /\ SettleSnapshots({seller, buyer}) /\ UNCHANGED priceVars
      /\ NotFrozen(seller, buyer)
      /\ Receive(f.toInsurance)
      /\ UNCHANGED <<claimable, adminVars>>
  BY <1>1 DEF SellYES, SellNO
<1>5. /\ IndexTypeOK' /\ IndexSound' /\ SnapshotsBehindIndex'
      /\ fundingSnapshot' \in [Users -> Nat]
      /\ snapNO' \in [Users -> Nat]
      /\ DebtsSettled({seller, buyer}) \in [Users -> Nat]
  BY <1>2, <1>4, SettlementKeeps
<1>6. FundTypeOK'
  BY <1>2, <1>4, ReceiptKeepsFund
<1>7. /\ yes' \in [Users -> Nat] /\ no' \in [Users -> Nat]
      /\ \A u \in Users : claimable[u] => yes'[u] >= yes[u]
  <2>1. CASE SellYES(seller, buyer, tokens, price, f)
    <3>1. /\ tokens <= yes[seller] /\ ~claimable[seller]
          /\ yes' = Moved(yes, seller, buyer, tokens) /\ no' = no
      BY <2>1 DEF SellYES, NotFrozen
    <3>2. /\ yes' \in [Users -> Nat]
          /\ \A u \in Users : u # seller => yes'[u] >= yes[u]
      BY <1>2, <3>1, MovedBalances
    <3> QED BY <3>1, <3>2
  <2>2. CASE SellNO(seller, buyer, tokens, price, f)
    <3>1. /\ tokens <= no[seller]
          /\ no' = Moved(no, seller, buyer, tokens) /\ yes' = yes
      BY <2>2 DEF SellNO
    <3>2. no' \in [Users -> Nat]
      BY <1>2, <3>1, MovedBalances
    <3> QED BY <3>1, <3>2
  <2> QED BY <1>1, <2>1, <2>2
<1>8. collateral' \in Nat /\ fundingDebt' \in [Users -> Nat]
  <2>1. CASE SellYES(seller, buyer, tokens, price, f)
    <3>1. collateral' \in Nat
      BY <1>3, <2>1 DEF SellYES
    <3>2. DebtsSettled({seller, buyer})[seller] = DebtSettled(seller)
      BY DEF DebtsSettled
    <3>3. DebtSettled(seller) - DebtShare(seller, tokens) \in Nat
      BY <1>3, <2>1 DEF SellYES
    <3>4. fundingDebt' \in [Users -> Nat]
      BY <1>5, <2>1, <3>2, <3>3 DEF SellYES
    <3> QED BY <3>1, <3>4
  <2>2. CASE SellNO(seller, buyer, tokens, price, f)
    <3>1. /\ CreditsPaid(seller, buyer) <= collateral
          /\ collateral' = collateral - CreditsPaid(seller, buyer)
          /\ fundingDebt' = DebtsSettled({seller, buyer})
      BY <2>2 DEF SellNO
    <3>2. collateral' \in Nat
      BY <1>3, <3>1
    <3>3. fundingDebt' \in [Users -> Nat]
      BY <1>5, <3>1, Zenon
    <3> QED BY <3>2, <3>3
  <2> QED BY <1>1, <2>1, <2>2
<1>9. MarketTypeOK'
  BY <1>4, <1>5, <1>7, <1>8 DEF adminVars
<1>10. FlaggedHoldsYES'
  BY <1>4, <1>7 DEF FlaggedHoldsYES
<1> QED
  BY <1>5, <1>6, <1>9, <1>10

(* A claim empties the flagged position, and takes its flag down. *)
LEMMA ClaimStepKeeps ==
    ASSUME IInv, ClaimStep
    PROVE  IInv'
<1> USE DEF IInv, TypeOK, MarketTypeOK
<1>1. PICK u \in Users, liquidator \in Users : Claim(u, liquidator)
  BY DEF ClaimStep
<1>2. /\ Owed(u) \in Nat /\ CreditPaid(liquidator) \in Nat
      /\ DebtSettled(liquidator) \in Nat
  BY SettlementNets
<1>3. u # liquidator /\ claimable[u] /\ ~claimable[liquidator]
  BY <1>1 DEF Claim
<1>4. /\ Accrue /\ UNCHANGED <<now, markVars, boundVars>>
      /\ UNCHANGED <<no, depositCap, paused, motionPending, creditEventConfirmed>>
  BY <1>1 DEF Claim, priceVars, adminVars
<1>5. IndexTypeOK' /\ IndexSound'
  BY <1>4, AccrualKeepsIndex
<1>6. /\ cumulativeFundingPerYES' = ProjectedCumYES /\ cumFundingPerNO' = ProjectedCumYES
      /\ ProjectedCumYES \in Nat /\ ProjectedCumYES >= cumulativeFundingPerYES
      /\ ProjectedCumNO = ProjectedCumYES /\ cumFundingPerNO = cumulativeFundingPerYES
  BY <1>4, AccrualSound, ProjectionSound DEF IndexSound
<1>7. /\ fundingSnapshot' \in [Users -> Nat] /\ snapNO' \in [Users -> Nat]
      /\ SnapshotsBehindIndex'
  <2>1. /\ fundingSnapshot' = [fundingSnapshot EXCEPT ![u] = ProjectedCumYES,
                                                       ![liquidator] = ProjectedCumYES]
        /\ snapNO' = [snapNO EXCEPT ![liquidator] = ProjectedCumYES]
    BY <1>1, <1>6 DEF Claim
  <2> QED BY <1>6, <2>1 DEF SnapshotsBehindIndex, IndexTypeOK
<1>8. fundingDebt' \in [Users -> Nat]
  <2>1. DebtsSettled({liquidator}) \in [Users -> Nat]
    BY SettlementNets DEF DebtsSettled
  <2> QED BY <1>1, <2>1 DEF Claim
<1>9. collateral' \in Nat
  BY <1>1, <1>2 DEF Claim
<1>10. /\ yes' \in [Users -> Nat]
       /\ \A v \in Users : v # u => yes'[v] >= yes[v]
  <2>1. yes' = Moved(yes, u, liquidator, yes[u]) /\ yes[u] \in Nat /\ yes[u] <= yes[u]
    BY <1>1 DEF Claim
  <2>2. /\ Moved(yes, u, liquidator, yes[u]) \in [Users -> Nat]
        /\ \A v \in Users : v # u => Moved(yes, u, liquidator, yes[u])[v] >= yes[v]
    BY <2>1, MovedBalances
  <2> QED BY <2>1, <2>2
<1>11. claimable' = [claimable EXCEPT ![u] = FALSE]
  BY <1>1 DEF Claim
<1>12. FlaggedHoldsYES'
  BY <1>10, <1>11 DEF FlaggedHoldsYES
<1>13. FundTypeOK'
  <2>1. Shortfall(u) \in Nat
    <3>1. yes[u] * currentMark \in Nat
      BY ProductIsNat DEF IndexTypeOK, ValidMarks
    <3>2. TokenValue(u) \in Nat
      BY <3>1, DivBounds DEF TokenValue
    <3> QED BY <1>2, <3>2 DEF Shortfall
  <2>2. CoverShortfall(Shortfall(u))
    BY <1>1 DEF Claim
  <2> QED BY <2>1, <2>2 DEF CoverShortfall, FundTypeOK
<1> QED
  BY <1>4, <1>5, <1>7, <1>8, <1>9, <1>10, <1>11, <1>12, <1>13

(* Deposits and withdrawals of the reserve do not reach the ledger. *)
LEMMA FundStepKeeps ==
    ASSUME IInv, FundStep
    PROVE  IInv'
<1>1. UNCHANGED <<indexVars, marketVars>>
  BY DEF FundStep
<1>2. IndexTypeOK' /\ IndexSound'
  BY <1>1 DEF IInv, TypeOK, MarketTypeOK, IndexTypeOK, IndexSound, indexVars, markVars,
              boundVars, accrualVars
<1>3. MarketTypeOK' /\ SnapshotsBehindIndex' /\ FlaggedHoldsYES'
  BY <1>1, <1>2
     DEF IInv, TypeOK, MarketTypeOK, SnapshotsBehindIndex, FlaggedHoldsYES, indexVars,
         accrualVars, marketVars, ledgerVars, tokenVars, snapshotVars, adminVars
<1>4. FundTypeOK'
  <2>1. FundTypeOK
    BY DEF IInv, TypeOK
  <2>2. CASE \E amount \in DepositAmounts : Deposit(amount)
    BY <2>1, <2>2, ReceiptKeepsFund DEF Deposit
  <2>3. CASE \E amount \in WithdrawAmounts : InitiateWithdrawal(amount)
    <3>1. PICK amount \in WithdrawAmounts : InitiateWithdrawal(amount)
      BY <2>3
    <3> DEFINE w == [amount |-> amount, initiatedAt |-> now, executed |-> FALSE]
    <3>2. w \in Withdrawal
      BY DEF Withdrawal, IInv, TypeOK, MarketTypeOK, IndexTypeOK
    <3>3. pendingWithdrawals' = Append(pendingWithdrawals, w)
      BY <3>1 DEF InitiateWithdrawal
    <3>4. /\ pendingWithdrawals' \in Seq(Withdrawal)
          /\ Len(pendingWithdrawals') = Len(pendingWithdrawals) + 1
      <4> HIDE DEF w
      <4> QED BY <2>1, <3>2, <3>3, AppendProperties DEF FundTypeOK
    <3>5. Len(pendingWithdrawals) < MaxWithdrawals /\ reserve' = reserve
      BY <3>1 DEF InitiateWithdrawal
    <3>6. Len(pendingWithdrawals) \in Nat
      BY <2>1, LenProperties DEF FundTypeOK
    <3> QED BY <2>1, <3>4, <3>5, <3>6 DEF FundTypeOK
  <2>4. CASE \E id \in DOMAIN pendingWithdrawals : ExecuteWithdrawal(id)
    <3>1. PICK id \in DOMAIN pendingWithdrawals : ExecuteWithdrawal(id)
      BY <2>4
    <3> DEFINE w == pendingWithdrawals[id]
               done == [w EXCEPT !.executed = TRUE]
    <3>2. id \in 1 .. Len(pendingWithdrawals) /\ w \in Withdrawal
      BY <2>1, ElementOfSeq, LenProperties DEF FundTypeOK
    <3>3. done \in Withdrawal
      BY <3>2 DEF Withdrawal
    <3>4. pendingWithdrawals' = [pendingWithdrawals EXCEPT ![id] = done]
      BY <3>1 DEF ExecuteWithdrawal
    <3>5. /\ pendingWithdrawals' \in Seq(Withdrawal)
          /\ Len(pendingWithdrawals') = Len(pendingWithdrawals)
      <4> HIDE DEF done
      <4> QED BY <2>1, <3>2, <3>3, <3>4, ExceptSeq DEF FundTypeOK
    <3>6. reserve' \in Nat
      <4>1. w.amount \in Nat
        BY <3>2 DEF Withdrawal
      <4> QED BY <2>1, <3>1, <4>1 DEF ExecuteWithdrawal, FundTypeOK
    <3> QED BY <2>1, <3>5, <3>6 DEF FundTypeOK
  <2> QED BY <2>2, <2>3, <2>4 DEF FundStep
<1> QED
  BY <1>2, <1>3, <1>4 DEF IInv, TypeOK

(* Every transaction of the market keeps the inductive invariant. *)
LEMMA NextIInv == IInv /\ [Next]_vars => IInv'
<1> SUFFICES ASSUME IInv, [Next]_vars PROVE IInv'
  OBVIOUS
<1>1. CASE MarketStep /\ UNCHANGED fundVars
  BY <1>1, IndexStepKeeps, UserStepKeeps, RoleStepKeeps DEF MarketStep
<1>2. CASE TradeStep
  BY <1>2, TradeStepKeeps
<1>3. CASE ClaimStep
  BY <1>3, ClaimStepKeeps
<1>4. CASE FundStep
  BY <1>4, FundStepKeeps
<1>5. CASE UNCHANGED vars
  BY <1>5
     DEF IInv, TypeOK, MarketTypeOK, FundTypeOK, IndexTypeOK, IndexSound,
         SnapshotsBehindIndex, FlaggedHoldsYES, vars, indexVars, markVars, boundVars,
         accrualVars, marketVars, ledgerVars, tokenVars, snapshotVars, adminVars, fundVars
<1> QED
  BY <1>1, <1>2, <1>3, <1>4, <1>5 DEF Next

(* So it holds throughout, in any order of calls: amounts keep their types, *)
(* snapshots stay behind a sound index, and a flag is on YES to seize.      *)
THEOREM Invariance == Spec => []IInv
  BY InitIInv, NextIInv, PTL DEF Spec

----------------------------------------------------------------------------
(* The invariants                                                          *)

(* No amount the contracts store as an unsigned integer ever falls below    *)
(* zero, in any order of calls by any number of holders.                    *)
THEOREM TypeCorrect == Spec => []TypeOK
<1>1. IInv => TypeOK
  BY DEF IInv
<1> QED
  BY <1>1, Invariance, PTL

(* No snapshot runs ahead of the index, so settling a holder never reverts  *)
(* on the subtraction.                                                      *)
THEOREM SnapshotsStayBehind == Spec => []SnapshotsBehindIndex
<1>1. IInv => SnapshotsBehindIndex
  BY DEF IInv
<1> QED
  BY <1>1, Invariance, PTL

(* A seizure flag is never on an empty position. *)
THEOREM FlagsHoldYES == Spec => []FlaggedHoldsYES
<1>1. IInv => FlaggedHoldsYES
  BY DEF IInv
<1> QED
  BY <1>1, Invariance, PTL

----------------------------------------------------------------------------
(* The seizure flag as a lock                                              *)

(* While a position is flagged its NO stays where it is, and its YES moves  *)
(* only together with the flag: to a liquidator, whole, or to its holder's  *)
(* own settlement after the credit event.                                   *)
THEOREM FlagIsALock == Spec => FlagLocks
<1> DEFINE Locked(u) ==
      claimable[u] =>
         /\ no'[u] = no[u]
         /\ yes'[u] # yes[u] =>
              /\ ~claimable'[u]
              /\ creditEventConfirmed \/ (~motionPending /\ yes'[u] = 0)
<1>1. IInv /\ [Next]_vars => [\A u \in Users : Locked(u)]_vars
  <2> SUFFICES ASSUME IInv, Next, NEW u \in Users, claimable[u]
               PROVE  /\ no'[u] = no[u]
                      /\ yes'[u] # yes[u] =>
                           /\ ~claimable'[u]
                           /\ creditEventConfirmed \/ (~motionPending /\ yes'[u] = 0)
    OBVIOUS
  <2> USE DEF IInv, TypeOK, MarketTypeOK
  <2>1. CASE MarketStep
    <3>1. CASE IndexStep \/ RoleStep
      BY <3>1
         DEF IndexStep, RoleStep, ConfirmCreditEvent, SetMotionPending, Pause, Unpause,
             SetDepositCap, marketVars, ledgerVars, tokenVars
    <3>2. CASE UserStep
      <4>1. PICK v \in Users :
              \/ SettleFunding(v)
              \/ Cure(v)
              \/ FlagClaimable(v)
              \/ \E amount \in MintAmounts : Mint(v, amount)
              \/ \E amount \in BurnAmounts : Redeem(v, amount) \/ SettleYES(v, amount)
        BY <3>2 DEF UserStep
      <4>2. CASE SettleFunding(v) \/ Cure(v) \/ FlagClaimable(v)
        BY <4>2 DEF SettleFunding, Cure, FlagClaimable, tokenVars
      <4>3. CASE \E amount \in MintAmounts : Mint(v, amount)
        BY <4>3 DEF Mint
      <4>4. CASE \E amount \in BurnAmounts : Redeem(v, amount)
        BY <4>4 DEF Redeem
      <4>5. CASE \E amount \in BurnAmounts : SettleYES(v, amount)
        BY <4>5 DEF SettleYES
      <4> QED BY <4>1, <4>2, <4>3, <4>4, <4>5
    <3> QED BY <2>1, <3>1, <3>2 DEF MarketStep
  <2>2. CASE TradeStep
    <3>1. PICK seller \in Users, buyer \in Users, tokens \in FillSizes,
               price \in FillPrices, f \in FeeSplits :
            SellYES(seller, buyer, tokens, price, f) \/ SellNO(seller, buyer, tokens, price, f)
      BY <2>2 DEF TradeStep
    <3>2. /\ u # seller /\ u # buyer /\ tokens \in Nat
          /\ yes' = Moved(yes, seller, buyer, tokens) \/ yes' = yes
          /\ no' = Moved(no, seller, buyer, tokens) \/ no' = no
      BY <3>1 DEF SellYES, SellNO, NotFrozen
    <3>3. /\ Moved(yes, seller, buyer, tokens)[u] = yes[u]
          /\ Moved(no, seller, buyer, tokens)[u] = no[u]
      BY <3>2 DEF Moved
    <3> QED BY <3>2, <3>3
  <2>3. CASE ClaimStep
    <3>1. PICK v \in Users, liquidator \in Users : Claim(v, liquidator)
      BY <2>3 DEF ClaimStep
    <3>2. /\ v # liquidator /\ u # liquidator
          /\ yes' = Moved(yes, v, liquidator, yes[v]) /\ yes[v] \in Nat
          /\ no' = no /\ ~motionPending
          /\ claimable' = [claimable EXCEPT ![v] = FALSE]
      BY <3>1 DEF Claim
    <3>3. CASE u = v
      <4>1. Moved(yes, v, liquidator, yes[v])[v] = 0
        BY <3>2 DEF Moved
      <4> QED BY <3>2, <3>3, <4>1
    <3>4. CASE u # v
      <4>1. Moved(yes, v, liquidator, yes[v])[u] = yes[u]
        BY <3>2, <3>4 DEF Moved
      <4> QED BY <3>2, <4>1
    <3> QED BY <3>3, <3>4
  <2>4. CASE FundStep
    BY <2>4 DEF FundStep, marketVars, ledgerVars, tokenVars
  <2> QED BY <2>1, <2>2, <2>3, <2>4 DEF Next
<1>2. Spec => [][\A u \in Users : Locked(u)]_vars
  BY <1>1, Invariance, PTL DEF Spec
<1> QED
  BY <1>2 DEF FlagLocks

----------------------------------------------------------------------------
(* The surplus, holder by holder                                            *)

(* A holder's part of the surplus: what it owes less what it earned, less   *)
(* par for its YES.                                                         *)
Part(u) == Accrued(u) - yes[u] * WAD

(* How far a step moves the index. *)
Moves == cumulativeFundingPerYES' - cumulativeFundingPerYES

(* What a step does to a holder's part beyond what the move of the index    *)
(* does to it.                                                              *)
Change(u) == Part(u)' - Part(u) - (yes[u] - no[u]) * Moves

(* What a step does to the surplus beyond the carry the index move          *)
(* charges: the quantity CarryIsConserved bounds.                           *)
Drift == (Surplus' - Surplus) - Moves * (YesSupply - SumOver(no))

(* The sum the contracts' state is totalled with is the sum the             *)
(* arithmetic lemmas are about.                                             *)
LEMMA SumOverIsSum == ASSUME NEW f PROVE SumOver(f) = SumOf(f, Users)
  BY DEF SumOver, SumOf

(* Accruals, parts and par are integers. *)
LEMMA PartsType ==
    ASSUME MarketTypeOK, NEW u \in Users
    PROVE  Accrued(u) \in Int /\ Part(u) \in Int /\ yes[u] * WAD \in Int
<1>1. /\ fundingDebt[u] \in Int /\ yes[u] \in Int /\ no[u] \in Int
      /\ cumulativeFundingPerYES - fundingSnapshot[u] \in Int
      /\ cumFundingPerNO - snapNO[u] \in Int
  BY DEF MarketTypeOK, IndexTypeOK
<1>2. \A x, y \in Int : x * y \in Int
  BY SMT
<1>3. /\ fundingDebt[u] * WAD \in Int /\ yes[u] * WAD \in Int
      /\ yes[u] * (cumulativeFundingPerYES - fundingSnapshot[u]) \in Int
      /\ no[u] * (cumFundingPerNO - snapNO[u]) \in Int
  BY <1>1, <1>2, WAD \in Int
<1> QED
  BY <1>3 DEF Accrued, Part

(* The same of every part, in the form a next state can be given. *)
LEMMA PartsAreInt == MarketTypeOK => \A u \in Users : Part(u) \in Int
  BY PartsType

(* The surplus is the collateral and a part for each holder, nothing        *)
(* else.                                                                    *)
LEMMA SurplusIsSum ==
  MarketTypeOK => Surplus = collateral * WAD + SumOf([u \in Users |-> Part(u)], Users)
<1> SUFFICES ASSUME MarketTypeOK
             PROVE  Surplus = collateral * WAD + SumOf([u \in Users |-> Part(u)], Users)
  OBVIOUS
<1> DEFINE a == [u \in Users |-> Accrued(u)]
           p == [u \in Users |-> Part(u)]
<1>1. a \in [Users -> Int] /\ p \in [Users -> Int] /\ yes \in [Users -> Int]
  BY PartsType DEF MarketTypeOK
<1>2. \A u \in Users : p[u] = a[u] - yes[u] * WAD
  BY DEF Part
<1>3. Surplus = collateral * WAD + SumOf(a, Users) - SumOf(yes, Users) * WAD
  BY SumOverIsSum DEF Surplus, YesSupply
<1> HIDE DEF a, p
<1>4. SumOf(p, Users) = SumOf(a, Users) - SumOf(yes, Users) * WAD
  BY <1>1, <1>2, SumMinusScaled, WAD \in Int
<1>5. SumOf(a, Users) \in Int /\ SumOf(p, Users) \in Int /\ SumOf(yes, Users) \in Int
  BY <1>1, SumIsInt
<1>6. collateral * WAD \in Int /\ SumOf(yes, Users) * WAD \in Int
  <2>1. \A x, y \in Int : x * y \in Int
    BY SMT
  <2> QED BY <1>5, <2>1, WAD \in Int DEF MarketTypeOK
<1>7. SumOf(p, Users) = SumOf([u \in Users |-> Part(u)], Users)
  BY DEF p
<1> QED
  BY <1>3, <1>4, <1>5, <1>6, <1>7

(* The surplus is an integer. *)
LEMMA SurplusIsInt == MarketTypeOK => Surplus \in Int
<1> SUFFICES ASSUME MarketTypeOK PROVE Surplus \in Int
  OBVIOUS
<1> DEFINE p == [u \in Users |-> Part(u)]
<1>1. p \in [Users -> Int]
  BY PartsType
<1>2. Surplus = collateral * WAD + SumOf(p, Users)
  BY SurplusIsSum
<1>3. SumOf(p, Users) \in Int
  <2> HIDE DEF p
  <2> QED BY <1>1, SumIsInt
<1>4. collateral * WAD \in Int
  BY ProductIsNat DEF MarketTypeOK
<1> QED
  BY <1>2, <1>3, <1>4

(* The drift of a step is what it pays into the collateral and the          *)
(* changes of the holders' parts: the move of the index drops out holder    *)
(* by holder.                                                               *)
LEMMA DriftIsSum ==
    ASSUME MarketTypeOK, MarketTypeOK'
    PROVE  /\ [u \in Users |-> Change(u)] \in [Users -> Int]
           /\ Drift = (collateral' - collateral) * WAD
                        + SumOf([u \in Users |-> Change(u)], Users)
<1> DEFINE p == [u \in Users |-> Part(u)]
           q == [u \in Users |-> Part(u)']
           n == [u \in Users |-> yes[u] - no[u]]
           c == [u \in Users |-> Change(u)]
           m == [u \in Users |-> p[u] + n[u] * Moves]
<1>0. \A x, y \in Int : x * y \in Int
  BY SMT
<1>1. /\ Surplus = collateral * WAD + SumOf(p, Users)
      /\ Surplus' = collateral' * WAD + SumOf(q, Users)
  <2>1. (MarketTypeOK => Surplus = collateral * WAD + SumOf([u \in Users |-> Part(u)], Users))'
    BY SurplusIsSum, PTL
  <2> QED BY <2>1, SurplusIsSum
<1>2. p \in [Users -> Int] /\ q \in [Users -> Int]
  <2>1. (MarketTypeOK => \A u \in Users : Part(u) \in Int)'
    BY PartsAreInt, PTL
  <2> QED BY <2>1, PartsType
<1>3. n \in [Users -> Int] /\ Moves \in Int /\ yes \in [Users -> Int] /\ no \in [Users -> Int]
  BY DEF MarketTypeOK, IndexTypeOK, Moves
<1>4. m \in [Users -> Int] /\ c \in [Users -> Int] /\ \A u \in Users : q[u] = m[u] + c[u]
  <2>1. \A u \in Users : n[u] * Moves \in Int
    <3> HIDE DEF n
    <3> QED BY <1>0, <1>3
  <2>2. \A u \in Users : c[u] = q[u] - p[u] - n[u] * Moves /\ m[u] = p[u] + n[u] * Moves
    BY DEF Change
  <2>3. c = [u \in Users |-> c[u]] /\ m = [u \in Users |-> m[u]]
    OBVIOUS
  <2> HIDE DEF c, m, n, p, q
  <2> QED BY <1>2, <2>1, <2>2, <2>3
<1>5. \A u \in Users : m[u] = p[u] + n[u] * Moves /\ n[u] = yes[u] - no[u] * 1
  <2>1. \A u \in Users : n[u] = yes[u] - no[u]
    OBVIOUS
  <2>2. \A u \in Users : no[u] * 1 = no[u]
    BY <1>3, SMT
  <2> QED BY <2>1, <2>2
<1>6. Drift = (Surplus' - Surplus) - Moves * (SumOf(yes, Users) - SumOf(no, Users))
  BY SumOverIsSum DEF Drift, YesSupply
<1>7. c = [u \in Users |-> Change(u)]
  OBVIOUS
<1> HIDE DEF p, q, n, c, m
<1>8. SumOf(q, Users) = SumOf(m, Users) + SumOf(c, Users)
  BY <1>2, <1>4, SumPlus
<1>9. SumOf(m, Users) = SumOf(p, Users) + SumOf(n, Users) * Moves
  <2>1. IsFiniteSet(Users)
    OBVIOUS
  <2>2. p \in [Users -> Int]
    BY <1>2
  <2>3. n \in [Users -> Int]
    BY <1>3
  <2>4. m \in [Users -> Int]
    BY <1>4
  <2>5. Moves \in Int
    BY <1>3
  <2>6. \A u \in Users : m[u] = p[u] + n[u] * Moves
    BY <1>5
  <2> QED BY <2>1, <2>2, <2>3, <2>4, <2>5, <2>6, SumPlusScaled
<1>10. SumOf(n, Users) = SumOf(yes, Users) - SumOf(no, Users) * 1
  BY <1>3, <1>5, SumMinusScaled, 1 \in Int
<1>11. /\ SumOf(p, Users) \in Int /\ SumOf(q, Users) \in Int /\ SumOf(n, Users) \in Int
       /\ SumOf(c, Users) \in Int /\ SumOf(m, Users) \in Int
       /\ SumOf(yes, Users) \in Int /\ SumOf(no, Users) \in Int
  BY <1>2, <1>3, <1>4, SumIsInt
<1>12. Drift = (collateral' - collateral) * WAD + SumOf(c, Users)
  <2>1. collateral \in Int /\ collateral' \in Int /\ WAD \in Int
    BY DEF MarketTypeOK
  <2>2. \A k, k1, w, sp, sn, sc, mv \in Int :
          (k1 * w + (sp + sn * mv + sc)) - (k * w + sp) - mv * sn = (k1 - k) * w + sc
    BY SMT
  <2>3. SumOf(no, Users) * 1 = SumOf(no, Users)
    BY <1>11, SMT
  <2>4. Drift = ((collateral' * WAD + (SumOf(p, Users) + SumOf(n, Users) * Moves + SumOf(c, Users)))
                   - (collateral * WAD + SumOf(p, Users))) - Moves * SumOf(n, Users)
    BY <1>1, <1>6, <1>8, <1>9, <1>10, <2>3
  <2> QED BY <1>3, <1>11, <2>1, <2>2, <2>4
<1> QED
  BY <1>4, <1>7, <1>12

(* A step that changes the part of one holder drifts by that change         *)
(* alone,                                                                   *)
LEMMA DriftOfOne ==
    ASSUME MarketTypeOK, MarketTypeOK', NEW a \in Users,
           \A u \in Users : u # a => Change(u) = 0
    PROVE  Drift = (collateral' - collateral) * WAD + Change(a)
<1> DEFINE c == [u \in Users |-> Change(u)]
<1>1. /\ c \in [Users -> Int] /\ Drift = (collateral' - collateral) * WAD + SumOf(c, Users)
  BY DriftIsSum
<1>2. \A u \in Users : u # a => c[u] = 0
  OBVIOUS
<1>3. c[a] = Change(a)
  OBVIOUS
<1> HIDE DEF c
<1>4. SumOf(c, Users) = c[a]
  BY <1>1, <1>2, SumOfOne
<1> QED
  BY <1>1, <1>3, <1>4

(* and one that changes the parts of two, by theirs. *)
LEMMA DriftOfTwo ==
    ASSUME MarketTypeOK, MarketTypeOK', NEW a \in Users, NEW b \in Users, a # b,
           \A u \in Users : u # a /\ u # b => Change(u) = 0
    PROVE  Drift = (collateral' - collateral) * WAD + (Change(a) + Change(b))
<1> DEFINE c == [u \in Users |-> Change(u)]
<1>1. /\ c \in [Users -> Int] /\ Drift = (collateral' - collateral) * WAD + SumOf(c, Users)
  BY DriftIsSum
<1>2. \A u \in Users : u # a /\ u # b => c[u] = 0
  OBVIOUS
<1>3. c[a] = Change(a) /\ c[b] = Change(b)
  OBVIOUS
<1> HIDE DEF c
<1>4. SumOf(c, Users) = c[a] + c[b]
  BY <1>1, <1>2, SumOfTwo
<1> QED
  BY <1>1, <1>3, <1>4

(* A holder whose tokens, debt and snapshots stay is charged and credited   *)
(* the move of the index and nothing more.                                  *)
LEMMA UntouchedPart ==
    ASSUME MarketTypeOK, MarketTypeOK', IndexSound, IndexSound', NEW u \in Users,
           yes'[u] = yes[u], no'[u] = no[u], fundingDebt'[u] = fundingDebt[u],
           fundingSnapshot'[u] = fundingSnapshot[u], snapNO'[u] = snapNO[u]
    PROVE  Change(u) = 0
<1>1. /\ yes[u] \in Int /\ no[u] \in Int /\ fundingDebt[u] \in Int /\ WAD \in Int
      /\ fundingSnapshot[u] \in Int /\ snapNO[u] \in Int
      /\ cumulativeFundingPerYES \in Int /\ cumulativeFundingPerYES' \in Int
      /\ cumFundingPerNO = cumulativeFundingPerYES
      /\ cumFundingPerNO' = cumulativeFundingPerYES'
  BY DEF MarketTypeOK, IndexTypeOK, IndexSound
<1>2. /\ Part(u) = fundingDebt[u] * WAD
                     + yes[u] * (cumulativeFundingPerYES - fundingSnapshot[u])
                     - no[u] * (cumulativeFundingPerYES - snapNO[u])
                     - yes[u] * WAD
      /\ Part(u)' = fundingDebt[u] * WAD
                     + yes[u] * (cumulativeFundingPerYES' - fundingSnapshot[u])
                     - no[u] * (cumulativeFundingPerYES' - snapNO[u])
                     - yes[u] * WAD
  BY <1>1 DEF Part, Accrued
<1>3. \A d, w, y, n, c, c1, s, t \in Int :
        (d * w + y * (c1 - s) - n * (c1 - t) - y * w)
          - (d * w + y * (c - s) - n * (c - t) - y * w) - (y - n) * (c1 - c) = 0
  BY SMT
<1> QED
  BY <1>1, <1>2, <1>3 DEF Change, Moves

(* settleFunding on one holder: its part changes by what it pays out,       *)
(* records and burns, in whole units, and by less than a unit of rounding   *)
(* a side, in the contract's favour.                                        *)
LEMMA SettledPart ==
    ASSUME MarketTypeOK, MarketTypeOK', IndexSound, IndexSound', SnapshotsBehindIndex,
           NEW u \in Users, Accrue,
           fundingSnapshot'[u] = ProjectedCumYES, snapNO'[u] = ProjectedCumNO
    PROVE  \E r \in 0 .. 2 * (WAD - 1) :
              Change(u) = (fundingDebt'[u] - yes'[u] + yes[u] + CreditPaid(u) - DebtSettled(u)) * WAD + r
<1> DEFINE P == ProjectedCumYES
           s == fundingSnapshot[u]
           t == snapNO[u]
<1>1. /\ yes[u] \in Nat /\ no[u] \in Nat /\ fundingDebt[u] \in Nat /\ WAD \in Nat \ {0}
      /\ yes'[u] \in Nat /\ no'[u] \in Nat /\ fundingDebt'[u] \in Nat
      /\ s \in Nat /\ t \in Nat /\ cumulativeFundingPerYES \in Nat
      /\ cumFundingPerNO = cumulativeFundingPerYES
      /\ s <= cumulativeFundingPerYES /\ t <= cumulativeFundingPerYES
  BY DEF MarketTypeOK, IndexTypeOK, IndexSound, SnapshotsBehindIndex
<1>2. /\ P \in Nat /\ ProjectedCumNO = P /\ P >= cumulativeFundingPerYES
      /\ cumulativeFundingPerYES' = P /\ cumFundingPerNO' = P
  BY ProjectionSound DEF MarketTypeOK, Accrue
<1>3. P - s \in Nat /\ P - t \in Nat
  BY <1>1, <1>2
<1> DEFINE debit == YesDebit(yes[u], P - s)
           carry == yes[u] * (P - s)
           earned == no[u] * (P - t)
           credit == NoCredit(u)
<1>4. /\ debit \in Nat /\ carry \in Nat /\ debit * WAD - carry \in 0 .. (WAD - 1)
  <2>1. carry \in Nat
    BY <1>1, <1>3, ProductIsNat
  <2>2. /\ debit \in Nat /\ carry <= debit * WAD /\ debit * WAD <= carry + (WAD - 1)
    BY <1>1, <1>3, DebitRoundsUp
  <2>3. debit * WAD \in Nat
    BY <1>1, <2>2, ProductIsNat
  <2> HIDE DEF carry, debit
  <2> QED BY <1>1, <2>1, <2>2, <2>3
<1>5. /\ credit \in Nat /\ earned \in Nat /\ earned - credit * WAD \in 0 .. (WAD - 1)
  <2>1. earned \in Nat
    BY <1>1, <1>3, ProductIsNat
  <2>2. credit = earned \div WAD
    BY <1>2 DEF NoCredit
  <2> HIDE DEF earned, credit
  <2>3. /\ credit \in Nat /\ credit * WAD <= earned /\ earned <= credit * WAD + (WAD - 1)
    BY <1>1, <2>1, <2>2, DivBounds
  <2>4. credit * WAD \in Nat
    BY <1>1, <2>3, ProductIsNat
  <2> QED BY <1>1, <2>1, <2>3, <2>4
<1>6. CreditPaid(u) - DebtSettled(u) = credit - (fundingDebt[u] + debit)
      /\ CreditPaid(u) \in Nat /\ DebtSettled(u) \in Nat
  BY SettlementNets DEF Owed
<1>7. Change(u) = fundingDebt'[u] * WAD - yes'[u] * WAD + yes[u] * WAD
                    - fundingDebt[u] * WAD - carry + earned
  <2>1. Part(u)' = (fundingDebt'[u] * WAD + yes'[u] * (P - P) - no'[u] * (P - P)) - yes'[u] * WAD
    <3>1. Part(u)' = (fundingDebt'[u] * WAD
                        + yes'[u] * (cumulativeFundingPerYES' - fundingSnapshot'[u])
                        - no'[u] * (cumFundingPerNO' - snapNO'[u])) - yes'[u] * WAD
      BY DEF Part, Accrued
    <3>2. fundingSnapshot'[u] = P /\ snapNO'[u] = P
      BY <1>2
    <3> QED BY <1>2, <3>1, <3>2, Zenon
  <2>2. Part(u) = fundingDebt[u] * WAD + yes[u] * (cumulativeFundingPerYES - s)
                    - no[u] * (cumulativeFundingPerYES - t) - yes[u] * WAD
    BY <1>1 DEF Part, Accrued
  <2>3. Change(u) = Part(u)' - Part(u) - (yes[u] - no[u]) * (P - cumulativeFundingPerYES)
    BY <1>2 DEF Change, Moves
  <2>4. \A d, w, y, n, c, d1, y1, n1, p, ss, tt \in Int :
          ((d1 * w + y1 * (p - p) - n1 * (p - p)) - y1 * w)
            - (d * w + y * (c - ss) - n * (c - tt) - y * w) - (y - n) * (p - c)
          = d1 * w - y1 * w + y * w - d * w - y * (p - ss) + n * (p - tt)
    BY SMT
  <2> HIDE DEF P, s, t
  <2> QED BY <1>1, <1>2, <2>1, <2>2, <2>3, <2>4
<1> DEFINE r == (debit * WAD - carry) + (earned - credit * WAD)
<1>8. r \in 0 .. 2 * (WAD - 1)
  <2> HIDE DEF debit, carry, earned, credit
  <2>1. debit * WAD \in Nat /\ credit * WAD \in Nat
    BY <1>1, <1>4, <1>5, ProductIsNat
  <2> QED BY <1>1, <1>4, <1>5, <2>1
<1>9. Change(u) = (fundingDebt'[u] - yes'[u] + yes[u] + CreditPaid(u) - DebtSettled(u)) * WAD + r
  <2>1. \A d, w, y, d1, y1, db, cr, ca, ea \in Int :
          d1 * w - y1 * w + y * w - d * w - ca + ea
            = (d1 - y1 + y + (cr - (d + db))) * w + ((db * w - ca) + (ea - cr * w))
    BY SMT
  <2> HIDE DEF debit, carry, earned, credit
  <2>2. Change(u) = (fundingDebt'[u] - yes'[u] + yes[u] + (credit - (fundingDebt[u] + debit))) * WAD + r
    BY <1>1, <1>4, <1>5, <1>7, <2>1
  <2>3. fundingDebt'[u] - yes'[u] + yes[u] + CreditPaid(u) - DebtSettled(u)
          = fundingDebt'[u] - yes'[u] + yes[u] + (credit - (fundingDebt[u] + debit))
    BY <1>1, <1>4, <1>5, <1>6
  <2> QED BY <2>2, <2>3
<1> HIDE DEF r
<1> QED
  BY <1>8, <1>9

----------------------------------------------------------------------------
(* What each transaction does to the surplus                                *)

(* A step that leaves the ledger alone does not drift, whatever it does     *)
(* to the index.                                                            *)
LEMMA QuietStep ==
    ASSUME MarketTypeOK, MarketTypeOK', IndexSound, IndexSound', UNCHANGED <<tokenVars, snapshotVars, fundingDebt, collateral>>
    PROVE  Drift = 0
<1> DEFINE c == [u \in Users |-> Change(u)]
<1>1. /\ c \in [Users -> Int] /\ Drift = (collateral' - collateral) * WAD + SumOf(c, Users)
  BY DriftIsSum
<1>2. \A u \in Users : c[u] = 0
  BY UntouchedPart DEF tokenVars, snapshotVars
<1> HIDE DEF c
<1>3. SumOf(c, Users) = 0
  BY <1>1, <1>2, SumOfNone
<1>4. (collateral' - collateral) * WAD = 0
  BY DEF MarketTypeOK
<1> QED
  BY <1>1, <1>3, <1>4

(* A transaction that settles one holder (settleFunding, cure, mint,        *)
(* redeem, settleYES) and squares the collateral with what it burnt and     *)
(* recorded drifts by rounding alone;                                       *)
LEMMA OneSettled ==
    ASSUME MarketTypeOK, MarketTypeOK', IndexSound, IndexSound', SnapshotsBehindIndex,
           NEW a \in Users, SettleSnapshots({a}),
           \A u \in Users : u # a =>
              yes'[u] = yes[u] /\ no'[u] = no[u] /\ fundingDebt'[u] = fundingDebt[u],
           collateral' - collateral + fundingDebt'[a]
              = yes'[a] - yes[a] + DebtSettled(a) - CreditPaid(a)
    PROVE  Drift \in 0 .. 4 * (WAD - 1)
<1>1. \A u \in Users : u # a => Change(u) = 0
  <2> SUFFICES ASSUME NEW u \in Users, u # a PROVE Change(u) = 0
    OBVIOUS
  <2>1. fundingSnapshot'[u] = fundingSnapshot[u] /\ snapNO'[u] = snapNO[u]
    BY DEF SettleSnapshots
  <2> QED BY <2>1, UntouchedPart
<1>2. Drift = (collateral' - collateral) * WAD + Change(a)
  BY <1>1, DriftOfOne
<1> DEFINE k == fundingDebt'[a] - yes'[a] + yes[a] + CreditPaid(a) - DebtSettled(a)
<1>3. PICK r \in 0 .. 2 * (WAD - 1) : Change(a) = k * WAD + r
  <2>1. Accrue /\ fundingSnapshot'[a] = ProjectedCumYES /\ snapNO'[a] = ProjectedCumNO
    BY DEF SettleSnapshots
  <2> QED BY <2>1, SettledPart
<1>4. /\ k \in Int /\ collateral' - collateral \in Int /\ (collateral' - collateral) + k = 0
      /\ WAD \in Nat
  BY SettlementNets DEF MarketTypeOK
<1> HIDE DEF k
<1>5. Drift = r
  <2>1. \A x, y, w, z \in Int : x + y = 0 => x * w + (y * w + z) = z
    BY SMT
  <2> QED BY <1>2, <1>3, <1>4, <2>1
<1> QED
  BY <1>3, <1>4, <1>5

(* so does one that settles two and moves tokens between them (a fill). *)
LEMMA TwoSettled ==
    ASSUME MarketTypeOK, MarketTypeOK', IndexSound, IndexSound', SnapshotsBehindIndex,
           NEW a \in Users, NEW b \in Users, a # b, SettleSnapshots({a, b}),
           \A u \in Users : u # a /\ u # b =>
              yes'[u] = yes[u] /\ no'[u] = no[u] /\ fundingDebt'[u] = fundingDebt[u],
           yes'[a] + yes'[b] = yes[a] + yes[b],
           collateral' - collateral + fundingDebt'[a] + fundingDebt'[b]
              = DebtSettled(a) - CreditPaid(a) + DebtSettled(b) - CreditPaid(b)
    PROVE  Drift \in 0 .. 4 * (WAD - 1)
<1>1. \A u \in Users : u # a /\ u # b => Change(u) = 0
  <2> SUFFICES ASSUME NEW u \in Users, u # a, u # b PROVE Change(u) = 0
    OBVIOUS
  <2>1. fundingSnapshot'[u] = fundingSnapshot[u] /\ snapNO'[u] = snapNO[u]
    BY DEF SettleSnapshots
  <2> QED BY <2>1, UntouchedPart
<1>2. Drift = (collateral' - collateral) * WAD + (Change(a) + Change(b))
  BY <1>1, DriftOfTwo
<1> DEFINE k(u) == fundingDebt'[u] - yes'[u] + yes[u] + CreditPaid(u) - DebtSettled(u)
<1>3. ASSUME NEW u \in {a, b}
      PROVE  \E r \in 0 .. 2 * (WAD - 1) : Change(u) = k(u) * WAD + r
  <2>1. /\ u \in Users /\ Accrue
        /\ fundingSnapshot'[u] = ProjectedCumYES /\ snapNO'[u] = ProjectedCumNO
    BY DEF SettleSnapshots
  <2> QED BY <2>1, SettledPart
<1>4. PICK ra \in 0 .. 2 * (WAD - 1) : Change(a) = k(a) * WAD + ra
  BY <1>3
<1>5. PICK rb \in 0 .. 2 * (WAD - 1) : Change(b) = k(b) * WAD + rb
  BY <1>3
<1>6. /\ k(a) \in Int /\ k(b) \in Int /\ collateral' - collateral \in Int /\ WAD \in Nat
      /\ (collateral' - collateral) + k(a) + k(b) = 0
  BY SettlementNets DEF MarketTypeOK
<1> DEFINE ka == k(a)
           kb == k(b)
<1>8. /\ ka \in Int /\ kb \in Int /\ (collateral' - collateral) + ka + kb = 0
      /\ Change(a) = ka * WAD + ra /\ Change(b) = kb * WAD + rb
  BY <1>4, <1>5, <1>6
<1> HIDE DEF k, ka, kb
<1>7. Drift = ra + rb
  <2>1. \A x, y, z, w, p, q \in Int : x + y + z = 0 => x * w + ((y * w + p) + (z * w + q)) = p + q
    BY SMT
  <2> QED BY <1>2, <1>4, <1>5, <1>6, <1>8, <2>1
<1> QED
  BY <1>4, <1>5, <1>6, <1>7

(* Every transaction of a holder on the market drifts by rounding alone. *)
LEMMA UserStepDrift ==
    ASSUME IInv, IInv', UserStep
    PROVE  Drift \in 0 .. 4 * (WAD - 1)
<1> USE DEF IInv, TypeOK
<1>1. PICK u \in Users :
        \/ SettleFunding(u)
        \/ Cure(u)
        \/ FlagClaimable(u)
        \/ \E amount \in MintAmounts : Mint(u, amount)
        \/ \E amount \in BurnAmounts : Redeem(u, amount) \/ SettleYES(u, amount)
  BY DEF UserStep
<1>2. /\ CreditPaid(u) \in Nat /\ DebtSettled(u) \in Nat /\ collateral \in Nat
      /\ yes \in [Users -> Nat] /\ no \in [Users -> Nat] /\ fundingDebt \in [Users -> Nat]
  BY SettlementNets DEF MarketTypeOK
<1>3. CASE SettleFunding(u)
  <2>1. /\ SettleSnapshots({u}) /\ yes' = yes /\ no' = no
        /\ collateral' = collateral - CreditPaid(u)
        /\ fundingDebt' = DebtsSettled({u})
    BY <1>3 DEF SettleFunding, tokenVars
  <2>2. /\ fundingDebt'[u] = DebtSettled(u)
        /\ \A v \in Users : v # u => fundingDebt'[v] = fundingDebt[v]
    BY <2>1 DEF DebtsSettled
  <2>3. collateral' - collateral + fundingDebt'[u]
          = yes'[u] - yes[u] + DebtSettled(u) - CreditPaid(u)
    BY <1>2, <2>1, <2>2
  <2> QED BY <2>1, <2>2, <2>3, OneSettled
<1>4. CASE Cure(u)
  <2>1. /\ SettleSnapshots({u}) /\ yes' = yes /\ no' = no
        /\ collateral' = collateral - CreditPaid(u) + DebtSettled(u)
        /\ fundingDebt' = [fundingDebt EXCEPT ![u] = 0]
    BY <1>4 DEF Cure, tokenVars
  <2> QED BY <1>2, <2>1, OneSettled
<1>5. CASE FlagClaimable(u)
  <2>1. Drift = 0
    BY <1>5, QuietStep DEF FlagClaimable
  <2> QED BY <2>1
<1>6. CASE \E amount \in MintAmounts : Mint(u, amount)
  <2>1. PICK amount \in MintAmounts : Mint(u, amount)
    BY <1>6
  <2>2. /\ SettleSnapshots({u}) /\ amount \in Nat
        /\ yes' = [yes EXCEPT ![u] = @ + amount] /\ no' = [no EXCEPT ![u] = @ + amount]
        /\ collateral' = collateral + amount - CreditPaid(u)
        /\ fundingDebt' = DebtsSettled({u})
    BY <2>1 DEF Mint
  <2>3. /\ fundingDebt'[u] = DebtSettled(u)
        /\ \A v \in Users : v # u => fundingDebt'[v] = fundingDebt[v]
    BY <2>2 DEF DebtsSettled
  <2>4. /\ collateral' - collateral + fundingDebt'[u]
             = yes'[u] - yes[u] + DebtSettled(u) - CreditPaid(u)
        /\ \A v \in Users : v # u => yes'[v] = yes[v] /\ no'[v] = no[v]
    BY <1>2, <2>2, <2>3
  <2> QED BY <2>2, <2>3, <2>4, OneSettled
<1>7. CASE \E amount \in BurnAmounts : Redeem(u, amount) \/ SettleYES(u, amount)
  <2>1. PICK amount \in BurnAmounts : Redeem(u, amount) \/ SettleYES(u, amount)
    BY <1>7
  <2>2. /\ SettleSnapshots({u}) /\ amount \in Nat
        /\ yes' = [yes EXCEPT ![u] = @ - amount]
        /\ no' = [no EXCEPT ![u] = @ - amount] \/ no' = no
        /\ collateral' = collateral - CreditPaid(u) - (amount - DebtSettled(u))
        /\ fundingDebt' = [fundingDebt EXCEPT ![u] = 0]
    BY <2>1 DEF Redeem, SettleYES, PayOut
  <2>3. \A v \in Users : v # u => no'[v] = no[v]
    BY <1>2, <2>2
  <2> QED BY <1>2, <2>2, <2>3, OneSettled
<1> QED
  BY <1>1, <1>3, <1>4, <1>5, <1>6, <1>7

(* Every fill does. *)
LEMMA TradeStepDrift ==
    ASSUME IInv, IInv', TradeStep
    PROVE  Drift \in 0 .. 4 * (WAD - 1)
<1> USE DEF IInv, TypeOK
<1>1. PICK seller \in Users, buyer \in Users, tokens \in FillSizes,
           price \in FillPrices, f \in FeeSplits :
        SellYES(seller, buyer, tokens, price, f) \/ SellNO(seller, buyer, tokens, price, f)
  BY DEF TradeStep
<1> DEFINE share == IF SellYES(seller, buyer, tokens, price, f)
                    THEN DebtShare(seller, tokens) ELSE 0
<1>2. /\ CreditPaid(seller) \in Nat /\ DebtSettled(seller) \in Nat
      /\ CreditPaid(buyer) \in Nat /\ DebtSettled(buyer) \in Nat
      /\ collateral \in Nat /\ tokens \in Nat /\ tokens # 0
      /\ yes \in [Users -> Nat] /\ no \in [Users -> Nat] /\ fundingDebt \in [Users -> Nat]
  BY SettlementNets DEF MarketTypeOK
<1>3. DebtShare(seller, tokens) \in Nat
  BY <1>2, ShareOfDebt
<1>4. /\ SettleSnapshots({seller, buyer})
      /\ collateral' = collateral - CreditsPaid(seller, buyer) + share
      /\ fundingDebt' = [DebtsSettled({seller, buyer}) EXCEPT ![seller] = @ - share]
      /\ yes' = Moved(yes, seller, buyer, tokens) \/ yes' = yes
      /\ no' = Moved(no, seller, buyer, tokens) \/ no' = no
      /\ share \in Nat
  <2>1. CASE SellYES(seller, buyer, tokens, price, f)
    BY <1>3, <2>1 DEF SellYES
  <2>2. CASE ~SellYES(seller, buyer, tokens, price, f)
    <3>1. SellNO(seller, buyer, tokens, price, f)
      BY <1>1, <2>2
    <3>2. CreditsPaid(seller, buyer) \in Nat
      BY <1>2 DEF CreditsPaid
    <3>3. /\ SettleSnapshots({seller, buyer}) /\ yes' = yes
          /\ no' = Moved(no, seller, buyer, tokens)
          /\ fundingDebt' = DebtsSettled({seller, buyer})
          /\ collateral' = collateral - CreditsPaid(seller, buyer)
      BY <3>1 DEF SellNO
    <3>4. share = 0
      BY <2>2
    <3>5. DebtsSettled({seller, buyer}) = [DebtsSettled({seller, buyer}) EXCEPT ![seller] = @ - 0]
      BY <1>2 DEF DebtsSettled
    <3> HIDE DEF share
    <3> QED BY <1>2, <3>2, <3>3, <3>4, <3>5
  <2> QED BY <2>1, <2>2
<1> HIDE DEF share
<1>5. /\ fundingDebt'[seller] = DebtSettled(seller) - share
      /\ buyer # seller => fundingDebt'[buyer] = DebtSettled(buyer)
      /\ \A u \in Users : u # seller /\ u # buyer => fundingDebt'[u] = fundingDebt[u]
  BY <1>4 DEF DebtsSettled
<1>6. \A u \in Users : u # seller /\ u # buyer => yes'[u] = yes[u] /\ no'[u] = no[u]
  BY <1>2, <1>4 DEF Moved
<1>7. CASE seller = buyer
  <2>1. {seller, buyer} = {seller}
    BY <1>7
  <2>2. yes' = yes /\ no' = no /\ CreditsPaid(seller, buyer) = CreditPaid(seller)
    BY <1>4, <1>7 DEF Moved, CreditsPaid
  <2>3. SettleSnapshots({seller})
    BY <1>4, <2>1
  <2>4. \A u \in Users : u # seller =>
            yes'[u] = yes[u] /\ no'[u] = no[u] /\ fundingDebt'[u] = fundingDebt[u]
    BY <1>5, <1>7, <2>2
  <2>5. collateral' - collateral + fundingDebt'[seller]
          = yes'[seller] - yes[seller] + DebtSettled(seller) - CreditPaid(seller)
    BY <1>2, <1>4, <1>5, <2>2
  <2> QED BY <2>3, <2>4, <2>5, OneSettled
<1>8. CASE seller # buyer
  <2>1. yes'[seller] + yes'[buyer] = yes[seller] + yes[buyer]
    BY <1>2, <1>4, <1>8 DEF Moved
  <2>2. CreditsPaid(seller, buyer) = CreditPaid(seller) + CreditPaid(buyer)
    BY <1>8 DEF CreditsPaid
  <2>3. collateral' - collateral + fundingDebt'[seller] + fundingDebt'[buyer]
          = DebtSettled(seller) - CreditPaid(seller) + DebtSettled(buyer) - CreditPaid(buyer)
    BY <1>2, <1>4, <1>5, <1>8, <2>2
  <2>4. \A u \in Users : u # seller /\ u # buyer =>
            yes'[u] = yes[u] /\ no'[u] = no[u] /\ fundingDebt'[u] = fundingDebt[u]
    BY <1>5, <1>6
  <2> QED BY <1>4, <1>8, <2>1, <2>3, <2>4, TwoSettled
<1> QED
  BY <1>7, <1>8

(* clearLiquidatedPosition: the part of the seized holder changes by its    *)
(* YES less what it owed, its NO credit accruing from where it stood.       *)
LEMMA LiquidatedPart ==
    ASSUME MarketTypeOK, MarketTypeOK', IndexSound, IndexSound', SnapshotsBehindIndex,
           NEW u \in Users, Accrue,
           fundingSnapshot'[u] = ProjectedCumYES, snapNO'[u] = snapNO[u],
           yes'[u] = 0, no'[u] = no[u], fundingDebt'[u] = 0
    PROVE  \E r \in 0 .. (WAD - 1) : Change(u) = (yes[u] - Owed(u)) * WAD + r
<1> DEFINE P == ProjectedCumYES
           s == fundingSnapshot[u]
           t == snapNO[u]
           debit == YesDebit(yes[u], P - s)
           carry == yes[u] * (P - s)
<1>1. /\ yes[u] \in Nat /\ no[u] \in Nat /\ fundingDebt[u] \in Nat /\ WAD \in Nat \ {0}
      /\ s \in Nat /\ t \in Nat /\ cumulativeFundingPerYES \in Nat
      /\ cumFundingPerNO = cumulativeFundingPerYES
      /\ s <= cumulativeFundingPerYES /\ t <= cumulativeFundingPerYES
  BY DEF MarketTypeOK, IndexTypeOK, IndexSound, SnapshotsBehindIndex
<1>2. /\ P \in Nat /\ P >= cumulativeFundingPerYES
      /\ cumulativeFundingPerYES' = P /\ cumFundingPerNO' = P
  BY ProjectionSound DEF MarketTypeOK, Accrue
<1>3. P - s \in Nat
  BY <1>1, <1>2
<1>4. debit \in Nat /\ carry \in Nat /\ debit * WAD - carry \in 0 .. (WAD - 1)
  <2>1. carry \in Nat
    BY <1>1, <1>3, ProductIsNat
  <2>2. /\ debit \in Nat /\ carry <= debit * WAD /\ debit * WAD <= carry + (WAD - 1)
    BY <1>1, <1>3, DebitRoundsUp
  <2>3. debit * WAD \in Nat
    BY <1>1, <2>2, ProductIsNat
  <2> HIDE DEF carry, debit
  <2> QED BY <1>1, <2>1, <2>2, <2>3
<1>5. Change(u) = yes[u] * WAD - fundingDebt[u] * WAD - carry
  <2>1. Part(u)' = (0 * WAD + 0 * (P - P) - no[u] * (P - t)) - 0 * WAD
    <3>1. Part(u)' = (fundingDebt'[u] * WAD
                        + yes'[u] * (cumulativeFundingPerYES' - fundingSnapshot'[u])
                        - no'[u] * (cumFundingPerNO' - snapNO'[u])) - yes'[u] * WAD
      BY DEF Part, Accrued
    <3> QED BY <1>2, <3>1, Zenon
  <2>2. Part(u) = (fundingDebt[u] * WAD + yes[u] * (cumulativeFundingPerYES - s)
                    - no[u] * (cumulativeFundingPerYES - t)) - yes[u] * WAD
    BY <1>1 DEF Part, Accrued
  <2>3. Change(u) = Part(u)' - Part(u) - (yes[u] - no[u]) * (P - cumulativeFundingPerYES)
    BY <1>2 DEF Change, Moves
  <2>4. \A d, w, y, n, c, p, ss, tt \in Int :
          ((0 * w + 0 * (p - p) - n * (p - tt)) - 0 * w)
            - ((d * w + y * (c - ss) - n * (c - tt)) - y * w) - (y - n) * (p - c)
          = y * w - d * w - y * (p - ss)
    BY SMT
  <2> HIDE DEF P, s, t
  <2> QED BY <1>1, <1>2, <2>1, <2>2, <2>3, <2>4
<1> DEFINE r == debit * WAD - carry
<1>6. r \in 0 .. (WAD - 1)
  BY <1>4
<1>7. Change(u) = (yes[u] - Owed(u)) * WAD + r
  <2>1. Owed(u) = fundingDebt[u] + debit
    BY DEF Owed
  <2>2. \A y, d, w, db, ca \in Int :
          y * w - d * w - ca = (y - (d + db)) * w + (db * w - ca)
    BY SMT
  <2> HIDE DEF debit, carry
  <2> QED BY <1>1, <1>4, <1>5, <2>1, <2>2
<1> HIDE DEF r
<1> QED
  BY <1>6, <1>7

(* A claim drifts by rounding alone: the reserve and the liquidator         *)
(* together bring in exactly what the seized holder owed.                   *)
LEMMA ClaimStepDrift ==
    ASSUME IInv, IInv', ClaimStep
    PROVE  Drift \in 0 .. 4 * (WAD - 1)
<1> USE DEF IInv, TypeOK
<1>1. PICK u \in Users, liquidator \in Users : Claim(u, liquidator)
  BY DEF ClaimStep
<1>2. /\ CreditPaid(liquidator) \in Nat /\ DebtSettled(liquidator) \in Nat /\ Owed(u) \in Nat
      /\ collateral \in Nat /\ collateral' \in Nat /\ WAD \in Nat \ {0}
      /\ yes \in [Users -> Nat] /\ no \in [Users -> Nat] /\ fundingDebt \in [Users -> Nat]
      /\ fundingSnapshot \in [Users -> Nat] /\ snapNO \in [Users -> Nat]
  BY SettlementNets DEF MarketTypeOK
<1>3. /\ u # liquidator /\ Accrue
      /\ fundingSnapshot' = [fundingSnapshot EXCEPT ![u] = ProjectedCumYES,
                                                    ![liquidator] = ProjectedCumYES]
      /\ snapNO' = [snapNO EXCEPT ![liquidator] = ProjectedCumNO]
      /\ fundingDebt' = [DebtsSettled({liquidator}) EXCEPT ![u] = 0]
      /\ collateral' = collateral - CreditPaid(liquidator) + Owed(u)
      /\ yes' = Moved(yes, u, liquidator, yes[u]) /\ no' = no
  BY <1>1 DEF Claim
<1>4. /\ fundingDebt'[u] = 0 /\ fundingDebt'[liquidator] = DebtSettled(liquidator)
      /\ \A v \in Users : v # u /\ v # liquidator => fundingDebt'[v] = fundingDebt[v]
  BY <1>3 DEF DebtsSettled
<1>5. /\ yes'[u] = 0 /\ yes'[liquidator] = yes[liquidator] + yes[u]
      /\ \A v \in Users : v # u /\ v # liquidator => yes'[v] = yes[v]
  BY <1>2, <1>3 DEF Moved
<1>6. /\ fundingSnapshot'[u] = ProjectedCumYES /\ snapNO'[u] = snapNO[u]
      /\ fundingSnapshot'[liquidator] = ProjectedCumYES
      /\ snapNO'[liquidator] = ProjectedCumNO
      /\ \A v \in Users : v # u /\ v # liquidator =>
           fundingSnapshot'[v] = fundingSnapshot[v] /\ snapNO'[v] = snapNO[v]
  BY <1>2, <1>3
<1>7. PICK r \in 0 .. (WAD - 1) : Change(u) = (yes[u] - Owed(u)) * WAD + r
  BY <1>3, <1>4, <1>5, <1>6, LiquidatedPart
<1>8. PICK q \in 0 .. 2 * (WAD - 1) :
        Change(liquidator) = (CreditPaid(liquidator) - yes[u]) * WAD + q
  <2>1. PICK q \in 0 .. 2 * (WAD - 1) :
          Change(liquidator) = (fundingDebt'[liquidator] - yes'[liquidator] + yes[liquidator]
                                 + CreditPaid(liquidator) - DebtSettled(liquidator)) * WAD + q
    BY <1>3, <1>6, SettledPart
  <2>2. fundingDebt'[liquidator] - yes'[liquidator] + yes[liquidator]
          + CreditPaid(liquidator) - DebtSettled(liquidator) = CreditPaid(liquidator) - yes[u]
    BY <1>2, <1>4, <1>5
  <2> QED BY <2>1, <2>2
<1>9. Drift = (collateral' - collateral) * WAD + (Change(u) + Change(liquidator))
  <2>1. \A v \in Users : v # u /\ v # liquidator => Change(v) = 0
    BY <1>3, <1>4, <1>5, <1>6, UntouchedPart
  <2> QED BY <1>3, <2>1, DriftOfTwo
<1>10. Drift = r + q
  <2>1. \A w, cp, ow, y, x, z \in Int :
          (ow - cp) * w + (((y - ow) * w + x) + ((cp - y) * w + z)) = x + z
    BY SMT
  <2>2. collateral' - collateral = Owed(u) - CreditPaid(liquidator)
    BY <1>2, <1>3
  <2> QED BY <1>2, <1>7, <1>8, <1>9, <2>1, <2>2
<1> QED
  BY <1>2, <1>7, <1>8, <1>10

(* Every step drifts by rounding alone. *)
LEMMA NextDrift ==
    ASSUME IInv, IInv', [Next]_vars
    PROVE  Drift \in 0 .. 4 * (WAD - 1)
<1>0. WAD \in Nat \ {0} /\ 0 \in 0 .. 4 * (WAD - 1)
  OBVIOUS
<1>1. CASE MarketStep
  <2>1. CASE IndexStep
    <3>1. Drift = 0
      BY <2>1, QuietStep DEF IndexStep, IInv, TypeOK, marketVars, ledgerVars
    <3> QED BY <1>0, <3>1
  <2>2. CASE UserStep
    BY <2>2, UserStepDrift
  <2>3. CASE RoleStep
    <3>1. UNCHANGED ledgerVars
      BY <2>3 DEF RoleStep, ConfirmCreditEvent, SetMotionPending, Pause, Unpause, SetDepositCap
    <3>2. Drift = 0
      BY <3>1, QuietStep DEF IInv, TypeOK, ledgerVars
    <3> QED BY <1>0, <3>2
  <2> QED BY <1>1, <2>1, <2>2, <2>3 DEF MarketStep
<1>2. CASE TradeStep
  BY <1>2, TradeStepDrift
<1>3. CASE ClaimStep
  BY <1>3, ClaimStepDrift
<1>4. CASE FundStep \/ UNCHANGED vars
  <2>1. Drift = 0
    BY <1>4, QuietStep DEF FundStep, vars, IInv, TypeOK, marketVars, ledgerVars
  <2> QED BY <1>0, <2>1
<1> QED
  BY <1>1, <1>2, <1>3, <1>4 DEF Next

(* CarryIsConserved, for any number of holders: no transaction forgives,    *)
(* loses or double-charges carry (redeem, settleYES, cure, collectDebt,     *)
(* claim, fillOrders).                                                      *)
THEOREM CarryConserved == Spec => CarryIsConserved
<1>1. IInv /\ IInv' /\ [Next]_vars =>
        [LET moved == cumulativeFundingPerYES' - cumulativeFundingPerYES
         IN  (Surplus' - Surplus) - moved * (YesSupply - SumOver(no)) \in 0 .. 4 * (WAD - 1)]_vars
  BY NextDrift DEF Drift, Moves
<1> QED
  BY <1>1, Invariance, PTL DEF Spec, CarryIsConserved

----------------------------------------------------------------------------
(* Solvency and complete sets                                               *)

(* Moving tokens between two holders, or from a holder to itself, keeps     *)
(* their total.                                                             *)
LEMMA SumOfMoved ==
    ASSUME NEW f \in [Users -> Nat], NEW a \in Users, NEW b \in Users, NEW n \in Nat, n <= f[a]
    PROVE  SumOver(Moved(f, a, b, n)) = SumOver(f)
<1>1. CASE a = b
  BY <1>1 DEF Moved
<1>2. CASE a # b
  <2> DEFINE g == Moved(f, a, b, n)
  <2>1. /\ f \in [Users -> Int] /\ g \in [Users -> Int]
        /\ g[a] = f[a] - n /\ g[b] = f[b] + n
        /\ \A u \in Users : u # a /\ u # b => g[u] = f[u]
    BY <1>2 DEF Moved
  <2> HIDE DEF g
  <2>2. SumOf(g, Users) = SumOf(f, Users) + (g[a] - f[a]) + (g[b] - f[b])
    BY <1>2, <2>1, SumChangedAtTwo
  <2>3. SumOf(g, Users) = SumOf(f, Users)
    BY <2>1, <2>2, SumIsInt
  <2> QED BY <2>3, SumOverIsSum DEF g
<1> QED
  BY <1>1, <1>2

(* Changing one holder's balance changes the total by as much. *)
LEMMA SumOfOneMore ==
    ASSUME NEW f \in [Users -> Int], NEW g \in [Users -> Int], NEW a \in Users,
           \A u \in Users : u # a => g[u] = f[u]
    PROVE  SumOver(g) = SumOver(f) + (g[a] - f[a])
<1>1. SumOf(g, Users) = SumOf(f, Users) + (g[a] - f[a])
  BY SumChangedAtOne
<1> QED
  BY <1>1, SumOverIsSum

(* A step that leaves the credit event unconfirmed issues and burns YES     *)
(* and NO in pairs.                                                         *)
LEMMA NextPairs ==
    ASSUME IInv, IInv', [Next]_vars, ~creditEventConfirmed'
    PROVE  /\ ~creditEventConfirmed
           /\ YesSupply' - SumOver(no)' = YesSupply - SumOver(no)
<1>1. /\ yes \in [Users -> Nat] /\ no \in [Users -> Nat]
      /\ yes' \in [Users -> Nat] /\ no' \in [Users -> Nat]
  BY DEF IInv, TypeOK, MarketTypeOK
<1>2. /\ SumOver(yes) \in Int /\ SumOver(no) \in Int
      /\ SumOver(yes') \in Int /\ SumOver(no') \in Int
  <2>1. \A f \in [Users -> Nat] : SumOver(f) \in Int
    BY SumIsNat, SumOverIsSum
  <2> QED BY <1>1, <2>1
<1> SUFFICES ~creditEventConfirmed /\ SumOver(yes') - SumOver(no') = SumOver(yes) - SumOver(no)
  BY DEF YesSupply
<1>4. CASE UserStep
  <2>1. PICK u \in Users :
        \/ SettleFunding(u)
        \/ Cure(u)
        \/ FlagClaimable(u)
        \/ \E amount \in MintAmounts : Mint(u, amount)
        \/ \E amount \in BurnAmounts : Redeem(u, amount) \/ SettleYES(u, amount)
    BY <1>4 DEF UserStep
  <2>2. CASE SettleFunding(u) \/ Cure(u) \/ FlagClaimable(u)
    BY <2>2 DEF SettleFunding, Cure, FlagClaimable, tokenVars, adminVars
  <2>3. CASE \/ \E amount \in MintAmounts : Mint(u, amount)
             \/ \E amount \in BurnAmounts : Redeem(u, amount)
    <3>1. PICK n \in Int : /\ yes' = [yes EXCEPT ![u] = @ + n] /\ no' = [no EXCEPT ![u] = @ + n]
                           /\ UNCHANGED adminVars
      <4>1. CASE \E amount \in MintAmounts : Mint(u, amount)
        <5>1. PICK amount \in MintAmounts : Mint(u, amount)
          BY <4>1
        <5>2. /\ yes' = [yes EXCEPT ![u] = @ + amount] /\ no' = [no EXCEPT ![u] = @ + amount]
              /\ UNCHANGED adminVars /\ amount \in Int
          BY <5>1 DEF Mint
        <5> QED BY <5>2
      <4>2. CASE \E amount \in BurnAmounts : Redeem(u, amount)
        <5>1. PICK amount \in BurnAmounts : Redeem(u, amount)
          BY <4>2
        <5>2. /\ yes' = [yes EXCEPT ![u] = @ - amount] /\ no' = [no EXCEPT ![u] = @ - amount]
              /\ UNCHANGED adminVars /\ amount \in Nat /\ -amount \in Int
          BY <5>1 DEF Redeem
        <5>3. /\ yes' = [yes EXCEPT ![u] = @ + (-amount)]
              /\ no' = [no EXCEPT ![u] = @ + (-amount)]
          BY <1>1, <5>2
        <5> QED BY <5>2, <5>3
      <4> QED BY <2>3, <4>1, <4>2
    <3>2. /\ yes'[u] - yes[u] = n /\ no'[u] - no[u] = n
          /\ \A v \in Users : v # u => yes'[v] = yes[v] /\ no'[v] = no[v]
      BY <1>1, <3>1
    <3>3. SumOver(yes') = SumOver(yes) + n /\ SumOver(no') = SumOver(no) + n
      BY <1>1, <3>2, SumOfOneMore
    <3> QED BY <1>2, <3>1, <3>3 DEF adminVars
  <2>4. CASE \E amount \in BurnAmounts : SettleYES(u, amount)
    BY <2>4 DEF SettleYES, adminVars
  <2> QED BY <2>1, <2>2, <2>3, <2>4
<1>5. CASE TradeStep
  <2>1. PICK seller \in Users, buyer \in Users, tokens \in FillSizes,
           price \in FillPrices, f \in FeeSplits :
        SellYES(seller, buyer, tokens, price, f) \/ SellNO(seller, buyer, tokens, price, f)
    BY <1>5 DEF TradeStep
  <2>2. /\ UNCHANGED adminVars
        /\ \/ tokens <= yes[seller] /\ yes' = Moved(yes, seller, buyer, tokens) /\ no' = no
           \/ tokens <= no[seller] /\ no' = Moved(no, seller, buyer, tokens) /\ yes' = yes
    BY <2>1 DEF SellYES, SellNO
  <2>3. SumOver(yes') = SumOver(yes) /\ SumOver(no') = SumOver(no)
    BY <1>1, <2>2, SumOfMoved
  <2> QED BY <2>2, <2>3 DEF adminVars
<1>6. CASE ClaimStep
  <2>1. PICK u \in Users, liquidator \in Users : Claim(u, liquidator)
    BY <1>6 DEF ClaimStep
  <2>2. /\ UNCHANGED adminVars /\ no' = no
        /\ yes' = Moved(yes, u, liquidator, yes[u]) /\ yes[u] \in Nat /\ yes[u] <= yes[u]
    BY <1>1, <2>1 DEF Claim
  <2>3. SumOver(yes') = SumOver(yes)
    BY <1>1, <2>2, SumOfMoved
  <2> QED BY <2>2, <2>3 DEF adminVars
<1>7. CASE IndexStep \/ RoleStep \/ FundStep \/ UNCHANGED vars
  <2>1. UNCHANGED tokenVars
    BY <1>7 DEF IndexStep, RoleStep, FundStep, vars, marketVars, ledgerVars,
                ConfirmCreditEvent, SetMotionPending, Pause, Unpause, SetDepositCap
  <2>2. ~creditEventConfirmed
    BY <1>7 DEF IndexStep, RoleStep, FundStep, vars, marketVars, adminVars,
                ConfirmCreditEvent, SetMotionPending, Pause, Unpause, SetDepositCap
  <2> QED BY <2>1, <2>2 DEF tokenVars
<1> QED
  BY <1>4, <1>5, <1>6, <1>7 DEF Next, MarketStep

(* A new market holds nothing and owes nothing. *)
LEMMA InitBacked == Init => CompleteSets /\ Solvent
<1> SUFFICES ASSUME Init PROVE YesSupply = SumOver(no) /\ Surplus = 0
  BY 0 \in Int DEF CompleteSets, Solvent
<1> DEFINE z == [u \in Users |-> 0]
           a == [u \in Users |-> Accrued(u)]
<1>1. /\ yes = z /\ no = z /\ fundingDebt = z /\ fundingSnapshot = z /\ snapNO = z
      /\ collateral = 0 /\ cumulativeFundingPerYES = 0 /\ cumFundingPerNO = 0
  BY DEF Init, MarketInit, IndexInit
<1>2. z \in [Users -> Int] /\ \A u \in Users : z[u] = 0
  OBVIOUS
<1>3. a \in [Users -> Int] /\ \A u \in Users : a[u] = 0
  <2>1. \A u \in Users : Accrued(u) = 0 * WAD + 0 * (0 - 0) - 0 * (0 - 0)
    <3> HIDE DEF z
    <3> QED BY <1>1, <1>2 DEF Accrued
  <2>2. 0 * WAD + 0 * (0 - 0) - 0 * (0 - 0) = 0
    OBVIOUS
  <2> QED BY <2>1, <2>2
<1> HIDE DEF z, a
<1>4. SumOf(z, Users) = 0 /\ SumOf(a, Users) = 0
  BY <1>2, <1>3, SumOfNone
<1>5. YesSupply = 0 /\ SumOver(no) = 0 /\ SumOver(a) = 0
  BY <1>1, <1>4, SumOverIsSum DEF YesSupply
<1>6. Surplus = 0 * WAD + 0 - 0 * WAD
  BY <1>1, <1>5 DEF Surplus, a
<1> QED
  BY <1>5, <1>6

(* Complete sets and solvency are kept together: with as much NO as YES     *)
(* the index move charges and credits the same, and what is left of the     *)
(* drift is not negative.                                                   *)
LEMMA NextBacked ==
  IInv /\ IInv' /\ CompleteSets /\ Solvent /\ [Next]_vars => CompleteSets' /\ Solvent'
<1> SUFFICES ASSUME IInv, IInv', CompleteSets, Solvent, [Next]_vars, ~creditEventConfirmed'
             PROVE  YesSupply' = SumOver(no)' /\ Surplus' >= 0
  BY DEF CompleteSets, Solvent
<1>1. ~creditEventConfirmed /\ YesSupply' - SumOver(no)' = YesSupply - SumOver(no)
  BY NextPairs
<1>2. YesSupply = SumOver(no) /\ Surplus >= 0
  BY <1>1 DEF CompleteSets, Solvent
<1>3. /\ YesSupply \in Int /\ SumOver(no) \in Int /\ YesSupply' \in Int /\ SumOver(no)' \in Int
  <2>1. \A f \in [Users -> Nat] : SumOver(f) \in Int
    BY SumIsNat, SumOverIsSum
  <2> QED BY <2>1 DEF YesSupply, IInv, TypeOK, MarketTypeOK
<1>4. Surplus \in Int /\ Surplus' \in Int
  <2>1. MarketTypeOK => Surplus \in Int
    BY SurplusIsInt
  <2>2. (MarketTypeOK => Surplus \in Int)'
    BY SurplusIsInt, PTL
  <2> QED BY <2>1, <2>2 DEF IInv, TypeOK
<1>5. (Surplus' - Surplus) - Moves * (YesSupply - SumOver(no)) \in 0 .. 4 * (WAD - 1)
  BY NextDrift DEF Drift
<1>6. Moves \in Int
  BY DEF Moves, IInv, TypeOK, MarketTypeOK, IndexTypeOK
<1>7. Moves * (YesSupply - SumOver(no)) = 0
  <2>1. YesSupply - SumOver(no) = 0
    BY <1>2, <1>3
  <2> QED BY <1>6, <2>1, SMT
<1> QED
  BY <1>1, <1>2, <1>3, <1>4, <1>5, <1>7

(* Solvency and complete sets, together. *)
LEMMA Backed == Spec => [](CompleteSets /\ Solvent)
  BY InitBacked, NextBacked, Invariance, PTL DEF Spec

(* Solvent: until the credit event, what the contract holds and is owed    *)
(* covers every YES at par and every earned NO credit, to the last unit.   *)
THEOREM MarketSolvent == Spec => []Solvent
  BY Backed, PTL

(* CompleteSets: until the credit event YES and NO exist only in pairs.    *)
THEOREM SetsComplete == Spec => []CompleteSets
  BY Backed, PTL

----------------------------------------------------------------------------
(* What a holder owes from one step to the next                             *)

(* A larger index move never debits less. *)
LEMMA DebitMonotone ==
    ASSUME NEW bal \in Nat, NEW a \in Nat, NEW b \in Nat, a <= b
    PROVE  YesDebit(bal, a) <= YesDebit(bal, b)
<1> DEFINE x == bal * a
           y == bal * b
<1>1. x \in Nat /\ y \in Nat /\ x <= y
  <2>1. a * bal <= b * bal /\ x = a * bal /\ y = b * bal
    BY ProductMonotone, SMT
  <2> QED BY <2>1, ProductIsNat
<1>2. /\ YesDebit(bal, a) = IF x = 0 THEN 0 ELSE (x - 1) \div WAD + 1
      /\ YesDebit(bal, b) = IF y = 0 THEN 0 ELSE (y - 1) \div WAD + 1
  BY DEF YesDebit
<1> HIDE DEF x, y
<1>3. CASE x = 0
  <2>1. YesDebit(bal, b) \in Nat
    BY DebitRoundsUp
  <2> QED BY <1>2, <1>3, <2>1
<1>4. CASE x # 0
  <2>1. x - 1 \in Nat /\ y - 1 \in Nat /\ x - 1 <= y - 1 /\ y # 0
    BY <1>1, <1>4
  <2>2. (x - 1) \div WAD <= (y - 1) \div WAD
    BY <2>1, DivMonotone
  <2>3. (x - 1) \div WAD \in Nat /\ (y - 1) \div WAD \in Nat
    BY <2>1, DivBounds
  <2> QED BY <1>2, <1>4, <2>1, <2>2, <2>3
<1> QED
  BY <1>3, <1>4

(* The projected index is a natural number, in the form a next state can    *)
(* be given.                                                                *)
LEMMA ProjectionIsNat == IndexTypeOK /\ IndexSound => ProjectedCumYES \in Nat
  BY ProjectionSound

(* What a holder that is not settled owes does not fall while the           *)
(* projected index does not.                                                *)
LEMMA UntouchedOwed ==
    ASSUME MarketTypeOK, MarketTypeOK', IndexSound, SnapshotsBehindIndex, NEW u \in Users,
           yes'[u] = yes[u], fundingDebt'[u] = fundingDebt[u],
           fundingSnapshot'[u] = fundingSnapshot[u],
           ProjectedCumYES' \in Nat, ProjectedCumYES' >= ProjectedCumYES
    PROVE  Owed(u)' >= Owed(u)
<1>1. /\ ProjectedCumYES \in Nat /\ fundingSnapshot[u] \in Nat
      /\ fundingSnapshot[u] <= ProjectedCumYES
      /\ yes[u] \in Nat /\ fundingDebt[u] \in Nat
  BY ProjectionSound DEF MarketTypeOK, SnapshotsBehindIndex, IndexTypeOK
<1> DEFINE a == ProjectedCumYES - fundingSnapshot[u]
           b == ProjectedCumYES' - fundingSnapshot[u]
<1>2. a \in Nat /\ b \in Nat /\ a <= b
  BY <1>1
<1>3. Owed(u)' = fundingDebt[u] + YesDebit(yes[u], b)
  BY DEF Owed
<1>4. Owed(u) = fundingDebt[u] + YesDebit(yes[u], a)
  BY DEF Owed
<1> HIDE DEF a, b
<1>5. /\ YesDebit(yes[u], a) <= YesDebit(yes[u], b)
      /\ YesDebit(yes[u], a) \in Nat /\ YesDebit(yes[u], b) \in Nat
  BY <1>1, <1>2, DebitMonotone, DebitRoundsUp
<1> QED
  BY <1>1, <1>3, <1>4, <1>5

(* A holder that was just settled owes what its ledger entry says. *)
LEMMA SettledOwed ==
    ASSUME MarketTypeOK, MarketTypeOK', IndexSound, NEW u \in Users,
           fundingSnapshot'[u] = ProjectedCumYES, ProjectedCumYES' = ProjectedCumYES
    PROVE  Owed(u)' = fundingDebt'[u]
<1>1. /\ ProjectedCumYES \in Nat /\ yes'[u] \in Nat /\ fundingDebt'[u] \in Nat
  BY ProjectionSound DEF MarketTypeOK
<1>2. Owed(u)' = fundingDebt'[u] + YesDebit(yes'[u], ProjectedCumYES' - fundingSnapshot'[u])
  BY DEF Owed
<1>3. ProjectedCumYES' - fundingSnapshot'[u] = 0
  BY <1>1
<1>4. YesDebit(yes'[u], 0) = 0
  <2>1. yes'[u] * 0 = 0
    BY <1>1, SMT
  <2> QED BY <2>1 DEF YesDebit
<1> QED
  BY <1>1, <1>2, <1>3, <1>4

(* An accrual with no time passing leaves the projected index where it      *)
(* was.                                                                     *)
LEMMA SettlingProjects ==
    ASSUME IndexTypeOK, IndexSound, Accrue, UNCHANGED priceVars
    PROVE  ProjectedCumYES' = ProjectedCumYES /\ ProjectedCumYES' \in Nat
<1>1. now' = now /\ currentCarryRate' \in Nat
  BY DEF priceVars, markVars, IndexTypeOK
<1> QED
  BY <1>1, AccrualKeepsProjection, ProjectionSound

(* With no NO to earn on, settling folds all a holder owes into its         *)
(* ledger entry.                                                            *)
LEMMA NothingEarned ==
    ASSUME MarketTypeOK, IndexSound, SnapshotsBehindIndex, NEW u \in Users, no[u] = 0
    PROVE  /\ Owed(u) \in Nat
           /\ CreditPaid(u) = 0
           /\ DebtSettled(u) = Owed(u)
<1>1. /\ ProjectedCumNO - snapNO[u] \in Int
  BY ProjectionSound DEF MarketTypeOK
<1>2. 0 * (ProjectedCumNO - snapNO[u]) = 0
  BY <1>1, SMT
<1>3. NoCredit(u) = 0
  BY <1>2 DEF NoCredit
<1>4. Owed(u) \in Nat
  BY SettlementNets
<1> QED
  BY <1>3, <1>4 DEF CreditPaid, DebtSettled

----------------------------------------------------------------------------
(* A claim, the reserve and a sale                                          *)

(* ClaimTouchesYESOnly: being liquidated costs a holder its YES, and it     *)
(* leaves with its NO credit running and no debt (claim,                    *)
(* clearLiquidatedPosition).                                                *)
THEOREM ClaimTakesYESOnly == Spec => ClaimTouchesYESOnly
<1> DEFINE Spared(u) ==
      (claimable[u] /\ ~claimable'[u] /\ yes'[u] < yes[u] /\ ~creditEventConfirmed)
            => /\ snapNO'[u] = snapNO[u]
               /\ Owed(u)' = 0
<1>1. IInv /\ IInv' /\ [Next]_vars => [\A u \in Users : Spared(u)]_vars
  <2> SUFFICES ASSUME IInv, IInv', Next, NEW u \in Users,
                      claimable[u], ~claimable'[u], yes'[u] < yes[u], ~creditEventConfirmed
               PROVE  snapNO'[u] = snapNO[u] /\ Owed(u)' = 0
    OBVIOUS
  <2> USE DEF IInv, TypeOK
  <2>0. /\ yes \in [Users -> Nat] /\ claimable \in [Users -> BOOLEAN]
        /\ fundingDebt \in [Users -> Nat]
    BY DEF MarketTypeOK
  <2>1. CASE MarketStep
    <3>1. CASE IndexStep \/ RoleStep
      BY <2>0, <3>1
         DEF IndexStep, RoleStep, ConfirmCreditEvent, SetMotionPending, Pause, Unpause,
             SetDepositCap, marketVars, ledgerVars
    <3>2. CASE UserStep
      <4>1. PICK v \in Users :
              \/ SettleFunding(v)
              \/ Cure(v)
              \/ FlagClaimable(v)
              \/ \E amount \in MintAmounts : Mint(v, amount)
              \/ \E amount \in BurnAmounts : Redeem(v, amount) \/ SettleYES(v, amount)
        BY <3>2 DEF UserStep
      <4> QED
        BY <2>0, <4>1
           DEF SettleFunding, Cure, FlagClaimable, Mint, Redeem, SettleYES, tokenVars
    <3> QED BY <2>1, <3>1, <3>2 DEF MarketStep
  <2>2. CASE TradeStep
    BY <2>0, <2>2 DEF TradeStep, SellYES, SellNO
  <2>3. CASE ClaimStep
    <3>1. PICK v \in Users, liquidator \in Users : Claim(v, liquidator)
      BY <2>3 DEF ClaimStep
    <3>2. u = v /\ u # liquidator
      BY <2>0, <3>1 DEF Claim
    <3>3. /\ snapNO'[u] = snapNO[u] /\ fundingSnapshot'[u] = ProjectedCumYES
          /\ Accrue /\ UNCHANGED priceVars
      BY <3>1, <3>2 DEF Claim, MarketTypeOK
    <3>4. fundingDebt'[u] = 0
      BY <3>1, <3>2 DEF Claim, DebtsSettled
    <3>5. ProjectedCumYES' = ProjectedCumYES
      BY <3>3, SettlingProjects DEF MarketTypeOK
    <3> QED BY <3>3, <3>4, <3>5, SettledOwed
  <2>4. CASE FundStep
    BY <2>0, <2>4 DEF FundStep, marketVars, ledgerVars, tokenVars
  <2> QED BY <2>1, <2>2, <2>3, <2>4 DEF Next
<1>2. Spec => [][\A u \in Users : Spared(u)]_vars
  BY <1>1, Invariance, PTL DEF Spec
<1> QED
  BY <1>2 DEF ClaimTouchesYESOnly

(* ReserveIsSpentOnce: the reserve falls only by a queued withdrawal        *)
(* whose timelock is over, executed once, or by the shortfall of one        *)
(* claim (executeWithdrawal, coverShortfall).                               *)
THEOREM ReserveSpentOnce == Spec => ReserveIsSpentOnce
<1> DEFINE Withdrawn == \E id \in DOMAIN pendingWithdrawals :
               LET w == pendingWithdrawals[id]
               IN  /\ ~w.executed
                   /\ w.initiatedAt + TIMELOCK <= now
                   /\ reserve - reserve' = w.amount
                   /\ pendingWithdrawals' =
                        [pendingWithdrawals EXCEPT ![id] = [w EXCEPT !.executed = TRUE]]
           Covered == \E u \in Users :
               /\ claimable[u] /\ ~claimable'[u]
               /\ reserve - reserve' = Owed(u) - TokenValue(u)
               /\ UNCHANGED pendingWithdrawals
<1>1. IInv /\ [Next]_vars => [reserve' < reserve => (\/ Withdrawn
                                                        \/ Covered)]_vars
  <2> SUFFICES ASSUME IInv, Next, reserve' < reserve
               PROVE  Withdrawn \/ Covered
    OBVIOUS
  <2> USE DEF IInv, TypeOK
  <2>0. reserve \in Nat
    BY DEF FundTypeOK
  <2>1. CASE MarketStep /\ UNCHANGED fundVars
    BY <2>0, <2>1 DEF fundVars
  <2>2. CASE TradeStep
    <3>1. PICK f \in FeeSplits : Receive(f.toInsurance)
      BY <2>2 DEF TradeStep, SellYES, SellNO
    <3>2. f.toInsurance \in Nat
      OBVIOUS
    <3> QED BY <2>0, <3>1, <3>2 DEF Receive
  <2>3. CASE ClaimStep
    <3>1. PICK u \in Users, liquidator \in Users : Claim(u, liquidator)
      BY <2>3 DEF ClaimStep
    <3>2. claimable[u] /\ ~claimable'[u] /\ CoverShortfall(Shortfall(u))
      BY <3>1 DEF Claim, MarketTypeOK
    <3>3. Owed(u) \in Nat /\ TokenValue(u) \in Nat
      <4>1. yes[u] * currentMark \in Nat
        BY ProductIsNat DEF MarketTypeOK, IndexTypeOK, ValidMarks
      <4> QED BY <4>1, DivBounds, SettlementNets DEF TokenValue
    <3>4. Shortfall(u) > 0 /\ reserve - reserve' = Shortfall(u) /\ UNCHANGED pendingWithdrawals
      BY <2>0, <3>2, <3>3 DEF CoverShortfall, Shortfall
    <3>5. Shortfall(u) = Owed(u) - TokenValue(u)
      BY <3>3, <3>4 DEF Shortfall
    <3>6. Covered
      BY <3>2, <3>4, <3>5
    <3> QED BY <3>6
  <2>4. CASE FundStep
    <3>1. CASE \E amount \in DepositAmounts : Deposit(amount)
      BY <2>0, <3>1 DEF Deposit, Receive
    <3>2. CASE \E amount \in WithdrawAmounts : InitiateWithdrawal(amount)
      BY <2>0, <3>2 DEF InitiateWithdrawal
    <3>3. CASE \E id \in DOMAIN pendingWithdrawals : ExecuteWithdrawal(id)
      <4>1. PICK id \in DOMAIN pendingWithdrawals : ExecuteWithdrawal(id)
        BY <3>3
      <4> DEFINE w == pendingWithdrawals[id]
      <4>2. w \in Withdrawal
        BY ElementOfSeq, LenProperties DEF FundTypeOK
      <4>3. /\ ~w.executed
            /\ w.initiatedAt + TIMELOCK <= now
            /\ reserve - reserve' = w.amount
        <5>1. w.amount \in Nat /\ w.initiatedAt \in Nat /\ now \in Nat
          BY <4>2 DEF Withdrawal, MarketTypeOK, IndexTypeOK
        <5>2. ~w.executed /\ now >= w.initiatedAt + TIMELOCK /\ reserve' = reserve - w.amount
          BY <4>1 DEF ExecuteWithdrawal
        <5> QED BY <2>0, <5>1, <5>2
      <4>4. pendingWithdrawals' =
              [pendingWithdrawals EXCEPT ![id] = [w EXCEPT !.executed = TRUE]]
        BY <4>1 DEF ExecuteWithdrawal
      <4>5. Withdrawn
        BY <4>3, <4>4
      <4> QED BY <4>5
    <3> QED BY <2>4, <3>1, <3>2, <3>3 DEF FundStep
  <2> QED BY <2>1, <2>2, <2>3, <2>4 DEF Next
<1>2. Spec => [][reserve' < reserve => (\/ Withdrawn
                                                        \/ Covered)]_vars
  BY <1>1, Invariance, PTL DEF Spec
<1> QED
  BY <1>2, PTL DEF ReserveIsSpentOnce

(* A share rounded down leaves at least the proportional debt behind. *)
LEMMA ShareLeavesDebt ==
    ASSUME NEW debt \in Nat, NEW held \in Nat \ {0}, NEW tokens \in Nat, tokens < held
    PROVE  (debt - (debt * tokens) \div held) * held >= debt * (held - tokens)
<1> DEFINE q == (debt * tokens) \div held
<1>1. debt * tokens \in Nat
  BY ProductIsNat
<1>2. q \in Nat /\ q * held <= debt * tokens
  BY <1>1, DivBounds
<1> HIDE DEF q
<1>3. (debt - q) * held = debt * held - q * held /\ debt * (held - tokens) = debt * held - debt * tokens
  <2>1. \A a, b, c \in Int : (a - b) * c = a * c - b * c /\ a * (b - c) = a * b - a * c
    BY SMT
  <2> QED BY <1>2, <2>1
<1>4. (debt - q) * held >= debt * (held - tokens)
  <2>1. debt * held \in Nat /\ q * held \in Nat
    BY <1>2, ProductIsNat
  <2> QED BY <1>1, <1>2, <1>3, <2>1
<1> QED
  BY <1>4 DEF q

(* SaleKeepsDebtPerYES: a partial sale never thins the debt on the YES      *)
(* kept (_settleFundingAndSwap, debtShare).                                 *)
THEOREM SalesKeepDebtPerYES == Spec => SaleKeepsDebtPerYES
<1> DEFINE Kept(u) ==
      (/\ yes'[u] < yes[u]
       /\ ~claimable[u]
       /\ YesSupply' = YesSupply)
        => fundingDebt'[u] * yes[u] >= DebtSettled(u) * yes'[u]
<1>1. IInv /\ IInv' /\ [Next]_vars => [\A u \in Users : Kept(u)]_vars
  <2> SUFFICES ASSUME IInv, IInv', Next, NEW u \in Users,
                      yes'[u] < yes[u], ~claimable[u], YesSupply' = YesSupply
               PROVE  fundingDebt'[u] * yes[u] >= DebtSettled(u) * yes'[u]
    OBVIOUS
  <2> USE DEF IInv, TypeOK
  <2>0. /\ yes \in [Users -> Nat] /\ yes' \in [Users -> Nat]
        /\ fundingDebt \in [Users -> Nat] /\ DebtSettled(u) \in Nat
    BY SettlementNets DEF MarketTypeOK
  <2>1. CASE MarketStep
    <3>1. CASE IndexStep \/ RoleStep
      BY <2>0, <3>1
         DEF IndexStep, RoleStep, ConfirmCreditEvent, SetMotionPending, Pause, Unpause,
             SetDepositCap, marketVars, ledgerVars, tokenVars
    <3>2. CASE UserStep
      <4>1. PICK v \in Users :
              \/ SettleFunding(v)
              \/ Cure(v)
              \/ FlagClaimable(v)
              \/ \E amount \in MintAmounts : Mint(v, amount)
              \/ \E amount \in BurnAmounts : Redeem(v, amount) \/ SettleYES(v, amount)
        BY <3>2 DEF UserStep
      <4>2. ~ \E amount \in MintAmounts : Mint(v, amount)
        BY <2>0 DEF Mint
      <4>3. ~(SettleFunding(v) \/ Cure(v) \/ FlagClaimable(v))
        BY <2>0 DEF SettleFunding, Cure, FlagClaimable, tokenVars
      <4>4. PICK amount \in BurnAmounts : yes' = [yes EXCEPT ![v] = @ - amount]
        BY <4>1, <4>2, <4>3 DEF Redeem, SettleYES
      <4>5. u = v /\ \A w \in Users : w # u => yes'[w] = yes[w]
        BY <2>0, <4>4
      <4>6. SumOver(yes') = SumOver(yes) + (yes'[u] - yes[u])
        BY <2>0, <4>5, SumOfOneMore
      <4>7. SumOver(yes) \in Int /\ SumOver(yes') = SumOver(yes)
        BY <2>0, SumOverIsSum, SumIsNat DEF YesSupply
      <4> QED BY <2>0, <4>6, <4>7
    <3> QED BY <2>1, <3>1, <3>2 DEF MarketStep
  <2>2. CASE TradeStep
    <3>1. PICK seller \in Users, buyer \in Users, tokens \in FillSizes,
               price \in FillPrices, f \in FeeSplits :
            SellYES(seller, buyer, tokens, price, f) \/ SellNO(seller, buyer, tokens, price, f)
      BY <2>2 DEF TradeStep
    <3>2. ~SellNO(seller, buyer, tokens, price, f)
      BY <2>0 DEF SellNO
    <3>3. /\ tokens <= yes[seller] /\ tokens \in Nat \ {0}
          /\ yes' = Moved(yes, seller, buyer, tokens)
          /\ fundingDebt' =
               [DebtsSettled({seller, buyer}) EXCEPT ![seller] = @ - DebtShare(seller, tokens)]
      BY <3>1, <3>2 DEF SellYES
    <3>4. seller # buyer /\ u = seller /\ yes'[u] = yes[u] - tokens
      BY <2>0, <3>3 DEF Moved
    <3>5. fundingDebt'[u] = DebtSettled(u) - DebtShare(u, tokens)
      BY <3>3, <3>4 DEF DebtsSettled
    <3>6. CASE tokens >= yes[u]
      <4>1. yes'[u] = 0 /\ fundingDebt'[u] = 0 /\ yes[u] \in Nat
        BY <2>0, <3>3, <3>4, <3>5, <3>6 DEF DebtShare
      <4>2. \A a, b \in Nat : 0 * a >= b * 0
        BY SMT
      <4> QED BY <2>0, <4>1, <4>2
    <3>7. CASE ~(tokens >= yes[u])
      <4>1. DebtShare(u, tokens) = (DebtSettled(u) * tokens) \div yes[u]
        BY <3>7 DEF DebtShare
      <4>2. yes[u] \in Nat \ {0} /\ tokens < yes[u]
        BY <2>0, <3>3, <3>7
      <4>3. (DebtSettled(u) - (DebtSettled(u) * tokens) \div yes[u]) * yes[u]
               >= DebtSettled(u) * (yes[u] - tokens)
        BY <2>0, <3>3, <4>2, ShareLeavesDebt
      <4> QED BY <3>4, <3>5, <4>1, <4>3
    <3> QED BY <3>6, <3>7
  <2>3. CASE ClaimStep
    <3>1. PICK v \in Users, liquidator \in Users : Claim(v, liquidator)
      BY <2>3 DEF ClaimStep
    <3>2. /\ claimable[v] /\ v # liquidator
          /\ yes' = Moved(yes, v, liquidator, yes[v])
      BY <3>1 DEF Claim
    <3>3. u = v
      BY <2>0, <3>2 DEF Moved
    <3> QED BY <3>2, <3>3
  <2>4. CASE FundStep
    BY <2>0, <2>4 DEF FundStep, marketVars, ledgerVars, tokenVars
  <2> QED BY <2>1, <2>2, <2>3, <2>4 DEF Next
<1>2. Spec => [][\A u \in Users : Kept(u)]_vars
  BY <1>1, Invariance, PTL DEF Spec
<1> QED
  BY <1>2 DEF SaleKeepsDebtPerYES

----------------------------------------------------------------------------
(* The seizure clock                                                        *)

(* Settling a holder with no NO leaves what it owes unchanged: the          *)
(* accrual is folded in, not forgiven.                                      *)
LEMMA FoldedDebt ==
    ASSUME MarketTypeOK, MarketTypeOK', IndexSound, SnapshotsBehindIndex, NEW u \in Users,
           no[u] = 0, Accrue, UNCHANGED priceVars,
           fundingSnapshot'[u] = ProjectedCumYES, fundingDebt'[u] = DebtSettled(u)
    PROVE  Owed(u)' = Owed(u)
<1>1. ProjectedCumYES' = ProjectedCumYES
  BY SettlingProjects DEF MarketTypeOK
<1> QED
  BY <1>1, SettledOwed, NothingEarned

(* Someone else's transaction does not lower what a holder owes. *)
LEMMA BystanderOwed ==
    ASSUME MarketTypeOK, MarketTypeOK', IndexSound, SnapshotsBehindIndex, NEW u \in Users,
           Accrue, UNCHANGED priceVars,
           yes'[u] = yes[u], fundingDebt'[u] = fundingDebt[u],
           fundingSnapshot'[u] = fundingSnapshot[u]
    PROVE  Owed(u)' >= Owed(u)
<1>1. /\ ProjectedCumYES' = ProjectedCumYES /\ ProjectedCumYES' \in Nat
      /\ ProjectedCumYES' >= ProjectedCumYES
  BY SettlingProjects DEF MarketTypeOK
<1> QED
  BY <1>1, UntouchedOwed

(* Neither time, nor a new mark, nor an accrual lowers what a holder        *)
(* owes.                                                                    *)
LEMMA IndexStepOwed ==
    ASSUME IInv, IInv', IndexStep, NEW u \in Users
    PROVE  Owed(u)' >= Owed(u)
<1> USE DEF IInv, TypeOK
<1>1. IndexTypeOK /\ IndexSound /\ ProjectedCumYES \in Nat
  BY ProjectionSound DEF MarketTypeOK
<1>2. UNCHANGED <<yes, fundingDebt, fundingSnapshot>>
  BY DEF IndexStep, marketVars, ledgerVars, tokenVars, snapshotVars
<1>3. ProjectedCumYES' \in Nat /\ ProjectedCumYES' >= ProjectedCumYES
  <2>1. CASE AccrueFunding \/ \E m \in Marks : SetMark(m) \/ AdminSetMark(m)
    <3>1. Accrue /\ now' = now /\ currentCarryRate' \in Nat
      BY <2>1 DEF AccrueFunding, SetMark, AdminSetMark, ReplaceMark, MarketTypeOK, IndexTypeOK
    <3> QED BY <1>1, <3>1, AccrualKeepsProjection
  <2>2. CASE \E b \in MarkBounds : SetMarkBounds(b)
    <3>1. ProjectedCumYES' = ProjectedCumYES
      BY <2>2 DEF SetMarkBounds, ProjectedCumYES, Elapsed, markVars, accrualVars
    <3> QED BY <1>1, <3>1
  <2>3. CASE \E d \in Steps : Tick(d)
    <3>1. PICK d \in Steps : now' = now + d /\ UNCHANGED <<markVars, accrualVars>>
      BY <2>3 DEF Tick, Later
    <3>2. ProjectedCumYES' >= ProjectedCumYES
      BY <1>1, <3>1, TickRaisesProjection
    <3>3. ProjectedCumYES' \in Nat
      <4>1. (IndexTypeOK /\ IndexSound => ProjectedCumYES \in Nat)'
        BY ProjectionIsNat, PTL
      <4> QED BY <4>1 DEF MarketTypeOK
    <3> QED BY <3>2, <3>3
  <2> QED BY <2>1, <2>2, <2>3 DEF IndexStep
<1> QED
  BY <1>2, <1>3, UntouchedOwed

(* Nor does a transaction of a holder that buys in or takes nothing into    *)
(* the collateral.                                                          *)
LEMMA UserStepOwed ==
    ASSUME IInv, IInv', UserStep, NEW u \in Users, no[u] = 0, claimable'[u] = claimable[u],
           \/ yes'[u] > yes[u]
           \/ yes'[u] = yes[u] /\ collateral' <= collateral
    PROVE  Owed(u)' >= Owed(u)
<1> USE DEF IInv, TypeOK
<1>1. PICK v \in Users :
        \/ SettleFunding(v)
        \/ Cure(v)
        \/ FlagClaimable(v)
        \/ \E amount \in MintAmounts : Mint(v, amount)
        \/ \E amount \in BurnAmounts : Redeem(v, amount) \/ SettleYES(v, amount)
  BY DEF UserStep
<1>2. /\ yes \in [Users -> Nat] /\ fundingDebt \in [Users -> Nat]
      /\ claimable \in [Users -> BOOLEAN] /\ fundingSnapshot \in [Users -> Nat]
      /\ Owed(u) \in Nat /\ DebtSettled(u) = Owed(u)
  BY NothingEarned DEF MarketTypeOK
<1>3. Accrue /\ UNCHANGED priceVars
  BY <1>1 DEF SettleFunding, Cure, FlagClaimable, Mint, Redeem, SettleYES, PayOut, SettleSnapshots
<1>4. CASE FlagClaimable(v)
  <2>1. UNCHANGED <<yes, fundingDebt, fundingSnapshot>>
    BY <1>4 DEF FlagClaimable, tokenVars, snapshotVars
  <2> QED BY <1>3, <2>1, BystanderOwed
<1>5. CASE ~FlagClaimable(v) /\ u # v
  <2>1. /\ yes'[u] = yes[u] /\ fundingDebt'[u] = fundingDebt[u]
        /\ fundingSnapshot'[u] = fundingSnapshot[u]
    BY <1>1, <1>2, <1>5
       DEF SettleFunding, Cure, Mint, Redeem, SettleYES, PayOut, SettleSnapshots,
           DebtsSettled, tokenVars
  <2> QED BY <1>3, <2>1, BystanderOwed
<1>6. CASE ~FlagClaimable(v) /\ u = v
  <2>1. fundingSnapshot'[u] = ProjectedCumYES
    BY <1>1, <1>6
       DEF SettleFunding, Cure, Mint, Redeem, SettleYES, PayOut, SettleSnapshots
  <2>2. fundingDebt'[u] = DebtSettled(u)
    <3>1. CASE SettleFunding(v) \/ \E amount \in MintAmounts : Mint(v, amount)
      BY <1>6, <3>1 DEF SettleFunding, Mint, DebtsSettled
    <3>2. CASE Cure(v)
      BY <1>2, <1>6, <3>2 DEF Cure
    <3>3. CASE \E amount \in BurnAmounts : Redeem(v, amount) \/ SettleYES(v, amount)
      <4>1. PICK amount \in BurnAmounts :
              /\ DebtSettled(v) <= amount
              /\ fundingDebt' = [fundingDebt EXCEPT ![v] = 0]
              /\ yes' = [yes EXCEPT ![v] = @ - amount]
        BY <3>3 DEF Redeem, SettleYES, PayOut
      <4>2. amount = 0
        <5>1. amount \in Nat /\ yes[u] \in Nat /\ yes'[u] = yes[u] - amount
          BY <1>2, <1>6, <4>1
        <5> QED BY <5>1
      <4> QED BY <1>2, <1>6, <4>1, <4>2
    <3> QED BY <1>1, <1>6, <3>1, <3>2, <3>3
  <2>3. Owed(u)' = Owed(u)
    BY <1>3, <2>1, <2>2, FoldedDebt
  <2> QED BY <1>2, <2>3
<1> QED
  BY <1>4, <1>5, <1>6

(* Nor does a fill that gives the holder YES or leaves its YES and the      *)
(* collateral no higher.                                                    *)
LEMMA TradeStepOwed ==
    ASSUME IInv, IInv', TradeStep, NEW u \in Users, no[u] = 0,
           \/ yes'[u] > yes[u]
           \/ yes'[u] = yes[u] /\ collateral' <= collateral
    PROVE  Owed(u)' >= Owed(u)
<1> USE DEF IInv, TypeOK
<1>1. PICK seller \in Users, buyer \in Users, tokens \in FillSizes,
           price \in FillPrices, f \in FeeSplits :
        SellYES(seller, buyer, tokens, price, f) \/ SellNO(seller, buyer, tokens, price, f)
  BY DEF TradeStep
<1>2. /\ yes \in [Users -> Nat] /\ fundingDebt \in [Users -> Nat] /\ collateral \in Nat
      /\ fundingSnapshot \in [Users -> Nat] /\ tokens \in Nat \ {0}
      /\ Owed(u) \in Nat /\ DebtSettled(u) = Owed(u) /\ CreditPaid(u) = 0
  BY NothingEarned DEF MarketTypeOK
<1>3. Accrue /\ UNCHANGED priceVars /\ SettleSnapshots({seller, buyer})
  BY <1>1 DEF SellYES, SellNO, SettleSnapshots
<1>4. CASE u # seller /\ u # buyer
  <2>1. /\ yes'[u] = yes[u] /\ fundingDebt'[u] = fundingDebt[u]
        /\ fundingSnapshot'[u] = fundingSnapshot[u]
    BY <1>1, <1>2, <1>4 DEF SellYES, SellNO, SettleSnapshots, DebtsSettled, Moved
  <2> QED BY <1>3, <2>1, BystanderOwed
<1>5. CASE u = seller \/ u = buyer
  <2>1. fundingSnapshot'[u] = ProjectedCumYES
    BY <1>3, <1>5 DEF SettleSnapshots
  <2>2. fundingDebt'[u] = DebtSettled(u)
    <3>1. CASE SellNO(seller, buyer, tokens, price, f)
      BY <1>5, <3>1 DEF SellNO, DebtsSettled
    <3>2. CASE SellYES(seller, buyer, tokens, price, f)
      <4>1. /\ yes' = Moved(yes, seller, buyer, tokens)
            /\ collateral' = collateral - CreditsPaid(seller, buyer) + DebtShare(seller, tokens)
            /\ fundingDebt' =
                 [DebtsSettled({seller, buyer}) EXCEPT ![seller] = @ - DebtShare(seller, tokens)]
        BY <3>2 DEF SellYES
      <4>2. CASE u # seller
        BY <1>5, <4>1, <4>2 DEF DebtsSettled
      <4>3. CASE u = seller
        <5>1. seller = buyer
          BY <1>2, <4>1, <4>3 DEF Moved
        <5>2. /\ CreditsPaid(seller, buyer) = 0 /\ DebtShare(seller, tokens) \in Nat
              /\ yes'[u] = yes[u]
          BY <1>2, <4>1, <4>3, <5>1, ShareOfDebt DEF CreditsPaid, Moved
        <5>3. DebtShare(seller, tokens) = 0
          BY <1>2, <4>1, <5>2
        <5> QED BY <1>2, <4>1, <4>3, <5>3 DEF DebtsSettled
      <4> QED BY <4>2, <4>3
    <3> QED BY <1>1, <3>1, <3>2
  <2>3. Owed(u)' = Owed(u)
    BY <1>3, <2>1, <2>2, FoldedDebt
  <2> QED BY <1>2, <2>3
<1> QED
  BY <1>4, <1>5

(* Nor does a claim, for the liquidator that takes the YES or for a         *)
(* bystander.                                                               *)
LEMMA ClaimStepOwed ==
    ASSUME IInv, IInv', ClaimStep, NEW u \in Users, no[u] = 0, claimable'[u] = claimable[u]
    PROVE  Owed(u)' >= Owed(u)
<1> USE DEF IInv, TypeOK
<1>1. PICK v \in Users, liquidator \in Users : Claim(v, liquidator)
  BY DEF ClaimStep
<1>2. /\ fundingDebt \in [Users -> Nat] /\ fundingSnapshot \in [Users -> Nat]
      /\ claimable \in [Users -> BOOLEAN] /\ yes \in [Users -> Nat] /\ Owed(u) \in Nat
      /\ DebtSettled(u) = Owed(u)
  BY NothingEarned DEF MarketTypeOK
<1>3. u # v /\ Accrue /\ UNCHANGED priceVars
  BY <1>1, <1>2 DEF Claim
<1>4. /\ fundingSnapshot' = [fundingSnapshot EXCEPT ![v] = ProjectedCumYES,
                                                    ![liquidator] = ProjectedCumYES]
      /\ fundingDebt' = [DebtsSettled({liquidator}) EXCEPT ![v] = 0]
      /\ yes' = Moved(yes, v, liquidator, yes[v])
  BY <1>1 DEF Claim
<1>5. CASE u = liquidator
  <2>1. fundingSnapshot'[u] = ProjectedCumYES /\ fundingDebt'[u] = DebtSettled(u)
    BY <1>2, <1>3, <1>4, <1>5 DEF DebtsSettled
  <2>2. Owed(u)' = Owed(u)
    BY <1>3, <2>1, FoldedDebt
  <2> QED BY <1>2, <2>2
<1>6. CASE u # liquidator
  <2>1. /\ yes'[u] = yes[u] /\ fundingDebt'[u] = fundingDebt[u]
        /\ fundingSnapshot'[u] = fundingSnapshot[u]
    BY <1>2, <1>3, <1>4, <1>6 DEF DebtsSettled, Moved
  <2> QED BY <1>3, <2>1, BystanderOwed
<1> QED
  BY <1>5, <1>6

(* OwedIsNotReset: buying, minting or being settled does not reset the      *)
(* seizure clock (settleFunding).                                           *)
THEOREM ClockIsNotReset == Spec => OwedIsNotReset
<1> DEFINE NotLowered(u) ==
      (/\ no[u] = 0
       /\ claimable'[u] = claimable[u]
       /\ \/ yes'[u] > yes[u]
          \/ yes'[u] = yes[u] /\ collateral' <= collateral)
        => Owed(u)' >= Owed(u)
<1>1. IInv /\ IInv' /\ [Next]_vars => [\A u \in Users : NotLowered(u)]_vars
  <2> SUFFICES ASSUME IInv, IInv', Next, NEW u \in Users,
                      no[u] = 0, claimable'[u] = claimable[u],
                      \/ yes'[u] > yes[u]
                      \/ yes'[u] = yes[u] /\ collateral' <= collateral
               PROVE  Owed(u)' >= Owed(u)
    OBVIOUS
  <2>1. CASE MarketStep
    <3>1. CASE RoleStep
      <4>1. Owed(u)' = Owed(u)
        BY <3>1
           DEF RoleStep, ConfirmCreditEvent, SetMotionPending, Pause, Unpause, SetDepositCap,
               indexVars, markVars, accrualVars, ledgerVars, tokenVars, snapshotVars,
               Owed, ProjectedCumYES, Elapsed
      <4> QED BY <4>1, SettlementNets DEF IInv, TypeOK
    <3> QED BY <2>1, <3>1, IndexStepOwed, UserStepOwed DEF MarketStep
  <2>2. CASE TradeStep
    BY <2>2, TradeStepOwed
  <2>3. CASE ClaimStep
    BY <2>3, ClaimStepOwed
  <2>4. CASE FundStep
    <3>1. Owed(u)' = Owed(u)
      BY <2>4
         DEF FundStep, indexVars, markVars, accrualVars, marketVars, ledgerVars, tokenVars,
             snapshotVars, Owed, ProjectedCumYES, Elapsed
    <3> QED BY <3>1, SettlementNets DEF IInv, TypeOK
  <2> QED BY <2>1, <2>2, <2>3, <2>4 DEF Next
<1>2. Spec => [][\A u \in Users : NotLowered(u)]_vars
  BY <1>1, Invariance, PTL DEF Spec
<1> QED
  BY <1>2 DEF OwedIsNotReset
============================================================================
