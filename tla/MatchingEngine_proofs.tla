----------------------- MODULE MatchingEngine_proofs -----------------------
(***************************************************************************)
(* The engine, its settler and the book they share, for any orders, any    *)
(* overlap of cycles and any failures: the book is never ahead of the      *)
(* chain, no order is in flight twice or brought back from the dead, and   *)
(* the chain sees only what an exchange may do.                            *)
(***************************************************************************)
EXTENDS MatchingEngine, SequenceTheorems, TLAPS

(* The invariant speaks of the chain f, the orders "known" to the server    *)
(* and the transactions "sent", so that its parts can be carried from one   *)
(* state to the next.                                                       *)

(* The orders of a settlement or a transaction are known to the server and  *)
(* cross, and what it trades uses up one of them, or more than that.  The   *)
(* chain fills more of them meanwhile, never less.                          *)
Ample(t, f) ==
    \/ Size(t.bid) - f[Signed[t.bid]] <= t.tokens
    \/ Size(t.ask) - f[Signed[t.ask]] <= t.tokens

Crossed(t, known, f) ==
    /\ t.bid \in known /\ t.ask \in known
    /\ Signed[t.bid].bid /\ ~Signed[t.ask].bid
    /\ Crosses(t.bid, t.ask)
    /\ Ample(t, f)

(* The transaction a settlement waits for is its own; once it has filled,   *)
(* the chain has what the settlement saw and what it traded.                *)
Sent(job, f, sent) ==
    /\ job.tx \in DOMAIN sent
    /\ sent[job.tx].bid = job.bid /\ sent[job.tx].ask = job.ask
    /\ sent[job.tx].tokens = job.tokens
    /\ sent[job.tx].status = "filled" =>
         /\ job.seenBid + job.tokens <= f[Signed[job.bid]]
         /\ job.seenAsk + job.tokens <= f[Signed[job.ask]]

Sound(job, known, f, sent) ==
    /\ Crossed(job, known, f)
    /\ job.seenBid <= f[Signed[job.bid]] /\ job.seenAsk <= f[Signed[job.ask]]
    /\ job.phase = "receipt" => Sent(job, f, sent)
    /\ job.phase # "writing" => job.atEnd = {}
    /\ job.atEnd \subseteq {job.bid, job.ask}

(* What a book, or a copy of one, says is filled, the chain has filled. *)
Told(snapshot, known, f) ==
    \A i \in DOMAIN snapshot : i \in known /\ snapshot[i] <= f[Signed[i]]

(* What a write will say the chain has confirmed; a removal is of an order  *)
(* that has ended, unless the ledger refused it.                            *)
Confirmed(w, f) ==
    /\ w.gone => LedgerRefuses \/ f[Signed[w.id]] >= Size(w.id)
    /\ ~w.gone => 0 < w.filled /\ w.filled <= f[Signed[w.id]]

(* A stored id is not accepted again, so one that is deleted, or that a     *)
(* settlement is about, is the same order for ever.                         *)
KnownInv ==
    /\ posting \intersect Range(posted) = {}
    /\ deleted \subseteq Range(posted)
    /\ DeletedStaysDeleted

EngineInv ==
    /\ KnownInv
    /\ Told(book, Range(posted), filled)
    /\ \A c \in DOMAIN fetched : Told(fetched[c], Range(posted), filled)
    /\ \A k \in DOMAIN queue : Sound(queue[k], Range(posted), filled, txs)
    /\ \A k \in DOMAIN txs : Crossed(txs[k], Range(posted), filled)
    /\ \A w \in writes : Confirmed(w, filled)

----------------------------------------------------------------------------
(* Orders and pairs                                                        *)

LEMMA OrderFacts ==
    ASSUME NEW i \in Ids
    PROVE  /\ Signed[i] \in SignedOrders
           /\ Size(i) \in Nat \ {0}
           /\ Signed[i].bid \in BOOLEAN
           /\ Signed[i].price \in Nat
  BY BookConstants DEF SignedOrders, Size

(* The parties of a candidate pair are of the snapshot, on opposite sides,  *)
(* not in flight, and both have something left.                             *)
LEMMA CandidateFacts ==
    ASSUME NEW snapshot, Snapshot(snapshot), NEW out, NEW bad,
           NEW p \in Candidates(snapshot, out, bad)
    PROVE  /\ p[1] \in DOMAIN snapshot \ out /\ p[2] \in DOMAIN snapshot \ out
           /\ p[1] \in Ids /\ p[2] \in Ids
           /\ snapshot[p[1]] \in Nat /\ snapshot[p[2]] \in Nat
           /\ Signed[p[1]].bid /\ ~Signed[p[2]].bid
           /\ Crosses(p[1], p[2])
           /\ RemainingIn(snapshot, p[1]) \in Nat \ {0}
           /\ RemainingIn(snapshot, p[2]) \in Nat \ {0}
<1>1. p \in Active(snapshot, out, TRUE) \X Active(snapshot, out, FALSE) /\ Crosses(p[1], p[2])
  BY DEF Candidates
<1>2. p[1] \in Active(snapshot, out, TRUE) /\ p[2] \in Active(snapshot, out, FALSE)
  BY <1>1
<1>3. /\ p[1] \in DOMAIN snapshot \ out /\ Signed[p[1]].bid = TRUE /\ RemainingIn(snapshot, p[1]) > 0
      /\ p[2] \in DOMAIN snapshot \ out /\ Signed[p[2]].bid = FALSE /\ RemainingIn(snapshot, p[2]) > 0
  BY <1>2 DEF Active
<1>4. /\ p[1] \in Ids /\ p[2] \in Ids
      /\ snapshot[p[1]] \in Nat /\ snapshot[p[2]] \in Nat
  BY <1>3 DEF Snapshot
<1>5. RemainingIn(snapshot, p[1]) \in Nat /\ RemainingIn(snapshot, p[2]) \in Nat
  BY <1>4, OrderFacts DEF RemainingIn
<1> QED
  BY <1>1, <1>3, <1>4, <1>5

(* A cycle hands over n pairs of the snapshot it matched. *)
HandsOver(c, n, pairs) ==
    /\ n \in Nat
    /\ pairs \in [1 .. n -> Candidates(fetched[c], pending, incompatible)]
    /\ IsWalk(pairs, Candidates(fetched[c], pending, incompatible))
    /\ queue' = queue \o [k \in 1 .. n |-> Settlement(fetched[c], pairs[k][1], pairs[k][2])]
    /\ pending' = pending \union UNION {{pairs[k][1], pairs[k][2]} : k \in 1 .. n}

(* A cycle hands over a sequence of pairs of its snapshot (matchMarket). *)
LEMMA CycleShape ==
    ASSUME NEW c, CycleMatches(c)
    PROVE  \E n, pairs : HandsOver(c, n, pairs)
<1> DEFINE candidates == Candidates(fetched[c], pending, incompatible)
<1>1. PICK pairs \in PairSequences(candidates) :
          /\ IsWalk(pairs, candidates)
          /\ queue' = queue \o Settlements(fetched[c], pairs)
          /\ pending' = pending \union UNION {{pairs[k][1], pairs[k][2]} : k \in DOMAIN pairs}
  BY DEF CycleMatches, Excluded, Enqueue
<1>2. PICK n \in 0 .. Cardinality({p[1] : p \in candidates}) : pairs \in [1 .. n -> candidates]
  BY DEF PairSequences
<1>3. n \in Nat /\ DOMAIN pairs = 1 .. n
  BY <1>2
<1>4. HandsOver(c, n, pairs)
  BY <1>1, <1>2, <1>3 DEF HandsOver, Settlements
<1> QED
  BY <1>4

----------------------------------------------------------------------------
(* The queue                                                               *)

QueueTypeOK ==
    /\ queue \in Seq(SettlementType)
    /\ \A k \in DOMAIN queue : k > 1 => queue[k].phase = "validate"

(* The fields of a settlement, one by one. *)
LEMMA SettlementFields ==
    ASSUME NEW job \in SettlementType
    PROVE  /\ job.bid \in Ids /\ job.ask \in Ids
           /\ job.seenBid \in Nat /\ job.seenAsk \in Nat
           /\ job.tokens \in Nat \ {0}
           /\ job.phase \in Phases /\ job.tx \in Nat
           /\ job.atEnd \subseteq Ids
  BY DEF SettlementType

(* The fields of a transaction, one by one. *)
LEMMA TxFields ==
    ASSUME NEW t \in TxType
    PROVE  /\ t.bid \in Ids /\ t.ask \in Ids
           /\ t.tokens \in Nat \ {0}
           /\ t.status \in {"sent", "filled", "reverted"}
  BY DEF TxType

(* The settlement that runs is the first of the queue. *)
LEMMA JobType ==
    ASSUME QueueTypeOK, queue # <<>>
    PROVE  Job \in SettlementType /\ 1 \in DOMAIN queue
  BY DEF QueueTypeOK, Job

(* The running settlement goes on. *)
LEMMA Continued ==
    ASSUME QueueTypeOK, queue # <<>>, NEW job \in SettlementType, Continue(job)
    PROVE  /\ QueueTypeOK'
           /\ DOMAIN queue' = DOMAIN queue
           /\ queue' # <<>> /\ queue'[1] = job
           /\ \A k \in DOMAIN queue : k # 1 => queue'[k] = queue[k]
<1>1. queue' = [queue EXCEPT ![1] = job] /\ 1 \in DOMAIN queue
  BY JobType DEF Continue
<1>2. queue' \in Seq(SettlementType) /\ DOMAIN queue' = DOMAIN queue
  BY <1>1 DEF QueueTypeOK
<1>3. queue'[1] = job /\ \A k \in DOMAIN queue : k # 1 => queue'[k] = queue[k]
  BY <1>1 DEF QueueTypeOK
<1>4. queue' # <<>>
  BY <1>1, <1>2
<1> QED
  BY <1>2, <1>3, <1>4 DEF QueueTypeOK

(* It ends, and the next is first. *)
LEMMA Released ==
    ASSUME QueueTypeOK, queue # <<>>, queue' = Tail(queue)
    PROVE  /\ QueueTypeOK'
           /\ \A k \in DOMAIN queue' :
                /\ k + 1 \in DOMAIN queue /\ k + 1 # 1
                /\ queue'[k] = queue[k + 1]
                /\ queue'[k].phase = "validate"
<1>1. queue' \in Seq(SettlementType) /\ Len(queue') = Len(queue) - 1
  BY DEF QueueTypeOK
<1>2. ASSUME NEW k \in DOMAIN queue'
      PROVE  k + 1 \in DOMAIN queue /\ k + 1 > 1 /\ queue'[k] = queue[k + 1]
  BY <1>1, <1>2 DEF QueueTypeOK
<1> QED
  BY <1>1, <1>2 DEF QueueTypeOK

(* A settlement as a cycle makes it is one. *)
LEMMA NewSettlement ==
    ASSUME NEW b \in Ids, NEW a \in Ids, NEW m \in Nat, NEW n \in Nat, NEW t \in Nat \ {0}
    PROVE  [bid |-> b, ask |-> a, seenBid |-> m, seenAsk |-> n, tokens |-> t,
            phase |-> "validate", tx |-> 0, atEnd |-> {}] \in SettlementType
  BY SMT DEF SettlementType, Phases

(* A cycle's settlements follow those there are. *)
LEMMA Handed ==
    ASSUME QueueTypeOK, NEW c, Snapshot(fetched[c]), NEW n, NEW pairs, HandsOver(c, n, pairs)
    PROVE  /\ QueueTypeOK'
           /\ DOMAIN queue' = 1 .. (Len(queue) + n)
           /\ \A k \in DOMAIN queue : queue'[k] = queue[k]
           /\ \A k \in 1 .. n : queue'[Len(queue) + k]
                                  = Settlement(fetched[c], pairs[k][1], pairs[k][2])
<1> DEFINE s == [k \in 1 .. n |-> Settlement(fetched[c], pairs[k][1], pairs[k][2])]
<1>1. n \in Nat
  BY DEF HandsOver
<1>2. ASSUME NEW k \in 1 .. n
      PROVE  /\ s[k] = Settlement(fetched[c], pairs[k][1], pairs[k][2])
             /\ s[k] \in SettlementType /\ s[k].phase = "validate"
  <2> DEFINE job == Settlement(fetched[c], pairs[k][1], pairs[k][2])
  <2>1. pairs[k] \in Candidates(fetched[c], pending, incompatible) /\ s[k] = job
    BY <1>2 DEF HandsOver
  <2>2. /\ pairs[k][1] \in Ids /\ pairs[k][2] \in Ids
        /\ fetched[c][pairs[k][1]] \in Nat /\ fetched[c][pairs[k][2]] \in Nat
        /\ RemainingIn(fetched[c], pairs[k][1]) \in Nat \ {0}
        /\ RemainingIn(fetched[c], pairs[k][2]) \in Nat \ {0}
    BY <2>1, CandidateFacts
  <2>3. Smaller(RemainingIn(fetched[c], pairs[k][1]), RemainingIn(fetched[c], pairs[k][2])) \in Nat \ {0}
    BY <2>2 DEF Smaller
  <2>4. job \in SettlementType
    BY <2>2, <2>3, NewSettlement DEF Settlement
  <2> QED
    BY <2>1, <2>4 DEF Settlement
<1>3. s \in Seq(SettlementType) /\ Len(s) = n
  BY <1>1, <1>2
<1>4. queue \in Seq(SettlementType) /\ queue' = queue \o s
  BY DEF QueueTypeOK, HandsOver
<1>5. \A k \in 1 .. n : s[k] = Settlement(fetched[c], pairs[k][1], pairs[k][2]) /\ s[k].phase = "validate"
  BY <1>2
<1> HIDE DEF s
<1>6. queue' \in Seq(SettlementType) /\ Len(queue') = Len(queue) + n
      /\ DOMAIN queue' = 1 .. (Len(queue) + n)
      /\ DOMAIN queue = 1 .. Len(queue) /\ Len(queue) \in Nat
  BY <1>1, <1>3, <1>4
<1>7. \A k \in 1 .. Len(queue) + n :
         queue'[k] = IF k <= Len(queue) THEN queue[k] ELSE s[k - Len(queue)]
  BY <1>1, <1>3, <1>4, ConcatProperties
<1>8. \A k \in DOMAIN queue : queue'[k] = queue[k]
  BY <1>1, <1>6, <1>7
<1>9. ASSUME NEW k \in 1 .. n PROVE queue'[Len(queue) + k] = s[k]
  <2>1. Len(queue) + k \in 1 .. Len(queue) + n /\ ~(Len(queue) + k <= Len(queue))
        /\ (Len(queue) + k) - Len(queue) = k
    BY <1>1, <1>6
  <2> QED
    BY <1>7, <2>1
<1>10. ASSUME NEW k \in DOMAIN queue', k > 1 PROVE queue'[k].phase = "validate"
  <2>1. CASE k <= Len(queue)
    BY <1>6, <1>8, <1>10, <2>1 DEF QueueTypeOK
  <2>2. CASE ~(k <= Len(queue))
    <3>1. k - Len(queue) \in 1 .. n
      BY <1>1, <1>6, <2>2
    <3> QED
      BY <1>5, <1>6, <1>7, <2>2, <3>1
  <2> QED
    BY <2>1, <2>2
<1>11. QueueTypeOK'
  BY <1>6, <1>10 DEF QueueTypeOK
<1> QED
  BY <1>5, <1>6, <1>8, <1>9, <1>11

----------------------------------------------------------------------------
(* What each step leaves alone                                             *)

(* The chain, the server and the directory move by their own steps; the     *)
(* settler writes the book and sends transactions.                          *)
LEMMA Frames ==
    ASSUME [Next]_vars
    PROVE  /\ UNCHANGED filled \/ ChainStep \/ MakerStep
           /\ UNCHANGED txs \/ ChainStep \/ Submits \/ SubmitsUnanswered
           /\ UNCHANGED serverVars \/ ServerStep
           /\ UNCHANGED book \/ ServerStep \/ \E w \in writes : Write(w)
           /\ \/ UNCHANGED directoryVars
              \/ DirectoryStep
              \/ \E s \in Services : RefreshBehind(s)
              \/ StartsOver("engine") /\ UNCHANGED <<entry, before, switches>>
<1> USE DEF bookVars, engineVars, settlerVars, boundVars
<1>1. CASE EngineStep
  BY <1>1 DEF EngineStep, CycleFetches, CycleMatches, Expire
<1>2. CASE SettlerStep
  BY <1>2, Zenon DEF SettlerStep, Validates, FindsMarketClosed, Estimates, FindsIncompatible,
         FindsOrderChanged, LedgerRefusesFill, SyncsRemaining, SeesFilled, SeesReverted, Finishes,
         Write, Submits
<1>3. CASE ChainStep
  BY <1>3 DEF ChainStep, Mine
<1>4. CASE FaultStep
  BY <1>4, Zenon DEF FaultStep, GivesUp, SubmitsUnanswered, ReceiptUnknown, WriteFails, FetchFails,
         DirectoryFallsBack, EngineRestarts, ProcessIsReplaced
<1>5. CASE SignalArrives
  BY <1>5 DEF SignalArrives
<1>6. CASE DrainStep
  BY <1>6 DEF DrainStep, CyclesHaveEnded, Exits, ProcessIsReplaced
<1>7. CASE OutsideStep
  <2>1. UNCHANGED <<engineVars, settlerVars, txs, boundVars>>
    BY <1>7 DEF OutsideStep
  <2>2. CASE ServerStep
    BY <2>1, <2>2, Zenon DEF ServerStep, PostChecks, PostRefused, PostLists, Sync, Delete
  <2>3. CASE MakerStep
    BY <2>1, <2>3 DEF MakerStep, ClosesOnChain
  <2>4. CASE DirectoryStep
    BY <2>1, <2>4, Zenon DEF DirectoryStep, Refreshes
  <2> QED
    BY <1>7, <2>2, <2>3, <2>4 DEF OutsideStep
<1>8. CASE UNCHANGED vars
  BY <1>8 DEF vars
<1> QED
  BY <1>1, <1>2, <1>3, <1>4, <1>5, <1>6, <1>7, <1>8 DEF Next

----------------------------------------------------------------------------
(* Types                                                                   *)

LEMMA DirectoryTyped ==
    ASSUME DirectoryTypeOK, [Next]_vars
    PROVE  DirectoryTypeOK'
<1> USE DirectoryAssumption, BookConstants DEF DirectoryTypeOK
<1>1. CASE UNCHANGED directoryVars
  BY <1>1 DEF directoryVars
<1>2. CASE DirectoryStep
  BY <1>2 DEF DirectoryStep, Refreshes, Refresh, Learns, Register, SetActive, Becomes
<1>3. CASE \E s \in Services : RefreshBehind(s)
  BY <1>3 DEF RefreshBehind, Learns
<1>4. CASE StartsOver("engine") /\ UNCHANGED <<entry, before, switches>>
  BY <1>4 DEF StartsOver
<1> QED
  BY <1>1, <1>2, <1>3, <1>4, Frames

(* The four things a request does to the book. *)
LEMMA ServerActs ==
    ASSUME ServerStep
    PROVE  \E i \in Ids :
              \/ PostChecks(i) \/ PostRefused(i) \/ PostLists(i)
              \/ /\ book' = Without(i) /\ UNCHANGED <<posting, posted>>
                 /\ \/ deleted' = deleted \union {i} /\ i \in DOMAIN book
                    \/ deleted' = deleted /\ Closed(i)
  BY BookConstants, Zenon DEF ServerStep, Sync, Delete, serverVars

(* The server keeps ids among its posts, its listings and its deletions. *)
LEMMA ServerTyped ==
    ASSUME TypeOK, [Next]_vars
    PROVE  posting' \subseteq Ids /\ posted' \in Seq(Ids) /\ deleted' \subseteq Ids
<1>1. posting \subseteq Ids /\ posted \in Seq(Ids) /\ deleted \subseteq Ids
  BY DEF TypeOK, BookTypeOK
<1>2. CASE ServerStep
  <2>1. PICK i \in Ids :
           \/ PostChecks(i) \/ PostRefused(i) \/ PostLists(i)
           \/ UNCHANGED <<posting, posted>> /\ deleted' \in {deleted, deleted \union {i}}
    BY <1>2, ServerActs
  <2> QED
    BY <1>1, <2>1 DEF PostChecks, PostRefused, PostLists
<1> QED
  BY <1>1, <1>2, Frames DEF serverVars

(* The book stays a book: ids with what is filled of each. *)
LEMMA BookTyped ==
    ASSUME TypeOK, [Next]_vars
    PROVE  Snapshot(book')
<1>1. Snapshot(book) /\ posting \subseteq Ids
  BY DEF TypeOK, BookTypeOK
<1>2. CASE ServerStep
  <2>1. PICK i \in Ids :
           PostChecks(i) \/ PostRefused(i) \/ PostLists(i) \/ book' = Without(i)
    BY <1>2, ServerActs
  <2>2. CASE PostLists(i)
    BY <1>1, <2>2 DEF PostLists, Snapshot
  <2>3. CASE book' = Without(i)
    BY <1>1, <2>3 DEF Without, Restrict, Snapshot
  <2> QED
    BY <1>1, <2>1, <2>2, <2>3 DEF PostChecks, PostRefused
<1>3. CASE \E w \in writes : Write(w)
  <2>1. PICK w \in writes : Write(w)
    BY <1>3
  <2>2. w.filled \in Nat
    BY DEF TypeOK
  <2> QED
    BY <1>1, <2>1, <2>2 DEF Write, Without, Restrict, Snapshot
<1> QED
  BY <1>1, <1>2, <1>3, Frames

(* The chain's amounts stay naturals. *)
LEMMA FilledTyped ==
    ASSUME TypeOK, [Next]_vars
    PROVE  filled' \in [SignedOrders -> Nat]
<1>1. filled \in [SignedOrders -> Nat] /\ txs \in Seq(TxType)
  BY DEF TypeOK, BookTypeOK
<1>2. CASE ChainStep
  <2>1. PICK k \in DOMAIN txs : Mine(k)
    BY <1>2 DEF ChainStep
  <2>2. txs[k] \in TxType
    BY <1>1
  <2> QED
    BY <1>1, <2>1, <2>2, TxFields DEF Mine, Executes, Reverts
<1>3. CASE MakerStep
  BY <1>1, <1>3, BookConstants DEF MakerStep, ClosesOnChain, SignedOrders
<1> QED
  BY <1>1, <1>2, <1>3, Frames

(* A settlement that goes on is about the same orders and the same trade. *)
SameTerms(job, was) ==
    /\ job.bid = was.bid /\ job.ask = was.ask
    /\ job.seenBid = was.seenBid /\ job.seenAsk = was.seenAsk
    /\ job.tokens = was.tokens

(* A settlement that enters another phase keeps its terms. *)
LEMMA Goes ==
    ASSUME NEW was \in SettlementType, NEW phase \in Phases,
           NEW job, job = [was EXCEPT !.phase = phase]
    PROVE  /\ job \in SettlementType /\ SameTerms(job, was)
           /\ job.phase = phase /\ job.tx = was.tx /\ job.atEnd = was.atEnd
<1>1. job \in SettlementType
  BY Zenon DEF SettlementType
<1> QED
  BY <1>1 DEF SettlementType, SameTerms

Waiting(was, n) == [was EXCEPT !.phase = "receipt", !.tx = n]

(* A settlement that waits for its receipt keeps its terms. *)
LEMMA GoesWaiting ==
    ASSUME NEW was \in SettlementType, NEW n \in Nat
    PROVE  /\ Waiting(was, n) \in SettlementType /\ SameTerms(Waiting(was, n), was)
           /\ Waiting(was, n).phase = "receipt" /\ Waiting(was, n).tx = n
           /\ Waiting(was, n).atEnd = was.atEnd
<1> DEFINE job == [was EXCEPT !.phase = "receipt", !.tx = n]
<1>1. "receipt" \in Phases
  BY DEF Phases
<1>2. job \in SettlementType
  BY <1>1, Zenon DEF SettlementType
<1>3. SameTerms(job, was) /\ job.phase = "receipt" /\ job.tx = n /\ job.atEnd = was.atEnd
  BY <1>2 DEF SettlementType, SameTerms
<1> QED
  BY <1>2, <1>3 DEF Waiting

Ending(was, S) == [was EXCEPT !.phase = "writing", !.atEnd = S]

(* A settlement at its last writes keeps its terms and what it releases. *)
LEMMA GoesWriting ==
    ASSUME NEW was \in SettlementType, NEW S \in SUBSET Ids
    PROVE  /\ Ending(was, S) \in SettlementType /\ SameTerms(Ending(was, S), was)
           /\ Ending(was, S).phase = "writing" /\ Ending(was, S).atEnd = S
<1> DEFINE job == [was EXCEPT !.phase = "writing", !.atEnd = S]
<1>1. "writing" \in Phases
  BY DEF Phases
<1>2. job \in SettlementType
  BY <1>1, Zenon DEF SettlementType
<1>3. SameTerms(job, was) /\ job.phase = "writing" /\ job.atEnd = S
  BY <1>2 DEF SettlementType, SameTerms
<1> QED
  BY <1>2, <1>3 DEF Ending

(* Only a submission makes it wait for a receipt, and only the last of its  *)
(* phases names orders to release at the end.                               *)
Advances(job) ==
    /\ SameTerms(job, Job)
    /\ Job.phase # "writing"
    /\ job.phase = "receipt" => Submits /\ job.tx = Len(txs) + 1
    /\ job.phase # "writing" => job.atEnd = Job.atEnd
    /\ job.atEnd \subseteq Job.atEnd \union Parties

(* The queue stays, grows by a cycle's settlements, goes on with the        *)
(* running one or with the next, or is lost with the process.               *)
LEMMA QueueMoves ==
    ASSUME TypeOK, [Next]_vars
    PROVE  \/ UNCHANGED queue
           \/ \E c \in Cycles : CycleMatches(c)
           \/ queue # <<>> /\ queue' = Tail(queue)
           \/ queue # <<>> /\ \E job \in SettlementType : Continue(job) /\ Advances(job)
           \/ queue' = <<>>
<1> USE DEF Running, settlerVars
<1>1. QueueTypeOK
  BY DEF TypeOK, QueueTypeOK
<1>2. CASE EngineStep
  BY <1>2 DEF EngineStep, CycleFetches, Expire
<1>3. CASE SettlerStep
  <2> USE <1>1, JobType DEF Phases
  <2>1. CASE Validates
    <3>1. PICK job : job = [Job EXCEPT !.phase = "estimate"]
      OBVIOUS
    <3>2. queue # <<>> /\ Continue(job) /\ Job.phase # "writing"
      BY <2>1, <3>1 DEF Validates
    <3>3. job \in SettlementType /\ Advances(job)
      BY <3>1, <3>2, Goes DEF Advances
    <3> QED
      BY <3>2, <3>3
  <2>2. CASE Estimates
    <3>1. PICK job : job = [Job EXCEPT !.phase = "submit"]
      OBVIOUS
    <3>2. queue # <<>> /\ Continue(job) /\ Job.phase # "writing"
      BY <2>2, <3>1 DEF Estimates
    <3>3. job \in SettlementType /\ Advances(job)
      BY <3>1, <3>2, Goes DEF Advances
    <3> QED
      BY <3>2, <3>3
  <2>3. CASE FindsOrderChanged
    <3>1. PICK job : job = [Job EXCEPT !.phase = "remaining"]
      OBVIOUS
    <3>2. queue # <<>> /\ Continue(job) /\ Job.phase # "writing"
      BY <2>3, <3>1 DEF FindsOrderChanged
    <3>3. job \in SettlementType /\ Advances(job)
      BY <3>1, <3>2, Goes DEF Advances
    <3> QED
      BY <3>2, <3>3
  <2>4. CASE \E S \in SUBSET Ids : LedgerRefusesFill(S)
    <3>1. PICK S \in SUBSET Ids : LedgerRefusesFill(S)
      BY <2>4
    <3>2. queue # <<>> /\ Parties \ S \in SUBSET Ids
      BY <3>1, SettlementFields DEF LedgerRefusesFill, Parties
    <3> DEFINE job == Ending(Job, Parties \ S)
    <3>3. job \in SettlementType /\ SameTerms(job, Job) /\ job.phase = "writing" /\ job.atEnd = Parties \ S
      BY <3>2, GoesWriting
    <3>4. Job.phase # "writing"
      BY <3>1 DEF LedgerRefusesFill
    <3>5. Release(Parties) \/ Continue(job)
      BY <3>1 DEF LedgerRefusesFill, Ending
    <3> HIDE DEF job
    <3> QED
      BY <3>2, <3>3, <3>4, <3>5 DEF Release, Advances
  <2>5. CASE SyncsRemaining
    <3>1. PICK job : job = [Job EXCEPT !.phase = "writing"]
      OBVIOUS
    <3>2. queue # <<>> /\ Continue(job) /\ Job.phase # "writing"
      BY <2>5, <3>1 DEF SyncsRemaining
    <3>3. job \in SettlementType /\ Advances(job)
      BY <3>1, <3>2, Goes DEF Advances
    <3> QED
      BY <3>2, <3>3
  <2>6. CASE Submits
    <3>1. queue # <<>> /\ Len(txs) + 1 \in Nat
      BY <2>6 DEF Submits, TypeOK
    <3> DEFINE job == Waiting(Job, Len(txs) + 1)
    <3>2. Continue(job) /\ Job.phase # "writing"
      BY <2>6 DEF Submits, Waiting
    <3>3. /\ job \in SettlementType /\ SameTerms(job, Job)
          /\ job.tx = Len(txs) + 1 /\ job.atEnd = Job.atEnd
      BY <3>1, GoesWaiting
    <3> HIDE DEF job
    <3> QED
      BY <2>6, <3>1, <3>2, <3>3 DEF Advances
  <2>7. CASE SeesFilled
    <3>1. PICK job : job = [Job EXCEPT !.phase = "writing"]
      OBVIOUS
    <3>2. queue # <<>> /\ Continue(job) /\ Job.phase # "writing"
      BY <2>7, <3>1 DEF SeesFilled
    <3>3. job \in SettlementType /\ Advances(job)
      BY <3>1, <3>2, Goes DEF Advances
    <3> QED
      BY <3>2, <3>3
  <2>8. CASE FindsMarketClosed \/ FindsIncompatible \/ SeesReverted \/ Finishes
    BY <2>8 DEF FindsMarketClosed, FindsIncompatible, SeesReverted, Finishes, Release
  <2>9. CASE \E w \in writes : Write(w)
    BY <2>9 DEF Write
  <2> QED
    BY <1>3, <2>1, <2>2, <2>3, <2>4, <2>5, <2>6, <2>7, <2>8, <2>9 DEF SettlerStep
<1>4. CASE ChainStep
  BY <1>4 DEF ChainStep, Mine
<1>5. CASE FaultStep
  BY <1>5 DEF FaultStep, GivesUp, SubmitsUnanswered, ReceiptUnknown, WriteFails, FetchFails,
         DirectoryFallsBack, EngineRestarts, ProcessIsReplaced, Release
<1>6. CASE SignalArrives
  BY <1>6 DEF SignalArrives
<1>7. CASE DrainStep
  BY <1>7 DEF DrainStep, CyclesHaveEnded, Exits, ProcessIsReplaced
<1>8. CASE OutsideStep
  BY <1>8 DEF OutsideStep
<1>9. CASE UNCHANGED vars
  BY <1>9 DEF vars
<1> QED
  BY <1>2, <1>3, <1>4, <1>5, <1>6, <1>7, <1>8, <1>9 DEF Next

(* The queue stays a queue, with only its first settlement under way. *)
LEMMA QueueTyped ==
    ASSUME TypeOK, [Next]_vars
    PROVE  QueueTypeOK'
<1>1. QueueTypeOK
  BY DEF TypeOK, QueueTypeOK
<1>2. CASE UNCHANGED queue
  BY <1>1, <1>2 DEF QueueTypeOK
<1>3. CASE \E c \in Cycles : CycleMatches(c)
  <2>1. PICK c \in Cycles : CycleMatches(c)
    BY <1>3
  <2>2. Snapshot(fetched[c])
    BY <2>1 DEF CycleMatches, TypeOK
  <2>3. \E n, pairs : HandsOver(c, n, pairs)
    BY <2>1, CycleShape
  <2> QED
    BY <1>1, <2>2, <2>3, Handed
<1>4. CASE queue # <<>> /\ queue' = Tail(queue)
  BY <1>1, <1>4, Released
<1>5. CASE queue # <<>> /\ \E job \in SettlementType : Continue(job)
  BY <1>1, <1>5, Continued
<1>6. CASE queue' = <<>>
  BY <1>6 DEF QueueTypeOK
<1> QED
  BY <1>2, <1>3, <1>4, <1>5, <1>6, QueueMoves

(* A transaction is sent for the running settlement. *)
LEMMA Broadcast ==
    ASSUME TypeOK, Submits \/ SubmitsUnanswered
    PROVE  \E t \in TxType :
              /\ t.bid = Job.bid /\ t.ask = Job.ask /\ t.tokens = Job.tokens /\ t.status = "sent"
              /\ txs' = Append(txs, t)
              /\ queue # <<>> /\ Job.phase = "submit"
<1> DEFINE t == [bid |-> Job.bid, ask |-> Job.ask, tokens |-> Job.tokens, status |-> "sent"]
<1>1. queue # <<>> /\ Job.phase = "submit" /\ txs' = Append(txs, t)
  BY DEF Submits, SubmitsUnanswered, Running, Broadcasts
<1>2. Job \in SettlementType
  BY <1>1, JobType DEF TypeOK, QueueTypeOK
<1>3. t \in TxType
  BY <1>2, SettlementFields, Zenon DEF TxType
<1> QED
  BY <1>1, <1>3

(* What was broadcast stays a transaction, mined or not. *)
LEMMA TxsTyped ==
    ASSUME TypeOK, [Next]_vars
    PROVE  txs' \in Seq(TxType)
<1>1. txs \in Seq(TxType)
  BY DEF TypeOK
<1>2. CASE ChainStep
  <2>1. PICK k \in DOMAIN txs : Mine(k)
    BY <1>2 DEF ChainStep
  <2>2. PICK status \in {"filled", "reverted"} : txs' = [txs EXCEPT ![k].status = status]
    BY <2>1 DEF Mine, Executes, Reverts
  <2>3. txs[k] \in TxType
    BY <1>1
  <2>4. [txs[k] EXCEPT !.status = status] \in TxType
    BY <2>3, Zenon DEF TxType
  <2>5. txs' = [txs EXCEPT ![k] = [txs[k] EXCEPT !.status = status]]
    BY <2>2
  <2> HIDE <2>2
  <2> QED
    BY <1>1, <2>4, <2>5
<1>3. CASE Submits \/ SubmitsUnanswered
  <2>1. PICK t \in TxType : txs' = Append(txs, t)
    BY <1>3, Broadcast
  <2> QED
    BY <1>1, <2>1
<1> QED
  BY <1>1, <1>2, <1>3, Frames

(* A snapshot is the book as it was when the cycle fetched it. *)
LEMMA FetchedMoves ==
    ASSUME [Next]_vars
    PROVE  \/ UNCHANGED fetched
           \/ \E c \in Cycles : CycleFetches(c)
           \/ \E c : fetched' = Restrict(fetched, DOMAIN fetched \ {c})
           \/ fetched' = [c \in {} |-> book]
<1> USE DEF engineVars, settlerVars, boundVars
<1>1. CASE EngineStep
  BY <1>1 DEF EngineStep, CycleMatches, Expire
<1>2. CASE SettlerStep
  BY <1>2, Zenon DEF SettlerStep, Validates, FindsMarketClosed, Estimates, FindsIncompatible,
         FindsOrderChanged, LedgerRefusesFill, SyncsRemaining, SeesFilled, SeesReverted, Finishes,
         Write, Submits
<1>3. CASE ChainStep
  BY <1>3 DEF ChainStep, Mine
<1>4. CASE FaultStep
  BY <1>4, Zenon DEF FaultStep, GivesUp, SubmitsUnanswered, ReceiptUnknown, WriteFails, FetchFails,
         DirectoryFallsBack, EngineRestarts, ProcessIsReplaced
<1>5. CASE SignalArrives \/ DrainStep
  BY <1>5 DEF SignalArrives, DrainStep, CyclesHaveEnded, Exits, ProcessIsReplaced
<1>6. CASE OutsideStep \/ UNCHANGED vars
  BY <1>6 DEF OutsideStep, vars
<1> QED
  BY <1>1, <1>2, <1>3, <1>4, <1>5, <1>6 DEF Next

(* What cycles have fetched are copies of a book. *)
LEMMA FetchedTyped ==
    ASSUME TypeOK, [Next]_vars
    PROVE  DOMAIN fetched' \subseteq Cycles /\ \A c \in DOMAIN fetched' : Snapshot(fetched'[c])
<1>1. /\ DOMAIN fetched \subseteq Cycles /\ \A c \in DOMAIN fetched : Snapshot(fetched[c])
      /\ Snapshot(book)
  BY DEF TypeOK, BookTypeOK
<1>2. CASE \E c \in Cycles : CycleFetches(c)
  BY <1>1, <1>2 DEF CycleFetches
<1>3. CASE \E c : fetched' = Restrict(fetched, DOMAIN fetched \ {c})
  BY <1>1, <1>3 DEF Restrict
<1> QED
  BY <1>1, <1>2, <1>3, FetchedMoves

WriteType == [id : Ids, gone : BOOLEAN, filled : Nat]

(* A removal is a write. *)
LEMMA RemovalTyped ==
    ASSUME NEW i \in Ids
    PROVE  Removal(i) \in WriteType
  BY DEF Removal, WriteType

(* A rewrite of what is filled is a write. *)
LEMMA RewriteTyped ==
    ASSUME NEW i \in Ids, NEW n \in Nat
    PROVE  Rewrite(i, n) \in WriteType
  BY DEF Rewrite, WriteType

(* What the settler issues, and for whom. *)
LEMMA WritesMove ==
    ASSUME [Next]_vars
    PROVE  \/ writes' \subseteq writes
           \/ SyncsRemaining \/ SeesFilled
           \/ \E S \in SUBSET Ids : S # {} /\ LedgerRefusesFill(S)
<1> USE DEF engineVars, settlerVars, boundVars
<1>1. CASE EngineStep
  BY <1>1 DEF EngineStep, CycleMatches, CycleFetches, Expire
<1>2. CASE SettlerStep
  BY <1>2, Zenon DEF SettlerStep, Validates, FindsMarketClosed, Estimates, FindsIncompatible,
         FindsOrderChanged, LedgerRefusesFill, SeesReverted, Finishes, Write, Submits
<1>3. CASE ChainStep
  BY <1>3 DEF ChainStep, Mine
<1>4. CASE FaultStep
  BY <1>4, Zenon DEF FaultStep, GivesUp, SubmitsUnanswered, ReceiptUnknown, WriteFails, FetchFails,
         DirectoryFallsBack, EngineRestarts, ProcessIsReplaced
<1>5. CASE SignalArrives \/ DrainStep
  BY <1>5 DEF SignalArrives, DrainStep, CyclesHaveEnded, Exits, ProcessIsReplaced
<1>6. CASE OutsideStep \/ UNCHANGED vars
  BY <1>6 DEF OutsideStep, vars
<1> QED
  BY <1>1, <1>2, <1>3, <1>4, <1>5, <1>6 DEF Next

(* What handleRemaining reads of the chain is a natural. *)
LEMMA OnChainIsNat ==
    ASSUME TypeOK, NEW i \in Ids
    PROVE  OnChain(i) \in Nat
  BY OrderFacts DEF TypeOK, BookTypeOK, OnChain

(* recordFill issues a write: a removal or a rewrite. *)
LEMMA RecordTyped ==
    ASSUME NEW i \in Ids, NEW seen \in Nat, NEW tokens \in Nat
    PROVE  RecordedFill(i, seen, tokens) \in WriteType
<1>1. seen + tokens \in Nat
  OBVIOUS
<1> QED
  BY <1>1, RemovalTyped, RewriteTyped DEF RecordedFill

(* The settler issues writes to orders, and nothing else. *)
LEMMA WritesTyped ==
    ASSUME TypeOK, [Next]_vars
    PROVE  writes' \subseteq WriteType
<1>1. writes \subseteq WriteType /\ QueueTypeOK
  BY DEF TypeOK, QueueTypeOK, WriteType
<1>2. CASE SyncsRemaining
  <2>1. Parties \subseteq Ids
    BY <1>1, <1>2, JobType, SettlementFields DEF SyncsRemaining, Running, Parties
  <2>2. ASSUME NEW w \in writes' \ writes
        PROVE  \E i \in Parties : w = Removal(i) \/ w = Rewrite(i, OnChain(i))
    BY <1>2, <2>2 DEF SyncsRemaining, Prunes
  <2> QED
    BY <1>1, <2>1, <2>2, OnChainIsNat, RemovalTyped, RewriteTyped
<1>3. CASE SeesFilled
  <2>1. Job \in SettlementType
    BY <1>1, <1>3, JobType DEF SeesFilled, Running
  <2>2. /\ RecordedFill(Job.bid, Job.seenBid, Job.tokens) \in WriteType
        /\ RecordedFill(Job.ask, Job.seenAsk, Job.tokens) \in WriteType
    BY <2>1, SettlementFields, RecordTyped
  <2> QED
    BY <1>1, <1>3, <2>2 DEF SeesFilled
<1>4. CASE \E S \in SUBSET Ids : S # {} /\ LedgerRefusesFill(S)
  <2>1. PICK S \in SUBSET Ids : S # {} /\ LedgerRefusesFill(S)
    BY <1>4
  <2>2. writes' = writes \union Prunes(S)
    BY <2>1 DEF LedgerRefusesFill
  <2> QED
    BY <1>1, <2>2, RemovalTyped DEF Prunes
<1> QED
  BY <1>1, <1>2, <1>3, <1>4, WritesMove

(* Orders in flight and incompatible pairs are of the orders there are. *)
LEMMA PairsTyped ==
    ASSUME TypeOK, [Next]_vars
    PROVE  pending' \subseteq Ids /\ incompatible' \subseteq Ids \X Ids
<1> USE DEF engineVars, settlerVars, boundVars
<1>1. pending \subseteq Ids /\ incompatible \subseteq Ids \X Ids /\ QueueTypeOK
  BY DEF TypeOK, QueueTypeOK
<1>2. CASE EngineStep
  <2>1. CASE \E c \in Cycles : CycleMatches(c)
    <3>1. PICK c \in Cycles : CycleMatches(c)
      BY <2>1
    <3>2. PICK n, pairs : HandsOver(c, n, pairs)
      BY <3>1, CycleShape
    <3>3. Snapshot(fetched[c])
      BY <3>1 DEF CycleMatches, TypeOK
    <3>4. ASSUME NEW k \in 1 .. n PROVE pairs[k][1] \in Ids /\ pairs[k][2] \in Ids
      <4>1. pairs[k] \in Candidates(fetched[c], pending, incompatible)
        BY <3>2, <3>4 DEF HandsOver
      <4> QED
        BY <3>3, <4>1, CandidateFacts
    <3>5. pending' = pending \union UNION {{pairs[k][1], pairs[k][2]} : k \in 1 .. n}
      BY <3>2 DEF HandsOver
    <3> QED
      BY <1>1, <3>1, <3>4, <3>5 DEF CycleMatches
  <2>2. CASE \E c \in Cycles : CycleFetches(c)
    BY <1>1, <2>2 DEF CycleFetches
  <2>3. CASE \E pair \in incompatible : Expire(pair)
    BY <1>1, <2>3 DEF Expire
  <2> QED
    BY <1>2, <2>1, <2>2, <2>3 DEF EngineStep
<1>3. CASE SettlerStep
  <2>1. \/ UNCHANGED incompatible
        \/ queue # <<>> /\ incompatible' = incompatible \union {<<Job.bid, Job.ask>>}
    BY <1>3, Zenon DEF SettlerStep, Validates, FindsMarketClosed, Estimates, FindsIncompatible,
           FindsOrderChanged, LedgerRefusesFill, SyncsRemaining, SeesFilled, SeesReverted, Finishes,
           Write, Submits, Running
  <2>2. pending' \subseteq pending
    BY <1>3, Zenon DEF SettlerStep, Validates, FindsMarketClosed, Estimates, FindsIncompatible,
           FindsOrderChanged, LedgerRefusesFill, SyncsRemaining, SeesFilled, SeesReverted, Finishes,
           Write, Submits, Release
  <2> QED
    BY <1>1, <2>1, <2>2, JobType, SettlementFields
<1>4. CASE ChainStep
  BY <1>1, <1>4 DEF ChainStep, Mine
<1>5. CASE FaultStep
  <2>1. pending' \subseteq pending /\ (UNCHANGED incompatible \/ incompatible' = {})
    BY <1>5, Zenon DEF FaultStep, GivesUp, SubmitsUnanswered, ReceiptUnknown, WriteFails, FetchFails,
           DirectoryFallsBack, EngineRestarts, ProcessIsReplaced, Release
  <2> QED
    BY <1>1, <2>1
<1>6. CASE SignalArrives \/ DrainStep
  BY <1>1, <1>6 DEF SignalArrives, DrainStep, CyclesHaveEnded, Exits, ProcessIsReplaced
<1>7. CASE OutsideStep \/ UNCHANGED vars
  BY <1>1, <1>7 DEF OutsideStep, vars
<1> QED
  BY <1>2, <1>3, <1>4, <1>5, <1>6, <1>7 DEF Next

(* The counters stay within their bounds. *)
LEMMA BoundsTyped ==
    ASSUME TypeOK, [Next]_vars
    PROVE  /\ faults' \in 0 .. MaxFaults
           /\ drain' \in {"no", "cycles", "queue"}
           /\ expiries' \in 0 .. MaxExpiries
           /\ redeploys' \in 0 .. MaxRedeploys
<1> USE DEF engineVars, settlerVars, boundVars
<1>1. /\ faults \in 0 .. MaxFaults /\ drain \in {"no", "cycles", "queue"}
      /\ expiries \in 0 .. MaxExpiries /\ redeploys \in 0 .. MaxRedeploys
      /\ MaxFaults \in Nat /\ MaxExpiries \in Nat /\ MaxRedeploys \in Nat
  BY EngineConstants DEF TypeOK
<1>2. CASE EngineStep
  <2>1. \/ UNCHANGED boundVars
        \/ /\ expiries < MaxExpiries /\ expiries' = expiries + 1
           /\ UNCHANGED <<drain, faults, redeploys>>
    BY <1>2, Zenon DEF EngineStep, CycleFetches, CycleMatches, Expire
  <2> QED
    BY <1>1, <2>1
<1>3. CASE SettlerStep
  <2>1. UNCHANGED boundVars
    BY <1>3, Zenon DEF SettlerStep, Validates, FindsMarketClosed, Estimates, FindsIncompatible,
           FindsOrderChanged, LedgerRefusesFill, SyncsRemaining, SeesFilled, SeesReverted, Finishes,
           Write, Submits
  <2> QED
    BY <1>1, <2>1
<1>4. CASE ChainStep
  BY <1>1, <1>4 DEF ChainStep, Mine
<1>5. CASE FaultStep
  <2>1. /\ faults < MaxFaults /\ faults' = faults + 1 /\ UNCHANGED <<expiries, redeploys>>
        /\ drain' = drain \/ drain' = "no"
    BY <1>5, Zenon DEF FaultStep, GivesUp, SubmitsUnanswered, ReceiptUnknown, WriteFails, FetchFails,
           DirectoryFallsBack, EngineRestarts, ProcessIsReplaced, Fault
  <2> QED
    BY <1>1, <2>1
<1>6. CASE SignalArrives \/ DrainStep
  BY <1>1, <1>6 DEF SignalArrives, DrainStep, CyclesHaveEnded, Exits, ProcessIsReplaced
<1>7. CASE OutsideStep \/ UNCHANGED vars
  BY <1>1, <1>7 DEF OutsideStep, vars
<1> QED
  BY <1>2, <1>3, <1>4, <1>5, <1>6, <1>7 DEF Next

(* The first state has its types. *)
LEMMA InitTyped == Init => TypeOK
<1> SUFFICES ASSUME Init PROVE TypeOK
  OBVIOUS
<1>1. DirectoryTypeOK
  BY DirectoryAssumption DEF Init, BookInit, DirectoryInit, DirectoryTypeOK
<1>2. filled \in [SignedOrders -> Nat] /\ Snapshot(book) /\ posting \subseteq Ids
      /\ posted \in Seq(Ids) /\ deleted \subseteq Ids
  BY DEF Init, BookInit, Snapshot
<1> QED
  BY <1>1, <1>2, EngineConstants DEF Init, TypeOK, BookTypeOK

(* Every step keeps the types. *)
LEMMA NextTyped == TypeOK /\ [Next]_vars => TypeOK'
<1> SUFFICES ASSUME TypeOK, [Next]_vars PROVE TypeOK'
  OBVIOUS
<1>1. BookTypeOK'
  BY DirectoryTyped, BookTyped, ServerTyped, FilledTyped DEF TypeOK, BookTypeOK
<1> QED
  BY <1>1, QueueTyped, TxsTyped, FetchedTyped, WritesTyped, PairsTyped, BoundsTyped
     DEF TypeOK, QueueTypeOK, WriteType

(* The queue runs one settlement at a time, the first, and every variable   *)
(* keeps its type, for any orders, cycles and failures.                     *)
THEOREM TypeCorrect == Spec => []TypeOK
  BY InitTyped, NextTyped, PTL DEF Spec

----------------------------------------------------------------------------
(* The book and the chain                                                  *)

LEMMA CrossedStays ==
    ASSUME NEW t, NEW u, t.bid \in Ids, t.ask \in Ids, t.tokens \in Nat,
           u.bid = t.bid, u.ask = t.ask, u.tokens = t.tokens,
           NEW known, NEW more, known \subseteq more,
           NEW f \in [SignedOrders -> Nat], NEW g \in [SignedOrders -> Nat],
           \A o \in SignedOrders : f[o] <= g[o],
           Crossed(t, known, f)
    PROVE  Crossed(u, more, g)
<1>1. /\ Size(t.bid) \in Nat /\ Size(t.ask) \in Nat
      /\ Signed[t.bid] \in SignedOrders /\ Signed[t.ask] \in SignedOrders
  BY OrderFacts
<1>2. Ample(u, g)
  BY <1>1 DEF Crossed, Ample
<1> QED
  BY <1>2 DEF Crossed

(* A copy of the book stays behind a chain that only fills. *)
LEMMA ToldStays ==
    ASSUME NEW snapshot, Snapshot(snapshot),
           NEW known, NEW more, known \subseteq more,
           NEW f \in [SignedOrders -> Nat], NEW g \in [SignedOrders -> Nat],
           \A o \in SignedOrders : f[o] <= g[o],
           Told(snapshot, known, f)
    PROVE  Told(snapshot, more, g)
<1>1. ASSUME NEW i \in DOMAIN snapshot PROVE i \in more /\ snapshot[i] <= g[Signed[i]]
  <2>1. i \in Ids /\ snapshot[i] \in Nat
    BY DEF Snapshot
  <2>2. Signed[i] \in SignedOrders
    BY <2>1, OrderFacts
  <2> QED
    BY <2>1, <2>2 DEF Told
<1> QED
  BY <1>1 DEF Told

(* A write stays behind a chain that only fills. *)
LEMMA ConfirmedStays ==
    ASSUME NEW w \in WriteType,
           NEW f \in [SignedOrders -> Nat], NEW g \in [SignedOrders -> Nat],
           \A o \in SignedOrders : f[o] <= g[o],
           Confirmed(w, f)
    PROVE  Confirmed(w, g)
<1>1. w.id \in Ids /\ w.filled \in Nat
  BY DEF WriteType
<1>2. Signed[w.id] \in SignedOrders /\ Size(w.id) \in Nat
  BY <1>1, OrderFacts
<1> QED
  BY <1>1, <1>2 DEF Confirmed

(* A transaction keeps its terms; one that fills adds what it trades to     *)
(* both its orders.                                                         *)
Executed(t, f, g) ==
    /\ g[Signed[t.bid]] = f[Signed[t.bid]] + t.tokens
    /\ g[Signed[t.ask]] = f[Signed[t.ask]] + t.tokens

Follows(sent, later, f, g) ==
    \A k \in DOMAIN sent :
        /\ k \in DOMAIN later
        /\ later[k].bid = sent[k].bid /\ later[k].ask = sent[k].ask
        /\ later[k].tokens = sent[k].tokens
        /\ later[k].status = "filled" => sent[k].status = "filled" \/ Executed(sent[k], f, g)

(* A settlement stays sound while the chain fills and mines. *)
LEMMA SoundStays ==
    ASSUME NEW job \in SettlementType,
           NEW known, NEW more, known \subseteq more,
           NEW f \in [SignedOrders -> Nat], NEW g \in [SignedOrders -> Nat],
           \A o \in SignedOrders : f[o] <= g[o],
           NEW sent, NEW later, Follows(sent, later, f, g),
           Sound(job, known, f, sent)
    PROVE  Sound(job, more, g, later)
<1>1. /\ job.bid \in Ids /\ job.ask \in Ids /\ job.tokens \in Nat
      /\ job.seenBid \in Nat /\ job.seenAsk \in Nat
  BY SettlementFields
<1>2. Signed[job.bid] \in SignedOrders /\ Signed[job.ask] \in SignedOrders
  BY <1>1, OrderFacts
<1>3. Crossed(job, more, g)
  BY <1>1, CrossedStays DEF Sound
<1>4. job.seenBid <= g[Signed[job.bid]] /\ job.seenAsk <= g[Signed[job.ask]]
  BY <1>1, <1>2 DEF Sound
<1>5. ASSUME job.phase = "receipt" PROVE Sent(job, g, later)
  <2>1. Sent(job, f, sent)
    BY <1>5 DEF Sound
  <2>2. f[Signed[job.bid]] \in Nat /\ g[Signed[job.bid]] \in Nat
        /\ f[Signed[job.ask]] \in Nat /\ g[Signed[job.ask]] \in Nat
        /\ f[Signed[job.bid]] <= g[Signed[job.bid]] /\ f[Signed[job.ask]] <= g[Signed[job.ask]]
    BY <1>2
  <2>3. job.seenBid <= f[Signed[job.bid]] /\ job.seenAsk <= f[Signed[job.ask]]
    BY DEF Sound
  <2> QED
    BY <1>1, <2>1, <2>2, <2>3 DEF Sent, Follows, Executed
<1> QED
  BY <1>3, <1>4, <1>5 DEF Sound

(* Orders fill and are stored, and neither is undone. *)
LEMMA Grows ==
    ASSUME TypeOK, EngineInv, [Next]_vars
    PROVE  /\ \A o \in SignedOrders : filled[o] <= filled'[o]
           /\ Range(posted) \subseteq Range(posted')
           /\ Follows(txs, txs', filled, filled')
<1>1. filled \in [SignedOrders -> Nat] /\ txs \in Seq(TxType) /\ posted \in Seq(Ids)
  BY DEF TypeOK, BookTypeOK
<1>2. ASSUME NEW k \in DOMAIN txs, Mine(k)
      PROVE  /\ \A o \in SignedOrders : filled[o] <= filled'[o]
             /\ Follows(txs, txs', filled, filled')
  <2>1. txs[k].bid \in Ids /\ txs[k].ask \in Ids /\ txs[k].tokens \in Nat
    BY <1>1, TxFields
  <2>2. Signed[txs[k].bid] \in SignedOrders /\ Signed[txs[k].ask] \in SignedOrders
    BY <2>1, OrderFacts
  <2>3. Signed[txs[k].bid] # Signed[txs[k].ask]
    BY DEF EngineInv, Crossed
  <2>4. CASE Executes(k)
    <3>1. txs' = [txs EXCEPT ![k].status = "filled"]
          /\ filled' = [filled EXCEPT ![Signed[txs[k].bid]] = @ + txs[k].tokens,
                                      ![Signed[txs[k].ask]] = @ + txs[k].tokens]
      BY <2>4 DEF Executes
    <3>2. Executed(txs[k], filled, filled')
      BY <1>1, <2>1, <2>2, <2>3, <3>1 DEF Executed
    <3>3. \A o \in SignedOrders : filled[o] <= filled'[o]
      BY <1>1, <2>1, <2>2, <2>3, <3>1
    <3> QED
      BY <1>1, <3>1, <3>2, <3>3 DEF Follows
  <2>5. CASE Reverts(k)
    BY <1>1, <2>5 DEF Reverts, Follows
  <2> QED
    BY <1>2, <2>4, <2>5 DEF Mine
<1>3. \A o \in SignedOrders : filled[o] <= filled'[o]
  <2>1. CASE ChainStep
    BY <1>2, <2>1 DEF ChainStep
  <2>2. CASE MakerStep
    BY <1>1, <2>2, BookConstants DEF MakerStep, ClosesOnChain, SignedOrders
  <2> QED
    BY <1>1, <2>1, <2>2, Frames
<1>4. Follows(txs, txs', filled, filled')
  <2>1. CASE ChainStep
    BY <1>2, <2>1 DEF ChainStep
  <2>2. CASE Submits \/ SubmitsUnanswered
    <3>1. PICK t \in TxType : txs' = Append(txs, t)
      BY <2>2, Broadcast
    <3> QED
      BY <1>1, <3>1 DEF Follows
  <2> QED
    BY <2>1, <2>2, Frames DEF Follows
<1>5. Range(posted) \subseteq Range(posted')
  <2>1. CASE ServerStep
    <3>1. PICK i \in Ids : posted' = posted \/ posted' = Append(posted, i)
      BY <2>1, ServerActs DEF PostChecks, PostRefused, PostLists
    <3> QED
      BY <1>1, <3>1 DEF Range
  <2> QED
    BY <2>1, Frames DEF serverVars
<1> QED
  BY <1>3, <1>4, <1>5

(* What is posted once is not accepted again, and what is deleted stays so. *)
LEMMA KnownStays ==
    ASSUME TypeOK, EngineInv, [Next]_vars
    PROVE  KnownInv'
<1> USE DEF KnownInv, DeletedStaysDeleted
<1>1. KnownInv /\ posted \in Seq(Ids)
  BY DEF EngineInv, TypeOK, BookTypeOK
<1>2. CASE ServerStep
  <2>1. PICK i \in Ids :
           \/ PostChecks(i) \/ PostRefused(i) \/ PostLists(i)
           \/ /\ book' = Without(i) /\ UNCHANGED <<posting, posted>>
              /\ \/ deleted' = deleted \union {i} /\ i \in DOMAIN book
                 \/ deleted' = deleted
    BY <1>2, ServerActs
  <2>2. CASE PostChecks(i)
    BY <1>1, <2>2 DEF PostChecks
  <2>3. CASE PostRefused(i)
    BY <1>1, <2>3 DEF PostRefused
  <2>4. CASE PostLists(i)
    <3>1. Range(posted') = Range(posted) \union {i}
      BY <1>1, <2>4 DEF PostLists, Range
    <3> QED
      BY <1>1, <2>4, <3>1 DEF PostLists
  <2>5. CASE /\ book' = Without(i) /\ UNCHANGED <<posting, posted>>
             /\ \/ deleted' = deleted \union {i} /\ i \in DOMAIN book
                \/ deleted' = deleted
    <3>1. DOMAIN book \subseteq Range(posted)
      BY DEF EngineInv, Told
    <3>2. DOMAIN book' = DOMAIN book \ {i}
      BY <2>5 DEF Without, Restrict
    <3> QED
      BY <1>1, <2>5, <3>1, <3>2
  <2> QED
    BY <2>1, <2>2, <2>3, <2>4, <2>5
<1>3. CASE UNCHANGED serverVars
  <2>1. DOMAIN book' \subseteq DOMAIN book
    <3>1. CASE \E w \in writes : Write(w)
      BY <3>1 DEF Write, Without, Restrict
    <3>2. CASE ServerStep
      <4>1. PICK i \in Ids : PostChecks(i) \/ PostRefused(i) \/ PostLists(i) \/ book' = Without(i)
        BY <3>2, ServerActs
      <4>2. ~PostLists(i)
        BY <1>1, <1>3 DEF PostLists, serverVars
      <4> QED
        BY <4>1, <4>2 DEF PostChecks, PostRefused, Without, Restrict
    <3> QED
      BY <3>1, <3>2, Frames
  <2> QED
    BY <1>1, <1>3, <2>1 DEF serverVars
<1> QED
  BY <1>2, <1>3, Frames

(* Posts, deletions and the settler's writes keep the book behind the chain. *)
LEMMA BookStaysTold ==
    ASSUME TypeOK, EngineInv, [Next]_vars
    PROVE  Told(book', Range(posted'), filled')
<1>1. /\ filled \in [SignedOrders -> Nat] /\ filled' \in [SignedOrders -> Nat]
      /\ Snapshot(book) /\ posted \in Seq(Ids) /\ Told(book, Range(posted), filled)
  BY FilledTyped DEF TypeOK, BookTypeOK, EngineInv
<1>2. Told(book, Range(posted'), filled')
  BY <1>1, Grows, ToldStays
<1>3. CASE ServerStep
  <2>1. PICK i \in Ids :
           PostChecks(i) \/ PostRefused(i) \/ PostLists(i) \/ book' = Without(i)
    BY <1>3, ServerActs
  <2>2. CASE PostLists(i)
    <3>1. i \in Range(posted')
      BY <1>1, <2>2 DEF PostLists, Range
    <3>2. 0 <= filled'[Signed[i]]
      BY <1>1, OrderFacts
    <3> QED
      BY <1>2, <2>2, <3>1, <3>2 DEF PostLists, Told
  <2> QED
    BY <1>2, <2>1, <2>2 DEF PostChecks, PostRefused, Without, Restrict, Told
<1>4. CASE \E w \in writes : Write(w)
  <2>1. PICK w \in writes : Write(w)
    BY <1>4
  <2>2. w \in WriteType /\ Confirmed(w, filled)
    BY DEF TypeOK, WriteType, EngineInv
  <2>3. Confirmed(w, filled')
    BY <1>1, <2>2, Grows, ConfirmedStays
  <2>4. CASE w.gone
    BY <1>2, <2>1, <2>4 DEF Write, Without, Restrict, Told
  <2>5. CASE ~w.gone
    BY <1>2, <2>1, <2>3, <2>5 DEF Write, Confirmed, Told
  <2> QED
    BY <2>4, <2>5
<1> QED
  BY <1>2, <1>3, <1>4, Frames

(* A cycle's copy stays behind the chain, however old it is. *)
LEMMA FetchedStaysTold ==
    ASSUME TypeOK, EngineInv, [Next]_vars
    PROVE  \A c \in DOMAIN fetched' : Told(fetched'[c], Range(posted'), filled')
<1>1. /\ filled \in [SignedOrders -> Nat] /\ filled' \in [SignedOrders -> Nat]
      /\ Snapshot(book) /\ \A c \in DOMAIN fetched : Snapshot(fetched[c])
  BY FilledTyped DEF TypeOK, BookTypeOK
<1>2. /\ Told(book, Range(posted'), filled')
      /\ \A c \in DOMAIN fetched : Told(fetched[c], Range(posted'), filled')
  BY <1>1, Grows, ToldStays DEF EngineInv
<1>3. CASE \E c \in Cycles : CycleFetches(c)
  BY <1>2, <1>3 DEF CycleFetches
<1>4. CASE \E c : fetched' = Restrict(fetched, DOMAIN fetched \ {c})
  BY <1>2, <1>4 DEF Restrict
<1> QED
  BY <1>2, <1>3, <1>4, FetchedMoves

(* What a cycle's settlement trades uses up one of its orders, as far as    *)
(* the snapshot, and so the chain, has it.                                  *)
LEMMA SettlementIsSound ==
    ASSUME NEW snapshot, Snapshot(snapshot), NEW out, NEW bad,
           NEW p \in Candidates(snapshot, out, bad),
           NEW known, NEW f \in [SignedOrders -> Nat], NEW sent,
           Told(snapshot, known, f)
    PROVE  Sound(Settlement(snapshot, p[1], p[2]), known, f, sent)
<1> DEFINE b == p[1]
           a == p[2]
           job == Settlement(snapshot, b, a)
<1>1. /\ b \in DOMAIN snapshot /\ a \in DOMAIN snapshot
      /\ b \in Ids /\ a \in Ids /\ snapshot[b] \in Nat /\ snapshot[a] \in Nat
      /\ Signed[b].bid /\ ~Signed[a].bid /\ Crosses(b, a)
      /\ RemainingIn(snapshot, b) \in Nat \ {0} /\ RemainingIn(snapshot, a) \in Nat \ {0}
  BY CandidateFacts
<1>2. /\ job.bid = b /\ job.ask = a
      /\ job.seenBid = snapshot[b] /\ job.seenAsk = snapshot[a]
      /\ job.tokens = Smaller(RemainingIn(snapshot, b), RemainingIn(snapshot, a))
      /\ job.phase = "validate" /\ job.atEnd = {}
  BY DEF Settlement
<1> HIDE DEF job, b, a
<1>3. b \in known /\ snapshot[b] <= f[Signed[b]] /\ a \in known /\ snapshot[a] <= f[Signed[a]]
  BY <1>1 DEF Told
<1>4. /\ f[Signed[b]] \in Nat /\ f[Signed[a]] \in Nat
      /\ Size(b) \in Nat /\ Size(a) \in Nat
  BY <1>1, OrderFacts
<1>5. /\ RemainingIn(snapshot, b) = Size(b) - snapshot[b]
      /\ RemainingIn(snapshot, a) = Size(a) - snapshot[a]
  BY <1>1, <1>4 DEF RemainingIn
<1>6. Ample(job, f)
  BY <1>1, <1>2, <1>3, <1>4, <1>5 DEF Ample, Smaller
<1>7. Crossed(job, known, f)
  BY <1>1, <1>2, <1>3, <1>6 DEF Crossed
<1>8. Sound(job, known, f, sent)
  BY <1>2, <1>3, <1>7 DEF Sound
<1> QED
  BY <1>8 DEF job, b, a

(* Settlements stay sound: those handed over, and the one that runs. *)
LEMMA QueueStaysSound ==
    ASSUME TypeOK, EngineInv, [Next]_vars
    PROVE  \A k \in DOMAIN queue' : Sound(queue'[k], Range(posted'), filled', txs')
<1>1. /\ filled \in [SignedOrders -> Nat] /\ filled' \in [SignedOrders -> Nat]
      /\ QueueTypeOK /\ queue \in Seq(SettlementType)
  BY FilledTyped DEF TypeOK, BookTypeOK, QueueTypeOK
<1>2. \A k \in DOMAIN queue : Sound(queue[k], Range(posted'), filled', txs')
  <2> SUFFICES ASSUME NEW k \in DOMAIN queue
               PROVE  Sound(queue[k], Range(posted'), filled', txs')
    OBVIOUS
  <2>1. queue[k] \in SettlementType /\ Sound(queue[k], Range(posted), filled, txs)
    BY <1>1 DEF EngineInv
  <2> QED
    BY <1>1, <2>1, Grows, SoundStays
<1>3. CASE \E c \in Cycles : CycleMatches(c)
  <2>1. PICK c \in Cycles : CycleMatches(c)
    BY <1>3
  <2>2. PICK n, pairs : HandsOver(c, n, pairs)
    BY <2>1, CycleShape
  <2>3. Snapshot(fetched[c]) /\ Told(fetched[c], Range(posted), filled)
    BY <2>1 DEF CycleMatches, TypeOK, EngineInv
  <2>4. /\ DOMAIN queue' = 1 .. (Len(queue) + n)
        /\ \A k \in DOMAIN queue : queue'[k] = queue[k]
        /\ \A k \in 1 .. n : queue'[Len(queue) + k] = Settlement(fetched[c], pairs[k][1], pairs[k][2])
    BY <1>1, <2>2, <2>3, Handed
  <2>5. Told(fetched[c], Range(posted'), filled')
    BY <1>1, <2>3, Grows, ToldStays
  <2>6. ASSUME NEW k \in 1 .. n
        PROVE  Sound(queue'[Len(queue) + k], Range(posted'), filled', txs')
    <3>1. pairs[k] \in Candidates(fetched[c], pending, incompatible)
      BY <2>2 DEF HandsOver
    <3>2. Sound(Settlement(fetched[c], pairs[k][1], pairs[k][2]), Range(posted'), filled', txs')
      BY <1>1, <2>3, <2>5, <3>1, SettlementIsSound
    <3> QED
      BY <2>4, <3>2
  <2>7. ASSUME NEW k \in DOMAIN queue', k \notin DOMAIN queue
        PROVE  k - Len(queue) \in 1 .. n /\ k = Len(queue) + (k - Len(queue))
    BY <1>1, <2>2, <2>4, <2>7 DEF HandsOver
  <2> QED
    BY <1>2, <2>4, <2>6, <2>7
<1>4. CASE queue # <<>> /\ queue' = Tail(queue)
  BY <1>1, <1>2, <1>4, Released
<1>5. CASE queue # <<>> /\ \E job \in SettlementType : Continue(job) /\ Advances(job)
  <2>1. PICK job \in SettlementType : Continue(job) /\ Advances(job)
    BY <1>5
  <2>2. /\ Job \in SettlementType /\ 1 \in DOMAIN queue
        /\ DOMAIN queue' = DOMAIN queue /\ queue'[1] = job
        /\ \A k \in DOMAIN queue : k # 1 => queue'[k] = queue[k]
    BY <1>1, <1>5, <2>1, JobType, Continued
  <2>3. Sound(Job, Range(posted'), filled', txs') /\ Sound(Job, Range(posted), filled, txs)
    BY <1>2, <2>2 DEF Job, EngineInv
  <2>4. SameTerms(job, Job) /\ Job.tokens \in Nat /\ Job.bid \in Ids /\ Job.ask \in Ids
    BY <2>1, <2>2, SettlementFields DEF Advances
  <2>5. Crossed(job, Range(posted'), filled')
    <3>1. Crossed(Job, Range(posted'), filled')
      BY <2>3 DEF Sound
    <3>2. job.bid = Job.bid /\ job.ask = Job.ask /\ job.tokens = Job.tokens
      BY <2>4 DEF SameTerms
    <3> QED
      BY <2>4, <3>1, <3>2 DEF Crossed, Ample
  <2>6. job.seenBid <= filled'[Signed[job.bid]] /\ job.seenAsk <= filled'[Signed[job.ask]]
    BY <2>3, <2>4 DEF Sound, SameTerms
  <2>7. ASSUME job.phase = "receipt" PROVE Sent(job, filled', txs')
    <3>1. Submits /\ job.tx = Len(txs) + 1
      BY <2>1, <2>7 DEF Advances
    <3>2. PICK t \in TxType :
             /\ t.bid = Job.bid /\ t.ask = Job.ask /\ t.tokens = Job.tokens /\ t.status = "sent"
             /\ txs' = Append(txs, t)
      BY <3>1, Broadcast
    <3>3. job.tx \in DOMAIN txs' /\ txs'[job.tx] = t
      BY <3>1, <3>2 DEF TypeOK
    <3> QED
      BY <2>4, <3>2, <3>3 DEF Sent, SameTerms
  <2>8. (job.phase # "writing" => job.atEnd = {}) /\ job.atEnd \subseteq {job.bid, job.ask}
    BY <2>1, <2>3, <2>4 DEF Advances, Sound, Parties, SameTerms
  <2>9. Sound(job, Range(posted'), filled', txs')
    BY <2>5, <2>6, <2>7, <2>8 DEF Sound
  <2> QED
    BY <1>2, <2>2, <2>9
<1> QED
  BY <1>2, <1>3, <1>4, <1>5, QueueMoves

(* What is broadcast is between known orders that cross. *)
LEMMA TxsStayCrossed ==
    ASSUME TypeOK, EngineInv, [Next]_vars
    PROVE  \A k \in DOMAIN txs' : Crossed(txs'[k], Range(posted'), filled')
<1>1. /\ filled \in [SignedOrders -> Nat] /\ filled' \in [SignedOrders -> Nat]
      /\ txs \in Seq(TxType) /\ QueueTypeOK
  BY FilledTyped DEF TypeOK, BookTypeOK, QueueTypeOK
<1>2. ASSUME NEW k \in DOMAIN txs PROVE Crossed(txs'[k], Range(posted'), filled')
  <2>1. txs[k] \in TxType /\ Crossed(txs[k], Range(posted), filled)
    BY <1>1 DEF EngineInv
  <2>2. txs[k].bid \in Ids /\ txs[k].ask \in Ids /\ txs[k].tokens \in Nat
    BY <2>1, TxFields
  <2>3. txs'[k].bid = txs[k].bid /\ txs'[k].ask = txs[k].ask /\ txs'[k].tokens = txs[k].tokens
    BY Grows DEF Follows
  <2> QED
    BY <1>1, <2>1, <2>2, <2>3, Grows, CrossedStays
<1>3. CASE DOMAIN txs' = DOMAIN txs
  BY <1>2, <1>3
<1>4. CASE Submits \/ SubmitsUnanswered
  <2>1. PICK t \in TxType :
           /\ t.bid = Job.bid /\ t.ask = Job.ask /\ t.tokens = Job.tokens
           /\ txs' = Append(txs, t) /\ queue # <<>>
    BY <1>4, Broadcast
  <2>2. Job \in SettlementType /\ 1 \in DOMAIN queue
    BY <1>1, <2>1, JobType
  <2>3. Crossed(Job, Range(posted), filled)
    BY <2>2 DEF EngineInv, Sound, Job
  <2>4. Job.bid \in Ids /\ Job.ask \in Ids /\ Job.tokens \in Nat
    BY <2>2, SettlementFields
  <2>5. Crossed(t, Range(posted'), filled')
    BY <1>1, <2>1, <2>3, <2>4, Grows, CrossedStays
  <2>6. ASSUME NEW k \in DOMAIN txs' PROVE k \in DOMAIN txs \/ txs'[k] = t
    BY <1>1, <2>1, <2>6
  <2> QED
    BY <1>2, <2>5, <2>6
<1>5. CASE ChainStep
  BY <1>1, <1>3, <1>5 DEF ChainStep, Mine, Executes, Reverts
<1> QED
  BY <1>3, <1>4, <1>5, Frames

(* The settler writes what the chain has confirmed to it. *)
LEMMA WritesStayConfirmed ==
    ASSUME TypeOK, EngineInv, [Next]_vars
    PROVE  \A w \in writes' : Confirmed(w, filled')
<1>1. /\ filled \in [SignedOrders -> Nat] /\ filled' \in [SignedOrders -> Nat]
      /\ QueueTypeOK /\ writes \subseteq WriteType
  BY FilledTyped DEF TypeOK, BookTypeOK, QueueTypeOK, WriteType
<1>2. \A w \in writes : Confirmed(w, filled')
  BY <1>1, Grows, ConfirmedStays DEF EngineInv
<1>3. ASSUME queue # <<>>
      PROVE  /\ Job \in SettlementType /\ Sound(Job, Range(posted), filled, txs)
             /\ Job.bid \in Ids /\ Job.ask \in Ids /\ Job.bid # Job.ask
             /\ Job.seenBid \in Nat /\ Job.seenAsk \in Nat /\ Job.tokens \in Nat \ {0}
             /\ Size(Job.bid) \in Nat /\ Size(Job.ask) \in Nat
             /\ filled[Signed[Job.bid]] \in Nat /\ filled[Signed[Job.ask]] \in Nat
  <2>1. Job \in SettlementType /\ 1 \in DOMAIN queue
    BY <1>1, <1>3, JobType
  <2>2. Sound(Job, Range(posted), filled, txs)
    BY <2>1 DEF EngineInv, Job
  <2>3. Job.bid # Job.ask
    BY <2>2 DEF Sound, Crossed
  <2> QED
    BY <1>1, <2>1, <2>2, <2>3, SettlementFields, OrderFacts
<1>4. CASE SyncsRemaining
  <2>1. queue # <<>> /\ UNCHANGED filled
    BY <1>4 DEF SyncsRemaining, Running, bookVars
  <2>2. ASSUME NEW i \in Parties PROVE i \in Ids /\ OnChain(i) \in Nat
    BY <1>1, <1>3, <2>1, OrderFacts DEF Parties, OnChain
  <2>3. ASSUME NEW w \in writes' \ writes
        PROVE  \E i \in Parties :
                  \/ w = Removal(i) /\ Closed(i)
                  \/ /\ w = Rewrite(i, OnChain(i))
                     /\ OnChain(i) # IF i = Job.bid THEN Job.seenBid ELSE Job.seenAsk
    BY <1>4, <2>3 DEF SyncsRemaining, Prunes
  <2>4. ASSUME NEW i \in Parties, OnChain(i) # IF i = Job.bid THEN Job.seenBid ELSE Job.seenAsk
        PROVE  0 < OnChain(i)
    BY <1>3, <2>1, <2>2, <2>4 DEF Sound, Parties, OnChain
  <2>5. ASSUME NEW w \in writes' \ writes PROVE Confirmed(w, filled)
    BY <2>2, <2>3, <2>4, <2>5 DEF Confirmed, Removal, Rewrite, Closed, OnChain
  <2> QED
    BY <1>2, <2>1, <2>5
<1>5. CASE SeesFilled
  <2>1. queue # <<>> /\ UNCHANGED filled /\ Job.phase = "receipt" /\ txs[Job.tx].status = "filled"
    BY <1>5 DEF SeesFilled, Running, bookVars
  <2>2. /\ Job.seenBid + Job.tokens <= filled[Signed[Job.bid]]
        /\ Job.seenAsk + Job.tokens <= filled[Signed[Job.ask]]
    BY <1>3, <2>1 DEF Sound, Sent
  <2>3. Confirmed(RecordedFill(Job.bid, Job.seenBid, Job.tokens), filled)
    BY <1>3, <2>1, <2>2 DEF Confirmed, RecordedFill, Removal, Rewrite
  <2>4. Confirmed(RecordedFill(Job.ask, Job.seenAsk, Job.tokens), filled)
    BY <1>3, <2>1, <2>2 DEF Confirmed, RecordedFill, Removal, Rewrite
  <2> QED
    BY <1>2, <1>5, <2>1, <2>3, <2>4 DEF SeesFilled
<1>6. CASE \E S \in SUBSET Ids : S # {} /\ LedgerRefusesFill(S)
  <2>1. PICK S \in SUBSET Ids : S # {} /\ LedgerRefusesFill(S)
    BY <1>6
  <2>2. LedgerRefuses /\ writes' = writes \union Prunes(S)
    BY <2>1 DEF LedgerRefusesFill
  <2> QED
    BY <1>2, <2>2 DEF Prunes, Removal, Confirmed
<1> QED
  BY <1>2, <1>4, <1>5, <1>6, WritesMove

(* With an empty book nothing is ahead of the chain. *)
LEMMA InitEngineInv == Init => EngineInv
  BY DEF Init, BookInit, EngineInv, KnownInv, DeletedStaysDeleted, Told, Range

(* Every step keeps the invariant of book, settler and chain. *)
LEMMA NextEngineInv == TypeOK /\ EngineInv /\ [Next]_vars => EngineInv'
<1> SUFFICES ASSUME TypeOK, EngineInv, [Next]_vars PROVE EngineInv'
  OBVIOUS
<1> QED
  BY KnownStays, BookStaysTold, FetchedStaysTold, QueueStaysSound, TxsStayCrossed,
     WritesStayConfirmed DEF EngineInv

(* The invariant of book, settler and chain holds in every reachable state. *)
LEMMA Invariance == Spec => [](TypeOK /\ EngineInv)
  BY InitTyped, NextTyped, InitEngineInv, NextEngineInv, PTL DEF Spec

(* What Redis, a snapshot, a settlement or a write under way says is        *)
(* filled, the chain has filled, whatever fails and however many cycles     *)
(* overlap.  (recordFill, syncRemaining, setFilled.)                        *)
THEOREM NeverAhead == Spec => []BookNeverAhead
<1>1. EngineInv => BookNeverAhead
  BY DEF EngineInv, BookNeverAhead, Told, Sound, Confirmed
<1> QED
  BY <1>1, Invariance, PTL

(* No write of the settler brings back an order that was deleted, whichever *)
(* came first.  (setFilled: "must not resurrect".)                          *)
THEOREM StaysDeleted == Spec => []DeletedStaysDeleted
<1>1. EngineInv => DeletedStaysDeleted
  BY DEF EngineInv, KnownInv
<1> QED
  BY <1>1, Invariance, PTL

----------------------------------------------------------------------------
(* Orders in flight                                                        *)

(* The orders a settlement will release itself, or has yet to write of.     *)
Held(job) == IF job.phase = "writing" THEN job.atEnd ELSE {job.bid, job.ask}

(* Each settlement of the queue q holds orders of its own, the writes ws    *)
(* are of yet others, one each, and all of them are among the pending p.    *)
Apart(q, p, ws) ==
    /\ \A k \in DOMAIN q : Held(q[k]) \subseteq p
    /\ \A j, k \in DOMAIN q : j # k => Held(q[j]) \intersect Held(q[k]) = {}
    /\ \A w \in ws : w.id \in p
    /\ \A w \in ws, k \in DOMAIN q : w.id \notin Held(q[k])
    /\ \A v, w \in ws : v.id = w.id => v = w

FlightInv == Apart(queue, pending, writes)

(* Before its last writes a settlement holds both of its orders. *)
LEMMA HeldAhead ==
    ASSUME queue # <<>>, Job.phase # "writing"
    PROVE  Held(Job) = Parties
  BY DEF Held, Parties

(* The running settlement ends and releases what it holds, or nothing. *)
LEMMA ReleaseApart ==
    ASSUME QueueTypeOK, FlightInv, queue # <<>>,
           NEW S, S \subseteq Held(Job), Release(S), writes' \subseteq writes
    PROVE  FlightInv'
<1>1. /\ 1 \in DOMAIN queue /\ Job = queue[1]
      /\ pending' = pending \ S
      /\ \A k \in DOMAIN queue' : k + 1 \in DOMAIN queue /\ k + 1 # 1 /\ queue'[k] = queue[k + 1]
  BY JobType, Released DEF Release, Job
<1>2. DOMAIN queue' \subseteq Int
  BY Released DEF QueueTypeOK, Release
<1>3. ASSUME NEW k \in DOMAIN queue'
      PROVE  /\ Held(queue'[k]) \subseteq pending'
             /\ \A w \in writes' : w.id \notin Held(queue'[k])
  BY <1>1, <1>3 DEF FlightInv, Apart
<1>4. ASSUME NEW j \in DOMAIN queue', NEW k \in DOMAIN queue', j # k
      PROVE  Held(queue'[j]) \intersect Held(queue'[k]) = {}
  <2>1. j + 1 # k + 1
    BY <1>2, <1>4
  <2> QED
    BY <1>1, <2>1 DEF FlightInv, Apart
<1>5. \A w \in writes' : w.id \in pending'
  BY <1>1 DEF FlightInv, Apart
<1>6. \A v, w \in writes' : v.id = w.id => v = w
  BY DEF FlightInv, Apart
<1> QED
  BY <1>3, <1>4, <1>5, <1>6 DEF FlightInv, Apart

(* The running settlement goes on, holds some of its orders still, and      *)
(* issues the writes N of others of them.                                   *)
LEMMA GoesApart ==
    ASSUME QueueTypeOK, FlightInv, queue # <<>>, Job.phase # "writing",
           NEW job \in SettlementType, Continue(job), Held(job) \subseteq Parties \intersect pending',
           pending \ Parties \subseteq pending',
           NEW N, writes' = writes \union N,
           \A w \in N : w.id \in Parties \intersect pending' /\ w.id \notin Held(job),
           \A v, w \in N : v.id = w.id => v = w
    PROVE  FlightInv'
<1>1. /\ 1 \in DOMAIN queue /\ DOMAIN queue' = DOMAIN queue /\ queue'[1] = job
      /\ \A k \in DOMAIN queue : k # 1 => queue'[k] = queue[k]
  BY JobType, Continued
<1>2. Held(queue[1]) = Parties
  BY HeldAhead DEF Job
<1>3. ASSUME NEW k \in DOMAIN queue, k # 1
      PROVE  Held(queue[k]) \intersect Parties = {} /\ Held(queue[k]) \subseteq pending'
  BY <1>1, <1>2, <1>3 DEF FlightInv, Apart
<1>4. \A w \in writes : w.id \in pending' /\ w.id \notin Parties
  BY <1>1, <1>2 DEF FlightInv, Apart
<1>5. \A k \in DOMAIN queue' : Held(queue'[k]) \subseteq pending'
  BY <1>1, <1>3
<1>6. ASSUME NEW j \in DOMAIN queue', NEW k \in DOMAIN queue', j # k
      PROVE  Held(queue'[j]) \intersect Held(queue'[k]) = {}
  <2>1. CASE j # 1 /\ k # 1
    BY <1>1, <1>6, <2>1 DEF FlightInv, Apart
  <2>2. CASE j = 1 \/ k = 1
    BY <1>1, <1>3, <1>6, <2>2
  <2> QED
    BY <2>1, <2>2
<1>7. \A w \in writes' : w.id \in pending'
  BY <1>4
<1>8. ASSUME NEW w \in writes', NEW k \in DOMAIN queue' PROVE w.id \notin Held(queue'[k])
  <2>1. CASE k = 1
    BY <1>1, <1>4, <2>1
  <2>2. CASE k # 1
    BY <1>1, <1>3, <2>2 DEF FlightInv, Apart
  <2> QED
    BY <2>1, <2>2
<1>9. ASSUME NEW v \in writes', NEW w \in writes', v.id = w.id PROVE v = w
  BY <1>4, <1>9 DEF FlightInv, Apart
<1> QED
  BY <1>5, <1>6, <1>7, <1>8, <1>9 DEF FlightInv, Apart

(* A settlement that only goes on takes no order of another's. *)
LEMMA GoesOnApart ==
    ASSUME QueueTypeOK, FlightInv, queue # <<>>, Job.phase # "writing", Parties \subseteq pending,
           NEW job \in SettlementType, Continue(job), Held(job) = Parties,
           UNCHANGED <<pending, writes>>
    PROVE  FlightInv'
<1>1. PICK N : N = {}
  OBVIOUS
<1>2. /\ Held(job) \subseteq Parties \intersect pending' /\ pending \ Parties \subseteq pending'
      /\ writes' = writes \union N
      /\ \A w \in N : w.id \in Parties \intersect pending' /\ w.id \notin Held(job)
      /\ \A v, w \in N : v.id = w.id => v = w
  BY <1>1
<1> QED
  BY <1>2, GoesApart

(* Pruning a set of orders writes of these orders only, of each once. *)
LEMMA PrunesApart ==
    ASSUME NEW S
    PROVE  /\ \A w \in Prunes(S) : w.id \in S
           /\ \A v, w \in Prunes(S) : v.id = w.id => v = w
<1>1. \A i : Removal(i).id = i
  BY DEF Removal
<1>2. ASSUME NEW w \in Prunes(S) PROVE w.id \in S /\ w = Removal(w.id)
  <2>1. PICK i \in S : w = Removal(i)
    BY DEF Prunes
  <2> QED
    BY <1>1, <2>1
<1>3. ASSUME NEW v \in Prunes(S), NEW w \in Prunes(S), v.id = w.id PROVE v = w
  <2>1. v = Removal(v.id) /\ w = Removal(w.id)
    BY <1>2
  <2> QED
    BY <1>3, <2>1
<1> QED
  BY <1>2, <1>3

(* Two settlements of one cycle have no order in common: the walk takes the *)
(* bids in a strict order, and for each an ask that is left.                *)
LEMMA WalkApart ==
    ASSUME NEW snapshot, Snapshot(snapshot), DOMAIN snapshot \subseteq Range(posted),
           posted \in Seq(Ids), NEW out, NEW bad, NEW n \in Nat,
           NEW pairs \in [1 .. n -> Candidates(snapshot, out, bad)],
           IsWalk(pairs, Candidates(snapshot, out, bad)),
           NEW j \in 1 .. n, NEW k \in 1 .. n, j # k
    PROVE  {pairs[j][1], pairs[j][2]} \intersect {pairs[k][1], pairs[k][2]} = {}
<1>1. ASSUME NEW m \in 1 .. n
      PROVE  /\ pairs[m][1] \in DOMAIN snapshot /\ pairs[m][1] \in Ids
             /\ Signed[pairs[m][1]].bid /\ ~Signed[pairs[m][2]].bid
  <2>1. pairs[m] \in Candidates(snapshot, out, bad)
    BY <1>1
  <2> QED
    BY <2>1, CandidateFacts
<1>2. ASSUME NEW i \in Ids, i \in Range(posted) PROVE ~Ahead(i, i)
  <2>1. \E m \in DOMAIN posted : posted[m] = i
    BY <1>2 DEF Range
  <2>2. Stamp(i) \in DOMAIN posted
    BY <2>1 DEF Stamp
  <2>3. Stamp(i) \in Nat
    BY <2>2
  <2>4. Signed[i].price \in Nat
    BY OrderFacts
  <2> QED
    BY <2>3, <2>4 DEF Ahead
<1>3. ASSUME NEW a \in 1 .. n, NEW b \in 1 .. n, a < b
      PROVE  pairs[a][1] # pairs[b][1] /\ pairs[a][2] # pairs[b][2]
  <2>1. Ahead(pairs[a][1], pairs[b][1])
    BY <1>3 DEF IsWalk
  <2>2. pairs[a][1] # pairs[b][1]
    <3>1. pairs[a][1] \in Ids /\ pairs[a][1] \in Range(posted)
      BY <1>1
    <3>2. ~Ahead(pairs[a][1], pairs[a][1])
      BY <1>2, <3>1
    <3> QED
      BY <2>1, <3>2
  <2>3. pairs[b][2] \notin {pairs[m][2] : m \in {l \in DOMAIN pairs : Ahead(pairs[l][1], pairs[b][1])}}
    BY <1>3 DEF IsWalk
  <2> QED
    BY <1>3, <2>1, <2>2, <2>3
<1>4. pairs[j][1] # pairs[k][1] /\ pairs[j][2] # pairs[k][2]
  <2>1. j < k \/ k < j
    OBVIOUS
  <2> QED
    BY <1>3, <2>1
<1>5. pairs[j][1] # pairs[k][2] /\ pairs[j][2] # pairs[k][1]
  BY <1>1
<1> QED
  BY <1>4, <1>5

(* A cycle takes no order that is in flight, nor one order twice. *)
LEMMA MatchesApart ==
    ASSUME TypeOK, EngineInv, FlightInv, NEW c \in Cycles, CycleMatches(c)
    PROVE  FlightInv'
<1>1. PICK n, pairs : HandsOver(c, n, pairs)
  BY CycleShape
<1>2. /\ Snapshot(fetched[c]) /\ DOMAIN fetched[c] \subseteq Range(posted)
      /\ posted \in Seq(Ids) /\ QueueTypeOK /\ writes' = writes
  BY DEF CycleMatches, TypeOK, BookTypeOK, QueueTypeOK, EngineInv, Told
<1> DEFINE new(k) == {pairs[k][1], pairs[k][2]}
           L == Len(queue)
<1>3. /\ DOMAIN queue' = 1 .. (L + n)
      /\ \A k \in DOMAIN queue : queue'[k] = queue[k]
      /\ \A k \in 1 .. n : queue'[L + k] = Settlement(fetched[c], pairs[k][1], pairs[k][2])
  BY <1>1, <1>2, Handed
<1>4. n \in Nat /\ L \in Nat /\ DOMAIN queue = 1 .. L
  BY <1>1, <1>2 DEF HandsOver, QueueTypeOK
<1>5. pending' = pending \union UNION {new(k) : k \in 1 .. n}
  BY <1>1 DEF HandsOver
<1>6. ASSUME NEW k \in 1 .. n PROVE Held(queue'[L + k]) = new(k)
  <2>1. queue'[L + k] = Settlement(fetched[c], pairs[k][1], pairs[k][2])
    BY <1>3, <1>6
  <2>2. Held(Settlement(fetched[c], pairs[k][1], pairs[k][2])) = new(k)
    BY DEF Held, Settlement
  <2> QED
    BY <2>1, <2>2
<1>7. ASSUME NEW k \in 1 .. n PROVE new(k) \intersect pending = {}
  <2>1. pairs[k] \in Candidates(fetched[c], pending, incompatible)
    BY <1>1, <1>7 DEF HandsOver
  <2> QED
    BY <1>2, <2>1, CandidateFacts
<1>8. ASSUME NEW j \in 1 .. n, NEW k \in 1 .. n, j # k PROVE new(j) \intersect new(k) = {}
  <2>1. /\ pairs \in [1 .. n -> Candidates(fetched[c], pending, incompatible)]
        /\ IsWalk(pairs, Candidates(fetched[c], pending, incompatible))
    BY <1>1 DEF HandsOver
  <2> QED
    BY <1>2, <1>4, <1>8, <2>1, WalkApart
<1> HIDE DEF new, L
<1>9. \A k \in DOMAIN queue : Held(queue'[k]) \subseteq pending
  BY <1>3 DEF FlightInv, Apart
<1>10. ASSUME NEW k \in DOMAIN queue'
       PROVE  k \in DOMAIN queue \/ \E m \in 1 .. n : k = L + m
  <2>1. CASE k <= L
    BY <1>3, <1>4, <2>1
  <2>2. CASE ~(k <= L)
    <3>1. k - L \in 1 .. n /\ k = L + (k - L)
      BY <1>3, <1>4, <2>2
    <3> QED
      BY <3>1
  <2> QED
    BY <2>1, <2>2
<1>11. \A k \in DOMAIN queue' : Held(queue'[k]) \subseteq pending'
  BY <1>5, <1>6, <1>9, <1>10
<1>12. ASSUME NEW j \in DOMAIN queue', NEW k \in DOMAIN queue', j # k
       PROVE  Held(queue'[j]) \intersect Held(queue'[k]) = {}
  <2>1. CASE j \in DOMAIN queue /\ k \in DOMAIN queue
    BY <1>3, <1>12, <2>1 DEF FlightInv, Apart
  <2>2. CASE j \in DOMAIN queue /\ \E m \in 1 .. n : k = L + m
    BY <1>6, <1>7, <1>9, <2>2
  <2>3. CASE k \in DOMAIN queue /\ \E m \in 1 .. n : j = L + m
    BY <1>6, <1>7, <1>9, <2>3
  <2>4. CASE (\E m \in 1 .. n : j = L + m) /\ (\E m \in 1 .. n : k = L + m)
    BY <1>6, <1>8, <1>12, <2>4
  <2> QED
    BY <1>10, <2>1, <2>2, <2>3, <2>4
<1>13. ASSUME NEW w \in writes', NEW k \in DOMAIN queue' PROVE w.id \notin Held(queue'[k])
  <2>1. w.id \in pending
    BY <1>2 DEF FlightInv, Apart
  <2>2. CASE k \in DOMAIN queue
    BY <1>2, <1>3, <2>2 DEF FlightInv, Apart
  <2>3. CASE \E m \in 1 .. n : k = L + m
    BY <1>6, <1>7, <2>1, <2>3
  <2> QED
    BY <1>10, <2>2, <2>3
<1>14. /\ \A w \in writes' : w.id \in pending'
       /\ \A v, w \in writes' : v.id = w.id => v = w
  BY <1>2, <1>5 DEF FlightInv, Apart
<1> QED
  BY <1>11, <1>12, <1>13, <1>14 DEF FlightInv, Apart

(* Whatever the settler does next, it stays with its own orders. *)
LEMMA SettlerStaysApart ==
    ASSUME TypeOK, EngineInv, FlightInv, SettlerStep
    PROVE  FlightInv'
<1>1. QueueTypeOK
  BY DEF TypeOK, QueueTypeOK
<1>2. ASSUME queue # <<>>
      PROVE  /\ Job \in SettlementType /\ Job.bid # Job.ask
             /\ Job.phase # "writing" => Job.atEnd = {} /\ Held(Job) = Parties
             /\ Parties \subseteq Ids
             /\ Job.phase # "writing" => Parties \subseteq pending
  <2>1. Job \in SettlementType /\ 1 \in DOMAIN queue
    BY <1>1, <1>2, JobType
  <2>2. Sound(Job, Range(posted), filled, txs) /\ Held(Job) \subseteq pending
    BY <2>1 DEF EngineInv, Job, FlightInv, Apart
  <2> QED
    BY <1>2, <2>1, <2>2, HeldAhead, SettlementFields DEF Sound, Crossed, Parties
<1>3. ASSUME NEW phase \in Phases, phase # "writing",
             queue # <<>>, Job.phase # "writing", Continue([Job EXCEPT !.phase = phase]),
             UNCHANGED <<pending, writes>>
      PROVE  FlightInv'
  <2>1. PICK job : job = [Job EXCEPT !.phase = phase]
    OBVIOUS
  <2>2. job \in SettlementType /\ SameTerms(job, Job) /\ job.phase = phase
    BY <1>2, <1>3, <2>1, Goes
  <2>3. Held(job) = Parties /\ Continue(job)
    BY <1>3, <2>1, <2>2 DEF Held, Parties, SameTerms
  <2>4. Parties \subseteq pending
    BY <1>2, <1>3
  <2> QED
    BY <1>1, <1>3, <2>2, <2>3, <2>4, GoesOnApart
<1>4. ASSUME NEW S, S \in {{}, Parties}, queue # <<>>, Job.phase # "writing",
             Release(S), UNCHANGED writes
      PROVE  FlightInv'
  BY <1>1, <1>2, <1>4, ReleaseApart
<1>5. CASE Validates
  BY <1>3, <1>5 DEF Validates, Running, Phases, engineVars
<1>6. CASE Estimates
  BY <1>3, <1>6 DEF Estimates, Running, Phases, engineVars
<1>7. CASE FindsOrderChanged
  BY <1>3, <1>7 DEF FindsOrderChanged, Running, Phases, engineVars
<1>8. CASE Submits
  <2>1. queue # <<>> /\ Job.phase # "writing" /\ UNCHANGED <<pending, writes>>
        /\ Continue(Waiting(Job, Len(txs) + 1)) /\ Len(txs) + 1 \in Nat
    BY <1>8 DEF Submits, Running, engineVars, Waiting, TypeOK
  <2> DEFINE job == Waiting(Job, Len(txs) + 1)
  <2>2. Job \in SettlementType
    BY <1>2, <2>1
  <2>3. job \in SettlementType /\ SameTerms(job, Job) /\ job.phase = "receipt"
    BY <2>1, <2>2, GoesWaiting
  <2>4. Held(job) = Parties /\ Continue(job)
    BY <2>1, <2>3 DEF Held, Parties, SameTerms
  <2> HIDE DEF job
  <2>5. Parties \subseteq pending
    BY <1>2, <2>1
  <2> QED
    BY <1>1, <2>1, <2>3, <2>4, <2>5, GoesOnApart
<1>9. CASE FindsMarketClosed \/ FindsIncompatible \/ SeesReverted
  BY <1>4, <1>9 DEF FindsMarketClosed, FindsIncompatible, SeesReverted, Running
<1>10. CASE Finishes
  BY <1>1, <1>10, ReleaseApart DEF Finishes, Running, Held
<1>11. CASE \E w \in writes : Write(w)
  <2>1. PICK w \in writes : Write(w)
    BY <1>11
  <2>2. /\ queue' = queue /\ writes' = writes \ {w}
        /\ pending' = pending \/ pending' = pending \ {w.id}
    BY <2>1 DEF Write
  <2>3. \A k \in DOMAIN queue : Held(queue[k]) \subseteq pending'
    BY <2>2 DEF FlightInv, Apart
  <2>4. \A v \in writes' : v.id \in pending'
    BY <2>2 DEF FlightInv, Apart
  <2> QED
    BY <2>2, <2>3, <2>4 DEF FlightInv, Apart
<1>12. CASE SyncsRemaining
  <2> DEFINE seen(i) == IF i = Job.bid THEN Job.seenBid ELSE Job.seenAsk
             known == {i \in Parties : ~Closed(i) /\ OnChain(i) = seen(i)}
             N == Prunes({j \in Parties : Closed(j)})
                   \union {Rewrite(i, OnChain(i)) : i \in {j \in Parties : ~Closed(j) /\ j \notin known}}
  <2>1. /\ queue # <<>> /\ Job.phase # "writing" /\ writes' = writes \union N
        /\ pending' = pending \ known /\ Continue([Job EXCEPT !.phase = "writing"])
    BY <1>12 DEF SyncsRemaining, Running
  <2>2. PICK job : job = [Job EXCEPT !.phase = "writing"]
    OBVIOUS
  <2>3. job \in SettlementType /\ Held(job) = {} /\ Continue(job)
    BY <1>2, <2>1, <2>2, Goes DEF Held, Phases
  <2>4. ASSUME NEW w \in N
        PROVE  /\ w.id \in Parties /\ w.id \notin known
               /\ \/ w = Removal(w.id) /\ Closed(w.id)
                  \/ w = Rewrite(w.id, OnChain(w.id)) /\ ~Closed(w.id)
    <3>1. \A i, n : Removal(i).id = i /\ Rewrite(i, n).id = i
      BY DEF Removal, Rewrite
    <3>2. \/ \E i \in Parties : Closed(i) /\ w = Removal(i)
          \/ \E i \in Parties : ~Closed(i) /\ i \notin known /\ w = Rewrite(i, OnChain(i))
      BY <2>4 DEF Prunes
    <3> HIDE DEF N
    <3>3. ASSUME NEW i \in Parties, Closed(i), w = Removal(i)
          PROVE  w.id = i /\ i \notin known
      BY <3>1, <3>3
    <3>4. ASSUME NEW i \in Parties, ~Closed(i), w = Rewrite(i, OnChain(i))
          PROVE  w.id = i
      BY <3>1, <3>4
    <3> HIDE DEF known
    <3>5. CASE \E i \in Parties : Closed(i) /\ w = Removal(i)
      <4>1. PICK i \in Parties : Closed(i) /\ w = Removal(i)
        BY <3>5
      <4>2. w.id = i /\ i \notin known
        BY <3>3, <4>1
      <4> QED
        BY <4>1, <4>2
    <3>6. CASE \E i \in Parties : ~Closed(i) /\ i \notin known /\ w = Rewrite(i, OnChain(i))
      <4>1. PICK i \in Parties : ~Closed(i) /\ i \notin known /\ w = Rewrite(i, OnChain(i))
        BY <3>6
      <4>2. w.id = i
        BY <3>4, <4>1
      <4> QED
        BY <4>1, <4>2
    <3> QED
      BY <3>2, <3>5, <3>6
  <2>5. \A v, w \in N : v.id = w.id => v = w
    BY <2>4
  <2>6. known \subseteq Parties /\ Parties \subseteq pending
    BY <1>2, <2>1
  <2>7. \A w \in N : w.id \in Parties \intersect pending'
    BY <2>1, <2>4, <2>6
  <2>8. pending \ Parties \subseteq pending'
    BY <2>1, <2>6
  <2> HIDE DEF N, known
  <2> QED
    BY <1>1, <2>1, <2>3, <2>5, <2>7, <2>8, GoesApart
<1>13. CASE SeesFilled
  <2> DEFINE N == {RecordedFill(Job.bid, Job.seenBid, Job.tokens),
                   RecordedFill(Job.ask, Job.seenAsk, Job.tokens)}
  <2>1. /\ queue # <<>> /\ Job.phase # "writing" /\ writes' = writes \union N
        /\ pending' = pending /\ Continue([Job EXCEPT !.phase = "writing"])
    BY <1>13 DEF SeesFilled, Running, engineVars
  <2>2. PICK job : job = [Job EXCEPT !.phase = "writing"]
    OBVIOUS
  <2>3. job \in SettlementType /\ Held(job) = {} /\ Continue(job)
    BY <1>2, <2>1, <2>2, Goes DEF Held, Phases
  <2>4. /\ RecordedFill(Job.bid, Job.seenBid, Job.tokens).id = Job.bid
        /\ RecordedFill(Job.ask, Job.seenAsk, Job.tokens).id = Job.ask
    BY DEF RecordedFill, Removal, Rewrite
  <2>5. Job.bid # Job.ask /\ Parties \subseteq pending'
    BY <1>2, <2>1
  <2>6. \A w \in N : w.id \in Parties \intersect pending'
    BY <2>4, <2>5 DEF Parties
  <2>7. \A v, w \in N : v.id = w.id => v = w
    BY <2>4, <2>5
  <2> HIDE DEF N
  <2> QED
    BY <1>1, <2>1, <2>3, <2>6, <2>7, GoesApart
<1>14. CASE \E S \in SUBSET Ids : LedgerRefusesFill(S)
  <2>1. PICK S \in SUBSET Ids : LedgerRefusesFill(S)
    BY <1>14
  <2>2. queue # <<>> /\ Job.phase # "writing" /\ S \subseteq Parties
    BY <2>1 DEF LedgerRefusesFill, Running
  <2>3. CASE S = {}
    BY <1>4, <2>1, <2>2, <2>3 DEF LedgerRefusesFill
  <2>4. CASE S # {}
    <3> DEFINE job == Ending(Job, Parties \ S)
    <3>1. /\ writes' = writes \union Prunes(S) /\ pending' = pending /\ Continue(job)
      BY <2>1, <2>4 DEF LedgerRefusesFill, Ending
    <3>2. Job \in SettlementType /\ Parties \ S \in SUBSET Ids
      BY <1>2, <2>2
    <3>3. job \in SettlementType /\ job.phase = "writing" /\ job.atEnd = Parties \ S
      BY <3>2, GoesWriting
    <3> HIDE DEF job
    <3>4. Held(job) = Parties \ S
      BY <3>3 DEF Held
    <3>5. Parties \subseteq pending'
      BY <1>2, <2>2, <3>1
    <3>6. /\ \A w \in Prunes(S) : w.id \in S
          /\ \A v, w \in Prunes(S) : v.id = w.id => v = w
      BY PrunesApart
    <3> QED
      BY <1>1, <2>2, <3>1, <3>3, <3>4, <3>5, <3>6, GoesApart
  <2> QED
    BY <2>3, <2>4
<1> QED
  BY <1>5, <1>6, <1>7, <1>8, <1>9, <1>10, <1>11, <1>12, <1>13, <1>14 DEF SettlerStep

(* No step puts an order in flight twice. *)
LEMMA NextApart ==
    ASSUME TypeOK, EngineInv, FlightInv, [Next]_vars
    PROVE  FlightInv'
<1>1. QueueTypeOK
  BY DEF TypeOK, QueueTypeOK
<1>2. CASE UNCHANGED <<queue, pending, writes>>
  BY <1>2 DEF FlightInv, Apart
<1>3. CASE ProcessIsReplaced
  BY <1>3 DEF ProcessIsReplaced, FlightInv, Apart
<1>4. CASE EngineStep
  <2>1. CASE \E c \in Cycles : CycleMatches(c)
    BY <2>1, MatchesApart
  <2> QED
    BY <1>2, <1>4, <2>1 DEF EngineStep, CycleFetches, Expire, settlerVars
<1>5. CASE SettlerStep
  BY <1>5, SettlerStaysApart
<1>6. CASE ChainStep
  BY <1>2, <1>6 DEF ChainStep, Mine, engineVars, settlerVars
<1>7. CASE FaultStep
  <2>1. ASSUME NEW S, S \in {{}, Parties}, queue # <<>>,
               S # {} => Job.phase # "writing", Release(S), writes' \subseteq writes
        PROVE  FlightInv'
    BY <1>1, <2>1, HeldAhead, ReleaseApart
  <2>2. CASE GivesUp
    BY <2>1, <2>2 DEF GivesUp, Running
  <2>3. CASE SubmitsUnanswered
    BY <2>1, <2>3 DEF SubmitsUnanswered, Running
  <2>4. CASE ReceiptUnknown
    BY <2>1, <2>4 DEF ReceiptUnknown, Running
  <2>5. CASE \E w \in writes : WriteFails(w)
    <3>1. CASE UNCHANGED <<queue, pending>>
      BY <2>5, <3>1 DEF WriteFails, FlightInv, Apart
    <3>2. CASE Running("writing") /\ Release({})
      BY <2>1, <2>5, <3>2 DEF WriteFails, Running
    <3> QED
      BY <2>5, <3>1, <3>2 DEF WriteFails
  <2>6. CASE \E c \in Cycles : FetchFails(c)
    BY <1>2, <2>6 DEF FetchFails, settlerVars
  <2>7. CASE \E s \in Services : DirectoryFallsBack(s)
    BY <1>2, <2>7 DEF DirectoryFallsBack, engineVars, settlerVars
  <2>8. CASE EngineRestarts
    BY <1>3, <2>8 DEF EngineRestarts
  <2> QED
    BY <1>7, <2>2, <2>3, <2>4, <2>5, <2>6, <2>7, <2>8 DEF FaultStep
<1>8. CASE SignalArrives
  BY <1>2, <1>8 DEF SignalArrives, engineVars, settlerVars
<1>9. CASE DrainStep
  BY <1>2, <1>3, <1>9 DEF DrainStep, CyclesHaveEnded, Exits, engineVars, settlerVars
<1>10. CASE OutsideStep
  BY <1>2, <1>10 DEF OutsideStep, engineVars, settlerVars
<1>11. CASE UNCHANGED vars
  BY <1>2, <1>11 DEF vars, engineVars, settlerVars
<1> QED
  BY <1>4, <1>5, <1>6, <1>7, <1>8, <1>9, <1>10, <1>11 DEF Next

(* Nothing is in flight at the start. *)
LEMMA InitApart == Init => FlightInv
  BY DEF Init, FlightInv, Apart

(* An order is in at most one settlement that has yet to trade, stays out   *)
(* of matching meanwhile, and does not go into the next one before what the *)
(* last one wrote of it is in Redis.  (pendingSettlement.)                  *)
THEOREM FlightOnce == Spec => []InFlightOnce
<1>1. FlightInv => InFlightOnce
  BY DEF FlightInv, Apart, InFlightOnce, Held
<1>2. FlightInv /\ TypeOK /\ EngineInv /\ [Next]_vars => FlightInv'
  BY NextApart
<1> QED
  BY <1>1, <1>2, InitApart, Invariance, PTL DEF Spec

----------------------------------------------------------------------------
(* What the chain sees, and why orders leave the book                      *)

(* A transaction that executes trades all that both its orders allow.       *)
LEMMA ExecutesTrade ==
    ASSUME TypeOK, EngineInv, NEW k \in DOMAIN txs, Executes(k)
    PROVE  Abstract!Trade
<1> DEFINE t == txs[k]
           b == Signed[t.bid]
           a == Signed[t.ask]
<1>1. filled \in [SignedOrders -> Nat] /\ t \in TxType /\ Crossed(t, Range(posted), filled)
  BY DEF TypeOK, BookTypeOK, EngineInv
<1>2. t.bid \in Ids /\ t.ask \in Ids /\ t.tokens \in Nat \ {0}
  BY <1>1, TxFields
<1>3. /\ b \in SignedOrders /\ a \in SignedOrders
      /\ b.size \in Nat /\ a.size \in Nat /\ b.size = Size(t.bid) /\ a.size = Size(t.ask)
      /\ filled[b] \in Nat /\ filled[a] \in Nat
  BY <1>1, <1>2, OrderFacts DEF Size
<1>4. b.bid /\ ~a.bid /\ b.price >= a.price
  BY <1>1 DEF Crossed, Crosses
<1>5. /\ filled[b] + t.tokens <= b.size /\ filled[a] + t.tokens <= a.size
      /\ filled' = [filled EXCEPT ![b] = @ + t.tokens, ![a] = @ + t.tokens]
  BY <1>3 DEF Executes, RevertOf, Fits
<1>6. b.size - filled[b] <= t.tokens \/ a.size - filled[a] <= t.tokens
  BY <1>1, <1>3 DEF Crossed, Ample
<1> HIDE DEF t, b, a
<1>7. /\ t.tokens = IF Abstract!Left(b) < Abstract!Left(a) THEN Abstract!Left(b) ELSE Abstract!Left(a)
      /\ Abstract!Open(b) /\ Abstract!Open(a)
  BY <1>2, <1>3, <1>5, <1>6 DEF Abstract!Left, Abstract!Open
<1> QED
  BY <1>3, <1>4, <1>5, <1>7 DEF Abstract!Trade

(* Every step of the engine is one of the exchange, or changes nothing of it. *)
LEMMA StepIsExchange ==
    ASSUME TypeOK, EngineInv, [Next]_vars
    PROVE  [Abstract!Next]_filled
<1>1. CASE ChainStep
  BY <1>1, ExecutesTrade DEF ChainStep, Mine, Reverts, Abstract!Next
<1>2. CASE MakerStep
  <2>1. PICK o \in SignedOrders : ClosesOnChain(o)
    BY <1>2 DEF MakerStep
  <2>2. filled[o] \in Nat /\ o.size \in Nat
    BY OrderFacts DEF TypeOK, BookTypeOK, SignedOrders, Size
  <2>3. Abstract!Open(o) /\ filled' = [filled EXCEPT ![o] = o.size]
    BY <2>1, <2>2 DEF ClosesOnChain, Abstract!Open, Abstract!Left
  <2> QED
    BY <2>3 DEF Abstract!Next, Abstract!End
<1> QED
  BY <1>1, <1>2, Frames

(* The book, the engine and the settler together do nothing to the orders   *)
(* on chain that Exchange does not do: each transaction that takes effect   *)
(* is a trade of its own between crossing orders, as large as both allow,   *)
(* whatever was sent twice, lost or forgotten.                              *)
THEOREM RefinesExchange == Spec => ImplementsExchange
<1>1. Init => Abstract!Init
  BY DEF Init, BookInit, Abstract!Init
<1>2. TypeOK /\ EngineInv /\ [Next]_vars => [Abstract!Next]_filled
  BY StepIsExchange
<1> QED
  BY <1>1, <1>2, Invariance, PTL DEF Spec, ImplementsExchange, Abstract!Spec

(* The removal policy, where the ledger refuses nothing: unless its maker   *)
(* deletes it, an order leaves the book only when the chain will fill it no *)
(* more.  (handleRemaining, recordFill, POST /orders/sync.)                 *)
THEOREM OwnStateRemoves ==
    ASSUME ~LedgerRefuses
    PROVE  Spec => RemovedForItsOwnState
<1> DEFINE Leaves == \A i \in DOMAIN book : i \in DOMAIN book' \/ i \in deleted' \/ Closed(i)
<1>1. ASSUME TypeOK, EngineInv, [Next]_vars PROVE Leaves
  <2>1. CASE ServerStep
    <3>1. PICK i \in Ids :
             \/ PostChecks(i) \/ PostRefused(i) \/ PostLists(i)
             \/ book' = Without(i) /\ (deleted' = deleted \union {i} \/ Closed(i))
      BY <2>1, ServerActs
    <3> QED
      BY <3>1 DEF PostChecks, PostRefused, PostLists, Without, Restrict
  <2>2. CASE \E w \in writes : Write(w)
    <3>1. PICK w \in writes : Write(w)
      BY <2>2
    <3>2. w.gone => Closed(w.id)
      BY <1>1 DEF EngineInv, Confirmed, Closed
    <3> QED
      BY <3>1, <3>2 DEF Write, Without, Restrict
  <2> QED
    BY <1>1, <2>1, <2>2, Frames
<1> HIDE DEF Leaves
<1>2. Spec => [][Leaves]_vars
  BY <1>1, Invariance, PTL DEF Spec
<1> QED
  BY <1>2 DEF RemovedForItsOwnState, Leaves

----------------------------------------------------------------------------
(* Nothing stays pending for nobody                                        *)

(* A settlement of the queue q will release the order, or a write of ws     *)
(* will, or takes it off the book.                                          *)
Awaited(i, q, ws) ==
    \/ \E k \in DOMAIN q : i \in Held(q[k])
    \/ \E w \in ws : w.id = i

WedgeInv ==
    /\ pending \subseteq Range(posted)
    /\ \A i \in pending \intersect DOMAIN book : Awaited(i, queue, writes)

(* Only a cycle puts an order in flight. *)
LEMMA PendingMoves ==
    ASSUME [Next]_vars
    PROVE  pending' \subseteq pending \/ \E c \in Cycles : CycleMatches(c)
<1> USE DEF engineVars, settlerVars, boundVars
<1>1. CASE EngineStep
  BY <1>1 DEF EngineStep, CycleFetches, Expire
<1>2. CASE SettlerStep
  BY <1>2, Zenon DEF SettlerStep, Validates, FindsMarketClosed, Estimates, FindsIncompatible,
         FindsOrderChanged, LedgerRefusesFill, SyncsRemaining, SeesFilled, SeesReverted, Finishes,
         Write, Submits, Release
<1>3. CASE ChainStep
  BY <1>3 DEF ChainStep, Mine
<1>4. CASE FaultStep
  BY <1>4, Zenon DEF FaultStep, GivesUp, SubmitsUnanswered, ReceiptUnknown, WriteFails, FetchFails,
         DirectoryFallsBack, EngineRestarts, ProcessIsReplaced, Release
<1>5. CASE SignalArrives \/ DrainStep
  BY <1>5 DEF SignalArrives, DrainStep, CyclesHaveEnded, Exits, ProcessIsReplaced
<1>6. CASE OutsideStep \/ UNCHANGED vars
  BY <1>6 DEF OutsideStep, vars
<1> QED
  BY <1>1, <1>2, <1>3, <1>4, <1>5, <1>6 DEF Next

(* What is in flight has been posted. *)
LEMMA PendingKnown ==
    ASSUME TypeOK, EngineInv, WedgeInv, [Next]_vars
    PROVE  pending' \subseteq Range(posted')
<1>1. pending \subseteq Range(posted')
  BY Grows DEF WedgeInv
<1>2. CASE \E c \in Cycles : CycleMatches(c)
  <2>1. PICK c \in Cycles : CycleMatches(c)
    BY <1>2
  <2>2. PICK n, pairs : HandsOver(c, n, pairs)
    BY <2>1, CycleShape
  <2>3. Snapshot(fetched[c]) /\ DOMAIN fetched[c] \subseteq Range(posted)
    BY <2>1 DEF CycleMatches, TypeOK, EngineInv, Told
  <2>4. ASSUME NEW k \in 1 .. n PROVE {pairs[k][1], pairs[k][2]} \subseteq Range(posted)
    <3>1. pairs[k] \in Candidates(fetched[c], pending, incompatible)
      BY <2>2, <2>4 DEF HandsOver
    <3> QED
      BY <2>3, <3>1, CandidateFacts
  <2>5. pending' = pending \union UNION {{pairs[k][1], pairs[k][2]} : k \in 1 .. n}
    BY <2>2 DEF HandsOver
  <2> QED
    BY <1>1, <2>4, <2>5, Grows
<1> QED
  BY <1>1, <1>2, PendingMoves

(* When the running settlement ends, the others move up unchanged. *)
LEMMA TailKeeps ==
    ASSUME QueueTypeOK, queue # <<>>, queue' = Tail(queue), NEW k \in DOMAIN queue, k # 1
    PROVE  k - 1 \in DOMAIN queue' /\ queue'[k - 1] = queue[k]
  BY DEF QueueTypeOK

(* A settlement that ends has released, or written of, what it held. *)
LEMMA ReleaseAwaited ==
    ASSUME QueueTypeOK, WedgeInv, queue # <<>>, Release(Held(Job)), writes' = writes,
           NEW i \in pending' \intersect DOMAIN book
    PROVE  Awaited(i, queue', writes')
<1>1. i \in pending /\ i \notin Held(Job) /\ queue' = Tail(queue)
  BY DEF Release
<1>2. Awaited(i, queue, writes)
  BY <1>1 DEF WedgeInv
<1>3. ASSUME NEW k \in DOMAIN queue, i \in Held(queue[k])
      PROVE  \E j \in DOMAIN queue' : i \in Held(queue'[j])
  <2>1. k # 1
    BY <1>1, <1>3 DEF Job
  <2> QED
    BY <1>1, <1>3, <2>1, TailKeeps
<1> QED
  BY <1>2, <1>3 DEF Awaited

(* One that goes on holds, or writes of, what it does not release. *)
LEMMA GoesAwaited ==
    ASSUME QueueTypeOK, WedgeInv, queue # <<>>,
           NEW job \in SettlementType, Continue(job), writes \subseteq writes',
           NEW i \in pending \intersect DOMAIN book,
           i \in Held(Job) => i \in Held(job) \/ \E w \in writes' : w.id = i
    PROVE  Awaited(i, queue', writes')
<1>1. /\ 1 \in DOMAIN queue /\ DOMAIN queue' = DOMAIN queue /\ queue'[1] = job
      /\ \A k \in DOMAIN queue : k # 1 => queue'[k] = queue[k]
  BY JobType, Continued
<1>2. Awaited(i, queue, writes)
  BY DEF WedgeInv
<1>3. ASSUME NEW k \in DOMAIN queue, i \in Held(queue[k])
      PROVE  Awaited(i, queue', writes')
  <2>1. CASE k = 1
    BY <1>1, <1>3, <2>1 DEF Job, Awaited
  <2>2. CASE k # 1
    BY <1>1, <1>3, <2>2 DEF Awaited
  <2> QED
    BY <2>1, <2>2
<1> QED
  BY <1>2, <1>3 DEF Awaited

(* What is known of the settlement that runs. *)
LEMMA JobFacts ==
    ASSUME TypeOK, EngineInv, queue # <<>>
    PROVE  /\ QueueTypeOK /\ Job \in SettlementType /\ 1 \in DOMAIN queue
           /\ Sound(Job, Range(posted), filled, txs)
           /\ Parties \subseteq Ids /\ Job.bid # Job.ask
           /\ Job.phase # "writing" => Held(Job) = Parties
<1>1. QueueTypeOK
  BY DEF TypeOK, QueueTypeOK
<1>2. Job \in SettlementType /\ 1 \in DOMAIN queue
  BY <1>1, JobType
<1>3. Sound(Job, Range(posted), filled, txs)
  BY <1>2 DEF EngineInv, Job
<1> QED
  BY <1>1, <1>2, <1>3, HeldAhead, SettlementFields DEF Sound, Crossed, Parties

(* Whatever the settler does, an order in flight has someone to release it. *)
LEMMA SettlerAwaited ==
    ASSUME TypeOK, EngineInv, WedgeInv, SettlerStep, NEW i \in pending' \intersect DOMAIN book'
    PROVE  Awaited(i, queue', writes')
<1> USE DEF bookVars, engineVars
<1>1. ASSUME NEW phase \in Phases, phase # "writing",
             queue # <<>>, Job.phase # "writing", Continue([Job EXCEPT !.phase = phase]),
             UNCHANGED <<book, pending, writes>>
      PROVE  Awaited(i, queue', writes')
  <2>1. PICK job : job = [Job EXCEPT !.phase = phase]
    OBVIOUS
  <2>2. job \in SettlementType /\ SameTerms(job, Job) /\ job.phase = phase
    BY <1>1, <2>1, JobFacts, Goes
  <2>3. Held(job) = Parties /\ Held(Job) = Parties /\ Continue(job)
    BY <1>1, <2>1, <2>2, HeldAhead DEF Held, Parties, SameTerms
  <2> QED
    BY <1>1, <2>2, <2>3, JobFacts, GoesAwaited
<1>2. ASSUME queue # <<>>, Job.phase # "writing", Release(Parties), UNCHANGED <<book, writes>>
      PROVE  Awaited(i, queue', writes')
  BY <1>2, JobFacts, ReleaseAwaited
<1>3. CASE Validates
  BY <1>1, <1>3 DEF Validates, Running, Phases
<1>4. CASE Estimates
  BY <1>1, <1>4 DEF Estimates, Running, Phases
<1>5. CASE FindsOrderChanged
  BY <1>1, <1>5 DEF FindsOrderChanged, Running, Phases
<1>6. CASE Submits
  <2> DEFINE job == Waiting(Job, Len(txs) + 1)
  <2>1. /\ queue # <<>> /\ Job.phase # "writing" /\ UNCHANGED <<book, pending, writes>>
        /\ Continue(job) /\ Len(txs) + 1 \in Nat
    BY <1>6 DEF Submits, Running, Waiting, TypeOK
  <2>2. job \in SettlementType /\ SameTerms(job, Job) /\ job.phase = "receipt"
    BY <2>1, JobFacts, GoesWaiting
  <2> HIDE DEF job
  <2>3. Held(job) = Parties /\ Held(Job) = Parties
    BY <2>1, <2>2, HeldAhead DEF Held, Parties, SameTerms
  <2> QED
    BY <2>1, <2>2, <2>3, JobFacts, GoesAwaited
<1>7. CASE FindsMarketClosed \/ FindsIncompatible \/ SeesReverted
  BY <1>2, <1>7 DEF FindsMarketClosed, FindsIncompatible, SeesReverted, Running
<1>8. CASE Finishes
  <2>1. queue # <<>> /\ Release(Held(Job)) /\ UNCHANGED <<book, writes>>
    BY <1>8 DEF Finishes, Running, Held
  <2> QED
    BY <2>1, JobFacts, ReleaseAwaited
<1>9. CASE \E w \in writes : Write(w)
  <2>1. PICK w \in writes : Write(w)
    BY <1>9
  <2>2. /\ queue' = queue /\ writes' = writes \ {w} /\ i # w.id
        /\ i \in pending \intersect DOMAIN book
    BY <2>1 DEF Write, Without, Restrict
  <2>3. Awaited(i, queue, writes)
    BY <2>2 DEF WedgeInv
  <2> QED
    BY <2>2, <2>3 DEF Awaited
<1>10. CASE SyncsRemaining
  <2> DEFINE seen(j) == IF j = Job.bid THEN Job.seenBid ELSE Job.seenAsk
             known == {j \in Parties : ~Closed(j) /\ OnChain(j) = seen(j)}
  <2>1. /\ queue # <<>> /\ Job.phase # "writing" /\ Continue([Job EXCEPT !.phase = "writing"])
        /\ writes' = writes \union Prunes({j \in Parties : Closed(j)})
             \union {Rewrite(j, OnChain(j)) : j \in {l \in Parties : ~Closed(l) /\ l \notin known}}
        /\ pending' = pending \ known /\ book' = book
    BY <1>10 DEF SyncsRemaining, Running
  <2>2. \A j, n : Removal(j).id = j /\ Rewrite(j, n).id = j
    BY DEF Removal, Rewrite
  <2> HIDE DEF known
  <2>3. i \in Parties => \E w \in writes' : w.id = i
    <3>1. ASSUME i \in Parties, Closed(i) PROVE Removal(i) \in writes'
      BY <2>1, <3>1 DEF Prunes
    <3>2. ASSUME i \in Parties, ~Closed(i) PROVE Rewrite(i, OnChain(i)) \in writes'
      BY <2>1, <3>2
    <3> QED
      BY <2>2, <3>1, <3>2
  <2>4. PICK job : job = [Job EXCEPT !.phase = "writing"]
    OBVIOUS
  <2>5. job \in SettlementType /\ Continue(job)
    BY <2>1, <2>4, JobFacts, Goes DEF Phases
  <2>6. Held(Job) = Parties /\ writes \subseteq writes' /\ i \in pending \intersect DOMAIN book
    BY <2>1, HeldAhead
  <2> QED
    BY <2>1, <2>3, <2>5, <2>6, JobFacts, GoesAwaited
<1>11. CASE SeesFilled
  <2>1. /\ queue # <<>> /\ Job.phase # "writing" /\ Continue([Job EXCEPT !.phase = "writing"])
        /\ writes' = writes \union {RecordedFill(Job.bid, Job.seenBid, Job.tokens),
                                    RecordedFill(Job.ask, Job.seenAsk, Job.tokens)}
        /\ UNCHANGED <<book, pending>>
    BY <1>11 DEF SeesFilled, Running
  <2>2. /\ RecordedFill(Job.bid, Job.seenBid, Job.tokens).id = Job.bid
        /\ RecordedFill(Job.ask, Job.seenAsk, Job.tokens).id = Job.ask
    BY DEF RecordedFill, Removal, Rewrite
  <2>3. i \in Parties => \E w \in writes' : w.id = i
    BY <2>1, <2>2 DEF Parties
  <2>4. PICK job : job = [Job EXCEPT !.phase = "writing"]
    OBVIOUS
  <2>5. job \in SettlementType /\ Continue(job)
    BY <2>1, <2>4, JobFacts, Goes DEF Phases
  <2>6. Held(Job) = Parties /\ writes \subseteq writes' /\ i \in pending \intersect DOMAIN book
    BY <2>1, HeldAhead
  <2> QED
    BY <2>1, <2>3, <2>5, <2>6, JobFacts, GoesAwaited
<1>12. CASE \E S \in SUBSET Ids : LedgerRefusesFill(S)
  <2>1. PICK S \in SUBSET Ids : LedgerRefusesFill(S)
    BY <1>12
  <2>2. queue # <<>> /\ Job.phase # "writing" /\ S \subseteq Parties /\ book' = book
    BY <2>1 DEF LedgerRefusesFill, Running
  <2>3. CASE S = {}
    BY <1>2, <2>1, <2>2, <2>3 DEF LedgerRefusesFill
  <2>4. CASE S # {}
    <3> DEFINE job == Ending(Job, Parties \ S)
    <3>1. /\ writes' = writes \union Prunes(S) /\ pending' = pending /\ Continue(job)
      BY <2>1, <2>4 DEF LedgerRefusesFill, Ending
    <3>2. Job \in SettlementType /\ Parties \ S \in SUBSET Ids
      BY <2>2, JobFacts
    <3>3. job \in SettlementType /\ job.phase = "writing" /\ job.atEnd = Parties \ S
      BY <3>2, GoesWriting
    <3> HIDE DEF job
    <3>4. Held(job) = Parties \ S
      BY <3>3 DEF Held
    <3>5. \A j \in S : \E w \in writes' : w.id = j
      <4>1. \A j : Removal(j).id = j
        BY DEF Removal
      <4> QED
        BY <3>1, <4>1 DEF Prunes
    <3>6. Held(Job) = Parties /\ writes \subseteq writes' /\ i \in pending \intersect DOMAIN book
      BY <2>2, <3>1, HeldAhead
    <3> QED
      BY <2>2, <3>1, <3>3, <3>4, <3>5, <3>6, JobFacts, GoesAwaited
  <2> QED
    BY <2>3, <2>4
<1> QED
  BY <1>3, <1>4, <1>5, <1>6, <1>7, <1>8, <1>9, <1>10, <1>11, <1>12 DEF SettlerStep

(* No receipt is given up on and no write refused: those are the two ways   *)
(* in which a settlement ends with an order of its left to nobody.          *)
LEMMA NextWedge ==
    ASSUME Faults \intersect {"no_receipt", "redis"} = {}, TypeOK, EngineInv, WedgeInv, [Next]_vars
    PROVE  WedgeInv'
<1> USE DEF bookVars, engineVars, settlerVars
<1> SUFFICES ASSUME NEW i \in pending' \intersect DOMAIN book'
             PROVE  Awaited(i, queue', writes')
  BY PendingKnown DEF WedgeInv
<1>1. CASE UNCHANGED <<queue, pending, writes>> /\ (UNCHANGED book \/ ServerStep)
  <2>1. i \in DOMAIN book
    <3>1. CASE ServerStep
      <4>1. PICK j \in Ids : PostChecks(j) \/ PostRefused(j) \/ PostLists(j) \/ book' = Without(j)
        BY <3>1, ServerActs
      <4>2. i \in Range(posted)
        BY <1>1 DEF WedgeInv
      <4>3. PostLists(j) => j # i
        BY <4>2 DEF PostLists, EngineInv, KnownInv
      <4> QED
        BY <4>1, <4>3 DEF PostChecks, PostRefused, PostLists, Without, Restrict
    <3> QED
      BY <1>1, <3>1
  <2> QED
    BY <1>1, <2>1 DEF WedgeInv
<1>2. CASE ProcessIsReplaced
  BY <1>2 DEF ProcessIsReplaced
<1>3. CASE EngineStep
  <2>1. CASE \E c \in Cycles : CycleMatches(c)
    <3>1. PICK c \in Cycles : CycleMatches(c)
      BY <2>1
    <3>2. PICK n, pairs : HandsOver(c, n, pairs)
      BY <3>1, CycleShape
    <3>3. Snapshot(fetched[c]) /\ QueueTypeOK /\ UNCHANGED <<book, writes>>
      BY <3>1 DEF CycleMatches, TypeOK, QueueTypeOK
    <3>4. /\ DOMAIN queue' = 1 .. (Len(queue) + n)
          /\ \A k \in DOMAIN queue : queue'[k] = queue[k]
          /\ \A k \in 1 .. n : queue'[Len(queue) + k] = Settlement(fetched[c], pairs[k][1], pairs[k][2])
      BY <3>2, <3>3, Handed
    <3>5. n \in Nat /\ Len(queue) \in Nat /\ DOMAIN queue = 1 .. Len(queue)
      BY <3>2, <3>3 DEF HandsOver, QueueTypeOK
    <3>6. pending' = pending \union UNION {{pairs[k][1], pairs[k][2]} : k \in 1 .. n}
      BY <3>2 DEF HandsOver
    <3>7. CASE i \in pending
      <4>1. Awaited(i, queue, writes)
        BY <3>3, <3>7 DEF WedgeInv
      <4> QED
        BY <3>3, <3>4, <3>5, <4>1 DEF Awaited
    <3>8. CASE i \notin pending
      <4>1. PICK k \in 1 .. n : i \in {pairs[k][1], pairs[k][2]}
        BY <3>6, <3>8
      <4>2. Held(Settlement(fetched[c], pairs[k][1], pairs[k][2])) = {pairs[k][1], pairs[k][2]}
        BY DEF Held, Settlement
      <4>3. Len(queue) + k \in DOMAIN queue' /\ i \in Held(queue'[Len(queue) + k])
        BY <3>4, <3>5, <4>1, <4>2
      <4> QED
        BY <4>3 DEF Awaited
    <3> QED
      BY <3>7, <3>8
  <2> QED
    BY <1>1, <1>3, <2>1 DEF EngineStep, CycleFetches, Expire
<1>4. CASE SettlerStep
  BY <1>4, SettlerAwaited
<1>5. CASE ChainStep
  BY <1>1, <1>5 DEF ChainStep, Mine
<1>6. CASE FaultStep
  <2>1. ASSUME queue # <<>>, Job.phase # "writing", Release(Parties), UNCHANGED <<book, writes>>
        PROVE  Awaited(i, queue', writes')
    BY <2>1, JobFacts, ReleaseAwaited
  <2>2. CASE GivesUp
    BY <2>1, <2>2 DEF GivesUp, Running
  <2>3. CASE SubmitsUnanswered
    BY <2>1, <2>3 DEF SubmitsUnanswered, Running
  <2>4. CASE ReceiptUnknown \/ \E w \in writes : WriteFails(w)
    BY <2>4 DEF ReceiptUnknown, WriteFails, Fault
  <2>5. CASE \E c \in Cycles : FetchFails(c)
    BY <1>1, <2>5 DEF FetchFails
  <2>6. CASE \E s \in Services : DirectoryFallsBack(s)
    BY <1>1, <2>6 DEF DirectoryFallsBack
  <2>7. CASE EngineRestarts
    BY <1>2, <2>7 DEF EngineRestarts
  <2> QED
    BY <1>6, <2>2, <2>3, <2>4, <2>5, <2>6, <2>7 DEF FaultStep
<1>7. CASE SignalArrives
  BY <1>1, <1>7 DEF SignalArrives
<1>8. CASE DrainStep
  BY <1>1, <1>2, <1>8 DEF DrainStep, CyclesHaveEnded, Exits
<1>9. CASE OutsideStep
  BY <1>1, <1>9 DEF OutsideStep, MakerStep, ClosesOnChain, DirectoryStep, Refreshes
<1>10. CASE UNCHANGED vars
  BY <1>1, <1>10 DEF vars
<1> QED
  BY <1>3, <1>4, <1>5, <1>6, <1>7, <1>8, <1>9, <1>10 DEF Next

(* Where the chain answers for what was sent and Redis takes what is        *)
(* written, no order of the book stays out of matching with no settlement   *)
(* or write to release it, whatever else fails: an attempt that ends        *)
(* without the order leaving the book releases it.  (engine.ts:53-57.)      *)
THEOREM NoneWedged ==
    ASSUME Faults \intersect {"no_receipt", "redis"} = {}
    PROVE  Spec => []NothingWedged
<1>1. Init => WedgeInv
  BY DEF Init, BookInit, WedgeInv, Range
<1>2. WedgeInv /\ TypeOK /\ EngineInv /\ [Next]_vars => WedgeInv'
  BY NextWedge
<1>3. EngineInv /\ WedgeInv => NothingWedged
  <2> SUFFICES ASSUME EngineInv, WedgeInv, NEW i \in pending \intersect DOMAIN book
               PROVE  \/ \E k \in DOMAIN queue : i \in {queue[k].bid, queue[k].ask}
                      \/ \E w \in writes : w.id = i
    BY DEF NothingWedged
  <2>1. \A k \in DOMAIN queue : Held(queue[k]) \subseteq {queue[k].bid, queue[k].ask}
    BY DEF EngineInv, Sound, Held
  <2> QED
    BY <2>1 DEF WedgeInv, Awaited
<1> QED
  BY <1>1, <1>2, <1>3, Invariance, PTL DEF Spec

----------------------------------------------------------------------------
(* A redeployment                                                          *)

(* A fill is in the book b, or the writes ws will put it there. *)
Recorded(i, b, ws) ==
    \/ \E w \in ws : w.id = i
    \/ i \in DOMAIN b => b[i] > 0

Settled(t, b, ws) ==
    /\ t.status # "sent"
    /\ t.status = "filled" => Recorded(t.bid, b, ws) /\ Recorded(t.ask, b, ws)

(* While nothing has failed, what is being written or mined is the running  *)
(* settlement's.                                                            *)
DrainInv ==
    faults = 0 =>
        /\ \A w \in writes : Running("writing") /\ w.id \in Parties
        /\ \A k \in DOMAIN txs :
             \/ Settled(txs[k], book, writes)
             \/ Running("receipt") /\ Job.tx = k

(* Neither the server nor a further write undoes the record of a fill. *)
LEMMA RecordedStays ==
    ASSUME TypeOK, EngineInv, NEW i \in Range(posted), UNCHANGED book \/ ServerStep,
           writes \subseteq writes', Recorded(i, book, writes)
    PROVE  Recorded(i, book', writes')
<1>1. CASE ServerStep
  <2>1. PICK j \in Ids : PostChecks(j) \/ PostRefused(j) \/ PostLists(j) \/ book' = Without(j)
    BY <1>1, ServerActs
  <2>2. PostLists(j) => j # i
    BY DEF PostLists, EngineInv, KnownInv
  <2>3. i \in DOMAIN book' => i \in DOMAIN book /\ book'[i] = book[i]
    BY <2>1, <2>2 DEF PostChecks, PostRefused, PostLists, Without, Restrict
  <2> QED
    BY <2>3 DEF Recorded
<1> QED
  BY <1>1 DEF Recorded

(* Neither the server nor a further write unsettles what is mined. *)
LEMMA SettledStays ==
    ASSUME TypeOK, EngineInv, UNCHANGED book \/ ServerStep, writes \subseteq writes',
           NEW k \in DOMAIN txs, Settled(txs[k], book, writes)
    PROVE  Settled(txs[k], book', writes')
<1>1. txs[k].bid \in Range(posted) /\ txs[k].ask \in Range(posted)
  BY DEF EngineInv, Crossed
<1> QED
  BY <1>1, RecordedStays DEF Settled

(* Between two settlements, or while one has yet to submit. *)
LEMMA NothingOut ==
    ASSUME DrainInv, faults = 0, ~Running("writing")
    PROVE  /\ writes = {}
           /\ ~Running("receipt") => \A k \in DOMAIN txs : Settled(txs[k], book, writes)
  BY DEF DrainInv

(* The part of it that says where the writes and transactions stand. *)
LEMMA StaysDrained ==
    ASSUME TypeOK, EngineInv, UNCHANGED <<book, txs, writes>>,
           \A k \in DOMAIN txs : Settled(txs[k], book, writes), writes = {}
    PROVE  DrainInv'
  BY DEF DrainInv

(* Whatever the settler does next, every fill is recorded or will be. *)
LEMMA SettlerDrains ==
    ASSUME TypeOK, EngineInv, DrainInv, faults = 0, SettlerStep
    PROVE  DrainInv'
<1> USE DEF bookVars, engineVars, settlerVars, boundVars
<1>1. ASSUME queue # <<>>, Job.phase \notin {"writing", "receipt"}, UNCHANGED <<book, txs, writes>>
      PROVE  DrainInv'
  BY <1>1, NothingOut, StaysDrained DEF Running
<1>2. ASSUME queue # <<>>, Job.phase # "writing",
             NEW job \in SettlementType, Continue(job), job.phase = "writing", SameTerms(job, Job),
             NEW N, writes' = writes \union N, UNCHANGED <<book, txs>>,
             \A w \in N : w.id \in Parties,
             \A k \in DOMAIN txs : Settled(txs[k], book, writes')
      PROVE  DrainInv'
  <2>1. queue' # <<>> /\ queue'[1] = job
    BY <1>2, JobFacts, Continued
  <2>2. Running("writing")' /\ Parties' = Parties
    BY <1>2, <2>1 DEF Running, Job, Parties, SameTerms
  <2>3. (faults = 0) => writes = {}
    BY <1>2, NothingOut DEF Running
  <2>4. \A w \in writes' : w.id \in Parties
    BY <1>2, <2>3
  <2> QED
    BY <1>2, <2>2, <2>4 DEF DrainInv
<1>3. CASE Validates \/ Estimates \/ FindsOrderChanged \/ FindsMarketClosed \/ FindsIncompatible
  BY <1>1, <1>3 DEF Validates, Estimates, FindsOrderChanged, FindsMarketClosed, FindsIncompatible, Running
<1>4. CASE \E S \in SUBSET Ids : LedgerRefusesFill(S)
  <2>1. PICK S \in SUBSET Ids : LedgerRefusesFill(S)
    BY <1>4
  <2>2. /\ queue # <<>> /\ Job.phase = "estimate" /\ S \subseteq Parties /\ UNCHANGED <<book, txs>>
    BY <2>1 DEF LedgerRefusesFill, Running
  <2>3. CASE S = {}
    BY <1>1, <2>1, <2>2, <2>3 DEF LedgerRefusesFill
  <2>4. CASE S # {}
    <3> DEFINE job == Ending(Job, Parties \ S)
    <3>1. writes' = writes \union Prunes(S) /\ Continue(job)
      BY <2>1, <2>4 DEF LedgerRefusesFill, Ending
    <3>2. Job \in SettlementType /\ Parties \ S \in SUBSET Ids
      BY <2>2, JobFacts
    <3>3. job \in SettlementType /\ job.phase = "writing" /\ SameTerms(job, Job)
      BY <3>2, GoesWriting
    <3>4. \A w \in Prunes(S) : w.id \in Parties
      BY <2>2, PrunesApart
    <3>5. \A k \in DOMAIN txs : Settled(txs[k], book, writes)
      BY <2>2, NothingOut DEF Running
    <3>6. \A k \in DOMAIN txs : Settled(txs[k], book, writes')
      BY <3>1, <3>5 DEF Settled, Recorded
    <3> HIDE DEF job
    <3> QED
      BY <1>2, <2>2, <3>1, <3>3, <3>4, <3>6
  <2> QED
    BY <2>3, <2>4
<1>5. CASE SyncsRemaining
  <2> DEFINE seen(j) == IF j = Job.bid THEN Job.seenBid ELSE Job.seenAsk
             known == {j \in Parties : ~Closed(j) /\ OnChain(j) = seen(j)}
             N == Prunes({j \in Parties : Closed(j)})
                   \union {Rewrite(j, OnChain(j)) : j \in {l \in Parties : ~Closed(l) /\ l \notin known}}
  <2>1. /\ queue # <<>> /\ Job.phase = "remaining" /\ Continue([Job EXCEPT !.phase = "writing"])
        /\ writes' = writes \union N /\ UNCHANGED <<book, txs>>
    BY <1>5 DEF SyncsRemaining, Running
  <2>2. \A w \in N : w.id \in Parties
    <3>1. \A j, n : Removal(j).id = j /\ Rewrite(j, n).id = j
      BY DEF Removal, Rewrite
    <3> QED
      BY <3>1 DEF Prunes
  <2> HIDE DEF N, known
  <2>3. PICK job : job = [Job EXCEPT !.phase = "writing"]
    OBVIOUS
  <2>4. job \in SettlementType /\ Continue(job) /\ job.phase = "writing" /\ SameTerms(job, Job)
    BY <2>1, <2>3, JobFacts, Goes DEF Phases
  <2>5. \A k \in DOMAIN txs : Settled(txs[k], book, writes)
    BY <2>1, NothingOut DEF Running
  <2>6. \A k \in DOMAIN txs : Settled(txs[k], book, writes')
    BY <2>1, <2>5 DEF Settled, Recorded
  <2> QED
    BY <1>2, <2>1, <2>2, <2>4, <2>6
<1>6. CASE Submits
  <2> DEFINE job == Waiting(Job, Len(txs) + 1)
  <2>1. /\ queue # <<>> /\ Job.phase = "submit" /\ UNCHANGED <<book, writes>>
        /\ Continue(job) /\ Len(txs) + 1 \in Nat
    BY <1>6 DEF Submits, Running, Waiting, TypeOK
  <2>2. job \in SettlementType /\ job.phase = "receipt" /\ job.tx = Len(txs) + 1
    BY <2>1, JobFacts, GoesWaiting
  <2> HIDE DEF job
  <2>3. PICK t \in TxType : txs' = Append(txs, t)
    BY <1>6, Broadcast
  <2>4. /\ writes = {} /\ \A k \in DOMAIN txs : Settled(txs[k], book, writes)
    BY <2>1, NothingOut DEF Running
  <2>5. queue' # <<>> /\ queue'[1] = job
    BY <2>1, <2>2, JobFacts, Continued
  <2>6. ASSUME NEW k \in DOMAIN txs'
        PROVE  k = Len(txs) + 1 \/ (k \in DOMAIN txs /\ txs'[k] = txs[k])
    <3>1. txs \in Seq(TxType)
      BY DEF TypeOK
    <3>2. Len(txs) \in Nat /\ DOMAIN txs = 1 .. Len(txs) /\ DOMAIN txs' = 1 .. Len(txs) + 1
      BY <2>3, <3>1
    <3>3. \A j \in DOMAIN txs : txs'[j] = txs[j]
      BY <2>3, <3>1
    <3> QED
      BY <2>6, <3>2, <3>3
  <2>7. ASSUME NEW k \in DOMAIN txs'
        PROVE  Settled(txs'[k], book', writes') \/ (queue' # <<>> /\ queue'[1].phase = "receipt" /\ queue'[1].tx = k)
    BY <2>1, <2>2, <2>4, <2>5, <2>6
  <2> QED
    BY <2>1, <2>4, <2>7 DEF DrainInv, Running, Job
<1>7. CASE SeesFilled
  <2> DEFINE N == {RecordedFill(Job.bid, Job.seenBid, Job.tokens),
                   RecordedFill(Job.ask, Job.seenAsk, Job.tokens)}
  <2>1. /\ queue # <<>> /\ Job.phase = "receipt" /\ Continue([Job EXCEPT !.phase = "writing"])
        /\ writes' = writes \union N /\ UNCHANGED <<book, txs>>
    BY <1>7 DEF SeesFilled, Running
  <2>2. /\ RecordedFill(Job.bid, Job.seenBid, Job.tokens).id = Job.bid
        /\ RecordedFill(Job.ask, Job.seenAsk, Job.tokens).id = Job.ask
    BY DEF RecordedFill, Removal, Rewrite
  <2>3. \A w \in N : w.id \in Parties
    BY <2>2 DEF Parties
  <2>4. /\ Job.tx \in DOMAIN txs /\ txs[Job.tx].bid = Job.bid /\ txs[Job.tx].ask = Job.ask
        /\ txs[Job.tx].status = "filled"
    BY <1>7, <2>1, JobFacts DEF Sound, Sent, SeesFilled
  <2>5. ASSUME NEW k \in DOMAIN txs PROVE Settled(txs[k], book, writes')
    <3>1. CASE k = Job.tx
      BY <2>1, <2>2, <2>4, <3>1 DEF Settled, Recorded
    <3>2. CASE k # Job.tx
      BY <2>1, <3>2 DEF DrainInv, Settled, Recorded
    <3> QED
      BY <3>1, <3>2
  <2> HIDE DEF N
  <2>6. PICK job : job = [Job EXCEPT !.phase = "writing"]
    OBVIOUS
  <2>7. job \in SettlementType /\ Continue(job) /\ job.phase = "writing" /\ SameTerms(job, Job)
    BY <2>1, <2>6, JobFacts, Goes DEF Phases
  <2> QED
    BY <1>2, <2>1, <2>3, <2>5, <2>7
<1>8. CASE SeesReverted
  <2>1. /\ queue # <<>> /\ Job.phase = "receipt" /\ txs[Job.tx].status = "reverted"
        /\ UNCHANGED <<book, txs, writes>>
    BY <1>8 DEF SeesReverted, Running
  <2>2. writes = {}
    BY <2>1, NothingOut DEF Running
  <2>3. \A k \in DOMAIN txs : Settled(txs[k], book, writes)
    BY <2>1 DEF DrainInv, Settled
  <2> QED
    BY <2>1, <2>2, <2>3, StaysDrained
<1>9. CASE \E w \in writes : Write(w)
  <2>1. PICK w \in writes : Write(w)
    BY <1>9
  <2>2. UNCHANGED <<queue, txs>> /\ writes' = writes \ {w}
    BY <2>1 DEF Write
  <2>3. Confirmed(w, filled) /\ w.filled \in Nat
    BY DEF EngineInv, TypeOK
  <2>4. ASSUME NEW i, Recorded(i, book, writes) PROVE Recorded(i, book', writes')
    <3>1. CASE i = w.id
      BY <2>1, <2>3, <3>1 DEF Write, Without, Restrict, Recorded, Confirmed
    <3>2. CASE i # w.id
      BY <2>1, <2>2, <2>4, <3>2 DEF Write, Without, Restrict, Recorded
    <3> QED
      BY <3>1, <3>2
  <2>5. \A k \in DOMAIN txs : Settled(txs[k], book, writes) => Settled(txs[k], book', writes')
    BY <2>4 DEF Settled
  <2> QED
    BY <2>2, <2>5 DEF DrainInv, Running, Job, Parties
<1>10. CASE Finishes
  <2>1. /\ queue # <<>> /\ Job.phase = "writing" /\ Unwritten = {} /\ UNCHANGED <<book, txs, writes>>
    BY <1>10 DEF Finishes, Running
  <2>2. writes = {}
    BY <2>1 DEF DrainInv, Unwritten
  <2>3. \A k \in DOMAIN txs : Settled(txs[k], book, writes)
    BY <2>1 DEF DrainInv, Running
  <2> QED
    BY <2>1, <2>2, <2>3, StaysDrained
<1> QED
  BY <1>3, <1>4, <1>5, <1>6, <1>7, <1>8, <1>9, <1>10 DEF SettlerStep

(* A failure is counted. *)
LEMMA FaultCounts ==
    ASSUME FaultStep, TypeOK
    PROVE  faults' # 0
<1>1. faults' = faults + 1
  BY Zenon DEF FaultStep, GivesUp, SubmitsUnanswered, ReceiptUnknown, WriteFails, FetchFails,
         DirectoryFallsBack, EngineRestarts, Fault
<1>2. faults \in Nat
  BY EngineConstants DEF TypeOK
<1> QED
  BY <1>1, <1>2

(* No step, a crash apart, leaves a fill that nobody will record. *)
LEMMA NextDrain ==
    ASSUME TypeOK, EngineInv, DrainInv, [Next]_vars
    PROVE  DrainInv'
<1> USE DEF bookVars, engineVars, settlerVars, boundVars
<1>1. ASSUME UNCHANGED <<faults, queue, writes, txs>>, UNCHANGED book \/ ServerStep
      PROVE  DrainInv'
  <2>1. \A k \in DOMAIN txs : Settled(txs[k], book, writes) => Settled(txs[k], book', writes')
    BY <1>1, SettledStays
  <2> QED
    BY <1>1, <2>1 DEF DrainInv, Running, Job, Parties
<1>2. CASE EngineStep
  <2>1. CASE \E c \in Cycles : CycleMatches(c)
    <3>1. PICK c \in Cycles : CycleMatches(c)
      BY <2>1
    <3>2. UNCHANGED <<faults, book, txs, writes>> /\ Snapshot(fetched[c]) /\ QueueTypeOK
      BY <3>1 DEF CycleMatches, TypeOK, QueueTypeOK
    <3>3. PICK n, pairs : HandsOver(c, n, pairs)
      BY <3>1, CycleShape
    <3>4. QueueTypeOK' /\ \A k \in DOMAIN queue : queue'[k] = queue[k] /\ k \in DOMAIN queue'
      <4>1. /\ QueueTypeOK' /\ \A k \in DOMAIN queue : queue'[k] = queue[k]
            /\ DOMAIN queue' = 1 .. (Len(queue) + n)
        BY <3>2, <3>3, Handed
      <4> QED
        <5>1. n \in Nat /\ Len(queue) \in Nat /\ DOMAIN queue = 1 .. Len(queue)
          BY <3>2, <3>3 DEF HandsOver, QueueTypeOK
        <5> QED
          BY <4>1, <5>1
    <3>5. CASE queue = <<>>
      BY <3>2, <3>5, NothingOut, StaysDrained DEF Running, DrainInv
    <3>6. CASE queue # <<>>
      <4>1. queue' # <<>> /\ queue'[1] = queue[1]
        BY <3>2, <3>4, <3>6, JobType
      <4> QED
        BY <3>2, <3>6, <4>1 DEF DrainInv, Running, Job, Parties
    <3> QED
      BY <3>5, <3>6
  <2> QED
    BY <1>1, <1>2, <2>1 DEF EngineStep, CycleFetches, Expire
<1>3. CASE SettlerStep
  <2>1. UNCHANGED faults
    BY <1>3, Zenon DEF SettlerStep, Validates, FindsMarketClosed, Estimates, FindsIncompatible,
           FindsOrderChanged, LedgerRefusesFill, SyncsRemaining, SeesFilled, SeesReverted, Finishes,
           Write, Submits
  <2> QED
    BY <1>3, <2>1, SettlerDrains DEF DrainInv
<1>4. CASE ChainStep
  <2>1. PICK k \in DOMAIN txs : Mine(k)
    BY <1>4 DEF ChainStep
  <2>2. /\ UNCHANGED <<faults, queue, writes, book>> /\ txs[k].status = "sent"
        /\ DOMAIN txs' = DOMAIN txs /\ \A j \in DOMAIN txs : j # k => txs'[j] = txs[j]
    BY <2>1 DEF Mine, Mined, Executes, Reverts
  <2>3. ~Settled(txs[k], book, writes)
    BY <2>2 DEF Settled
  <2> QED
    BY <2>1, <2>2, <2>3 DEF DrainInv, Running, Job, Parties
<1>5. CASE FaultStep
  BY <1>5, FaultCounts DEF DrainInv
<1>6. CASE SignalArrives
  BY <1>1, <1>6 DEF SignalArrives
<1>7. CASE CyclesHaveEnded
  BY <1>1, <1>7 DEF CyclesHaveEnded
<1>8. CASE Exits
  <2>1. queue = <<>> /\ UNCHANGED <<book, txs, faults>> /\ writes' = {}
    BY <1>8 DEF Exits, QueueIdle, ProcessIsReplaced
  <2>2. CASE faults = 0
    <3>1. writes = {} /\ \A k \in DOMAIN txs : Settled(txs[k], book, writes)
      BY <2>1, <2>2, NothingOut DEF Running
    <3> QED
      BY <2>1, <3>1, StaysDrained
  <2>3. CASE faults # 0
    BY <2>1, <2>3 DEF DrainInv
  <2> QED
    BY <2>2, <2>3
<1>9. CASE OutsideStep
  BY <1>1, <1>9 DEF OutsideStep, MakerStep, ClosesOnChain, DirectoryStep, Refreshes
<1>10. CASE UNCHANGED vars
  BY <1>1, <1>10 DEF vars
<1> QED
  BY <1>2, <1>3, <1>4, <1>5, <1>6, <1>7, <1>8, <1>9, <1>10 DEF Next, DrainStep

(* Only the end of a drained queue, or a crash, ends a drain. *)
LEMMA EndOfDrain ==
    ASSUME TypeOK, [Next]_vars, drain = "queue", drain' = "no", faults' = 0
    PROVE  Exits
<1> USE DEF bookVars, engineVars, settlerVars, boundVars
<1>1. CASE EngineStep
  BY <1>1 DEF EngineStep, CycleFetches, CycleMatches, Expire
<1>2. CASE SettlerStep
  <2>1. UNCHANGED drain
    BY <1>2, Zenon DEF SettlerStep, Validates, FindsMarketClosed, Estimates, FindsIncompatible,
           FindsOrderChanged, LedgerRefusesFill, SyncsRemaining, SeesFilled, SeesReverted, Finishes,
           Write, Submits
  <2> QED
    BY <2>1
<1>3. CASE ChainStep
  BY <1>3 DEF ChainStep, Mine
<1>4. CASE FaultStep
  BY <1>4, FaultCounts
<1>5. CASE SignalArrives
  BY <1>5 DEF SignalArrives
<1>6. CASE DrainStep
  BY <1>6 DEF DrainStep, CyclesHaveEnded
<1>7. CASE OutsideStep \/ UNCHANGED vars
  BY <1>7 DEF OutsideStep, vars
<1> QED
  BY <1>1, <1>2, <1>3, <1>4, <1>5, <1>6, <1>7 DEF Next

(* A redeployment loses nothing: while nothing else has failed, the process *)
(* exits with every transaction mined and every fill written back.          *)
(* (main.ts: draining "closes that window".)                                *)
THEOREM DrainSafe == Spec => DrainLeavesNothing
<1> DEFINE Safe ==
      drain = "queue" /\ drain' = "no" /\ faults' = 0 =>
        /\ writes = {}
        /\ \A k \in DOMAIN txs :
             /\ Mined(k)
             /\ txs[k].status = "filled" =>
                  \A i \in {txs[k].bid, txs[k].ask} \intersect DOMAIN book : book[i] > 0
<1>1. Init => DrainInv
  BY DEF Init, DrainInv
<1>2. DrainInv /\ TypeOK /\ EngineInv /\ [Next]_vars => DrainInv'
  BY NextDrain
<1>3. ASSUME TypeOK, DrainInv, [Next]_vars PROVE Safe
  <2> SUFFICES ASSUME drain = "queue", drain' = "no", faults' = 0
               PROVE  /\ writes = {}
                      /\ \A k \in DOMAIN txs :
                           /\ Mined(k)
                           /\ txs[k].status = "filled" =>
                                \A i \in {txs[k].bid, txs[k].ask} \intersect DOMAIN book : book[i] > 0
    OBVIOUS
  <2>1. queue = <<>> /\ faults = 0
    BY <1>3, EndOfDrain DEF Exits, QueueIdle
  <2>2. writes = {} /\ \A k \in DOMAIN txs : Settled(txs[k], book, writes)
    BY <1>3, <2>1, NothingOut DEF Running
  <2> QED
    BY <2>2 DEF Settled, Recorded, Mined
<1> HIDE DEF Safe
<1>4. Spec => [][Safe]_vars
  BY <1>1, <1>2, <1>3, Invariance, PTL DEF Spec
<1> QED
  BY <1>4 DEF DrainLeavesNothing, Safe
=============================================================================
