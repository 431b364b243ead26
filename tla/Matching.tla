------------------------------ MODULE Matching ------------------------------
(***************************************************************************)
(* The walk of the matching engine over one side-by-side book              *)
(* (src/backend/matching-engine/src/engine.ts, matchMarket): price-time    *)
(* priority, one fill for each order in a cycle, pairs known not to fill   *)
(* skipped.                                                                *)
(***************************************************************************)
EXTENDS OrderBook

(* timestamp: the order in which the POSTs were stored. *)
Stamp(i) == CHOOSE k \in DOMAIN posted : posted[k] = i

(* Highest bid and lowest ask first, the earlier of two at one price. *)
Ahead(i, j) ==
    \/ Signed[i].price = Signed[j].price /\ Stamp(i) < Stamp(j)
    \/ IF Signed[i].bid THEN Signed[i].price > Signed[j].price
                        ELSE Signed[i].price < Signed[j].price

Crosses(b, a) == Signed[b].price >= Signed[a].price

(* remainingTokens: what an order of a snapshot still offers or wants. *)
RemainingIn(snapshot, i) == IF Size(i) > snapshot[i] THEN Size(i) - snapshot[i] ELSE 0

Smaller(m, n) == IF m < n THEN m ELSE n

(* The orders of a snapshot that take part. *)
Active(snapshot, excluded, bids) ==
    {i \in DOMAIN snapshot :
        Signed[i].bid = bids /\ i \notin excluded /\ RemainingIn(snapshot, i) > 0}

(* The pairs <<bid, ask>> the walk may form. *)
Candidates(snapshot, excluded, incompatible) ==
    {p \in Active(snapshot, excluded, TRUE) \X Active(snapshot, excluded, FALSE) :
        Crosses(p[1], p[2]) /\ p \notin incompatible}

(* Sequences of candidates, no longer than there are bids among them. *)
PairSequences(candidates) ==
    UNION {[1 .. n -> candidates] : n \in 0 .. Cardinality({p[1] : p \in candidates})}

(* Each bid in turn, best first, takes the best ask that is left to it by   *)
(* the bids ahead of it, if there is one.                                   *)
IsWalk(pairs, candidates) ==
    LET taken(b) == {pairs[k][2] : k \in {j \in DOMAIN pairs : Ahead(pairs[j][1], b)}}
        leftTo(b) == {p \in candidates : p[1] = b /\ p[2] \notin taken(b)}
    IN  /\ \A j, k \in DOMAIN pairs : j < k => Ahead(pairs[j][1], pairs[k][1])
        /\ \A k \in DOMAIN pairs :
              /\ pairs[k] \in leftTo(pairs[k][1])
              /\ \A p \in leftTo(pairs[k][1]) : p = pairs[k] \/ Ahead(pairs[k][2], p[2])
        /\ \A p \in candidates :
              leftTo(p[1]) = {} \/ \E k \in DOMAIN pairs : pairs[k][1] = p[1]
============================================================================
