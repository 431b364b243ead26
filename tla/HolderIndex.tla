---------------------------- MODULE HolderIndex ----------------------------
(***************************************************************************)
(* backend/keepers/holder-index.ts: who ever held YES, found by scanning   *)
(* the token's transfers.  Two keepers share one cursor and one set in     *)
(* Redis, each with a copy in memory.  Blocks are numbered from the first  *)
(* one scanned; 0 stands for "no cursor yet".                              *)
(*                                                                         *)
(* The last Depth blocks may still be replaced, and a node behind the      *)
(* load balancer may not have them yet: a scan may miss their transfers.   *)
(***************************************************************************)
EXTENDS Integers, Sequences

CONSTANTS
    Holders,
    Keepers,
    BatchSize,      \* blocks scanned between two commits
    Overlap,        \* reorgOverlap
    Depth,          \* how far the chain's end may be missing or replaced
    MaxBlock,       \* bounds the chain
    MaxFaults       \* bounds late nodes, reorganisations, failures, crashes

NumbersFit ==
    /\ BatchSize \in Nat \ {0}
    /\ {Overlap, Depth, MaxBlock, MaxFaults} \subseteq Nat

(* The 64 blocks of overlap cover what may change under a scan. *)
OverlapCovers == Depth <= Overlap

VARIABLES
    chain,          \* recipients of YES transfers, block by block
    stored,         \* <prefix>:holders
    cursor,         \* <prefix>:cursor
    known,          \* HolderIndex.known, by keeper
    synced,         \* syncedToBlock
    sync,           \* the sync in flight
    faults

storeVars == <<stored, cursor>>
memoryVars == <<known, synced>>
vars == <<chain, storeVars, memoryVars, sync, faults>>

Idle == [at |-> "idle", cursor |-> 0, start |-> 0, head |-> 0, found |-> {}]

Init ==
    /\ chain = <<>>
    /\ stored = {}
    /\ cursor = 0
    /\ known = [k \in Keepers |-> {}]
    /\ synced = [k \in Keepers |-> 0]
    /\ sync = [k \in Keepers |-> Idle]
    /\ faults = 0

Larger(m, n) == IF m > n THEN m ELSE n

At(k, step) == sync[k].at = step

GoesOn(k, job) == sync' = [sync EXCEPT ![k] = job]

Learns(k, holders) == known' = [known EXCEPT ![k] = @ \union holders]

Reaches(k, block) == synced' = [synced EXCEPT ![k] = Larger(@, block)]

BatchEnd(job) ==
    IF job.start + BatchSize - 1 < job.head THEN job.start + BatchSize - 1 ELSE job.head

(* The next batch of the sync, or its end. *)
Rest(job) == IF job.start > job.head THEN Idle ELSE [job EXCEPT !.at = "scan", !.found = {}]

----------------------------------------------------------------------------
(* One sync, from await to await.  The two reads of load() are issued       *)
(* together and run in the order of the connection, the cursor first.       *)

ReadsCursor(k) ==
    /\ At(k, "idle")
    /\ GoesOn(k, [Idle EXCEPT !.at = "load", !.cursor = cursor])
    /\ UNCHANGED <<chain, storeVars, memoryVars, faults>>

Loads(k) ==
    /\ At(k, "load")
    /\ Learns(k, stored)
    /\ Reaches(k, sync[k].cursor)
    /\ GoesOn(k, [Idle EXCEPT !.at = "head"])
    /\ UNCHANGED <<chain, storeVars, faults>>

(* Mutant: a sync resumes at the first block it has not seen. *)
ResumeAfter(k) == synced[k] + 1

Resume(k) == Larger(1, synced[k] + 1 - Overlap)

ReadsHead(k, head) ==
    /\ At(k, "head")
    /\ GoesOn(k, Rest([sync[k] EXCEPT !.start = Resume(k), !.head = head]))
    /\ UNCHANGED <<chain, storeVars, memoryVars>>

Recipients(blocks) == UNION {chain[b] : b \in blocks}

(* Mutant: what the keeper already knew is not committed. *)
ScansForNews(k, missed) ==
    LET found == Recipients((sync[k].start .. BatchEnd(sync[k])) \ missed)
    IN  /\ At(k, "scan")
        /\ Learns(k, found)
        /\ GoesOn(k, [sync[k] EXCEPT !.at = "store", !.found = found \ known[k]])
        /\ UNCHANGED <<chain, storeVars, synced>>

(* getLogs of a batch's ranges; what is found is in memory before it is in  *)
(* Redis.                                                                   *)
Scans(k, missed) ==
    LET found == Recipients((sync[k].start .. BatchEnd(sync[k])) \ missed)
    IN  /\ At(k, "scan")
        /\ Learns(k, found)
        /\ GoesOn(k, [sync[k] EXCEPT !.at = "store", !.found = found])
        /\ UNCHANGED <<chain, storeVars, synced>>

StoresHolders(k) ==
    /\ At(k, "store")
    /\ stored' = stored \union sync[k].found
    /\ GoesOn(k, [sync[k] EXCEPT !.at = "cursor"])
    /\ UNCHANGED <<chain, cursor, memoryVars, faults>>

AdvancesCursor(k) ==
    LET end == BatchEnd(sync[k])
    IN  /\ At(k, "cursor")
        /\ cursor' = Larger(cursor, end)
        /\ Reaches(k, end)
        /\ GoesOn(k, Rest([sync[k] EXCEPT !.start = end + 1]))
        /\ UNCHANGED <<chain, stored, known, faults>>

----------------------------------------------------------------------------
(* The chain, and failures                                                  *)

Settled == Len(chain) - Depth       \* final, and on every node

Unsettled == {b \in DOMAIN chain : b > Settled}

Mined(recipients) ==
    /\ Len(chain) < MaxBlock
    /\ chain' = Append(chain, recipients)
    /\ UNCHANGED <<storeVars, memoryVars, sync, faults>>

Fault ==
    /\ faults < MaxFaults
    /\ faults' = faults + 1

Reorganised(b, recipients) ==
    /\ Fault
    /\ chain' = [chain EXCEPT ![b] = recipients]
    /\ UNCHANGED <<storeVars, memoryVars, sync>>

(* A call to the node or to Redis fails: what was learned is kept. *)
Fails(k) ==
    /\ Fault
    /\ ~At(k, "idle")
    /\ GoesOn(k, Idle)
    /\ UNCHANGED <<chain, storeVars, memoryVars>>

Restarts(k) ==
    /\ Fault
    /\ known' = [known EXCEPT ![k] = {}]
    /\ synced' = [synced EXCEPT ![k] = 0]
    /\ GoesOn(k, Idle)
    /\ UNCHANGED <<chain, storeVars>>

----------------------------------------------------------------------------
SyncStep(k) ==
    \/ ReadsCursor(k)
    \/ Loads(k)
    \/ ReadsHead(k, Len(chain)) /\ UNCHANGED faults
    \/ Scans(k, {}) /\ UNCHANGED faults
    \/ StoresHolders(k)
    \/ AdvancesCursor(k)

ChainStep ==
    \E recipients \in {{}} \union {{h} : h \in Holders} :
        Mined(recipients) \/ \E b \in Unsettled : Reorganised(b, recipients)

FaultStep ==
    \/ \E k \in Keepers : Fails(k) \/ Restarts(k)
    \/ \E k \in Keepers : \E missed \in SUBSET Unsettled \ {{}} : Scans(k, missed) /\ Fault
    \/ \E k \in Keepers : \E b \in Unsettled : ReadsHead(k, b - 1) /\ Fault

Next == (\E k \in Keepers : SyncStep(k)) \/ ChainStep \/ FaultStep

----------------------------------------------------------------------------
Steps == {"idle", "load", "head", "scan", "store", "cursor"}

TypeOK ==
    /\ chain \in Seq(SUBSET Holders)
    /\ stored \subseteq Holders
    /\ cursor \in 0 .. Len(chain)
    /\ known \in [Keepers -> SUBSET Holders]
    /\ synced \in [Keepers -> 0 .. Len(chain)]
    /\ sync \in [Keepers -> [at : Steps, cursor : 0 .. Len(chain), start : Nat,
                             head : 0 .. Len(chain), found : SUBSET Holders]]
    /\ faults \in 0 .. MaxFaults

(* Every recipient of a transfer up to the block before the overlap.        *)
Covered(block) == Recipients(1 .. block - Overlap)
============================================================================
