---------------------------- MODULE LegacySweep ----------------------------
(***************************************************************************)
(* order-book-server/src/migration.ts: replicas of the new server sweep    *)
(* the keys of the single-market server into the namespace of its market,  *)
(* while the old server, which is still up, goes on filling them.          *)
(*                                                                         *)
(* Bids and asks are swept alike and are one book here.  An order stands   *)
(* for its nonce too; the orders are one maker's, so there is one nonce    *)
(* set of each kind.                                                       *)
(***************************************************************************)
EXTENDS Integers, FiniteSets

CONSTANTS
    Orders,
    Replicas,
    MaxFaults       \* bounds crashes, Redis errors and locks that expire under a sweep

ASSUME FaultsAssumption == MaxFaults \in Nat

VARIABLES
    json,           \* orders:<id>, with or without its market
    legacy,         \* orderbook:bids and :asks
    book,           \* orderbook:mstr:bids and :asks
    oldNonces,      \* nonces:<maker>
    nonces,         \* nonces:mstr:<maker>
    lock,           \* the sweep lock is set
    sweep,          \* each replica's sweep
    posted,         \* orders accepted
    removed,        \* orders deleted by their maker or taken out by the engine
    faults

bookVars == <<json, legacy, book>>
nonceVars == <<oldNonces, nonces>>
historyVars == <<posted, removed>>
sweepVars == <<bookVars, nonceVars, lock, sweep, historyVars, faults>>

Resting == [at |-> "idle", full |-> FALSE, todo |-> {}, order |-> {}, copied |-> {}]

SweepInit ==
    /\ json = [o \in Orders |-> "none"]
    /\ legacy = {} /\ book = {}
    /\ oldNonces = {} /\ nonces = {}
    /\ lock = FALSE
    /\ sweep = [r \in Replicas |-> Resting]
    /\ posted = {} /\ removed = {}
    /\ faults = 0

At(r, step) == sweep[r].at = step

Goes(r, step) == sweep' = [sweep EXCEPT ![r].at = step]

----------------------------------------------------------------------------
(* A sweep, one Redis command at a time.                                    *)

(* The probe; most sweeps leave the nonces alone. *)
Probes(r, full) ==
    /\ At(r, "idle")
    /\ legacy # {} \/ (full /\ oldNonces # {})
    /\ sweep' = [sweep EXCEPT ![r] = [Resting EXCEPT !.at = "lock", !.full = full]]
    /\ UNCHANGED <<bookVars, nonceVars, lock, historyVars, faults>>

(* SET NX EX. *)
TakesLock(r) ==
    /\ At(r, "lock")
    /\ lock' = TRUE
    /\ Goes(r, IF lock THEN "idle" ELSE "list")
    /\ UNCHANGED <<bookVars, nonceVars, historyVars, faults>>

ListsOrders(r) ==
    /\ At(r, "list")
    /\ sweep' = [sweep EXCEPT ![r].at = "orders", ![r].todo = legacy]
    /\ UNCHANGED <<bookVars, nonceVars, lock, historyVars, faults>>

NextStep(found) ==
    CASE found = "none" -> "unlist" [] found = "plain" -> "stamp" [] OTHER -> "enlist"

ReadsOrder(r, o) ==
    /\ At(r, "orders")
    /\ o \in sweep[r].todo
    /\ sweep' = [sweep EXCEPT ![r].at = NextStep(json[o]), ![r].todo = @ \ {o}, ![r].order = {o}]
    /\ UNCHANGED <<bookVars, nonceVars, lock, historyVars, faults>>

(* SET of what was read, whatever has become of the order since. *)
Stamps(r) ==
    /\ At(r, "stamp")
    /\ json' = [o \in Orders |-> IF o \in sweep[r].order THEN "stamped" ELSE json[o]]
    /\ Goes(r, "enlist")
    /\ UNCHANGED <<legacy, book, nonceVars, lock, historyVars, faults>>

Enlists(r) ==
    /\ At(r, "enlist")
    /\ book' = book \union sweep[r].order
    /\ Goes(r, "unlist")
    /\ UNCHANGED <<json, legacy, nonceVars, lock, historyVars, faults>>

(* Mutant: the legacy book is dropped whole. *)
UnlistsAll(r) ==
    /\ At(r, "unlist")
    /\ legacy' = {}
    /\ Goes(r, "orders")
    /\ UNCHANGED <<json, book, nonceVars, lock, historyVars, faults>>

Unlists(r) ==
    /\ At(r, "unlist")
    /\ legacy' = legacy \ sweep[r].order
    /\ Goes(r, "orders")
    /\ UNCHANGED <<json, book, nonceVars, lock, historyVars, faults>>

ReadsNonces(r) ==
    /\ At(r, "orders")
    /\ sweep[r].todo = {}
    /\ sweep' = [sweep EXCEPT ![r] =
         IF sweep[r].full /\ oldNonces # {}
         THEN [Resting EXCEPT !.at = "merge", !.copied = oldNonces]
         ELSE [Resting EXCEPT !.at = "unlock"]]
    /\ UNCHANGED <<bookVars, nonceVars, lock, historyVars, faults>>

MergesNonces(r) ==
    /\ At(r, "merge")
    /\ nonces' = nonces \union sweep[r].copied
    /\ Goes(r, "forget")
    /\ UNCHANGED <<bookVars, oldNonces, lock, historyVars, faults>>

ForgetsNonces(r) ==
    /\ At(r, "forget")
    /\ oldNonces' = oldNonces \ sweep[r].copied
    /\ Goes(r, "unlock")
    /\ UNCHANGED <<bookVars, nonces, lock, historyVars, faults>>

(* DEL, whosever the lock is by now. *)
Unlocks(r) ==
    /\ At(r, "unlock")
    /\ lock' = FALSE
    /\ sweep' = [sweep EXCEPT ![r] = Resting]
    /\ UNCHANGED <<bookVars, nonceVars, historyVars, faults>>

----------------------------------------------------------------------------
(* The servers and the engine.                                              *)

OldServerPosts(o) ==
    /\ o \notin posted
    /\ json' = [json EXCEPT ![o] = "plain"]
    /\ legacy' = legacy \union {o}
    /\ oldNonces' = oldNonces \union {o}
    /\ posted' = posted \union {o}
    /\ UNCHANGED <<book, nonces, lock, sweep, removed, faults>>

NewServerPosts(o) ==
    /\ o \notin posted
    /\ json' = [json EXCEPT ![o] = "stamped"]
    /\ book' = book \union {o}
    /\ nonces' = nonces \union {o}
    /\ posted' = posted \union {o}
    /\ UNCHANGED <<legacy, oldNonces, lock, sweep, removed, faults>>

(* DELETE by the maker, at either server, or removal by the engine.         *)
Removed(o) ==
    /\ json[o] # "none"
    /\ json' = [json EXCEPT ![o] = "none"]
    /\ \/ book' = book \ {o} /\ UNCHANGED legacy
       \/ legacy' = legacy \ {o} /\ UNCHANGED book
    /\ removed' = removed \union {o}
    /\ UNCHANGED <<nonceVars, lock, sweep, posted, faults>>

----------------------------------------------------------------------------
Sweeping(r) == sweep[r].at \notin {"idle", "lock"}

(* Mutant: a lock without an expiry. *)
NeverExpires(dead) == FALSE /\ dead

(* The lock's 120 seconds are over, after a crash or under a slow sweep.    *)
LockExpires(dead) ==
    /\ lock
    /\ dead = \A r \in Replicas : ~Sweeping(r)
    /\ lock' = FALSE
    /\ faults' = IF dead THEN faults ELSE faults + 1
    /\ faults' <= MaxFaults
    /\ UNCHANGED <<bookVars, nonceVars, sweep, historyVars>>

(* Redis refuses a command: the lock is given back. *)
RedisFails(r) ==
    /\ faults < MaxFaults /\ faults' = faults + 1
    /\ Sweeping(r) /\ ~At(r, "unlock")
    /\ sweep' = [sweep EXCEPT ![r] = [Resting EXCEPT !.at = "unlock"]]
    /\ UNCHANGED <<bookVars, nonceVars, lock, historyVars>>

ReplicaCrashes(r) ==
    /\ faults < MaxFaults /\ faults' = faults + 1
    /\ ~At(r, "idle")
    /\ sweep' = [sweep EXCEPT ![r] = Resting]
    /\ UNCHANGED <<bookVars, nonceVars, lock, historyVars>>

----------------------------------------------------------------------------
SweepStep(r) ==
    \/ Probes(r, TRUE)
    \/ TakesLock(r)
    \/ ListsOrders(r)
    \/ \E o \in Orders : ReadsOrder(r, o)
    \/ Stamps(r) \/ Enlists(r) \/ Unlists(r)
    \/ ReadsNonces(r) \/ MergesNonces(r) \/ ForgetsNonces(r)
    \/ Unlocks(r)

OldAndNewServe == \E o \in Orders : OldServerPosts(o) \/ NewServerPosts(o) \/ Removed(o)

SweepFault == LockExpires(FALSE) \/ \E r \in Replicas : RedisFails(r) \/ ReplicaCrashes(r)

SweepNext ==
    \/ \E r \in Replicas : SweepStep(r) \/ Probes(r, FALSE)
    \/ OldAndNewServe
    \/ LockExpires(TRUE)
    \/ SweepFault
============================================================================
