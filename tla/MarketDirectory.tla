-------------------------- MODULE MarketDirectory --------------------------
(***************************************************************************)
(* One market's entry in MarketRegistry.sol, and what the services that    *)
(* run next to each other know of it: each polls the registry and keeps    *)
(* the last list it read (src/backend/shared/registry.ts).                 *)
(*                                                                         *)
(* A read may be answered by a node that is behind, and a read that fails  *)
(* changes nothing.  In legacy mode there is one market, always active.    *)
(***************************************************************************)
EXTENDS Integers

CONSTANTS
    Services,       \* the processes that keep a directory
    Entries,        \* what the registry may hold at the start
    MaxSwitches     \* bounds the changes to the entry

ASSUME DirectoryAssumption ==
    /\ Entries \subseteq {"none", "active", "inactive"}
    /\ MaxSwitches \in Nat

VARIABLES
    entry,      \* the registry's, "none" while the market is not registered
    before,     \* what it was before its last change
    listed,      \* by service: the entry in its directory
    switches    \* changes so far

directoryVars == <<entry, before, listed, switches>>

(* A service awaits one read before it starts. *)
DirectoryInit ==
    /\ entry \in Entries
    /\ before = entry
    /\ listed = [s \in Services |-> entry]
    /\ switches = 0

Becomes(e) ==
    /\ switches < MaxSwitches
    /\ entry' = e
    /\ before' = entry
    /\ switches' = switches + 1
    /\ UNCHANGED listed

(* register: a market and its addresses once only. *)
Register == entry = "none" /\ Becomes("active")

(* setActive, the only change to an entry there is. *)
SetActive ==
    \/ entry = "active" /\ Becomes("inactive")
    \/ entry = "inactive" /\ Becomes("active")

Learns(s, e) ==
    /\ listed[s] # e
    /\ listed' = [listed EXCEPT ![s] = e]
    /\ UNCHANGED <<entry, before, switches>>

Refresh(s) == Learns(s, entry)

(* The answer replaces the list, also when it is the older of the two. *)
RefreshBehind(s) == Learns(s, before)

(* A new process: its first read may fail and leave it with no market. *)
StartsOver(s) == \E e \in {entry, "none"} : listed' = [listed EXCEPT ![s] = e]

DirectoryTypeOK ==
    /\ {entry, before} \subseteq {"none", "active", "inactive"}
    /\ listed \in [Services -> {"none", "active", "inactive"}]
    /\ switches \in 0 .. MaxSwitches
============================================================================
