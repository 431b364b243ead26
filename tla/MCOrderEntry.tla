---------------------------- MODULE MCOrderEntry ----------------------------
(* Two replicas sweep while two orders are posted at either server; a       *)
(* process with a market that is registered at first or later; a page with  *)
(* two orders; the other pages with two presses.                            *)
EXTENDS OrderEntry

CONSTANTS o1, o2, r1, r2, m1, m2, p1

(* What another part could start with makes no difference. *)
MCInit ==
    /\ Init
    /\ rates = [m \in Markets |-> <<1>>]
    /\ feeRates = <<0>>
    /\ part # "process" => legacyMode /\ registered = {}
    /\ part # "pages" => opened = "liquidate" /\ other.price = 1
    /\ part # "pages" \/ opened = "admin" => account.yes = 0
    /\ opened # "portfolio" => account.no = 0 /\ quoted["mint"] = 0
    /\ IF opened = "liquidate" THEN account.due = 0 ELSE other.price = 1

MCSpec == MCInit /\ [][Next]_vars /\ Fairness
=============================================================================
