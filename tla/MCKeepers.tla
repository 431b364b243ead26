----------------------------- MODULE MCKeepers -----------------------------
(* Two holders and the bot.  One service is up, so it has no other to rely  *)
(* on.                                                                      *)
EXTENDS Keepers

CONSTANTS h1, h2, bot, a1, a2, a3, p1, p2, m1, m2, k1, k2

OneUp == {{"keeper"}, {"bot"}, {"viewer"}, {"process"}, {"index"}}

(* Holders are alike, and what else a position can be it becomes: the bot   *)
(* starts with one flagged position it can claim and one it cannot, and the *)
(* viewer with one of its own.  The process and the index look at no        *)
(* position.  What the index does for a holder depends on no other.         *)
MCInit ==
    /\ Init
    /\ mark = 1
    /\ CASE "keeper" \in up -> sunk = {}
         [] "bot" \in up -> flagged = {h1, h2} /\ sunk = {h2}
         [] "viewer" \in up -> weak = {h1} /\ flagged = {h1} /\ sunk = {}
         [] OTHER -> weak = {}
    /\ "process" \notin up =>
          host = "keeper" /\ directory = [m \in Markets |-> "active"]

MCSpec == MCInit /\ [][Next]_vars /\ Fairness
============================================================================
