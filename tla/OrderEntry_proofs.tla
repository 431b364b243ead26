------------------------- MODULE OrderEntry_proofs -------------------------
(***************************************************************************)
(* What surrounds the book, for any orders, replicas, posts and clicks and *)
(* any number of failures: the sweep of the legacy keys loses nothing, a   *)
(* redeployment cuts no POST short, nothing fills that its maker has       *)
(* called off, and no page takes more USDC than was agreed.                *)
(***************************************************************************)
EXTENDS OrderEntry, TLAPS

(* The variables of each part change by its own steps alone. *)
LEMMA Worlds ==
    ASSUME [Next]_vars
    PROVE  /\ SweepNext \/ UNCHANGED sweepVars
           /\ ServerNext \/ UNCHANGED serverVars
           /\ PanelNext \/ UNCHANGED panelVars
           /\ PagesNext \/ UNCHANGED pagesVars
<1>1. CASE Sweep(SweepNext)
  BY <1>1 DEF Sweep
<1>2. CASE Process(ServerNext)
  BY <1>2 DEF Process
<1>3. CASE Page(PanelNext)
  BY <1>3 DEF Page
<1>4. CASE Beside(PagesNext)
  BY <1>4 DEF Beside
<1>5. CASE UNCHANGED vars
  BY <1>5 DEF vars
<1> QED
  BY <1>1, <1>2, <1>3, <1>4, <1>5 DEF Next

----------------------------------------------------------------------------
(* The sweep of the legacy keys                                            *)

(* What a replica holds was posted; it enlists only what is stamped, or was *)
(* removed since; it unlists only what is enlisted, or was removed; and it  *)
(* forgets only nonces that are merged.  No order is posted twice, so none  *)
(* of this is undone.                                                       *)
Held(r) ==
    /\ DOMAIN sweep[r] = DOMAIN Resting
    /\ sweep[r].todo \union sweep[r].order \subseteq posted
    /\ sweep[r].at = "enlist" => \A o \in sweep[r].order : json[o] # "plain"
    /\ sweep[r].at = "unlist" => sweep[r].order \subseteq book \union removed
    /\ sweep[r].at = "forget" => sweep[r].copied \subseteq nonces

SweepInv ==
    /\ DOMAIN json = Orders /\ DOMAIN sweep = Replicas
    /\ legacy \union book \subseteq posted /\ posted \subseteq Orders
    /\ \A o \in Orders \ posted : json[o] = "none"
    /\ NothingLost
    /\ \A r \in Replicas : Held(r)

(* Before the first sweep everything is under its old key. *)
LEMMA InitSweepInv == Init => SweepInv
  BY DEF Init, SweepInit, SweepInv, NothingLost, Held, Resting

(* Another replica's command, or a server's, takes nothing from a sweep.    *)
LEMMA OthersHold ==
    ASSUME SweepInv, NEW r \in Replicas, sweep'[r] = sweep[r],
           posted \subseteq posted', nonces \subseteq nonces', removed \subseteq removed',
           book \subseteq book' \union removed',
           \A o \in posted : json'[o] = "plain" => json[o] = "plain"
    PROVE  Held(r)'
<1>1. Held(r)
  BY DEF SweepInv
<1> QED
  BY <1>1 DEF Held

(* A replica's own command. *)
LEMMA SweepStepInv ==
    ASSUME SweepInv, NEW r \in Replicas, SweepStep(r) \/ Probes(r, FALSE)
    PROVE  SweepInv'
<1> USE DEF At, Goes
<1>1. Held(r) /\ DOMAIN sweep = Replicas /\ UNCHANGED <<posted, removed>>
  BY DEF SweepInv, SweepStep, Probes, TakesLock, ListsOrders, ReadsOrder, Stamps, Enlists, Unlists,
         ReadsNonces, MergesNonces, ForgetsNonces, Unlocks, historyVars
<1>2. ASSUME UNCHANGED <<json, book, nonces>>, legacy' \subseteq legacy,
             \A o \in posted \ removed : o \in legacy' \union book,
             posted \subseteq oldNonces' \union nonces,
             \A s \in Replicas \ {r} : sweep'[s] = sweep[s],
             DOMAIN sweep' = Replicas, Held(r)'
      PROVE  SweepInv'
  <2>1. ASSUME NEW s \in Replicas PROVE Held(s)'
    BY <1>1, <1>2, OthersHold
  <2>2. NothingLost'
    BY <1>1, <1>2 DEF SweepInv, NothingLost
  <2> QED
    BY <1>1, <1>2, <2>1, <2>2 DEF SweepInv
<1>3. CASE \E full \in BOOLEAN : Probes(r, full)
  BY <1>1, <1>2, <1>3 DEF Probes, bookVars, nonceVars, Held, SweepInv, NothingLost, Resting
<1>4. CASE TakesLock(r)
  BY <1>1, <1>2, <1>4 DEF TakesLock, bookVars, nonceVars, Held, SweepInv, NothingLost, Resting
<1>5. CASE ListsOrders(r)
  BY <1>1, <1>2, <1>5 DEF ListsOrders, bookVars, nonceVars, Held, SweepInv, NothingLost, Resting
<1>6. CASE \E o \in Orders : ReadsOrder(r, o)
  BY <1>1, <1>2, <1>6 DEF ReadsOrder, NextStep, bookVars, nonceVars, Held, SweepInv, NothingLost, Resting
<1>7. CASE Stamps(r)
  <2>1. UNCHANGED <<legacy, book, oldNonces, nonces>>
        /\ json' = [o \in Orders |-> IF o \in sweep[r].order THEN "stamped" ELSE json[o]]
        /\ sweep' = [sweep EXCEPT ![r].at = "enlist"]
    BY <1>7 DEF Stamps, nonceVars
  <2>2. ASSUME NEW s \in Replicas PROVE Held(s)'
    <3>1. CASE s = r
      BY <1>1, <2>1, <3>1 DEF Held, SweepInv, Resting
    <3>2. CASE s # r
      BY <1>1, <2>1, <3>2, OthersHold DEF SweepInv
    <3> QED
      BY <3>1, <3>2
  <2>3. NothingLost'
    BY <1>1, <2>1 DEF SweepInv, NothingLost, Held
  <2> QED
    BY <1>1, <2>1, <2>2, <2>3 DEF SweepInv, Held
<1>8. CASE Enlists(r)
  <2>1. UNCHANGED <<json, legacy, oldNonces, nonces>> /\ sweep[r].at = "enlist"
        /\ book' = book \union sweep[r].order
        /\ sweep' = [sweep EXCEPT ![r].at = "unlist"]
    BY <1>8 DEF Enlists, nonceVars
  <2>2. ASSUME NEW s \in Replicas PROVE Held(s)'
    <3>1. CASE s = r
      BY <1>1, <2>1, <3>1 DEF Held, SweepInv, Resting
    <3>2. CASE s # r
      BY <1>1, <2>1, <3>2, OthersHold DEF SweepInv
    <3> QED
      BY <3>1, <3>2
  <2>3. NothingLost'
    BY <1>1, <2>1 DEF SweepInv, NothingLost, Held
  <2> QED
    BY <1>1, <2>1, <2>2, <2>3 DEF SweepInv, Held
<1>9. CASE Unlists(r)
  BY <1>1, <1>2, <1>9 DEF Unlists, nonceVars, Held, SweepInv, NothingLost, Resting
<1>10. CASE ReadsNonces(r)
  BY <1>1, <1>2, <1>10 DEF ReadsNonces, bookVars, nonceVars, Held, SweepInv, NothingLost, Resting
<1>11. CASE MergesNonces(r)
  <2>1. UNCHANGED <<json, legacy, book, oldNonces>> /\ nonces' = nonces \union sweep[r].copied
        /\ sweep' = [sweep EXCEPT ![r].at = "forget"]
    BY <1>11 DEF MergesNonces, bookVars
  <2>2. ASSUME NEW s \in Replicas PROVE Held(s)'
    <3>1. CASE s = r
      BY <1>1, <2>1, <3>1 DEF Held, SweepInv, Resting
    <3>2. CASE s # r
      BY <1>1, <2>1, <3>2, OthersHold DEF SweepInv
    <3> QED
      BY <3>1, <3>2
  <2>3. NothingLost'
    BY <1>1, <2>1 DEF SweepInv, NothingLost
  <2> QED
    BY <1>1, <2>1, <2>2, <2>3 DEF SweepInv
<1>12. CASE ForgetsNonces(r)
  BY <1>1, <1>2, <1>12 DEF ForgetsNonces, bookVars, Held, SweepInv, NothingLost, Resting
<1>13. CASE Unlocks(r)
  BY <1>1, <1>2, <1>13 DEF Unlocks, bookVars, nonceVars, Held, SweepInv, NothingLost, Resting
<1> QED
  BY <1>3, <1>4, <1>5, <1>6, <1>7, <1>8, <1>9, <1>10, <1>11, <1>12, <1>13 DEF SweepStep

(* The servers and the engine, which touch no sweep. *)
LEMMA ServeSweepInv ==
    ASSUME SweepInv, NEW o \in Orders, OldServerPosts(o) \/ NewServerPosts(o) \/ Removed(o)
    PROVE  SweepInv'
<1>1. UNCHANGED sweep
  BY DEF OldServerPosts, NewServerPosts, Removed
<1>2. CASE OldServerPosts(o)
  <2>1. /\ o \notin posted /\ json' = [json EXCEPT ![o] = "plain"] /\ legacy' = legacy \union {o}
        /\ oldNonces' = oldNonces \union {o} /\ posted' = posted \union {o}
        /\ UNCHANGED <<book, nonces, removed>>
    BY <1>2 DEF OldServerPosts
  <2>2. ASSUME NEW r \in Replicas PROVE Held(r)'
    BY <1>1, <2>1, OthersHold DEF SweepInv
  <2>3. NothingLost'
    BY <2>1 DEF SweepInv, NothingLost
  <2> QED
    BY <1>1, <2>1, <2>2, <2>3 DEF SweepInv
<1>3. CASE NewServerPosts(o)
  <2>1. /\ o \notin posted /\ json' = [json EXCEPT ![o] = "stamped"] /\ book' = book \union {o}
        /\ nonces' = nonces \union {o} /\ posted' = posted \union {o}
        /\ UNCHANGED <<legacy, oldNonces, removed>>
    BY <1>3 DEF NewServerPosts
  <2>2. ASSUME NEW r \in Replicas PROVE Held(r)'
    BY <1>1, <2>1, OthersHold DEF SweepInv
  <2>3. NothingLost'
    BY <2>1 DEF SweepInv, NothingLost
  <2> QED
    BY <1>1, <2>1, <2>2, <2>3 DEF SweepInv
<1>4. CASE Removed(o)
  <2>1. /\ json' = [json EXCEPT ![o] = "none"] /\ removed' = removed \union {o}
        /\ book \ {o} \subseteq book' /\ book' \subseteq book
        /\ legacy \ {o} \subseteq legacy' /\ legacy' \subseteq legacy
        /\ UNCHANGED <<oldNonces, nonces, posted>>
    BY <1>4 DEF Removed, nonceVars
  <2>2. ASSUME NEW r \in Replicas PROVE Held(r)'
    BY <1>1, <2>1, OthersHold DEF SweepInv
  <2>3. NothingLost'
    BY <2>1 DEF SweepInv, NothingLost
  <2> QED
    BY <1>1, <2>1, <2>2, <2>3 DEF SweepInv
<1> QED
  BY <1>2, <1>3, <1>4

(* A crash, an error or an expiry leaves a sweep as it is or at rest. *)
LEMMA StopsSweepInv ==
    ASSUME SweepInv, UNCHANGED <<bookVars, nonceVars, historyVars>>, DOMAIN sweep' = Replicas,
           \A r \in Replicas :
               sweep'[r] \in {sweep[r], Resting, [Resting EXCEPT !.at = "unlock"]}
    PROVE  SweepInv'
<1>1. ASSUME NEW r \in Replicas PROVE Held(r)'
  <2>1. CASE sweep'[r] = sweep[r]
    BY <2>1, OthersHold DEF bookVars, nonceVars, historyVars, SweepInv
  <2>2. CASE sweep'[r] \in {Resting, [Resting EXCEPT !.at = "unlock"]}
    BY <2>2 DEF Held, Resting
  <2> QED
    BY <2>1, <2>2
<1> QED
  BY <1>1 DEF SweepInv, NothingLost, bookVars, nonceVars, historyVars

(* No step of sweep, old server or new loses an order or a nonce. *)
LEMMA NextSweepInv == SweepInv /\ [Next]_vars => SweepInv'
<1> SUFFICES ASSUME SweepInv, [Next]_vars PROVE SweepInv'
  OBVIOUS
<1>1. CASE UNCHANGED sweepVars
  BY <1>1, StopsSweepInv DEF sweepVars, SweepInv
<1>2. CASE LockExpires(TRUE) \/ LockExpires(FALSE)
  BY <1>2, StopsSweepInv DEF LockExpires, SweepInv
<1>3. CASE \E r \in Replicas : RedisFails(r) \/ ReplicaCrashes(r)
  BY <1>3, StopsSweepInv DEF RedisFails, ReplicaCrashes, SweepInv
<1> QED
  BY <1>1, <1>2, <1>3, Worlds, SweepStepInv, ServeSweepInv DEF SweepNext, OldAndNewServe, SweepFault

(* No command of any sweep is the last before a crash at which an order or  *)
(* a nonce would be lost, for any orders, replicas and failures             *)
(* (migration.ts: migrateLegacyKeys).                                       *)
THEOREM SweepLosesNothing == Spec => []NothingLost
<1>1. SweepInv => NothingLost
  BY DEF SweepInv
<1> QED
  BY <1>1, InitSweepInv, NextSweepInv, PTL DEF Spec

----------------------------------------------------------------------------
(* The POSTs under way                                                     *)

(* What a POST has written at each of its awaits; one that failed, or that  *)
(* the process was killed under, may have written anything.                 *)
Written(at) ==
    CASE at \in {"unsent", "checks", "save", "refused"} -> {}
      [] at = "mark" -> {"order"}
      [] at = "list" -> {"order", "nonce"}
      [] OTHER -> {"order", "nonce", "listing"}

Exact == {"unsent", "checks", "save", "mark", "list", "created", "refused"}

PostExact(p) ==
    /\ DOMAIN posts[p] = {"at", "written"}
    /\ posts[p].at \in Exact \union {"failed", "forced"}
    /\ posts[p].at \in Exact => posts[p].written = Written(posts[p].at)

(* The HTTP server waits for the POSTs and accepts no more of them, so none *)
(* is under way in the later steps of the shutdown.                         *)
PostsInv ==
    /\ DOMAIN posts = Posts
    /\ \A p \in Posts : PostExact(p)
    /\ stage \in {"registry", "fee-source", "quit"} => Pending = {}

(* A server that starts serves no POST yet. *)
LEMMA InitPostsInv == Init => PostsInv
  BY DEF Init, ServerInit, PostsInv, PostExact, Written, Exact

(* A POST goes on by one write, while the process is there to serve it. *)
LEMMA PostGoesOn ==
    ASSUME PostsInv, NEW p \in Posts, PostStep(p) \/ PostArrives(p)
    PROVE  PostsInv'
<1>1. ASSUME NEW from \in Exact, NEW to \in Exact, NEW writes, Steps(p, from, to, writes),
             Written(from) \union writes = Written(to),
             from \in {"checks", "save", "mark", "list"}
      PROVE  PostsInv'
  <2>1. /\ posts' = [posts EXCEPT ![p].at = to, ![p].written = posts[p].written \union writes]
        /\ posts[p].at = from /\ UNCHANGED stage
    BY <1>1 DEF Steps
  <2>2. DOMAIN posts = Posts /\ PostExact(p)
    BY DEF PostsInv
  <2>3. /\ DOMAIN posts' = Posts /\ DOMAIN posts'[p] = {"at", "written"}
        /\ posts'[p].at = to /\ posts'[p].written = posts[p].written \union writes
        /\ \A q \in Posts \ {p} : posts'[q] = posts[q]
    BY <2>1, <2>2 DEF PostExact
  <2>4. PostExact(p)'
    BY <1>1, <2>1, <2>2, <2>3 DEF PostExact
  <2>5. \A q \in Posts : PostExact(q)'
    BY <2>3, <2>4 DEF PostsInv, PostExact
  <2>6. stage \notin {"registry", "fee-source", "quit"}
    BY <1>1, <2>1 DEF PostsInv, Pending
  <2> QED
    BY <2>1, <2>3, <2>5, <2>6 DEF PostsInv
<1>2. CASE PostArrives(p)
  <2>1. /\ posts' = [posts EXCEPT ![p].at = "checks"]
        /\ posts[p].at = "unsent" /\ stage = "listening" /\ UNCHANGED stage
    BY <1>2 DEF PostArrives
  <2>2. DOMAIN posts = Posts /\ PostExact(p)
    BY DEF PostsInv
  <2>3. /\ DOMAIN posts' = Posts /\ DOMAIN posts'[p] = {"at", "written"}
        /\ posts'[p].at = "checks" /\ posts'[p].written = posts[p].written
        /\ \A q \in Posts \ {p} : posts'[q] = posts[q]
    BY <2>1, <2>2 DEF PostExact
  <2>4. PostExact(p)'
    BY <2>1, <2>2, <2>3 DEF PostExact, Exact, Written
  <2>5. \A q \in Posts : PostExact(q)'
    BY <2>3, <2>4 DEF PostsInv, PostExact
  <2> QED
    BY <2>1, <2>3, <2>5 DEF PostsInv
<1>3. CASE PostStep(p)
  <2>1. /\ Written("checks") \union {} = Written("refused")
        /\ Written("checks") \union {} = Written("save")
        /\ Written("save") \union {"order"} = Written("mark")
        /\ Written("mark") \union {"nonce"} = Written("list")
        /\ Written("list") \union {"listing"} = Written("created")
    BY DEF Written
  <2>2. {"unsent", "checks", "save", "mark", "list", "created", "refused"} \subseteq Exact
    BY DEF Exact
  <2> QED
    BY <1>1, <1>3, <2>1, <2>2
       DEF PostStep, PostRefused, PostPasses, PostSaved, NonceMarked, PostListed
<1> QED
  BY <1>2, <1>3

(* A POST that fails is not exact any more, nor one under a process that    *)
(* ends; one that ends cleanly has none under way.                          *)
LEMMA EndsPostsInv ==
    ASSUME PostsInv, NEW code \in {"forced", "clean"}, Ends(code),
           code = "clean" => Pending = {}
    PROVE  PostsInv'
<1>1. stage' = "down"
      /\ posts' = [p \in Posts |-> IF p \in Pending THEN [posts[p] EXCEPT !.at = code] ELSE posts[p]]
  BY DEF Ends
<1>2. ASSUME NEW p \in Posts PROVE PostExact(p)'
  <2>1. PostExact(p)
    BY DEF PostsInv
  <2>2. CASE p \in Pending
    BY <1>1, <2>1, <2>2 DEF PostExact, Exact
  <2>3. CASE p \notin Pending
    BY <1>1, <2>1, <2>3 DEF PostExact
  <2> QED
    BY <2>2, <2>3
<1> QED
  BY <1>1, <1>2 DEF PostsInv

(* What does not serve a POST leaves the POSTs as they were. *)
LEMMA StaysPostsInv ==
    ASSUME PostsInv, UNCHANGED posts,
           stage' \in {"registry", "fee-source", "quit"} => Pending = {}
    PROVE  PostsInv'
  BY DEF PostsInv, PostExact, Pending

(* No step of the server, a failure apart, leaves half a POST. *)
LEMMA NextPostsInv == PostsInv /\ [Next]_vars => PostsInv'
<1> SUFFICES ASSUME PostsInv, [Next]_vars PROVE PostsInv'
  OBVIOUS
<1>1. CASE UNCHANGED serverVars
  BY <1>1, StaysPostsInv DEF serverVars, PostsInv
<1>2. CASE Serves
  <2>1. \/ UNCHANGED posts /\ stage' \notin {"registry", "fee-source", "quit"}
        \/ UNCHANGED <<posts, stage>>
    BY <1>2 DEF Serves, Starts, Connects, FirstSweepOver, Listens, GoesOn, ReadsDirectory,
                RefreshesDirectory, SyncsServices
  <2> QED
    BY <2>1, StaysPostsInv DEF PostsInv
<1>3. CASE ServerFault
  <2>1. CASE \E p \in Posts : PostFails(p)
    <3>1. PICK p \in Posts : PostFails(p)
      BY <2>1
    <3>2. /\ posts' = [posts EXCEPT ![p].at = "failed"] /\ UNCHANGED stage
          /\ posts[p].at \in {"checks", "save", "mark", "list"}
      BY <3>1 DEF PostFails
    <3>3. DOMAIN posts = Posts /\ PostExact(p) /\ stage \notin {"registry", "fee-source", "quit"}
      BY <3>2 DEF PostsInv, Pending
    <3>4. \A q \in Posts : PostExact(q)'
      BY <3>2, <3>3 DEF PostsInv, PostExact, Exact
    <3> QED
      BY <3>2, <3>3, <3>4 DEF PostsInv
  <2>2. CASE ServerCrashes
    BY <2>2, EndsPostsInv DEF ServerCrashes
  <2>3. CASE \E m \in Markets : FeeReadLate(m) \/ FeeReadFails(m)
    BY <2>3, StaysPostsInv DEF FeeReadLate, FeeReadFails, PostsInv
  <2>4. CASE \E S \in SUBSET registered : Mishap /\ (ReadsDirectory(S) \/ RefreshesDirectory(S))
    BY <2>4, StaysPostsInv DEF ReadsDirectory, RefreshesDirectory, PostsInv
  <2> QED
    BY <1>3, <2>1, <2>2, <2>3, <2>4 DEF ServerFault
<1>4. CASE \E m \in Markets : FeeReadAnswered(m) \/ FeeTimerTicks(m) \/ SetsFee(m) \/ Registers(m)
  BY <1>4, StaysPostsInv DEF FeeReadAnswered, FeeTimerTicks, SetsFee, Registers, PostsInv
<1>5. CASE Signal
  <2>1. CASE stage = "listening"
    BY <1>5, <2>1, StaysPostsInv DEF Signal
  <2>2. CASE stage # "listening"
    BY <1>5, <2>2, EndsPostsInv DEF Signal
  <2> QED
    BY <2>1, <2>2
<1>6. CASE StepOver
  <2>1. PICK i \in DOMAIN ShutdownSteps :
            /\ stage = ShutdownSteps[i]
            /\ ShutdownSteps[i] = "fastify" => Pending = {}
            /\ IF i < Len(ShutdownSteps) THEN StopsTimers(ShutdownSteps[i]) /\ ShutsDownTo(i + 1)
               ELSE Ends("clean")
            /\ UNCHANGED boundVars
    BY <1>6 DEF StepOver
  <2>2. stage \in {"fastify", "registry", "fee-source", "quit"}
    BY <2>1 DEF ShutdownSteps
  <2>3. Pending = {}
    BY <2>1, <2>2 DEF PostsInv
  <2> QED
    BY <2>1, <2>3, StaysPostsInv, EndsPostsInv DEF ShutsDownTo
<1>7. CASE TimesOut
  BY <1>7, EndsPostsInv DEF TimesOut
<1> QED
  BY <1>1, <1>2, <1>3, <1>4, <1>5, <1>6, <1>7, Worlds, PostGoesOn DEF ServerNext

(* An order whose POST was answered without an error, or that was under way *)
(* when the process exited cleanly, is in the store whole or not at all     *)
(* (server.ts: POST /order; main.ts; shutdown.ts).                          *)
THEOREM PostsAreWhole == Spec => []NoOrderHalfPosted
<1>1. PostsInv => NoOrderHalfPosted
  BY DEF PostsInv, PostExact, Exact, Written, NoOrderHalfPosted
<1> QED
  BY <1>1, InitPostsInv, NextPostsInv, PTL DEF Spec

----------------------------------------------------------------------------
(* The panel and the list                                                  *)

Rated(rate) == \E i \in DOMAIN feeRates : feeRates[i] = rate

ClickSound(c) ==
    /\ DOMAIN clicks[c] = DOMAIN Idle
    /\ clicks[c].nonce \in Nat
    /\ clicks[c].kind = "buyNO" => Rated(clicks[c].rate)

CancelSound ==
    /\ DOMAIN cancel = DOMAIN NoCancel
    /\ cancel.floor \in Nat
    /\ cancel.at = "wallet" =>
          IF cancel.floor = 0 THEN cancel.signed \subseteq cancel.orders
          ELSE \A o \in cancel.signed : o.nonce < cancel.floor /\ o.nonce \in Nat

(* Whatever is signed was signed before now, and a NO bid at a rate of the  *)
(* chain's; what a cancel retires is below the floor it sets, or among the  *)
(* orders it names; and the clock, the floor and the dead only grow.        *)
PanelInv ==
    /\ ms \in Nat /\ floor \in Nat
    /\ feeRates \in Seq(FeeRates) /\ feeRates # << >>
    /\ DOMAIN page = {"rate", "balance"}
    /\ page.rate # NoRate => Rated(page.rate)
    /\ DOMAIN clicks = Clicks
    /\ \A c \in Clicks : ClickSound(c)
    /\ \A o \in signed : o.nonce < ms /\ o.nonce \in Nat /\ (o.kind = "buyNO" => Rated(o.rate))
    /\ CancelSound
    /\ \A o \in retired : (o.nonce < floor /\ o.nonce \in Nat) \/ o \in dead

(* Nothing is signed before the first click. *)
LEMMA InitPanelInv == Init => PanelInv
<1> SUFFICES ASSUME Init PROVE PanelInv
  OBVIOUS
<1>1. PanelInit
  BY DEF Init
<1>2. ASSUME NEW c \in Clicks PROVE ClickSound(c)
  BY <1>1 DEF PanelInit, ClickSound, Idle
<1>3. CancelSound
  BY <1>1 DEF PanelInit, CancelSound, NoCancel
<1>4. feeRates \in Seq(FeeRates) /\ feeRates # << >>
  <2>1. PICK rate \in FeeRates : feeRates = << rate >>
    BY <1>1 DEF PanelInit
  <2> QED
    BY <2>1
<1> QED
  BY <1>1, <1>2, <1>3, <1>4 DEF PanelInit, PanelInv

(* A click changes its own record and what is signed, and forgets no rate. *)
LEMMA SubmitSound ==
    ASSUME PanelInv, NEW c \in Clicks, SubmitStep(c)
    PROVE  /\ DOMAIN clicks' = Clicks
           /\ \A d \in Clicks \ {c} : clicks'[d] = clicks[d]
           /\ DOMAIN clicks'[c] = DOMAIN Idle /\ clicks'[c].nonce \in Nat
           /\ clicks'[c].kind = "buyNO" => Rated(clicks'[c].rate)
           /\ UNCHANGED <<ms, feeRates, floor, dead, page, list>>
           /\ signed' \subseteq signed \union {OrderOf(c)}
           /\ signed' # signed => clicks[c].nonce < ms
<1>1. DOMAIN clicks = Clicks /\ ClickSound(c) /\ ms \in Nat
  BY DEF PanelInv
<1>2. DOMAIN Idle = {"at", "kind", "rate", "needed", "seen", "nonce"} /\ Idle.nonce = 0
      /\ Idle.kind = "buyYES"
  BY DEF Idle
<1>3. CASE \E kind \in Kinds : Submits(c, kind)
  <2>1. PICK kind \in Kinds : Submits(c, kind)
    BY <1>3
  <2> DEFINE click == [Idle EXCEPT !.kind = kind, !.rate = RateShown]
  <2>2. PICK at, needed :
            clicks' = [clicks EXCEPT ![c] = [[click EXCEPT !.at = at] EXCEPT !.needed = needed]]
    <3> DEFINE held == page.balance[SideOf(kind)]
               mints == ~Buys(kind) /\ held < TokenAmount(SideOf(kind))
    <3>1. clicks' = [clicks EXCEPT ![c] =
                CASE mints -> [click EXCEPT !.at = "mint allowance", !.needed = MintUsdc(kind, held)]
                  [] Buys(kind) -> [click EXCEPT !.at = "allowance", !.needed = AmountIn(kind, RateShown)]
                  [] OTHER -> [click EXCEPT !.at = "block"]]
      BY <2>1, Zenon DEF Submits
    <3>2. [click EXCEPT !.at = "block"] = [[click EXCEPT !.at = "block"] EXCEPT !.needed = click.needed]
      BY <1>2
    <3>3. CASE mints
      BY <3>1, <3>3, Zenon
    <3>4. CASE ~mints /\ Buys(kind)
      BY <3>1, <3>4, Zenon
    <3>5. CASE ~mints /\ ~Buys(kind)
      BY <3>1, <3>2, <3>5, Zenon
    <3> QED
      BY <3>3, <3>4, <3>5
  <2>3. clicks'[c] = [[click EXCEPT !.at = at] EXCEPT !.needed = needed]
        /\ DOMAIN clicks' = Clicks /\ \A d \in Clicks \ {c} : clicks'[d] = clicks[d]
    BY <1>1, <2>2
  <2>4. DOMAIN click = DOMAIN Idle /\ click.nonce = 0 /\ click.kind = kind /\ click.rate = RateShown
    BY <1>2
  <2> HIDE DEF click
  <2>5. DOMAIN clicks'[c] = DOMAIN Idle /\ clicks'[c].nonce = 0 /\ clicks'[c].kind = kind
        /\ clicks'[c].rate = RateShown
    BY <1>2, <2>3, <2>4
  <2>6. kind = "buyNO" => Rated(RateShown)
    BY <2>1 DEF Submits, Offered, RateGate, RateShown, PanelInv
  <2>7. UNCHANGED <<ms, feeRates, floor, dead, page, list, signed>>
    BY <2>1 DEF Submits, chain
  <2> QED
    BY <2>3, <2>5, <2>6, <2>7
<1>4. CASE ReadsAllowance(c)
  BY <1>1, <1>2, <1>4 DEF ReadsAllowance, ClickSound, chain, list
<1>5. CASE Approved(c)
  BY <1>1, <1>2, <1>5 DEF Approved, ClickSound, list
<1>6. CASE Minted(c)
  BY <1>1, <1>2, <1>6 DEF Minted, ClickSound, list
<1>7. CASE TakesNonce(c)
  BY <1>1, <1>2, <1>7 DEF TakesNonce, ClickSound, chain, list
<1>8. CASE Signs(c)
  BY <1>1, <1>2, <1>8 DEF Signs, ClickSound, chain, list
<1>9. CASE Over(c)
  BY <1>1, <1>2, <1>9 DEF Over, ClickSound, chain, list
<1> QED
  BY <1>3, <1>4, <1>5, <1>6, <1>7, <1>8, <1>9 DEF SubmitStep, Posted, SubmitRefused, SubmitFails

(* A click on its way to a signature signs an order still meant. *)
LEMMA SubmitPanelInv ==
    ASSUME PanelInv, NEW c \in Clicks, SubmitStep(c) PROVE PanelInv'
<1>1. /\ DOMAIN clicks' = Clicks
      /\ \A d \in Clicks \ {c} : clicks'[d] = clicks[d]
      /\ DOMAIN clicks'[c] = DOMAIN Idle /\ clicks'[c].nonce \in Nat
      /\ clicks'[c].kind = "buyNO" => Rated(clicks'[c].rate)
      /\ UNCHANGED <<ms, feeRates, floor, dead, page, cancel, retired>>
      /\ signed' \subseteq signed \union {OrderOf(c)}
      /\ signed' # signed => clicks[c].nonce < ms
  BY SubmitSound DEF list
<1>2. ASSUME NEW d \in Clicks PROVE ClickSound(d)'
  <2>1. ClickSound(d)
    BY DEF PanelInv
  <2> QED
    BY <1>1, <2>1 DEF ClickSound, Rated, Idle
<1>3. ASSUME NEW o \in signed'
      PROVE  o.nonce < ms /\ o.nonce \in Nat /\ (o.kind = "buyNO" => Rated(o.rate))
  <2>1. CASE o \in signed
    BY <2>1 DEF PanelInv
  <2>2. CASE o = OrderOf(c) /\ clicks[c].nonce < ms
    <3>1. o.nonce = clicks[c].nonce /\ o.kind = clicks[c].kind /\ o.rate = clicks[c].rate
      BY <2>2 DEF OrderOf
    <3> QED
      BY <2>2, <3>1 DEF PanelInv, ClickSound
  <2> QED
    BY <1>1, <2>1, <2>2
<1>4. CancelSound'
  BY <1>1 DEF PanelInv, CancelSound
<1> QED
  BY <1>1, <1>2, <1>3, <1>4 DEF PanelInv, Rated

(* A cancel raises the floor over what was signed before it. *)
LEMMA CancelPanelInv ==
    ASSUME PanelInv, CancelStep PROVE PanelInv'
<1>1. /\ UNCHANGED <<ms, feeRates, page, clicks, signed>>
      /\ floor' \in Nat /\ floor <= floor' /\ dead \subseteq dead'
      /\ CancelSound'
      /\ \A o \in retired' : (o.nonce < floor' /\ o.nonce \in Nat) \/ o \in dead'
  <2>1. ASSUME NEW orders, NEW newFloor \in Nat, Presses(orders, newFloor),
               newFloor = 0 \/ newFloor = ms
        PROVE  CancelSound' /\ UNCHANGED <<ms, feeRates, page, clicks, signed, floor, dead, retired>>
    <3>1. cancel' = [NoCancel EXCEPT !.at = "wallet", !.orders = orders, !.floor = newFloor,
                                     !.signed = IF newFloor = 0 THEN orders ELSE signed]
          /\ UNCHANGED <<ms, feeRates, page, clicks, signed, floor, dead, retired>>
      BY <2>1, Zenon DEF Presses, chain, panel
    <3>2. /\ DOMAIN cancel' = DOMAIN NoCancel /\ cancel'.orders = orders /\ cancel'.floor = newFloor
          /\ cancel'.signed = IF newFloor = 0 THEN orders ELSE signed
      BY <3>1 DEF NoCancel
    <3>3. newFloor # 0 => \A o \in signed : o.nonce < newFloor /\ o.nonce \in Nat
      BY <2>1 DEF PanelInv
    <3> QED
      BY <3>1, <3>2, <3>3 DEF CancelSound
  <2>2. CASE \E o \in placed : CancelOne(o)
    BY <2>1, <2>2 DEF CancelOne, PanelInv
  <2>3. CASE CancelAll
    BY <2>1, <2>3 DEF CancelAll, FloorOf, PanelInv
  <2>4. CASE CancelMined
    <3>1. /\ cancel.at = "wallet" /\ (cancel.floor # 0 => cancel.floor > floor)
          /\ IF cancel.floor = 0 THEN dead' = dead \union cancel.orders /\ floor' = floor
             ELSE floor' = cancel.floor /\ dead' = dead
          /\ retired' = retired \union cancel.signed
          /\ cancel' = [cancel EXCEPT !.at = "sync", !.attempt = 1]
          /\ UNCHANGED <<ms, feeRates, page, clicks, signed>>
      BY <2>4 DEF CancelMined, panel
    <3>2. CancelSound /\ floor \in Nat
      BY DEF PanelInv
    <3>3. CancelSound'
      BY <3>1, <3>2 DEF CancelSound, NoCancel
    <3>4. floor' \in Nat /\ floor <= floor' /\ dead \subseteq dead'
      BY <3>1, <3>2 DEF CancelSound
    <3>5. ASSUME NEW o \in retired'
          PROVE  (o.nonce < floor' /\ o.nonce \in Nat) \/ o \in dead'
      <4>1. CASE o \in retired
        BY <3>2, <3>4, <4>1 DEF PanelInv
      <4>2. CASE o \in cancel.signed
        BY <3>1, <3>2, <4>2 DEF CancelSound
      <4> QED
        BY <3>1, <4>1, <4>2
    <3> QED
      BY <3>1, <3>3, <3>4, <3>5
  <2>5. CASE CancelFails
    BY <2>5 DEF CancelFails, chain, panel, PanelInv, CancelSound, NoCancel
  <2>6. ASSUME NEW gone, SyncAttempt(gone)
        PROVE  CancelSound' /\ UNCHANGED <<ms, feeRates, page, clicks, signed, floor, dead, retired>>
    <3>1. \/ cancel' = NoCancel
          \/ cancel' = [cancel EXCEPT !.orders = cancel.orders \ gone, !.attempt = cancel.attempt + 1]
      BY <2>6 DEF SyncAttempt
    <3>2. cancel.at = "sync" /\ CancelSound
          /\ UNCHANGED <<ms, feeRates, page, clicks, signed, floor, dead, retired>>
      BY <2>6 DEF SyncAttempt, chain, panel, PanelInv
    <3>3. DOMAIN cancel = {"at", "orders", "floor", "signed", "attempt"}
      BY <3>2 DEF CancelSound, NoCancel
    <3>4. CASE cancel' = NoCancel
      BY <3>2, <3>4 DEF CancelSound, NoCancel
    <3>5. CASE cancel' = [cancel EXCEPT !.orders = cancel.orders \ gone, !.attempt = cancel.attempt + 1]
      <4>1. DOMAIN cancel' = DOMAIN cancel /\ cancel'.at = cancel.at /\ cancel'.floor = cancel.floor
        BY <3>3, <3>5
      <4> QED
        BY <3>2, <4>1 DEF CancelSound
    <3> QED
      BY <3>1, <3>2, <3>4, <3>5
  <2> QED
    BY <2>2, <2>3, <2>4, <2>5, <2>6 DEF CancelStep, Syncs, SyncMisses, PanelInv
<1>2. ASSUME NEW c \in Clicks PROVE ClickSound(c)'
  <2>1. ClickSound(c)
    BY DEF PanelInv
  <2> QED
    BY <1>1, <2>1 DEF ClickSound, Rated
<1> QED
  BY <1>1, <1>2 DEF PanelInv, Rated

(* The page's queries, the engine and the admin. *)
LEMMA WorldPanelInv ==
    ASSUME PanelInv,
           Queries \/ QueryFails \/ (\E o \in resting : Fills(o)) \/ AdminSetsRate \/ Tick
               \/ UNCHANGED panelVars
    PROVE  PanelInv'
<1>1. /\ ms' \in Nat /\ ms <= ms' /\ dead \subseteq dead'
      /\ UNCHANGED <<floor, clicks, signed, cancel, retired>>
  BY DEF PanelInv, Queries, QueryFails, Fills, AdminSetsRate, Tick, panelVars, chain, panel, list
<1>2. feeRates' \in Seq(FeeRates) /\ feeRates' # << >> /\ \A rate : Rated(rate) => Rated(rate)'
  <2>1. CASE UNCHANGED feeRates
    BY <2>1 DEF Rated, PanelInv
  <2>2. CASE \E rate \in FeeRates : feeRates' = Append(feeRates, rate)
    <3>1. PICK rate \in FeeRates : feeRates' = Append(feeRates, rate)
      BY <2>2
    <3>2. feeRates \in Seq(FeeRates)
      BY DEF PanelInv
    <3>3. feeRates' \in Seq(FeeRates) /\ Len(feeRates') = Len(feeRates) + 1
          /\ \A i \in 1 .. Len(feeRates) : feeRates'[i] = feeRates[i]
      BY <3>1, <3>2
    <3> QED
      BY <3>2, <3>3 DEF Rated
  <2> QED
    BY <2>1, <2>2 DEF Queries, QueryFails, Fills, AdminSetsRate, Tick, panelVars, chain
<1>3. DOMAIN page' = {"rate", "balance"} /\ (page.rate # NoRate => Rated(page.rate))'
  <2>1. CASE UNCHANGED page
    BY <1>2, <2>1 DEF PanelInv, Rated
  <2>2. CASE /\ page' \in {[page EXCEPT !.rate = FeeRate], [page EXCEPT !.balance = balance]}
             /\ UNCHANGED feeRates
    <3>1. Rated(FeeRate)
      <4>1. Len(feeRates) \in DOMAIN feeRates
        BY DEF PanelInv
      <4> QED
        BY <4>1 DEF Rated, FeeRate
    <3> QED
      BY <2>2, <3>1 DEF PanelInv, Rated
  <2>3. CASE page' = [page EXCEPT !.rate = NoRate]
    BY <2>3 DEF PanelInv
  <2> QED
    BY <2>1, <2>2, <2>3 DEF Queries, QueryFails, Fills, AdminSetsRate, Tick, panelVars, chain
<1>4. ASSUME NEW c \in Clicks PROVE ClickSound(c)'
  <2>1. ClickSound(c)
    BY DEF PanelInv
  <2>2. clicks' = clicks /\ (Rated(clicks[c].rate) => Rated(clicks[c].rate)')
    BY <1>1, <1>2 DEF Rated
  <2> QED
    BY <2>1, <2>2 DEF ClickSound
<1>5. ASSUME NEW o \in signed
      PROVE  o.nonce < ms' /\ o.nonce \in Nat /\ (o.kind = "buyNO" => Rated(o.rate)')
  BY <1>1, <1>2 DEF PanelInv
<1>6. CancelSound'
  BY <1>1 DEF PanelInv, CancelSound
<1> QED
  BY <1>1, <1>2, <1>3, <1>4, <1>5, <1>6 DEF PanelInv

(* No step of panel, book or chain lets a called-off order fill. *)
LEMMA NextPanelInv == PanelInv /\ [Next]_vars => PanelInv'
  BY Worlds, SubmitPanelInv, CancelPanelInv, WorldPanelInv DEF PanelNext

(* Nothing can fill that its maker has called off, and no NO bid whose fee  *)
(* was sized at a rate the chain never had, for any clicks, cancels and     *)
(* failures (TradePanel.tsx: handleSubmit; OpenOrders.tsx: cancelAll).      *)
THEOREM FillsAreMeant == Spec => []OnlyMeantOrdersFill
<1>1. PanelInv => OnlyMeantOrdersFill
  BY DEF PanelInv, OnlyMeantOrdersFill, CanFill, Live, Rated
<1> QED
  BY <1>1, InitPanelInv, NextPanelInv, PTL DEF Spec

----------------------------------------------------------------------------
(* The other pages                                                         *)

Spenders == {"market", "engine"}

(* What may be approved for, or taken by, a spender: no more than the       *)
(* padding of what has been shown, or, of the market, less than twice what  *)
(* was to be minted.                                                        *)
Agreed(spender, n, shown) ==
    IF spender = "engine" THEN n <= PaddedPrice(shown["claim"])
    ELSE n <= PaddedApproval(shown["cure"]) \/ n < 2 * shown["mint"]

Within(spender, n) == Agreed(spender, n, quoted)

Amounts == [{"cure", "claim", "mint"} -> Nat]

IsAccount(a) ==
    /\ DOMAIN a = {"yes", "no", "due", "credit", "locked"}
    /\ a.due \in Nat /\ a.credit \in Nat

IsPosition(p) == DOMAIN p = {"flagged", "price", "motion"} /\ p.price \in Nat

(* A handler that has yet to approve is a cure's, a claim's or a mint's,    *)
(* and what it comes to approve is agreed: a mint found less than it needs. *)
JobSound(b) ==
    /\ DOMAIN job[b] = DOMAIN NoJob
    /\ b = "mint" \/ job[b].at \in {"allowance", "approve"} => job[b].arg \in Nat
    /\ job[b].at = "allowance" =>
          \/ b = "claim" /\ job[b].arg <= PaddedPrice(quoted["claim"])
          \/ b = "mint" /\ job[b].arg <= quoted["mint"]
    /\ job[b].at = "approve" =>
          job[b].seen \in Nat /\ Within(SpenderOf(b), job[b].seen + job[b].arg)

(* What the contracts hold of the account. *)
LedgerSound ==
    /\ IsAccount(account) /\ IsPosition(other)
    /\ approved \in [Spenders -> Nat] /\ taken \in [{"cure", "claim"} -> Nat]
    /\ \A s \in Spenders : Within(s, approved[s])
    /\ \A b \in {"cure", "claim"} : Within(SpenderOf(b), taken[b])

PagesInv ==
    /\ LedgerSound
    /\ IsPosition(listed)
    /\ DOMAIN portfolio = {"account", "event"} /\ IsAccount(portfolio.account)
    /\ quoted \in Amounts
    /\ DOMAIN job = Buttons
    /\ \A b \in Buttons : JobSound(b)

(* The padding of a cost grows with the cost. *)
LEMMA PaddedGrows ==
    \A m, n \in Nat :
        /\ PaddedApproval(m) \in Nat /\ PaddedPrice(m) \in Nat
        /\ m <= n => PaddedApproval(m) <= PaddedApproval(n) /\ PaddedPrice(m) <= PaddedPrice(n)
<1> SUFFICES ASSUME NEW m \in Nat, NEW n \in Nat
             PROVE  /\ PaddedApproval(m) \in Nat /\ PaddedPrice(m) \in Nat
                    /\ m <= n => /\ PaddedApproval(m) <= PaddedApproval(n)
                                 /\ PaddedPrice(m) <= PaddedPrice(n)
  OBVIOUS
<1>1. PaddedApproval(m) \in Nat /\ (m <= n => PaddedApproval(m) <= PaddedApproval(n))
  BY DEF PaddedApproval
<1>2. PaddedPrice(m) \in Nat /\ (m <= n => PaddedPrice(m) <= PaddedPrice(n))
  BY DEF PaddedPrice
<1> QED
  BY <1>1, <1>2

(* What is agreed stays so for less, and when more has been shown. *)
LEMMA AgreedHolds ==
    \A shown, more \in Amounts, m, n \in Nat, s \in Spenders :
        (/\ \A b \in {"cure", "claim", "mint"} : shown[b] <= more[b]
         /\ n <= m /\ Agreed(s, m, shown)) => Agreed(s, n, more)
<1> SUFFICES ASSUME NEW shown \in Amounts, NEW more \in Amounts, NEW m \in Nat, NEW n \in Nat,
                    NEW s \in Spenders,
                    \A b \in {"cure", "claim", "mint"} : shown[b] <= more[b],
                    n <= m, Agreed(s, m, shown)
             PROVE  Agreed(s, n, more)
  OBVIOUS
<1>1. /\ shown["cure"] \in Nat /\ shown["claim"] \in Nat /\ shown["mint"] \in Nat
      /\ more["cure"] \in Nat /\ more["claim"] \in Nat /\ more["mint"] \in Nat
      /\ shown["cure"] <= more["cure"] /\ shown["claim"] <= more["claim"] /\ shown["mint"] <= more["mint"]
  BY DEF Amounts
<1>2. /\ PaddedApproval(shown["cure"]) \in Nat /\ PaddedApproval(more["cure"]) \in Nat
      /\ PaddedPrice(shown["claim"]) \in Nat /\ PaddedPrice(more["claim"]) \in Nat
      /\ PaddedApproval(shown["cure"]) <= PaddedApproval(more["cure"])
      /\ PaddedPrice(shown["claim"]) <= PaddedPrice(more["claim"])
  BY <1>1, PaddedGrows
<1> QED
  BY <1>1, <1>2 DEF Agreed

(* Nothing is shown or taken at first, and what a mint elsewhere has left   *)
(* approved is what that mint was for.                                      *)
LEMMA InitPagesInv == Init => PagesInv
<1> SUFFICES ASSUME Init PROVE PagesInv
  OBVIOUS
<1>1. PagesInit
  BY DEF Init
<1>2. Holdings \subseteq Nat /\ Prices \subseteq Nat /\ Mints \subseteq Nat
  BY PagesAssumption
<1>3. IsAccount(account)
  <2>1. account \in [yes : Holdings, no : Holdings, due : {0, 1}, credit : {0}, locked : BOOLEAN]
    BY <1>1 DEF PagesInit
  <2>2. account.due \in {0, 1} /\ account.credit \in {0}
        /\ DOMAIN account = {"yes", "no", "due", "credit", "locked"}
    BY <2>1
  <2> QED
    BY <2>2 DEF IsAccount
<1>4. IsPosition(other)
  BY <1>1, <1>2 DEF PagesInit, IsPosition
<1>5. PICK left \in Mints \union {0} :
          /\ approved = [market |-> left, engine |-> 0]
          /\ quoted = [cure |-> 0, claim |-> 0, mint |-> left]
  BY <1>1 DEF PagesInit
<1>6. left \in Nat /\ (left = 0 \/ left < 2 * left)
  BY <1>2
<1>7. /\ DOMAIN quoted = {"cure", "claim", "mint"}
      /\ quoted["cure"] = 0 /\ quoted["claim"] = 0 /\ quoted["mint"] = left
      /\ approved["market"] = left /\ approved["engine"] = 0
      /\ taken["cure"] = 0 /\ taken["claim"] = 0
  BY <1>1, <1>5 DEF PagesInit
<1>8. quoted \in Amounts
  BY <1>5, <1>6 DEF Amounts
<1>9. approved \in [Spenders -> Nat] /\ taken \in [{"cure", "claim"} -> Nat]
  BY <1>1, <1>5, <1>6 DEF PagesInit, Spenders
<1>10. /\ \A s \in Spenders : Within(s, approved[s])
       /\ \A b \in {"cure", "claim"} : Within(SpenderOf(b), taken[b])
  <2>1. PaddedApproval(0) \in Nat /\ PaddedPrice(0) \in Nat
    BY PaddedGrows
  <2>2. Within("market", left) /\ Within("market", 0) /\ Within("engine", 0)
    BY <1>6, <1>7, <2>1 DEF Within, Agreed
  <2> QED
    BY <1>7, <2>2 DEF SpenderOf, Spenders
<1>11. DOMAIN job = Buttons /\ \A b \in Buttons : JobSound(b)
  BY <1>1 DEF PagesInit, JobSound, NoJob
<1> QED
  BY <1>1, <1>3, <1>4, <1>8, <1>9, <1>10, <1>11 DEF PagesInit, PagesInv, LedgerSound

(* What is due of the account is a natural number. *)
LEMMA DebitIsNat == IsAccount(account) => Debit \in Nat
  BY DEF Debit, Most, IsAccount

(* What a press shows is agreed from then on. *)
LEMMA QuotesSound ==
    ASSUME quoted \in Amounts, NEW b \in {"cure", "claim", "mint"}, NEW cost \in Nat,
           Quotes(b, cost)
    PROVE  /\ quoted' \in Amounts
           /\ \A c \in {"cure", "claim", "mint"} : quoted[c] <= quoted'[c]
           /\ cost <= quoted'[b]
<1>1. quoted' = [quoted EXCEPT ![b] = Most(quoted[b], cost)]
  BY DEF Quotes
<1>2. Most(quoted[b], cost) \in Nat /\ quoted[b] <= Most(quoted[b], cost)
      /\ cost <= Most(quoted[b], cost)
  BY DEF Most, Amounts
<1>3. quoted' \in Amounts
  BY <1>1, <1>2 DEF Amounts
<1>4. quoted'[b] = Most(quoted[b], cost)
  BY <1>1 DEF Amounts
<1>5. ASSUME NEW c \in {"cure", "claim", "mint"} PROVE quoted[c] <= quoted'[c]
  <2>1. CASE c = b
    BY <1>2, <1>4, <2>1
  <2>2. CASE c # b
    BY <1>1, <2>2 DEF Amounts
  <2> QED
    BY <2>1, <2>2
<1> QED
  BY <1>2, <1>3, <1>4, <1>5

(* A handler that starts after its press has shown what it is to ask for    *)
(* leaves the rest as it is.                                                *)
LEMMA PressPagesInv ==
    ASSUME PagesInv, NEW b \in Buttons, NEW at, NEW arg, Press(b, at, arg),
           quoted' \in Amounts,
           \A c \in {"cure", "claim", "mint"} : quoted[c] <= quoted'[c],
           b = "mint" \/ at \in {"allowance", "approve"} => arg \in Nat,
           at = "allowance" =>
               \/ b = "claim" /\ arg <= PaddedPrice(quoted'["claim"])
               \/ b = "mint" /\ arg <= quoted'["mint"],
           at = "approve" => Agreed(SpenderOf(b), arg, quoted')
    PROVE  PagesInv'
<1>1. /\ UNCHANGED <<account, other, listed, portfolio, approved, taken>>
      /\ job' = [job EXCEPT ![b] = [NoJob EXCEPT !.at = at, !.arg = arg]]
  BY DEF Press, ledgerVars, readVars
<1>2. ASSUME NEW s \in Spenders, NEW n \in Nat, Within(s, n) PROVE Within(s, n)'
  BY <1>2, AgreedHolds DEF Within, PagesInv
<1>3. LedgerSound'
  <2>1. \A c \in {"cure", "claim"} : SpenderOf(c) \in Spenders
    BY DEF SpenderOf, Spenders
  <2>3. \A s \in Spenders : Within(s, approved[s])'
    BY <1>1, <1>2 DEF PagesInv, LedgerSound
  <2>4. \A c \in {"cure", "claim"} : Within(SpenderOf(c), taken[c])'
    <3>1. \A c \in {"cure", "claim"} : taken[c] \in Nat /\ Within(SpenderOf(c), taken[c])
      BY DEF PagesInv, LedgerSound
    <3>2. UNCHANGED taken
      BY <1>1
    <3> QED
      BY <1>2, <2>1, <3>1, <3>2
  <2> QED
    BY <1>1, <2>3, <2>4 DEF PagesInv, LedgerSound, IsAccount, IsPosition
<1>4. ASSUME NEW c \in Buttons PROVE JobSound(c)'
  <2>1. CASE c = b
    <3>1. job'[c] = [NoJob EXCEPT !.at = at, !.arg = arg]
      BY <1>1, <2>1 DEF PagesInv
    <3>2. DOMAIN job'[c] = DOMAIN NoJob /\ job'[c].at = at /\ job'[c].arg = arg /\ job'[c].seen = 0
      BY <3>1 DEF NoJob
    <3>3. at = "approve" => job'[c].seen + job'[c].arg = arg
      BY <3>2
    <3> QED
      BY <2>1, <3>2, <3>3 DEF JobSound, Within
  <2>2. CASE c # b
    <3>1. job'[c] = job[c] /\ JobSound(c)
      BY <1>1, <2>2 DEF PagesInv
    <3>2. SpenderOf(c) \in Spenders
      BY DEF SpenderOf, Spenders
    <3>3. job[c].at = "approve" => Within(SpenderOf(c), job[c].seen + job[c].arg)'
      <4>1. job[c].at = "approve" =>
                /\ job[c].seen + job[c].arg \in Nat
                /\ Within(SpenderOf(c), job[c].seen + job[c].arg)
        BY <3>1 DEF JobSound
      <4>2. job'[c] = job[c]
        BY <3>1
      <4> QED
        BY <1>2, <3>2, <4>1, <4>2
    <3>4. job[c].at = "allowance" =>
              \/ c = "claim" /\ job[c].arg <= PaddedPrice(quoted'["claim"])
              \/ c = "mint" /\ job[c].arg <= quoted'["mint"]
      <4>1. /\ PaddedPrice(quoted["claim"]) \in Nat /\ PaddedPrice(quoted'["claim"]) \in Nat
            /\ PaddedPrice(quoted["claim"]) <= PaddedPrice(quoted'["claim"])
            /\ quoted["mint"] \in Nat /\ quoted'["mint"] \in Nat /\ quoted["mint"] <= quoted'["mint"]
        BY PaddedGrows DEF PagesInv, Amounts
      <4> QED
        BY <3>1, <4>1 DEF JobSound
    <3> QED
      BY <3>1, <3>3, <3>4 DEF JobSound
  <2> QED
    BY <2>1, <2>2
<1>5. DOMAIN job' = Buttons /\ Buttons' = Buttons
  BY <1>1 DEF PagesInv, Press, Buttons
<1>6. /\ IsPosition(listed)' /\ IsAccount(portfolio.account)'
      /\ DOMAIN portfolio' = {"account", "event"}
  BY <1>1 DEF PagesInv, IsPosition, IsAccount
<1> QED
  BY <1>3, <1>4, <1>5, <1>6 DEF PagesInv

(* Each button shows before it asks. *)
LEMMA PressesPagesInv ==
    ASSUME PagesInv,
           PressCure \/ PressRedeem \/ PressSettle \/ PressMint \/ PressClaim
               \/ PressPause \/ PressAccrue \/ PressConfirm
    PROVE  PagesInv'
<1>1. \A b, at, arg : Press(b, at, arg) => b \in Buttons
  BY DEF Press
<1>2. IsAccount(portfolio.account) /\ IsPosition(listed) /\ quoted \in Amounts
  BY DEF PagesInv
<1>3. CASE PressCure
  <2>1. PICK cost \in CureCosts :
            /\ Press("cure", IF cost > 0 THEN "approve" ELSE "send", PaddedApproval(cost))
            /\ Quotes("cure", cost)
    BY <1>3 DEF PressCure
  <2>2. cost \in Nat
    <3>1. \A m, n \in Int : Most(0, m - n) \in Nat
      BY DEF Most
    <3>2. account.credit \in Nat /\ portfolio.account.due \in Nat /\ portfolio.account.credit \in Nat
      BY DEF PagesInv, LedgerSound, IsAccount
    <3>3. Most(portfolio.account.credit, account.credit) \in Nat
      BY <3>2 DEF Most
    <3>4. PICK credit \in {portfolio.account.credit, Most(portfolio.account.credit, account.credit)} :
              cost = Most(0, portfolio.account.due - credit)
      BY DEF CureCosts
    <3>5. credit \in Nat
      BY <3>2, <3>3, <3>4
    <3> QED
      BY <3>1, <3>2, <3>4, <3>5
  <2>3. /\ quoted' \in Amounts /\ cost <= quoted'["cure"]
        /\ \A c \in {"cure", "claim", "mint"} : quoted[c] <= quoted'[c]
    BY <1>2, <2>1, <2>2, QuotesSound
  <2>4. PaddedApproval(cost) \in Nat /\ Agreed("market", PaddedApproval(cost), quoted')
    BY <2>2, <2>3, PaddedGrows DEF Agreed, Amounts
  <2>5. SpenderOf("cure") = "market"
    BY DEF SpenderOf
  <2>6. (IF cost > 0 THEN "approve" ELSE "send") # "allowance"
    OBVIOUS
  <2> QED
    BY <1>1, <2>1, <2>3, <2>4, <2>5, <2>6, PressPagesInv
<1>4. CASE PressClaim
  <2>1. Press("claim", "allowance", PaddedPrice(listed.price)) /\ Quotes("claim", listed.price)
    BY <1>4 DEF PressClaim
  <2>2. listed.price \in Nat
    BY <1>2 DEF IsPosition
  <2>3. /\ quoted' \in Amounts /\ listed.price <= quoted'["claim"]
        /\ \A c \in {"cure", "claim", "mint"} : quoted[c] <= quoted'[c]
    BY <1>2, <2>1, <2>2, QuotesSound
  <2>4. PaddedPrice(listed.price) \in Nat /\ PaddedPrice(listed.price) <= PaddedPrice(quoted'["claim"])
    BY <2>2, <2>3, PaddedGrows DEF Amounts
  <2>5. "allowance" # "approve"
    OBVIOUS
  <2> QED
    BY <1>1, <2>1, <2>3, <2>4, <2>5, PressPagesInv
<1>5. CASE PressMint
  <2>1. PICK usdc \in Mints : Press("mint", "allowance", usdc) /\ Quotes("mint", usdc)
    BY <1>5 DEF PressMint
  <2>2. usdc \in Nat
    BY PagesAssumption
  <2>3. /\ quoted' \in Amounts /\ usdc <= quoted'["mint"]
        /\ \A c \in {"cure", "claim", "mint"} : quoted[c] <= quoted'[c]
    BY <1>2, <2>1, <2>2, QuotesSound
  <2>4. "allowance" # "approve"
    OBVIOUS
  <2> QED
    BY <1>1, <2>1, <2>2, <2>3, <2>4, PressPagesInv
<1>6. CASE PressRedeem \/ PressSettle \/ PressPause \/ PressAccrue \/ PressConfirm
  <2>1. ASSUME NEW b, b # "mint", NEW arg, Press(b, "send", arg), UNCHANGED quoted
        PROVE  PagesInv'
    <3>1. "send" \notin {"allowance", "approve"} /\ "send" # "allowance" /\ "send" # "approve"
      OBVIOUS
    <3>2. quoted' \in Amounts /\ \A c \in {"cure", "claim", "mint"} : quoted[c] <= quoted'[c]
      BY <1>2, <2>1 DEF Amounts
    <3> QED
      BY <1>1, <2>1, <3>1, <3>2, PressPagesInv
  <2> QED
    BY <1>6, <2>1 DEF PressRedeem, PressSettle, PressPause, PressAccrue, PressConfirm
<1> QED
  BY <1>3, <1>4, <1>5, <1>6

(* A transfer stays within the allowance, and so within what was agreed. *)
LEMMA TransfersSound ==
    ASSUME LedgerSound, quoted \in Amounts, UNCHANGED quoted,
           NEW s \in Spenders, NEW amount \in Nat, Transfers(s, amount)
    PROVE  /\ approved' \in [Spenders -> Nat] /\ Within(s, amount)'
           /\ \A t \in Spenders : Within(t, approved[t])'
<1>1. amount <= approved[s] /\ approved' = [approved EXCEPT ![s] = approved[s] - amount]
  BY DEF Transfers
<1>2. approved[s] - amount \in Nat /\ approved[s] - amount <= approved[s] /\ approved[s] \in Nat
  BY <1>1 DEF LedgerSound
<1>3. Within(s, amount) /\ Within(s, approved[s] - amount)
  <2>1. \A b \in {"cure", "claim", "mint"} : quoted[b] <= quoted[b]
    BY DEF Amounts
  <2> QED
    BY <1>1, <1>2, <2>1, AgreedHolds DEF LedgerSound, Within
<1>4. approved' \in [Spenders -> Nat]
  BY <1>1, <1>2 DEF LedgerSound
<1>5. ASSUME NEW t \in Spenders PROVE Within(t, approved[t])'
  <2>1. approved'[t] = IF t = s THEN approved[s] - amount ELSE approved[t]
    BY <1>1 DEF LedgerSound
  <2>2. Within(t, approved'[t])
    BY <1>3, <2>1 DEF LedgerSound
  <2> QED
    BY <2>2 DEF Within
<1> QED
  BY <1>3, <1>4, <1>5 DEF Within

LEMMA TakesSound ==
    ASSUME LedgerSound, quoted \in Amounts, UNCHANGED quoted,
           NEW b \in {"cure", "claim"}, NEW amount \in Nat, Takes(b, amount)
    PROVE  /\ approved' \in [Spenders -> Nat] /\ taken' \in [{"cure", "claim"} -> Nat]
           /\ \A t \in Spenders : Within(t, approved[t])'
           /\ \A c \in {"cure", "claim"} : Within(SpenderOf(c), taken[c])'
<1>1. Transfers(SpenderOf(b), amount) /\ taken' = [taken EXCEPT ![b] = Most(taken[b], amount)]
  BY DEF Takes
<1>2. SpenderOf(b) \in Spenders
  BY DEF SpenderOf, Spenders
<1>3. /\ approved' \in [Spenders -> Nat] /\ Within(SpenderOf(b), amount)'
      /\ \A t \in Spenders : Within(t, approved[t])'
  BY <1>1, <1>2, TransfersSound
<1>4. Most(taken[b], amount) \in {taken[b], amount}
  BY DEF Most
<1>5. taken' \in [{"cure", "claim"} -> Nat]
  BY <1>1, <1>4 DEF LedgerSound
<1>6. ASSUME NEW c \in {"cure", "claim"} PROVE Within(SpenderOf(c), taken[c])'
  <2>1. taken'[c] = taken[c] \/ (c = b /\ taken'[c] = amount)
    BY <1>1, <1>4 DEF LedgerSound
  <2>2. Within(SpenderOf(c), taken[c])
    BY DEF LedgerSound
  <2> QED
    BY <1>3, <2>1, <2>2 DEF Within
<1> QED
  BY <1>3, <1>5, <1>6

(* A transaction that is mined takes no more than was approved. *)
LEMMA LandsSound ==
    ASSUME PagesInv, NEW b \in Buttons, Lands(b), UNCHANGED quoted
    PROVE  LedgerSound'
<1>1. /\ LedgerSound /\ quoted \in Amounts
      /\ IsAccount(account) /\ IsPosition(other) /\ Debit \in Nat
  BY DebitIsNat DEF PagesInv, LedgerSound
<1>2. IsAccount(Settled)
  BY <1>1 DEF Settled, IsAccount
<1>3. CASE CureLands
  <2>1. Takes("cure", Debit) /\ account' = [Settled EXCEPT !.locked = FALSE] /\ UNCHANGED other
    BY <1>3 DEF CureLands
  <2>2. IsAccount(account)' /\ IsPosition(other)'
    BY <1>1, <1>2, <2>1 DEF IsAccount, IsPosition
  <2> QED
    BY <1>1, <2>1, <2>2, TakesSound DEF LedgerSound
<1>4. ASSUME RedeemLands(job[b].arg) \/ SettleLands(job[b].arg) PROVE LedgerSound'
  <2>1. UNCHANGED <<other, approved, taken>>
        /\ \E n : \/ account' = [Settled EXCEPT !.yes = @ - n, !.no = @ - n]
                  \/ account' = [Settled EXCEPT !.yes = @ - n, !.locked = FALSE]
    BY <1>4 DEF RedeemLands, SettleLands
  <2>2. IsAccount(account)' /\ IsPosition(other)'
    BY <1>1, <1>2, <2>1 DEF IsAccount, IsPosition
  <2> QED
    BY <1>1, <2>1, <2>2 DEF LedgerSound, Within
<1>5. CASE ClaimLands
  <2>1. /\ Takes("claim", other.price) /\ other.price \in Nat
        /\ account' = [account EXCEPT !.yes = @ + 1, !.due = Debit, !.credit = 0]
        /\ other' = [other EXCEPT !.flagged = FALSE]
    BY <1>1, <1>5 DEF ClaimLands, IsPosition
  <2>2. IsAccount(account)'
    BY <1>1, <2>1 DEF IsAccount
  <2>3. IsPosition(other)'
    BY <1>1, <2>1 DEF IsPosition
  <2> QED
    BY <1>1, <2>1, <2>2, <2>3, TakesSound DEF LedgerSound
<1>6. CASE b = "mint" /\ MintLands(job[b].arg)
  <2> DEFINE usdc == job[b].arg
  <2>1. /\ Transfers("market", usdc) /\ UNCHANGED <<other, taken>>
        /\ account' = [account EXCEPT !.yes = @ + usdc, !.no = @ + usdc, !.due = Debit, !.credit = 0]
    BY <1>6 DEF MintLands
  <2>2. IsAccount(account)' /\ IsPosition(other)'
    BY <1>1, <2>1 DEF IsAccount, IsPosition
  <2>3. usdc \in Nat
    BY <1>6 DEF PagesInv, JobSound
  <2>4. /\ approved' \in [Spenders -> Nat]
        /\ \A t \in Spenders : Within(t, approved[t])'
    BY <1>1, <2>1, <2>3, TransfersSound DEF Spenders
  <2> QED
    BY <1>1, <2>1, <2>2, <2>4 DEF LedgerSound, Within
<1>7. CASE \E paused, event : MarketBecomes(paused, event)
  BY <1>1, <1>7 DEF MarketBecomes, LedgerSound, Within, IsAccount, IsPosition
<1> QED
  BY <1>3, <1>4, <1>5, <1>6, <1>7 DEF Lands

(* A handler reads an allowance: a mint that finds it too small is to       *)
(* approve less than twice what it is for.                                  *)
LEMMA ChecksPagesInv ==
    ASSUME PagesInv, NEW b \in Buttons, ChecksAllowance(b)
    PROVE  PagesInv'
<1> DEFINE found == approved[SpenderOf(b)]
<1>1. /\ job[b].at = "allowance"
      /\ job' = [job EXCEPT ![b].at = IF found < job[b].arg THEN "approve" ELSE "send",
                            ![b].seen = IF b = "mint" THEN found ELSE 0]
      /\ UNCHANGED <<account, other, approved, listed, portfolio, quoted, taken>>
  BY DEF ChecksAllowance, ledgerVars, readVars
<1>2. /\ DOMAIN job = Buttons /\ \A c \in Buttons : JobSound(c)
      /\ found \in Nat /\ quoted \in Amounts
  BY DEF PagesInv, LedgerSound, SpenderOf, Spenders
<1>3. /\ \/ b = "claim" /\ job[b].arg <= PaddedPrice(quoted["claim"])
         \/ b = "mint" /\ job[b].arg <= quoted["mint"]
      /\ job[b].arg \in Nat /\ DOMAIN job[b] = DOMAIN NoJob
  BY <1>1, <1>2 DEF JobSound
<1>4. /\ DOMAIN job'[b] = DOMAIN NoJob /\ job'[b].arg = job[b].arg
      /\ job'[b].at = (IF found < job[b].arg THEN "approve" ELSE "send")
      /\ job'[b].seen = (IF b = "mint" THEN found ELSE 0)
      /\ DOMAIN job' = Buttons
      /\ \A c \in Buttons \ {b} : job'[c] = job[c]
  BY <1>1, <1>2, <1>3 DEF NoJob
<1>5. job'[b].at = "approve" =>
          job'[b].seen \in Nat /\ Within(SpenderOf(b), job'[b].seen + job'[b].arg)
  <2> SUFFICES ASSUME job'[b].at = "approve"
               PROVE  job'[b].seen \in Nat /\ Within(SpenderOf(b), job'[b].seen + job'[b].arg)
    OBVIOUS
  <2>1. found < job[b].arg
    BY <1>4
  <2>2. CASE b = "claim"
    <3>1. job'[b].seen = 0 /\ job'[b].seen + job'[b].arg = job[b].arg
      BY <1>3, <1>4, <2>2
    <3>2. job[b].arg <= PaddedPrice(quoted["claim"])
      BY <1>3, <2>2
    <3> QED
      BY <2>2, <3>1, <3>2 DEF Within, Agreed, SpenderOf
  <2>3. CASE b = "mint"
    <3>1. job'[b].seen = found /\ job[b].arg <= quoted["mint"] /\ quoted["mint"] \in Nat
      BY <1>2, <1>3, <1>4, <2>3 DEF Amounts
    <3>2. found + job[b].arg < 2 * quoted["mint"]
      BY <1>2, <1>3, <2>1, <3>1
    <3> QED
      BY <1>2, <1>4, <2>3, <3>1, <3>2 DEF Within, Agreed, SpenderOf
  <2> QED
    BY <1>3, <2>2, <2>3
<1>6. ASSUME NEW c \in Buttons PROVE JobSound(c)'
  <2>1. CASE c = b
    BY <1>1, <1>3, <1>4, <1>5, <2>1 DEF JobSound, Within
  <2>2. CASE c # b
    BY <1>1, <1>2, <1>4, <2>2 DEF JobSound, Within
  <2> QED
    BY <2>1, <2>2
<1>7. Buttons' = Buttons
  BY DEF ChecksAllowance, Buttons
<1> QED
  BY <1>1, <1>4, <1>6, <1>7 DEF PagesInv, LedgerSound, Within, IsAccount, IsPosition

(* What is approved is what the handler was to approve. *)
LEMMA ApprovalPagesInv ==
    ASSUME PagesInv, NEW b \in Buttons, ApprovalMined(b)
    PROVE  PagesInv'
<1>1. /\ job[b].at = "approve"
      /\ approved' = [approved EXCEPT ![SpenderOf(b)] = job[b].seen + job[b].arg]
      /\ job' = [job EXCEPT ![b].at = "send"]
      /\ UNCHANGED <<account, other, listed, portfolio, quoted, taken>>
  BY DEF ApprovalMined, readVars
<1>2. /\ DOMAIN job = Buttons /\ \A c \in Buttons : JobSound(c)
      /\ approved \in [Spenders -> Nat] /\ \A s \in Spenders : Within(s, approved[s])
  BY DEF PagesInv, LedgerSound
<1>3. job[b].seen + job[b].arg \in Nat /\ Within(SpenderOf(b), job[b].seen + job[b].arg)
  BY <1>1, <1>2 DEF JobSound
<1>4. approved' \in [Spenders -> Nat]
  BY <1>1, <1>2, <1>3
<1>5. \A s \in Spenders : Within(s, approved[s])'
  <2>1. \A s \in Spenders : approved'[s] =
            IF s = SpenderOf(b) THEN job[b].seen + job[b].arg ELSE approved[s]
    BY <1>1, <1>2
  <2>2. \A s \in Spenders : Within(s, approved'[s])
    BY <1>2, <1>3, <2>1
  <2> QED
    BY <1>1, <2>2 DEF Within
<1>6. ASSUME NEW c \in Buttons PROVE JobSound(c)'
  <2>1. DOMAIN job'[c] = DOMAIN NoJob /\ job'[c].arg = job[c].arg
        /\ (job'[c].at = "send" \/ job'[c] = job[c])
    BY <1>1, <1>2 DEF JobSound, NoJob
  <2> QED
    BY <1>1, <1>2, <2>1 DEF JobSound, Within
<1>7. Buttons' = Buttons
  BY DEF ApprovalMined, Buttons
<1> QED
  BY <1>1, <1>2, <1>4, <1>5, <1>6, <1>7 DEF PagesInv, LedgerSound, Within, IsAccount, IsPosition

(* A handler goes on or ends; what a transaction takes was approved. *)
LEMMA HandlersPagesInv ==
    ASSUME PagesInv,
           \E b \in Buttons :
               \/ ChecksAllowance(b) \/ ApprovalMined(b)
               \/ Mined(b) \/ Fails(b) \/ ReceiptLost(b)
    PROVE  PagesInv'
<1>1. DOMAIN job = Buttons /\ \A b \in Buttons : JobSound(b)
  BY DEF PagesInv
<1>2. ASSUME NEW b \in Buttons, NEW status, Returns(b, status), LedgerSound'
      PROVE  PagesInv'
  <2>1. /\ DOMAIN job' = Buttons /\ UNCHANGED <<listed, portfolio, quoted>>
        /\ \A c \in Buttons : job'[c] \in {NoJob, job[c]}
    BY <1>1, <1>2 DEF Returns, readVars
  <2>2. \A c \in Buttons : JobSound(c)'
    BY <1>1, <2>1 DEF JobSound, NoJob, Within
  <2>3. Buttons' = Buttons
    BY <1>2 DEF Returns, Buttons
  <2> QED
    BY <1>2, <2>1, <2>2, <2>3 DEF PagesInv, IsAccount, IsPosition
<1>3. ASSUME NEW b \in Buttons, Mined(b) \/ ReceiptLost(b) PROVE PagesInv'
  <2>1. Lands(b) /\ \E status : Returns(b, status)
    BY <1>3 DEF Mined, ReceiptLost
  <2>2. UNCHANGED quoted
    BY <2>1 DEF Returns
  <2> QED
    BY <1>2, <2>1, <2>2, LandsSound
<1>4. ASSUME NEW b \in Buttons, Fails(b) PROVE PagesInv'
  <2>1. UNCHANGED <<account, other, approved, taken, quoted>> /\ Returns(b, "error")
    BY <1>4 DEF Fails, ledgerVars, Returns
  <2>2. LedgerSound'
    BY <2>1 DEF PagesInv, LedgerSound, Within, IsAccount, IsPosition
  <2> QED
    BY <1>2, <2>1, <2>2
<1> QED
  BY <1>3, <1>4, ChecksPagesInv, ApprovalPagesInv

(* What is read, what the account does elsewhere, and what accrues. *)
LEMMA RestPagesInv ==
    ASSUME PagesInv, Polls \/ OpensAgain \/ Turn \/ UNCHANGED pagesVars PROVE PagesInv'
<1> USE DEF PagesInv, LedgerSound
<1>1. ASSUME UNCHANGED <<opened, quoted, approved, taken>>, IsAccount(account)', IsPosition(other)',
             \/ UNCHANGED portfolio
             \/ portfolio' = [account |-> account, event |-> market.event],
             listed' \in {listed, other}, DOMAIN job' = Buttons,
             \A b \in Buttons :
                 job'[b] = job[b] \/ \E left : job'[b] = [job[b] EXCEPT !.left = left]
      PROVE  PagesInv'
  <2>1. \A b \in Buttons : JobSound(b)'
    BY <1>1 DEF JobSound, NoJob, Within
  <2>2. DOMAIN portfolio' = {"account", "event"} /\ IsAccount(portfolio.account)'
    BY <1>1 DEF IsAccount
  <2>3. IsPosition(listed)'
    BY <1>1 DEF IsPosition
  <2>4. Buttons' = Buttons
    BY <1>1 DEF Buttons
  <2> QED
    BY <1>1, <2>1, <2>2, <2>3, <2>4 DEF Within
<1>2. ASSUME ShowsPortfolio \/ ShowsList \/ ShowsAdmin, NEW buttons, Leave(buttons), UNCHANGED stayVars
      PROVE  PagesInv'
  <2>1. UNCHANGED <<account, other, opened, quoted, approved, taken>>
    BY <1>2 DEF stayVars, ledgerVars
  <2>2. /\ UNCHANGED portfolio \/ portfolio' = [account |-> account, event |-> market.event]
        /\ listed' \in {listed, other}
    BY <1>2 DEF ShowsPortfolio, ShowsList, ShowsAdmin
  <2>3. job' = [b \in Buttons |-> [job[b] EXCEPT !.left = @ \/ (b \in buttons /\ job[b] # NoJob)]]
    BY <1>2 DEF Leave
  <2>4. DOMAIN job' = Buttons /\ \A b \in Buttons : \E left : job'[b] = [job[b] EXCEPT !.left = left]
    BY <2>3
  <2>5. IsAccount(account)' /\ IsPosition(other)'
    BY <2>1 DEF IsAccount, IsPosition
  <2> QED
    BY <1>1, <2>1, <2>2, <2>4, <2>5
<1>3. CASE Polls \/ OpensAgain
  BY <1>2, <1>3 DEF Polls, OpensAgain
<1>4. CASE Turn
  <2>1. /\ UNCHANGED <<opened, portfolio, listed, job, quoted, taken>>
        /\ Accrues \/ GetsLocked \/ IsClaimed \/ Trades \/ OtherMoves \/ OthersDecide
    BY <1>4 DEF Turn, readVars
  <2>2. UNCHANGED approved
    <3>1. Accrues => UNCHANGED approved
      BY DEF Accrues
    <3>2. GetsLocked \/ IsClaimed \/ Trades => UNCHANGED approved
      BY DEF GetsLocked, IsClaimed, Trades
    <3>3. OtherMoves \/ OthersDecide => UNCHANGED approved
      BY DEF OtherMoves, OthersDecide
    <3> QED
      BY <2>1, <3>1, <3>2, <3>3
  <2>3. Prices \subseteq Nat /\ MaxDue \in Nat
    BY PagesAssumption
  <2>4. IsAccount(account)' /\ IsPosition(other)'
    <3>1. CASE Accrues
      <4>1. /\ account' = [account EXCEPT !.due = IF account.yes > 0 THEN Least(@ + 1, MaxDue) ELSE @,
                                          !.credit = IF account.no > 0 THEN Least(@ + 1, MaxDue) ELSE @]
            /\ \E p \in Prices : other' = [other EXCEPT !.price = p]
        BY <3>1 DEF Accrues
      <4>2. IsAccount(account)'
        BY <2>3, <4>1 DEF IsAccount, Least
      <4> QED
        BY <2>3, <4>1, <4>2 DEF IsPosition
    <3>2. CASE GetsLocked \/ IsClaimed
      <4>1. UNCHANGED other
        BY <3>2 DEF GetsLocked, IsClaimed
      <4>2. \/ account' = [account EXCEPT !.locked = TRUE]
            \/ account' = [account EXCEPT !.yes = 0, !.due = 0, !.locked = FALSE]
        BY <3>2 DEF GetsLocked, IsClaimed
      <4>3. /\ DOMAIN account' = DOMAIN account /\ account'.due \in {account.due, 0}
            /\ account'.credit = account.credit
        <5>1. DOMAIN account = {"yes", "no", "due", "credit", "locked"}
          BY DEF IsAccount
        <5>2. CASE account' = [account EXCEPT !.locked = TRUE]
          BY <5>1, <5>2
        <5>3. CASE account' = [account EXCEPT !.yes = 0, !.due = 0, !.locked = FALSE]
          BY <5>1, <5>3
        <5> QED
          BY <4>2, <5>2, <5>3
      <4>4. IsAccount(account)'
        BY <4>3 DEF IsAccount
      <4> QED
        BY <4>1, <4>4 DEF IsPosition
    <3>3. CASE Trades
      BY <3>3, DebitIsNat DEF Trades, IsAccount, IsPosition
    <3>4. CASE OtherMoves
      BY <2>3, <3>4 DEF OtherMoves, IsPosition, IsAccount
    <3>5. CASE OthersDecide
      BY <3>5 DEF OthersDecide, IsPosition, IsAccount
    <3> QED
      BY <2>1, <3>1, <3>2, <3>3, <3>4, <3>5
  <2> QED
    BY <1>1, <2>1, <2>2, <2>4
<1>5. CASE UNCHANGED pagesVars
  BY <1>1, <1>5 DEF pagesVars, ledgerVars, readVars, IsAccount, IsPosition
<1> QED
  BY <1>3, <1>4, <1>5

(* No step of the pages or the market takes more than was agreed. *)
LEMMA NextPagesInv == PagesInv /\ [Next]_vars => PagesInv'
  BY Worlds, PressesPagesInv, HandlersPagesInv, RestPagesInv DEF PagesNext

(* No claim takes more USDC than the most that the page has shown, and the  *)
(* padding; nor does a cure, unless of an allowance for a mint that was not *)
(* carried out, and then less than twice the most a mint was for; whatever  *)
(* accrues, is approved or is lost meanwhile, and whatever a trade page has *)
(* left approved before (PositionCard.tsx: handleCure; LiquidationCard.tsx: *)
(* handleClaim; TradePanel.tsx: ensureAllowance).                           *)
THEOREM OnlyAgreedIsTaken == Spec => []NeverMoreThanAgreed
<1>1. PagesInv => NeverMoreThanAgreed
  <2> SUFFICES ASSUME PagesInv PROVE NeverMoreThanAgreed
    OBVIOUS
  <2>1. Within("market", taken["cure"]) /\ Within("engine", taken["claim"])
    BY DEF PagesInv, LedgerSound, SpenderOf
  <2> QED
    BY <2>1 DEF NeverMoreThanAgreed, Within, Agreed, PaddedApproval, PaddedPrice
<1> QED
  BY <1>1, InitPagesInv, NextPagesInv, PTL DEF Spec
============================================================================
