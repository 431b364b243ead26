--------------------------- MODULE Keepers_proofs ---------------------------
(***************************************************************************)
(* The keepers, for any holders, markets and chains, and any number of     *)
(* failures: a run reports no success it did not have, a process with a    *)
(* wallet has one transaction out at a time, no holder is passed over, and *)
(* everything keeps its type.                                              *)
(***************************************************************************)
EXTENDS Keepers, SequenceTheorems, FiniteSetTheorems, TLAPS

----------------------------------------------------------------------------
(* Who changes what                                                        *)

(* The variables of each service change by its own steps alone. *)
LEMMA Worlds ==
    ASSUME [Next]_vars
    PROVE  /\ \/ RunStep \/ KeeperFault \/ KeeperMining \/ OthersAccrue
              \/ UNCHANGED keeperVars
           /\ ProcessStep \/ UNCHANGED processVars
           /\ Index!Next \/ UNCHANGED indexVars
<1>1. CASE KeeperStep
  BY <1>1 DEF KeeperStep, besides
<1>2. CASE KeeperChainStep
  BY <1>2 DEF KeeperChainStep, besides
<1>3. CASE BotStep
  BY <1>3 DEF BotStep, besides
<1>4. CASE BotChainStep
  BY <1>4 DEF BotChainStep, besides
<1>5. CASE ViewerUp
  BY <1>5 DEF ViewerUp, besides
<1>6. CASE ProcessUp
  BY <1>6 DEF ProcessUp, besides
<1>7. CASE IndexUp
  BY <1>7 DEF IndexUp, worldVars
<1>8. CASE OutsideStep
  BY <1>8 DEF OutsideStep, besides
<1>9. CASE UNCHANGED vars
  BY <1>9 DEF vars, worldVars, besides
<1> QED
  BY <1>1, <1>2, <1>3, <1>4, <1>5, <1>6, <1>7, <1>8, <1>9 DEF Next

----------------------------------------------------------------------------
(* The funding keeper                                                      *)

(* A success is backed all along: by an accrual that is mined, or seen in   *)
(* a time of the last accrual that has moved since it was read.             *)
Runs ==
    [at : {"idle", "snapshot", "try", "send", "wait", "holders"},
     call : {"accrue"} \union Holders, attempt : 1 .. MaxAttempts,
     t0 : BOOLEAN, tx : {"none", "sent", "success", "reverted"},
     todo : SUBSET Holders, success : BOOLEAN]

RunInv ==
    /\ run \in Runs
    /\ moved \in BOOLEAN /\ accrued \in BOOLEAN
    /\ moved => accrued
    /\ run.call = "accrue" /\ run.tx = "success" => accrued
    /\ run.success => accrued

(* A keeper that has not begun a run has nothing out and has reported nothing. *)
LEMMA AsleepIsRun == Asleep \in Runs /\ ~Asleep.success /\ Asleep.tx = "none"
  BY AttemptsAssumption DEF Asleep, Runs

(* A run begins with nothing reported. *)
LEMMA InitRunInv == Init => RunInv
  BY AsleepIsRun DEF Init, KeeperInit, RunInv

(* The end of a call is a success only when the call was to accrue, and did. *)
LEMMA EndsRun ==
    ASSUME run \in Runs, NEW success \in BOOLEAN, Ends(success)
    PROVE  /\ run' \in Runs
           /\ run'.tx = "none"
           /\ run'.success = (run.success \/ (success /\ run.call = "accrue"))
<1>1. DOMAIN run = {"at", "call", "attempt", "t0", "tx", "todo", "success"}
  BY DEF Runs
<1>2. run'.at = "holders" /\ run'.attempt = 1 /\ run'.tx = "none" /\ run'.call = run.call
      /\ run'.t0 = run.t0 /\ run'.todo = run.todo
  BY <1>1, SMT DEF Ends, Runs
<1>3. run'.success = (run.success \/ (success /\ run.call = "accrue"))
  BY <1>1, Zenon DEF Ends, Runs
<1>4. run' \in Runs
  <2>1. run.success \in BOOLEAN
    BY DEF Runs
  <2> DEFINE fresh == run.success \/ (success /\ run.call = "accrue")
  <2>2. fresh \in BOOLEAN
    BY <2>1, Zenon
  <2>3. run' = [run EXCEPT !.at = "holders", !.attempt = 1, !.tx = "none", !.success = fresh]
    BY Zenon DEF Ends
  <2>4. 1 \in 1 .. MaxAttempts
    BY AttemptsAssumption
  <2> HIDE DEF fresh
  <2> QED
    BY <2>2, <2>3, <2>4, ZenonT(30) DEF Runs
<1> QED
  BY <1>2, <1>3, <1>4

(* To turn to a holder tells nothing of the accrual. *)
LEMMA ChecksRun ==
    ASSUME RunInv, NEW h \in Holders, NEW answered \in BOOLEAN, ChecksHolder(h, answered)
    PROVE  RunInv'
<1>1. UNCHANGED <<moved, accrued>>
  BY DEF ChecksHolder
<1>2. run' = IF answered /\ h \notin flagged /\ h \in weak
             THEN [run EXCEPT !.at = "try", !.call = h, !.todo = run.todo \ {h}]
             ELSE [run EXCEPT !.todo = run.todo \ {h}]
  BY Zenon DEF ChecksHolder
<1>3. run.todo \ {h} \in SUBSET Holders
  BY DEF RunInv, Runs
<1>4. CASE run' = [run EXCEPT !.at = "try", !.call = h, !.todo = run.todo \ {h}]
  <2>1. run' \in Runs /\ run'.success = run.success /\ run'.call = h
    BY <1>3, <1>4, ZenonT(30) DEF Runs, RunInv
  <2>2. h # "accrue"
    BY AttemptsAssumption
  <2> QED
    BY <1>1, <2>1, <2>2, Zenon DEF RunInv
<1>5. CASE run' = [run EXCEPT !.todo = run.todo \ {h}]
  <2>1. run' \in Runs /\ run'.success = run.success /\ run'.call = run.call /\ run'.tx = run.tx
    BY <1>3, <1>5, ZenonT(30) DEF Runs, RunInv
  <2> QED
    BY <1>1, <2>1, Zenon DEF RunInv
<1> QED
  BY <1>2, <1>4, <1>5, Zenon

(* Each step of a run (funding-keeper.ts, runOnce) reports only what it saw. *)
LEMMA RunStepRunInv == RunInv /\ RunStep => RunInv'
<1> SUFFICES ASSUME RunInv, RunStep PROVE RunInv'
  OBVIOUS
<1> USE DEF RunInv, RunIs
<1>1. CASE StartsRun
  <2>1. run' = [Asleep EXCEPT !.at = "snapshot", !.todo = Holders]
    BY <1>1, Zenon DEF StartsRun
  <2>2. run' \in Runs /\ run'.success = Asleep.success /\ run'.tx = Asleep.tx
    BY <2>1, AsleepIsRun, ZenonT(30) DEF Runs
  <2> QED
    BY <1>1, <2>2, AsleepIsRun, Zenon DEF StartsRun
<1>2. CASE ReadsLastFundingTime(TRUE)
  BY <1>2 DEF ReadsLastFundingTime, Runs
<1>3. CASE Tries
  <2>1. CASE run.attempt > 1 /\ Landed
    <3>1. Ends(TRUE) /\ UNCHANGED <<moved, accrued>>
      BY <1>3, <2>1 DEF Tries
    <3>2. run.call = "accrue" => moved
      BY <2>1 DEF Landed
    <3> QED
      BY <3>1, <3>2, EndsRun
  <2>2. CASE ~(run.attempt > 1 /\ Landed)
    <3> DEFINE next == IF run.tx = "none" THEN "send" ELSE "wait"
               read == run.t0 \/ run.attempt > 1
    <3>1. run' = [run EXCEPT !.at = next, !.t0 = read] /\ moved' = (moved /\ run.t0)
          /\ UNCHANGED accrued
      BY <1>3, <2>2, Zenon DEF Tries
    <3>2. read \in BOOLEAN /\ run.t0 \in BOOLEAN
      BY DEF Runs
    <3>3. next \in {"send", "wait"}
      OBVIOUS
    <3> HIDE DEF next, read
    <3>4. run' \in Runs /\ run'.call = run.call /\ run'.tx = run.tx /\ run'.success = run.success
      BY <3>1, <3>2, <3>3, ZenonT(30) DEF Runs
    <3> QED
      BY <3>1, <3>2, <3>4, Zenon
  <2> QED
    BY <2>1, <2>2
<1>4. CASE Sends
  BY <1>4 DEF Sends, Runs
<1>5. CASE Refused
  BY <1>5, EndsRun DEF Refused
<1>6. CASE SeesReceipt
  BY <1>6, EndsRun DEF SeesReceipt
<1>7. CASE \E h \in Holders : ChecksHolder(h, TRUE)
  BY <1>7, ChecksRun
<1>8. CASE RunEnds
  BY <1>8, AsleepIsRun DEF RunEnds
<1> QED
  BY <1>1, <1>2, <1>3, <1>4, <1>5, <1>6, <1>7, <1>8 DEF RunStep

(* A lost answer, a failed call or a crash reports no success. *)
LEMMA FaultRunInv == RunInv /\ KeeperFault => RunInv'
<1> SUFFICES ASSUME RunInv, KeeperFault PROVE RunInv'
  OBVIOUS
<1> USE DEF RunInv, RunIs
<1>1. CASE ReadsLastFundingTime(FALSE)
  BY <1>1 DEF ReadsLastFundingTime, Runs
<1>2. CASE NodeFails
  <2>1. CASE run.attempt < MaxAttempts
    <3>1. run' = [run EXCEPT !.at = "try", !.attempt = run.attempt + 1] /\ UNCHANGED <<moved, accrued>>
      BY <1>2, <2>1, Zenon DEF NodeFails, Retries
    <3>2. run.attempt + 1 \in 1 .. MaxAttempts
      BY <2>1, AttemptsAssumption DEF Runs
    <3>3. run' \in Runs /\ run'.call = run.call /\ run'.tx = run.tx /\ run'.success = run.success
      BY <3>1, <3>2, ZenonT(30) DEF Runs
    <3> QED
      BY <3>1, <3>3, Zenon
  <2>2. CASE ~(run.attempt < MaxAttempts)
    <3>1. Ends(FALSE) /\ UNCHANGED <<moved, accrued>>
      BY <1>2, <2>2 DEF NodeFails, Retries
    <3> QED
      BY <3>1, EndsRun
  <2> QED
    BY <2>1, <2>2
<1>3. CASE AnswerLost
  <2>1. UNCHANGED <<moved, accrued>>
    BY <1>3 DEF AnswerLost
  <2> DEFINE next == IF run.attempt < MaxAttempts THEN "try" ELSE "holders"
             count == IF run.attempt < MaxAttempts THEN run.attempt + 1 ELSE 1
  <2>2. run' = [run EXCEPT !.at = next, !.attempt = count]
    BY <1>3, Zenon DEF AnswerLost
  <2>4. next \in {"try", "holders"} /\ count \in 1 .. MaxAttempts
    BY AttemptsAssumption DEF Runs
  <2> HIDE DEF next, count
  <2>3. run' \in Runs /\ run'.call = run.call /\ run'.tx = run.tx /\ run'.success = run.success
    BY <2>2, <2>4, ZenonT(30) DEF Runs
  <2> QED
    BY <2>1, <2>3, Zenon
<1>4. CASE \E h \in Holders : ChecksHolder(h, FALSE)
  BY <1>4, ChecksRun
<1>5. CASE KeeperRestarts
  BY <1>5, AsleepIsRun DEF KeeperRestarts
<1> QED
  BY <1>1, <1>2, <1>3, <1>4, <1>5 DEF KeeperFault

(* What the chain mines meanwhile, or others accrue, makes no report false. *)
LEMMA MiningRunInv == RunInv /\ (KeeperMining \/ OthersAccrue) => RunInv'
<1> SUFFICES ASSUME RunInv, KeeperMining \/ OthersAccrue PROVE RunInv'
  OBVIOUS
<1> USE DEF RunInv
<1>1. CASE KeeperTxMined
  <2>1. CASE Executes(run.call) /\ run' = [run EXCEPT !.tx = "success"]
    <3>1. run' \in Runs /\ run'.call = run.call /\ run'.success = run.success
      BY <2>1, SMT DEF Runs
    <3>2. CASE moved' = TRUE /\ accrued' = TRUE
      BY <3>1, <3>2, Zenon
    <3>3. CASE run.call \in Holders /\ UNCHANGED <<moved, accrued>>
      <4>1. run.call # "accrue"
        BY <3>3, AttemptsAssumption
      <4> QED
        BY <3>1, <3>3, <4>1, Zenon
    <3> QED
      BY <2>1, <3>2, <3>3 DEF Executes
  <2>2. CASE Reverts(run.call) /\ run' = [run EXCEPT !.tx = "reverted"]
    <3>1. run' \in Runs /\ run'.tx = "reverted" /\ run'.success = run.success
      BY <2>2, SMT DEF Runs
    <3> QED
      BY <2>2, <3>1 DEF Reverts
  <2> QED
    BY <1>1, <2>1, <2>2 DEF KeeperTxMined
<1>2. CASE \E call \in unanswered : UnansweredMined(call)
  <2>1. UNCHANGED run
    BY <1>2 DEF UnansweredMined
  <2>2. CASE moved' = TRUE /\ accrued' = TRUE
    BY <2>1, <2>2, Zenon
  <2>3. CASE UNCHANGED <<moved, accrued>>
    BY <2>1, <2>3, Zenon
  <2> QED
    BY <1>2, <2>2, <2>3 DEF UnansweredMined, Executes, Reverts
<1>3. CASE OthersAccrue
  BY <1>3 DEF OthersAccrue
<1> QED
  BY <1>1, <1>2, <1>3 DEF KeeperMining

(* No step of the keepers makes a report false. *)
LEMMA NextRunInv == RunInv /\ [Next]_vars => RunInv'
<1> SUFFICES ASSUME RunInv, [Next]_vars PROVE RunInv'
  OBVIOUS
<1>1. CASE UNCHANGED keeperVars
  BY <1>1 DEF keeperVars, RunInv
<1> QED
  BY <1>1, Worlds, RunStepRunInv, FaultRunInv, MiningRunInv

(* A run is reported as a success only when the index has been brought up   *)
(* to date since it began (FundingKeeper.accrue).                           *)
THEOREM SuccessReal == Spec => []SuccessIsReal
<1>1. RunInv => SuccessIsReal
  BY DEF RunInv, SuccessIsReal
<1> QED
  BY <1>1, InitRunInv, NextRunInv, PTL DEF Spec

----------------------------------------------------------------------------
(* The process around the markets                                          *)

(* A pass under way keeps the next tick from starting another, stop() from *)
(* resolving and so the shutdown from getting past its first step.         *)
ProcessInv ==
    host # "viewer" =>
        /\ passes = << >> \/ \E p : passes = << p >>
        /\ passes # << >> => tracked
        /\ shutdown # 0 => stopped
        /\ shutdown > 1 => passes = << >>
        /\ exitCode = "clean" => passes = << >>

(* A process starts with no pass under way. *)
LEMMA InitProcessInv == Init => ProcessInv
  BY SMT DEF Init, ProcessInit, ProcessInv

(* A shutdown first waits for the service: no tracked pass outlives that. *)
LEMMA ServiceFirst ==
    Steps = 4 /\ (shutdown = 1 /\ StepResolves => ~tracked)
<1>1. Steps = 4 /\ ShutdownSteps[1] = "service"
  BY DEF Steps, ShutdownSteps
<1> QED
  BY <1>1, Zenon DEF StepResolves

(* A step of the one pass leaves one pass, or ends it. *)
LEMMA OnePassSteps ==
    ASSUME NEW p, passes = << p >>, NEW i \in DOMAIN passes, PassStep(i)
    PROVE  /\ passes' = << >> \/ ((\E q : passes' = << q >>) /\ UNCHANGED tracked)
           /\ UNCHANGED <<host, stopped, shutdown, exitCode>>
<1>1. i = 1
  OBVIOUS
<1>2. CASE PassEnds(1)
  <2>1. passes' = SubSeq(passes, 1, 0) \o SubSeq(passes, 2, Len(passes))
    BY <1>2 DEF PassEnds, RemoveAt
  <2>2. passes \in Seq({p}) /\ Len(passes) = 1
    OBVIOUS
  <2>3. SubSeq(passes, 1, 0) = << >> /\ SubSeq(passes, 2, 1) = << >>
    BY <2>2
  <2>4. passes' = << >>
    BY <2>1, <2>2, <2>3
  <2> QED
    BY <1>2, <2>4, Zenon DEF PassEnds
<1>3. ASSUME NEW q, Becomes(1, q)
      PROVE  /\ (\E r : passes' = << r >>) /\ UNCHANGED tracked
             /\ UNCHANGED <<host, stopped, shutdown, exitCode>>
  <2>1. passes' = << q >>
    BY <1>3 DEF Becomes
  <2> QED
    BY <1>3, <2>1 DEF Becomes
<1>4. CASE \E m \in Markets : Turns(1, m) \/ Succeeds(1, m) \/ Fails(1, m)
  BY <1>3, <1>4 DEF Turns, Succeeds, Fails
<1>5. CASE SendsTx(1) \/ TxAnswered(1) \/ NextPhase(1)
  BY <1>3, <1>5 DEF SendsTx, TxAnswered, NextPhase
<1> QED
  BY <1>1, <1>2, <1>4, <1>5 DEF PassStep

(* No step puts a second stream of transactions beside the first. *)
LEMMA NextProcessInv == ProcessInv /\ [Next]_vars => ProcessInv'
<1> SUFFICES ASSUME ProcessInv, [Next]_vars, host' # "viewer" PROVE ProcessInv'
  BY DEF ProcessInv
<1>1. CASE UNCHANGED processVars
  BY <1>1 DEF processVars, ProcessInv
<1>2. CASE ProcessStep
  <2>1. host' = host
    BY <1>2 DEF ProcessStep, Ticks, Starts, DirectoryChanges, PassStep, Turns, Succeeds, Fails,
                SendsTx, TxAnswered, NextPhase, PassEnds, Becomes, Signal, StepOver, TimesOut, Exits
  <2> USE DEF ProcessInv, Alive
  <2>2. CASE Ticks
    <3>1. passes' = << NewPass >>
      BY <2>1, <2>2 DEF Ticks, Starts
    <3> QED
      BY <2>1, <2>2, <3>1 DEF Ticks, Starts
  <2>3. CASE DirectoryChanges
    BY <2>1, <2>3 DEF DirectoryChanges
  <2>4. CASE \E i \in DOMAIN passes : PassStep(i)
    <3>1. PICK i \in DOMAIN passes : PassStep(i)
      BY <2>4
    <3>2. PICK p : passes = << p >>
      BY <2>1, <3>1
    <3>3. exitCode = "running" /\ passes # << >>
      BY <3>1, <3>2 DEF PassStep
    <3>4. /\ passes' = << >> \/ ((\E q : passes' = << q >>) /\ UNCHANGED tracked)
          /\ UNCHANGED <<host, stopped, shutdown, exitCode>>
      BY <3>1, <3>2, OnePassSteps
    <3> QED
      BY <2>1, <3>3, <3>4
  <2>5. CASE Signal
    BY <2>1, <2>5 DEF Signal, Exits
  <2>6. CASE StepOver
    BY <2>1, <2>6, ServiceFirst DEF StepOver, Exits
  <2>7. CASE TimesOut
    BY <2>1, <2>7 DEF TimesOut, Exits
  <2> QED
    BY <1>2, <2>2, <2>3, <2>4, <2>5, <2>6, <2>7 DEF ProcessStep
<1> QED
  BY <1>1, <1>2, Worlds

(* A process with a wallet never has two transactions out, and exits        *)
(* cleanly only with none (FundingKeeperService and LiquidatorBot: cycle,   *)
(* stop; shutdown.ts).                                                      *)
THEOREM OneAtATime == Spec => []OneStream
<1>1. ProcessInv => OneStream
  <2> SUFFICES ASSUME ProcessInv, host # "viewer" PROVE OneStream
    BY DEF OneStream
  <2> DEFINE out == {i \in DOMAIN passes : passes[i].tx = "out"}
  <2>1. out \in SUBSET {1}
    <3>1. passes = << >> \/ \E p : passes = << p >>
      BY DEF ProcessInv
    <3> QED
      BY <3>1
  <2>2. Cardinality(out) <= 1
    <3>1. IsFiniteSet({1}) /\ Cardinality({1}) = 1
      BY FS_Singleton
    <3> HIDE DEF out
    <3> QED
      BY <2>1, <3>1, FS_Subset
  <2> QED
    BY <2>2 DEF ProcessInv, OneStream
<1> QED
  BY <1>1, InitProcessInv, NextProcessInv, PTL DEF Spec

----------------------------------------------------------------------------
(* The index of holders                                                    *)

(* The recipients of the blocks up to n are all in the set. *)
Covers(n, set) == \A b \in DOMAIN chain : b <= n => chain[b] \subseteq set

Nearer(m, n) == IF m < n THEN m ELSE n

Jobs ==
    [at : Index!Steps, cursor : Nat, start : Nat, head : Nat, found : SUBSET Indexed]

(* What a keeper that knows mine and synced to upto may be up to: the       *)
(* blocks behind it that are final are covered, by what it knows and by     *)
(* what is stored or about to be, and it is not ahead of the cursor.        *)
Sound(job, mine, upto) ==
    /\ job \in Jobs
    /\ job.cursor <= cursor
    /\ job.head <= Len(chain)
    /\ upto \in 0 .. cursor
    /\ Covers(upto - Overlap, mine)
    /\ job.at \in {"scan", "store", "cursor"} => job.start \in 1 .. job.head
    /\ job.at = "scan" =>
          Covers(Nearer(job.start - 1, job.head - Overlap), mine \intersect stored)
    /\ job.at = "store" =>
          Covers(Nearer(Index!BatchEnd(job), job.head - Overlap),
                 mine \intersect (stored \union job.found))
    /\ job.at = "cursor" =>
          Covers(Nearer(Index!BatchEnd(job), job.head - Overlap), mine \intersect stored)

IndexInv ==
    /\ chain \in Seq(SUBSET Indexed)
    /\ cursor \in 0 .. Len(chain)
    /\ Covers(cursor - Overlap, stored)
    /\ DOMAIN known = Scanners /\ DOMAIN synced = Scanners /\ DOMAIN sync = Scanners
    /\ \A k \in Scanners : Sound(sync[k], known[k], synced[k])

(* The batch size, the overlap and the depth are what IndexAssumption says. *)
LEMMA IndexNumbers ==
    /\ BatchSize \in Nat \ {0} /\ Overlap \in Nat /\ Depth \in Nat
    /\ Depth <= Overlap
  BY IndexAssumption DEF Index!NumbersFit, Index!OverlapCovers

(* A scanner at rest has read nothing. *)
LEMMA IdleIsJob ==
    /\ Index!Idle \in Jobs /\ Index!Idle.at = "idle"
    /\ Index!Idle.cursor = 0 /\ Index!Idle.head = 0
  BY DEF Index!Idle, Jobs, Index!Steps

(* Before the first sync there is nothing to have missed. *)
LEMMA InitIndexInv == Init => IndexInv
<1> SUFFICES ASSUME Init PROVE IndexInv
  OBVIOUS
<1> USE DEF Init, Index!Init
<1>1. \A n, set : Covers(n, set)
  BY DEF Covers
<1>2. ASSUME NEW k \in Scanners PROVE Sound(sync[k], known[k], synced[k])
  BY <1>1, IdleIsJob DEF Sound
<1> QED
  BY <1>1, <1>2 DEF IndexInv

(* A longer chain, or one whose end was replaced, keeps what is final.      *)
LEMMA ChainKeeps ==
    ASSUME chain \in Seq(SUBSET Indexed),
           Index!ChainStep \/ UNCHANGED chain
    PROVE  /\ chain' \in Seq(SUBSET Indexed)
           /\ Len(chain) <= Len(chain')
           /\ \A n \in Int : \A set, more :
                 n <= Len(chain) - Overlap /\ set \subseteq more /\ Covers(n, set)
                     => (\A b \in DOMAIN chain' : b <= n => chain'[b] \subseteq more)
<1> USE IndexNumbers DEF Covers
<1>1. CASE UNCHANGED chain
  BY <1>1
<1>2. ASSUME NEW recipients \in SUBSET Indexed, Index!Mined(recipients)
      PROVE  /\ chain' \in Seq(SUBSET Indexed)
             /\ Len(chain) <= Len(chain')
             /\ \A n \in Int : \A set, more :
                   n <= Len(chain) - Overlap /\ set \subseteq more /\ Covers(n, set)
                       => (\A b \in DOMAIN chain' : b <= n => chain'[b] \subseteq more)
  <2>1. chain' = Append(chain, recipients)
    BY <1>2 DEF Index!Mined
  <2>2. chain' \in Seq(SUBSET Indexed) /\ Len(chain') = Len(chain) + 1
        /\ \A b \in 1 .. Len(chain) : chain'[b] = chain[b]
    BY <2>1
  <2> QED
    BY <2>2
<1>3. ASSUME NEW recipients \in SUBSET Indexed, NEW a \in Index!Unsettled,
             Index!Reorganised(a, recipients)
      PROVE  /\ chain' \in Seq(SUBSET Indexed)
             /\ Len(chain) <= Len(chain')
             /\ \A n \in Int : \A set, more :
                   n <= Len(chain) - Overlap /\ set \subseteq more /\ Covers(n, set)
                       => (\A b \in DOMAIN chain' : b <= n => chain'[b] \subseteq more)
  <2>1. chain' = [chain EXCEPT ![a] = recipients]
    BY <1>3 DEF Index!Reorganised
  <2>2. a \in 1 .. Len(chain) /\ a > Len(chain) - Depth
    BY DEF Index!Unsettled, Index!Settled
  <2>3. chain' \in Seq(SUBSET Indexed) /\ Len(chain') = Len(chain)
        /\ \A b \in 1 .. Len(chain) : b # a => chain'[b] = chain[b]
    BY <2>1, <2>2
  <2> QED
    BY <2>2, <2>3
<1> QED
  BY <1>1, <1>2, <1>3 DEF Index!ChainStep

(* Larger sets cover as much, and a set covers what comes before. *)
LEMMA CoversLess ==
    ASSUME chain \in Seq(SUBSET Indexed), NEW n \in Int, NEW m \in Int, m <= n, NEW set, NEW more,
           set \subseteq more, Covers(n, set)
    PROVE  Covers(m, more)
  BY DEF Covers

(* A batch ends inside the range of its sync. *)
LEMMA BatchInJob ==
    ASSUME NEW job \in Jobs, job.start \in 1 .. job.head
    PROVE  Index!BatchEnd(job) \in job.start .. job.head
  BY IndexNumbers DEF Jobs, Index!BatchEnd

(* A keeper stays sound under what the others and the chain do: the cursor  *)
(* only moves forward, and what is stored or known is never forgotten.      *)
LEMMA StaysSound ==
    ASSUME NEW k \in Scanners, Sound(sync[k], known[k], synced[k]),
           chain \in Seq(SUBSET Indexed), cursor \in 0 .. Len(chain),
           Index!ChainStep \/ UNCHANGED chain,
           cursor' \in Nat, cursor <= cursor', stored \subseteq stored',
           sync'[k] = sync[k], synced'[k] = synced[k], known'[k] = known[k]
    PROVE  Sound(sync[k], known[k], synced[k])'
<1> DEFINE job == sync[k]
           mine == known[k]
           upto == synced[k]
           end == Nearer(Index!BatchEnd(job), job.head - Overlap)
           back == Nearer(job.start - 1, job.head - Overlap)
<1>1. /\ job \in Jobs /\ job.head <= Len(chain)
      /\ job.head \in Nat /\ job.start \in Nat
      /\ upto \in 0 .. cursor /\ job.cursor <= cursor /\ job.cursor \in Nat
      /\ job.at \in {"scan", "store", "cursor"} => job.start \in 1 .. job.head
  BY DEF Sound, Jobs
<1>2. Len(chain) \in Nat /\ Len(chain') \in Nat /\ Len(chain) <= Len(chain')
  BY ChainKeeps
<1>3. ASSUME NEW n \in Int, n <= Len(chain) - Overlap, NEW set, NEW more,
             set \subseteq more, Covers(n, set)
      PROVE  \A b \in DOMAIN chain' : b <= n => chain'[b] \subseteq more
  BY <1>3, ChainKeeps
<1>4. job' = job /\ mine' = mine /\ upto' = upto
  OBVIOUS
<1>5. Covers(upto - Overlap, mine)'
  <2>1. upto - Overlap \in Int /\ upto - Overlap <= Len(chain) - Overlap
    BY <1>1, <1>2, IndexNumbers
  <2>2. Covers(upto - Overlap, mine)
    BY DEF Sound
  <2>3. \A b \in DOMAIN chain' : b <= upto - Overlap => chain'[b] \subseteq mine
    BY <1>3, <2>1, <2>2
  <2> QED
    BY <2>3, <1>4 DEF Covers
<1>6. ASSUME NEW n \in Int, NEW set, NEW more,
             Covers(Nearer(n, job.head - Overlap), set), set \subseteq more
      PROVE  \A b \in DOMAIN chain' : b <= Nearer(n, job.head - Overlap) => chain'[b] \subseteq more
  <2>1. /\ Nearer(n, job.head - Overlap) \in Int
        /\ Nearer(n, job.head - Overlap) <= Len(chain) - Overlap
    BY <1>1, <1>2, IndexNumbers DEF Nearer
  <2> QED
    BY <1>3, <1>6, <2>1
<1>7. ASSUME job.at = "scan"
      PROVE  Covers(back, mine \intersect stored)'
  <2>1. Covers(back, mine \intersect stored) /\ job.start - 1 \in Int
    BY <1>1, <1>7 DEF Sound
  <2>2. \A b \in DOMAIN chain' : b <= back => chain'[b] \subseteq mine \intersect stored'
    BY <1>6, <2>1
  <2> QED
    BY <1>4, <2>2 DEF Covers
<1>8. job.at = "store" \/ job.at = "cursor" => Index!BatchEnd(job) \in Int
  BY <1>1, BatchInJob
<1>9. ASSUME job.at = "store"
      PROVE  Covers(end, mine \intersect (stored \union job.found))'
  <2>1. Covers(end, mine \intersect (stored \union job.found))
    BY <1>9 DEF Sound
  <2>2. \A b \in DOMAIN chain' :
            b <= end => chain'[b] \subseteq mine \intersect (stored' \union job.found)
    BY <1>6, <1>8, <1>9, <2>1
  <2> QED
    BY <1>4, <2>2 DEF Covers
<1>10. ASSUME job.at = "cursor"
       PROVE  Covers(end, mine \intersect stored)'
  <2>1. Covers(end, mine \intersect stored)
    BY <1>10 DEF Sound
  <2>2. \A b \in DOMAIN chain' : b <= end => chain'[b] \subseteq mine \intersect stored'
    BY <1>6, <1>8, <1>10, <2>1
  <2> QED
    BY <1>4, <2>2 DEF Covers
<1> HIDE DEF job, mine, upto, end, back
<1>11. /\ (job \in Jobs)' /\ (job.cursor <= cursor)' /\ (job.head <= Len(chain))'
       /\ (upto \in 0 .. cursor)'
       /\ (job.at \in {"scan", "store", "cursor"} => job.start \in 1 .. job.head)'
  BY <1>1, <1>2, <1>4 DEF Jobs
<1> QED
  BY <1>4, <1>5, <1>7, <1>9, <1>10, <1>11 DEF Sound, job, mine, upto, end, back

(* The other keepers, and so the invariant, when one keeper goes on. *)
LEMMA OneGoesOn ==
    ASSUME IndexInv, NEW k \in Scanners,
           UNCHANGED chain, cursor' \in 0 .. Len(chain), cursor <= cursor',
           stored \subseteq stored', Covers(cursor' - Overlap, stored'),
           DOMAIN known' = Scanners, DOMAIN synced' = Scanners, DOMAIN sync' = Scanners,
           \A j \in Scanners \ {k} :
               sync'[j] = sync[j] /\ synced'[j] = synced[j] /\ known'[j] = known[j],
           Sound(sync[k], known[k], synced[k])'
    PROVE  IndexInv'
<1>1. ASSUME NEW j \in Scanners PROVE Sound(sync[j], known[j], synced[j])'
  <2>1. CASE j = k
    BY <2>1
  <2>2. CASE j # k
    <3>1. Sound(sync[j], known[j], synced[j])
      BY DEF IndexInv
    <3>2. chain \in Seq(SUBSET Indexed) /\ cursor \in 0 .. Len(chain)
      BY DEF IndexInv
    <3>3. sync'[j] = sync[j] /\ synced'[j] = synced[j] /\ known'[j] = known[j]
      BY <2>2
    <3>4. cursor' \in Nat
      BY <3>2
    <3> QED
      BY <3>1, <3>2, <3>3, <3>4, StaysSound
  <2> QED
    BY <2>1, <2>2
<1>2. Covers(cursor - Overlap, stored)'
  BY DEF Covers
<1> QED
  BY <1>1, <1>2 DEF IndexInv

(* A sync that has read the shared cursor resumes where it was left. *)
LEMMA ReadsCursorSound ==
    ASSUME IndexInv, NEW k \in Scanners, Index!ReadsCursor(k) PROVE IndexInv'
<1> DEFINE job == [Index!Idle EXCEPT !.at = "load", !.cursor = cursor]
<1>1. /\ sync' = [sync EXCEPT ![k] = job]
      /\ UNCHANGED <<chain, stored, cursor, known, synced>>
  BY DEF Index!ReadsCursor, Index!GoesOn, Index!storeVars, Index!memoryVars
<1>2. chain \in Seq(SUBSET Indexed) /\ cursor \in 0 .. Len(chain)
      /\ Covers(cursor - Overlap, stored) /\ DOMAIN known = Scanners
      /\ DOMAIN synced = Scanners /\ DOMAIN sync = Scanners
      /\ Sound(sync[k], known[k], synced[k])
  BY DEF IndexInv
<1>3. job \in Jobs /\ job.at = "load" /\ job.cursor = cursor /\ job.head = 0
  <2>1. cursor \in Nat
    BY <1>2
  <2> QED
    BY <2>1, IdleIsJob, Zenon DEF Jobs, Index!Steps
<1> HIDE DEF job
<1>4. sync'[k] = job
  BY <1>1, <1>2
<1>5. Sound(sync[k], known[k], synced[k])'
  BY <1>1, <1>2, <1>3, <1>4 DEF Sound, Covers
<1> QED
  BY <1>1, <1>2, <1>5, OneGoesOn

(* Loading the stored holders keeps what the reach of the service promises. *)
LEMMA LoadsSound ==
    ASSUME IndexInv, NEW k \in Scanners, Index!Loads(k) PROVE IndexInv'
<1> DEFINE job == [Index!Idle EXCEPT !.at = "head"]
           reach == Index!Larger(synced[k], sync[k].cursor)
<1>1. /\ sync' = [sync EXCEPT ![k] = job]
      /\ known' = [known EXCEPT ![k] = known[k] \union stored]
      /\ synced' = [synced EXCEPT ![k] = reach]
      /\ UNCHANGED <<chain, stored, cursor>>
  BY DEF Index!Loads, Index!GoesOn, Index!Learns, Index!Reaches, Index!storeVars
<1>2. chain \in Seq(SUBSET Indexed) /\ cursor \in 0 .. Len(chain)
      /\ Covers(cursor - Overlap, stored) /\ DOMAIN known = Scanners
      /\ DOMAIN synced = Scanners /\ DOMAIN sync = Scanners
      /\ Sound(sync[k], known[k], synced[k])
  BY DEF IndexInv
<1>3. job \in Jobs /\ job.at = "head" /\ job.cursor = 0 /\ job.head = 0
  BY DEF Index!Idle, Jobs, Index!Steps
<1>4. /\ synced[k] \in 0 .. cursor /\ sync[k].cursor \in 0 .. cursor
      /\ Covers(synced[k] - Overlap, known[k])
  BY <1>2 DEF Sound, Jobs
<1>5. reach \in 0 .. cursor /\ (reach = synced[k] \/ reach <= cursor)
  BY <1>2, <1>4 DEF Index!Larger
<1>6. Covers(reach - Overlap, known[k] \union stored)
  BY <1>2, <1>5, IndexNumbers DEF Covers
<1> HIDE DEF job, reach
<1>7. sync'[k] = job /\ known'[k] = known[k] \union stored /\ synced'[k] = reach
  BY <1>1, <1>2
<1>8. Sound(sync[k], known[k], synced[k])'
  BY <1>1, <1>2, <1>3, <1>5, <1>6, <1>7 DEF Sound, Covers
<1>9. /\ DOMAIN known' = Scanners /\ DOMAIN synced' = Scanners /\ DOMAIN sync' = Scanners
      /\ \A j \in Scanners \ {k} :
            sync'[j] = sync[j] /\ synced'[j] = synced[j] /\ known'[j] = known[j]
  BY <1>1, <1>2
<1>10. cursor' \in 0 .. Len(chain) /\ cursor <= cursor' /\ stored \subseteq stored'
       /\ Covers(cursor' - Overlap, stored') /\ UNCHANGED chain
  BY <1>1, <1>2
<1> QED
  BY <1>8, <1>9, <1>10, OneGoesOn

(* With the head read, the range starts an overlap before the reach. *)
LEMMA ReadsHeadSound ==
    ASSUME IndexInv, NEW k \in Scanners, NEW head \in 0 .. Len(chain), Index!ReadsHead(k, head)
    PROVE  IndexInv'
<1> DEFINE next == [sync[k] EXCEPT !.start = Index!Resume(k), !.head = head]
           job == Index!Rest(next)
<1>1. /\ sync' = [sync EXCEPT ![k] = job]
      /\ UNCHANGED <<chain, stored, cursor, known, synced>>
  BY DEF Index!ReadsHead, Index!GoesOn, Index!storeVars, Index!memoryVars
<1>2. chain \in Seq(SUBSET Indexed) /\ cursor \in 0 .. Len(chain)
      /\ Covers(cursor - Overlap, stored) /\ DOMAIN known = Scanners
      /\ DOMAIN synced = Scanners /\ DOMAIN sync = Scanners
      /\ Sound(sync[k], known[k], synced[k])
  BY DEF IndexInv
<1>3. /\ sync[k] \in Jobs /\ synced[k] \in 0 .. cursor
      /\ Covers(synced[k] - Overlap, known[k])
      /\ sync[k].cursor <= cursor
  BY <1>2 DEF Sound
<1>4. /\ Index!Resume(k) \in Nat \ {0}
      /\ Index!Resume(k) - 1 <= synced[k] - Overlap \/ Index!Resume(k) = 1
  BY <1>2, <1>3, IndexNumbers DEF Index!Resume, Index!Larger
<1>5. next \in Jobs /\ next.start = Index!Resume(k) /\ next.head = head
      /\ next.cursor = sync[k].cursor
  <2>1. Index!Resume(k) \in Nat /\ head \in Nat
    BY <1>4
  <2> QED
    BY <1>3, <2>1, Zenon DEF Jobs
<1> HIDE DEF next
<1>6. CASE next.start > next.head
  <2>1. job = Index!Idle
    BY <1>6 DEF Index!Rest
  <2>2. sync'[k] = Index!Idle
    BY <1>1, <1>2, <2>1
  <2> HIDE DEF job
  <2>3. Sound(sync[k], known[k], synced[k])'
    BY <1>1, <1>2, <1>3, <2>2, IdleIsJob DEF Sound, Covers
  <2> QED
    BY <1>1, <1>2, <2>3, OneGoesOn
<1>7. CASE ~(next.start > next.head)
  <2>1. job = [next EXCEPT !.at = "scan", !.found = {}]
    BY <1>7 DEF Index!Rest
  <2>2. job \in Jobs /\ job.at = "scan" /\ job.start = Index!Resume(k) /\ job.head = head
        /\ job.cursor = sync[k].cursor
    BY <2>1, <1>5 DEF Jobs, Index!Steps
  <2> HIDE DEF job
  <2>3. sync'[k] = job
    BY <1>1, <1>2
  <2>4. job.start \in 1 .. job.head
    BY <1>4, <1>5, <1>7, <2>2
  <2>5. Covers(Nearer(job.start - 1, job.head - Overlap), known[k] \intersect stored)
    <3>1. job.start - 1 <= synced[k] - Overlap \/ job.start - 1 = 0
      BY <1>4, <2>2
    <3>2. Nearer(job.start - 1, job.head - Overlap) <= job.start - 1
          /\ Nearer(job.start - 1, job.head - Overlap) \in Int /\ job.start \in Nat
      BY <2>2, IndexNumbers DEF Nearer, Jobs
    <3> HIDE DEF Nearer
    <3>3. ASSUME NEW b \in DOMAIN chain, b <= Nearer(job.start - 1, job.head - Overlap)
          PROVE  chain[b] \subseteq known[k] /\ chain[b] \subseteq stored
      <4>1. b \in 1 .. Len(chain)
        BY <1>2
      <4>2. b <= synced[k] - Overlap /\ b <= cursor - Overlap
        BY <1>2, <1>3, <3>1, <3>2, <3>3, <4>1, IndexNumbers
      <4> QED
        BY <1>2, <1>3, <4>2 DEF Covers
    <3> QED
      BY <3>3 DEF Covers
  <2>6. Sound(sync[k], known[k], synced[k])'
    BY <1>1, <1>2, <1>3, <2>2, <2>3, <2>4, <2>5 DEF Sound, Covers
  <2> QED
    BY <1>1, <1>2, <2>6, OneGoesOn
<1> QED
  BY <1>6, <1>7

(* A scan finds every holder of its batch but for blocks still unsettled. *)
LEMMA ScansSound ==
    ASSUME IndexInv, NEW k \in Scanners, NEW missed \in SUBSET Index!Unsettled,
           Index!Scans(k, missed)
    PROVE  IndexInv'
<1> DEFINE end == Index!BatchEnd(sync[k])
           found == Index!Recipients((sync[k].start .. end) \ missed)
           job == [sync[k] EXCEPT !.at = "store", !.found = found]
           final == sync[k].head - Overlap
<1>1. /\ Index!At(k, "scan")
      /\ sync' = [sync EXCEPT ![k] = job]
      /\ known' = [known EXCEPT ![k] = known[k] \union found]
      /\ UNCHANGED <<chain, stored, cursor, synced>>
  BY DEF Index!Scans, Index!GoesOn, Index!Learns, Index!storeVars
<1>2. chain \in Seq(SUBSET Indexed) /\ cursor \in 0 .. Len(chain)
      /\ Covers(cursor - Overlap, stored) /\ DOMAIN known = Scanners
      /\ DOMAIN synced = Scanners /\ DOMAIN sync = Scanners
      /\ Sound(sync[k], known[k], synced[k])
  BY DEF IndexInv
<1>3. /\ sync[k] \in Jobs /\ synced[k] \in 0 .. cursor
      /\ sync[k].start \in 1 .. sync[k].head /\ sync[k].head <= Len(chain)
      /\ Covers(Nearer(sync[k].start - 1, final), known[k] \intersect stored)
      /\ Covers(synced[k] - Overlap, known[k])
      /\ sync[k].cursor <= cursor
  BY <1>1, <1>2 DEF Sound, Index!At
<1>4. end \in sync[k].start .. sync[k].head
  BY <1>3, BatchInJob
<1>5. sync[k].start \in Nat \ {0} /\ sync[k].head \in Nat /\ end \in Nat /\ final \in Int
  BY <1>3, <1>4, IndexNumbers DEF Jobs
<1>6. Len(chain) \in Nat /\ DOMAIN chain = 1 .. Len(chain)
  BY <1>2
<1> HIDE DEF end
<1>7. found \in SUBSET Indexed
  <2>1. sync[k].start .. end \subseteq DOMAIN chain
    BY <1>3, <1>4, <1>5, <1>6
  <2>2. \A b \in DOMAIN chain : chain[b] \subseteq Indexed
    BY <1>2, <1>6
  <2> QED
    BY <2>1, <2>2 DEF Index!Recipients
<1>8. ASSUME NEW b \in DOMAIN chain, b <= Nearer(end, final)
      PROVE  chain[b] \subseteq known[k] \union found /\ chain[b] \subseteq stored \union found
  <2>1. b \in Nat \ {0} /\ b <= end /\ b <= final
    BY <1>5, <1>6, <1>8 DEF Nearer
  <2>2. CASE b < sync[k].start
    <3>1. b <= Nearer(sync[k].start - 1, final)
      BY <1>5, <2>1, <2>2 DEF Nearer
    <3> QED
      BY <1>3, <3>1 DEF Covers
  <2>3. CASE ~(b < sync[k].start)
    <3>1. b \notin missed
      <4>1. b <= Len(chain) - Depth
        BY <1>3, <1>5, <1>6, <2>1, IndexNumbers
      <4> QED
        BY <4>1, <1>6, IndexNumbers DEF Index!Unsettled, Index!Settled
    <3>2. b \in (sync[k].start .. end) \ missed
      BY <1>5, <2>1, <2>3, <3>1
    <3> QED
      BY <3>2 DEF Index!Recipients
  <2> QED
    BY <2>2, <2>3
<1> HIDE DEF found
<1>9. job \in Jobs /\ job.at = "store" /\ job.start = sync[k].start /\ job.head = sync[k].head
      /\ job.cursor = sync[k].cursor /\ job.found = found
  BY <1>3, <1>7, Zenon DEF Jobs, Index!Steps
<1> HIDE DEF job
<1>10. sync'[k] = job /\ known'[k] = known[k] \union found /\ synced'[k] = synced[k]
  BY <1>1, <1>2
<1>11. Index!BatchEnd(job) = end
  BY <1>9 DEF end, Index!BatchEnd
<1>12. Covers(Nearer(Index!BatchEnd(job), job.head - Overlap),
              (known[k] \union found) \intersect (stored \union job.found))
  BY <1>8, <1>9, <1>11 DEF Covers
<1>13. Covers(synced[k] - Overlap, known[k] \union found)
  BY <1>3 DEF Covers
<1>14. Sound(job, known[k] \union found, synced[k])
  BY <1>3, <1>9, <1>12, <1>13 DEF Sound
<1>15. Sound(sync[k], known[k], synced[k])'
  BY <1>1, <1>10, <1>14 DEF Sound, Covers, Index!BatchEnd
<1>16. /\ DOMAIN known' = Scanners /\ DOMAIN synced' = Scanners /\ DOMAIN sync' = Scanners
       /\ \A j \in Scanners \ {k} :
             sync'[j] = sync[j] /\ synced'[j] = synced[j] /\ known'[j] = known[j]
  BY <1>1, <1>2
<1>17. cursor' \in 0 .. Len(chain) /\ cursor <= cursor' /\ stored \subseteq stored'
       /\ Covers(cursor' - Overlap, stored') /\ UNCHANGED chain
  BY <1>1, <1>2
<1> QED
  BY <1>15, <1>16, <1>17, OneGoesOn

(* The holders of a batch are stored before its cursor moves. *)
LEMMA StoresSound ==
    ASSUME IndexInv, NEW k \in Scanners, Index!StoresHolders(k) PROVE IndexInv'
<1> DEFINE job == [sync[k] EXCEPT !.at = "cursor"]
           more == stored \union sync[k].found
<1>1. /\ Index!At(k, "store")
      /\ sync' = [sync EXCEPT ![k] = job]
      /\ stored' = more
      /\ UNCHANGED <<chain, cursor, known, synced>>
  BY DEF Index!StoresHolders, Index!GoesOn, Index!memoryVars
<1>2. chain \in Seq(SUBSET Indexed) /\ cursor \in 0 .. Len(chain)
      /\ Covers(cursor - Overlap, stored) /\ DOMAIN known = Scanners
      /\ DOMAIN synced = Scanners /\ DOMAIN sync = Scanners
      /\ Sound(sync[k], known[k], synced[k])
  BY DEF IndexInv
<1>3. /\ sync[k] \in Jobs /\ synced[k] \in 0 .. cursor
      /\ sync[k].start \in 1 .. sync[k].head /\ sync[k].head <= Len(chain)
      /\ Covers(Nearer(Index!BatchEnd(sync[k]), sync[k].head - Overlap), known[k] \intersect more)
      /\ Covers(synced[k] - Overlap, known[k])
      /\ sync[k].cursor <= cursor
  BY <1>1, <1>2 DEF Sound, Index!At
<1>4. job \in Jobs /\ job.at = "cursor" /\ job.start = sync[k].start /\ job.head = sync[k].head
      /\ job.cursor = sync[k].cursor
  BY <1>3 DEF Jobs, Index!Steps
<1> HIDE DEF job, more
<1>5. sync'[k] = job
  BY <1>1, <1>2
<1>6. Index!BatchEnd(job) = Index!BatchEnd(sync[k])
  BY <1>4 DEF Index!BatchEnd
<1>7. Sound(sync[k], known[k], synced[k])'
  BY <1>1, <1>3, <1>4, <1>5, <1>6 DEF Sound, Covers, Index!BatchEnd
<1>8. Covers(cursor - Overlap, more) /\ stored \subseteq more
  BY <1>2 DEF more, Covers
<1> QED
  BY <1>1, <1>2, <1>7, <1>8, OneGoesOn

(* The cursor moves over a batch whose holders are stored. *)
LEMMA AdvancesSound ==
    ASSUME IndexInv, NEW k \in Scanners, Index!AdvancesCursor(k) PROVE IndexInv'
<1> DEFINE end == Index!BatchEnd(sync[k])
           next == [sync[k] EXCEPT !.start = end + 1]
           job == Index!Rest(next)
           reach == Index!Larger(synced[k], end)
           final == sync[k].head - Overlap
<1>1. /\ Index!At(k, "cursor")
      /\ cursor' = Index!Larger(cursor, end)
      /\ sync' = [sync EXCEPT ![k] = job]
      /\ synced' = [synced EXCEPT ![k] = reach]
      /\ UNCHANGED <<chain, stored, known>>
  BY DEF Index!AdvancesCursor, Index!GoesOn, Index!Reaches
<1>2. chain \in Seq(SUBSET Indexed) /\ cursor \in 0 .. Len(chain)
      /\ Covers(cursor - Overlap, stored) /\ DOMAIN known = Scanners
      /\ DOMAIN synced = Scanners /\ DOMAIN sync = Scanners
      /\ Sound(sync[k], known[k], synced[k])
  BY DEF IndexInv
<1>3. /\ sync[k] \in Jobs /\ synced[k] \in 0 .. cursor
      /\ sync[k].start \in 1 .. sync[k].head /\ sync[k].head <= Len(chain)
      /\ Covers(Nearer(end, final), known[k] \intersect stored)
      /\ Covers(synced[k] - Overlap, known[k])
      /\ sync[k].cursor <= cursor
  BY <1>1, <1>2 DEF Sound, Index!At
<1>4. end \in sync[k].start .. sync[k].head
  BY <1>3, BatchInJob
<1>5. /\ sync[k].start \in Nat \ {0} /\ sync[k].head \in Nat /\ end \in Nat \ {0}
      /\ final \in Int /\ end <= Len(chain) /\ sync[k].cursor \in Nat
      /\ Len(chain) \in Nat /\ DOMAIN chain = 1 .. Len(chain)
  BY <1>2, <1>3, <1>4, IndexNumbers DEF Jobs
<1>6. next \in Jobs /\ next.start = end + 1 /\ next.head = sync[k].head
      /\ next.cursor = sync[k].cursor
  <2>1. end + 1 \in Nat
    BY <1>5
  <2> HIDE DEF end
  <2> QED
    BY <1>3, <2>1, Zenon DEF Jobs
<1>7. Covers(end - Overlap, known[k]) /\ Covers(end - Overlap, stored)
  <2>1. end - Overlap <= Nearer(end, final) /\ end - Overlap \in Int /\ Nearer(end, final) \in Int
    BY <1>4, <1>5, IndexNumbers DEF Nearer
  <2> HIDE DEF end, final
  <2>2. /\ Covers(end - Overlap, known[k] \intersect stored)
    BY <1>2, <1>3, <2>1, CoversLess
  <2> QED
    BY <2>2 DEF Covers
<1>8. cursor' \in 0 .. Len(chain) /\ cursor <= cursor' /\ (cursor' = cursor \/ cursor' = end)
  BY <1>1, <1>2, <1>5 DEF Index!Larger
<1>9. reach \in 0 .. cursor' /\ (reach = synced[k] \/ reach = end)
  BY <1>1, <1>2, <1>3, <1>5 DEF Index!Larger
<1> HIDE DEF end, final, next, reach
<1>10. Covers(cursor' - Overlap, stored) /\ Covers(reach - Overlap, known[k])
  BY <1>2, <1>3, <1>7, <1>8, <1>9
<1>11. /\ job \in Jobs /\ (job.cursor = sync[k].cursor \/ job.cursor = 0)
       /\ (job.head = sync[k].head \/ job.head = 0)
       /\ \/ job.at = "idle"
          \/ /\ job.at = "scan" /\ job.head = sync[k].head /\ job.start = end + 1
             /\ job.start <= job.head
  <2>1. CASE next.start > next.head
    BY <2>1, IdleIsJob DEF Index!Rest
  <2>2. CASE ~(next.start > next.head)
    <3>1. job = [next EXCEPT !.at = "scan", !.found = {}]
      BY <2>2 DEF Index!Rest
    <3> HIDE DEF job
    <3>2. job \in Jobs /\ job.at = "scan" /\ job.head = next.head /\ job.start = next.start
          /\ job.cursor = next.cursor
      BY <3>1, <1>6 DEF Jobs, Index!Steps
    <3>3. next.start <= next.head
      BY <1>5, <1>6, <2>2
    <3> QED
      BY <3>2, <3>3, <1>6
  <2> QED
    BY <2>1, <2>2
<1> HIDE DEF job
<1>12. job.at = "scan" =>
          /\ Covers(Nearer(job.start - 1, job.head - Overlap), known[k] \intersect stored)
          /\ job.start \in 1 .. job.head
  <2> SUFFICES ASSUME job.at = "scan"
               PROVE  /\ Covers(Nearer(job.start - 1, job.head - Overlap), known[k] \intersect stored)
                      /\ job.start \in 1 .. job.head
    OBVIOUS
  <2>1. job.start - 1 = end /\ job.head - Overlap = final /\ job.start \in 1 .. job.head
    BY <1>5, <1>11 DEF final
  <2> QED
    BY <1>3, <2>1
<1>13. sync'[k] = job /\ synced'[k] = reach /\ known'[k] = known[k]
  BY <1>1, <1>2
<1>14. /\ job.cursor <= cursor' /\ job.head <= Len(chain)
  BY <1>2, <1>3, <1>5, <1>8, <1>11
<1>15. Sound(sync[k], known[k], synced[k])'
  BY <1>1, <1>9, <1>10, <1>11, <1>12, <1>13, <1>14 DEF Sound, Covers
<1>16. /\ DOMAIN known' = Scanners /\ DOMAIN synced' = Scanners /\ DOMAIN sync' = Scanners
       /\ \A j \in Scanners \ {k} :
             sync'[j] = sync[j] /\ synced'[j] = synced[j] /\ known'[j] = known[j]
  BY <1>1, <1>2
<1>17. Covers(cursor' - Overlap, stored') /\ stored \subseteq stored' /\ UNCHANGED chain
  BY <1>1, <1>10
<1> QED
  BY <1>8, <1>15, <1>16, <1>17, OneGoesOn

(* What a failure or a crash leaves a keeper with is sound. *)
LEMMA StopsSound ==
    ASSUME IndexInv, NEW k \in Scanners, Index!Fails(k) \/ Index!Restarts(k) PROVE IndexInv'
<1>1. chain \in Seq(SUBSET Indexed) /\ cursor \in 0 .. Len(chain)
      /\ Covers(cursor - Overlap, stored) /\ DOMAIN known = Scanners
      /\ DOMAIN synced = Scanners /\ DOMAIN sync = Scanners
      /\ Sound(sync[k], known[k], synced[k])
  BY DEF IndexInv
<1>2. UNCHANGED <<chain, stored, cursor>> /\ sync' = [sync EXCEPT ![k] = Index!Idle]
  BY DEF Index!Fails, Index!Restarts, Index!GoesOn, Index!storeVars
<1>3. \/ UNCHANGED <<known, synced>>
      \/ known' = [known EXCEPT ![k] = {}] /\ synced' = [synced EXCEPT ![k] = 0]
  BY DEF Index!Fails, Index!Restarts, Index!memoryVars
<1>4. /\ DOMAIN known' = Scanners /\ DOMAIN synced' = Scanners /\ DOMAIN sync' = Scanners
      /\ \A j \in Scanners \ {k} :
            sync'[j] = sync[j] /\ synced'[j] = synced[j] /\ known'[j] = known[j]
      /\ sync'[k] = Index!Idle
  BY <1>1, <1>2, <1>3
<1>5. synced'[k] \in 0 .. cursor
      /\ \A b \in DOMAIN chain : b <= synced'[k] - Overlap => chain[b] \subseteq known'[k]
  <2>1. CASE UNCHANGED <<known, synced>>
    BY <1>1, <2>1 DEF Sound, Covers
  <2>2. CASE known' = [known EXCEPT ![k] = {}] /\ synced' = [synced EXCEPT ![k] = 0]
    <3>1. synced'[k] = 0
      BY <1>1, <2>2
    <3>2. DOMAIN chain \subseteq Nat \ {0} /\ cursor \in Nat
      BY <1>1
    <3> QED
      BY <3>1, <3>2, IndexNumbers
  <2> QED
    BY <1>3, <2>1, <2>2
<1>6. Sound(sync[k], known[k], synced[k])'
  BY <1>1, <1>2, <1>4, <1>5, IdleIsJob DEF Sound, Covers
<1>7. cursor' \in 0 .. Len(chain) /\ cursor <= cursor' /\ stored \subseteq stored'
      /\ Covers(cursor' - Overlap, stored') /\ UNCHANGED chain
  BY <1>1, <1>2
<1> QED
  BY <1>4, <1>6, <1>7, OneGoesOn

(* A new block, or a reorganisation within the depth, passes nobody over. *)
LEMMA ChainSound == IndexInv /\ Index!ChainStep => IndexInv'
<1> SUFFICES ASSUME IndexInv, Index!ChainStep PROVE IndexInv'
  OBVIOUS
<1>1. chain \in Seq(SUBSET Indexed) /\ cursor \in 0 .. Len(chain)
      /\ Covers(cursor - Overlap, stored) /\ DOMAIN known = Scanners
      /\ DOMAIN synced = Scanners /\ DOMAIN sync = Scanners
  BY DEF IndexInv
<1>2. UNCHANGED <<stored, cursor, known, synced, sync>>
  BY DEF Index!ChainStep, Index!Mined, Index!Reorganised, Index!storeVars, Index!memoryVars
<1>3. chain' \in Seq(SUBSET Indexed) /\ Len(chain) <= Len(chain') /\ Len(chain') \in Nat
  BY <1>1, ChainKeeps
<1>4. ASSUME NEW k \in Scanners PROVE Sound(sync[k], known[k], synced[k])'
  <2>1. Sound(sync[k], known[k], synced[k])
    BY DEF IndexInv
  <2> QED
    BY <1>1, <1>2, <2>1, StaysSound
<1>5. Covers(cursor - Overlap, stored)'
  <2>1. cursor - Overlap \in Int /\ cursor - Overlap <= Len(chain) - Overlap
    BY <1>1, IndexNumbers
  <2>2. \A b \in DOMAIN chain' : b <= cursor - Overlap => chain'[b] \subseteq stored
    BY <1>1, <2>1, ChainKeeps
  <2> QED
    BY <1>2, <2>2 DEF Covers
<1>6. cursor' \in 0 .. Len(chain')
  BY <1>1, <1>2, <1>3
<1> QED
  BY <1>1, <1>2, <1>3, <1>4, <1>5, <1>6 DEF IndexInv

(* No step of scanners, Redis or chain lets a holder be passed over. *)
LEMMA NextIndexInv == IndexInv /\ [Next]_vars => IndexInv'
<1> SUFFICES ASSUME IndexInv, [Next]_vars PROVE IndexInv'
  OBVIOUS
<1>1. chain \in Seq(SUBSET Indexed) /\ Len(chain) \in Nat /\ DOMAIN chain = 1 .. Len(chain)
  BY DEF IndexInv
<1>2. CASE UNCHANGED indexVars
  BY <1>2 DEF indexVars, IndexInv, Sound, Covers, Index!BatchEnd
<1>3. ASSUME NEW k \in Scanners, Index!SyncStep(k) PROVE IndexInv'
  <2>1. Len(chain) \in 0 .. Len(chain) /\ {} \in SUBSET Index!Unsettled
    BY <1>1
  <2> QED
    BY <1>3, <2>1, ReadsCursorSound, LoadsSound, ReadsHeadSound, ScansSound, StoresSound,
       AdvancesSound DEF Index!SyncStep
<1>4. CASE Index!FaultStep
  <2>1. ASSUME NEW b \in Index!Unsettled PROVE b - 1 \in 0 .. Len(chain)
    BY <1>1 DEF Index!Unsettled
  <2> QED
    BY <1>4, <2>1, StopsSound, ScansSound, ReadsHeadSound DEF Index!FaultStep
<1> QED
  BY <1>2, <1>3, <1>4, ChainSound, Worlds DEF Index!Next

(* A cursor that is stored, or loaded, or reached by a scan, never passes   *)
(* over a holder, up to the overlap that every sync scans again             *)
(* (holder-index.ts: load, sync, commit).                                   *)
THEOREM NoHolderLost == Spec => []NoHolderPassedOver
<1>1. IndexInv => NoHolderPassedOver
  <2> SUFFICES ASSUME IndexInv PROVE NoHolderPassedOver
    OBVIOUS
  <2>1. ASSUME NEW n \in 0 .. Len(chain), NEW set, Covers(n - Overlap, set)
        PROVE  Index!Covered(n) \subseteq set
    <3>1. Len(chain) \in Nat /\ DOMAIN chain = 1 .. Len(chain)
      BY DEF IndexInv
    <3>2. \A b \in 1 .. (n - Overlap) : b \in DOMAIN chain /\ b <= n - Overlap
      BY <3>1, IndexNumbers
    <3> QED
      BY <2>1, <3>2 DEF Covers, Index!Covered, Index!Recipients
  <2>2. Index!Covered(cursor) \subseteq stored
    BY <2>1 DEF IndexInv
  <2>3. ASSUME NEW k \in Scanners PROVE Index!Covered(synced[k]) \subseteq known[k]
    <3>1. Sound(sync[k], known[k], synced[k]) /\ cursor \in 0 .. Len(chain) /\ Len(chain) \in Nat
      BY DEF IndexInv
    <3>2. synced[k] \in 0 .. Len(chain) /\ Covers(synced[k] - Overlap, known[k])
      BY <3>1 DEF Sound
    <3> QED
      BY <2>1, <3>2
  <2> QED
    BY <2>2, <2>3 DEF NoHolderPassedOver
<1> QED
  BY <1>1, InitIndexInv, NextIndexInv, PTL DEF Spec

----------------------------------------------------------------------------
(* The types                                                               *)

(* Whoever is weak or flagged holds YES, and nobody pays what it has not.   *)
Held ==
    /\ yes \in [Holders -> Nat]
    /\ weak \subseteq {h \in Holders : yes[h] > 0}
    /\ flagged \subseteq {h \in Holders : yes[h] > 0}
    /\ sunk \subseteq weak
    /\ motion \in BOOLEAN
    /\ mark \in Marks
    /\ usdc \in Nat

(* It holds of the positions every run of the keepers starts from. *)
LEMMA InitHeld == Init => Held
<1> SUFFICES ASSUME Init PROVE Held
  OBVIOUS
<1> USE MarketAssumption
<1>1. yes \in [Holders -> Nat] /\ \A h \in Holders \ {Bot} : yes[h] > 0
  BY DEF Init, PositionsInit
<1>2. weak \subseteq Holders \ {Bot} /\ flagged \subseteq weak /\ sunk \subseteq flagged
  BY DEF Init, PositionsInit
<1> QED
  BY <1>1, <1>2 DEF Init, PositionsInit, Held

(* A holder is flagged only while it is weak. *)
LEMMA FlagHeld ==
    ASSUME Held, NEW h \in Holders, Flag(h)
    PROVE  Held'
  BY DEF Held, Flag, CanFlag

(* A position whose YES goes elsewhere is neither weak nor flagged. *)
LEMMA LeavesHeld ==
    ASSUME Held, NEW h \in Holders, Leaves(h), yes' \in [Holders -> Nat],
           \A g \in Holders \ {h} : yes[g] > 0 => yes'[g] > 0,
           motion' \in BOOLEAN, mark' \in Marks, usdc' \in Nat
    PROVE  Held'
  BY DEF Held, Leaves

(* The bot pays out of what it has (claim). *)
LEMMA ClaimHeld ==
    ASSUME Held, NEW h \in Holders, ClaimEffect(h)
    PROVE  Held'
<1> USE MarketAssumption
<1>1. CASE BotClaims(h)
  <2>1. CanClaim(h) /\ Leaves(h) /\ UNCHANGED <<motion, mark>>
    BY <1>1 DEF BotClaims
  <2>2. h # Bot
    BY <2>1 DEF CanClaim
  <2>3. yes[h] \in Nat /\ yes[Bot] \in Nat /\ mark \in Nat
    BY DEF Held
  <2>4. yes' = [yes EXCEPT ![h] = 0, ![Bot] = yes[Bot] + yes[h]]
    BY <1>1, <2>2 DEF BotClaims, Held
  <2>5. yes' \in [Holders -> Nat] /\ \A g \in Holders \ {h} : yes[g] > 0 => yes'[g] > 0
    BY <2>2, <2>3, <2>4 DEF Held
  <2>6. Value(h) \in Nat
    BY <2>3, SMT DEF Value
  <2>7. usdc' \in Nat
    <3> HIDE DEF Value
    <3>1. usdc' = usdc - Value(h) /\ usdc >= Value(h) /\ usdc \in Nat
      BY <1>1, <2>1 DEF BotClaims, CanClaim, Held
    <3> QED
      BY <2>6, <3>1
  <2> QED
    BY <2>1, <2>5, <2>7, LeavesHeld DEF Held
<1>2. CASE UNCHANGED marketVars
  BY <1>2 DEF marketVars, positionVars, Held
<1> QED
  BY <1>1, <1>2 DEF ClaimEffect

(* What happens to the market by itself, each kind of step in turn. *)
LEMMA MarketHeld ==
    ASSUME Held, moves \in 0 .. MaxMoves, MarketStep
    PROVE  Held' /\ moves' \in 0 .. MaxMoves
<1>1. moves' \in 0 .. MaxMoves
  BY MarketAssumption DEF MarketStep
<1>2. ASSUME NEW h \in Holders, Weakens(h) PROVE Held'
  BY <1>2 DEF Held, Weakens
<1>3. ASSUME NEW h \in Holders, Recovers(h) PROVE Held'
  BY <1>3 DEF Held, Recovers
<1>4. ASSUME NEW h \in Holders, Sinks(h) PROVE Held'
  BY <1>4 DEF Held, Sinks
<1>5. ASSUME NEW h \in Holders, Cures(h) PROVE Held'
  <2>1. Leaves(h) /\ UNCHANGED <<yes, motion, mark, usdc>>
    BY <1>5 DEF Cures
  <2> QED
    BY <2>1, LeavesHeld DEF Held
<1>6. ASSUME NEW h \in Holders, RivalClaims(h) PROVE Held'
  <2>1. Leaves(h) /\ yes' = [yes EXCEPT ![h] = 0] /\ UNCHANGED <<motion, mark, usdc>>
    BY <1>6 DEF RivalClaims
  <2>2. yes' \in [Holders -> Nat] /\ \A g \in Holders \ {h} : yes[g] > 0 => yes'[g] > 0
    BY <2>1 DEF Held
  <2> QED
    BY <2>1, <2>2, LeavesHeld DEF Held
<1>7. FundFilledUp => Held'
  BY DEF Held, FundFilledUp
<1>8. MotionFlips => Held'
  BY DEF Held, MotionFlips, positionVars
<1>9. MarkMoves => Held'
  BY DEF Held, MarkMoves, positionVars
<1> QED
  BY <1>1, <1>2, <1>3, <1>4, <1>5, <1>6, <1>7, <1>8, <1>9, FlagHeld DEF MarketStep

(* What the bot has in hand and on offer is of the market it deals with. *)
Cycles ==
    [at : {"idle", "discover", "claim", "send", "wait", "book", "cancel"},
     mark : Marks \union {0}, motion : BOOLEAN,
     pending : SUBSET [holder : Holders, cost : Nat], call : Holders,
     tx : {"none", "sent", "success", "reverted"}, amount : Nat,
     own : SUBSET Asks, target : Marks \union {0}]

AskRecords == [where : {"listed", "late", "deleted"}, shown : Nat, left : Nat, price : Marks]

Offered ==
    /\ DOMAIN asks \subseteq Asks
    /\ \A a \in DOMAIN asks : asks[a] \in AskRecords

(* A bot that has begun no cycle has nothing in hand. *)
LEMMA RestingIsCycle == Resting \in Cycles
  BY MarketAssumption DEF Resting, Cycles

(* The bot starts with no cycle, no claim and no ask. *)
LEMMA InitBot == Init => BotTypeOK
<1> SUFFICES ASSUME Init PROVE BotTypeOK
  OBVIOUS
<1>1. DOMAIN asks = {}
  BY DEF Init, BotInit
<1> QED
  BY <1>1, RestingIsCycle DEF Init, BotInit, BotTypeOK, Cycles

(* Deleting an ask leaves it on record until the engine forgets it. *)
LEMMA DeletedOffered ==
    ASSUME Offered, NEW a, asks' = Deleted(a)
    PROVE  Offered'
<1>1. CASE a \in Listed
  BY <1>1 DEF Offered, Deleted, Listed, AskRecords
<1>2. CASE a \notin Listed
  BY <1>2 DEF Offered, Deleted
<1> QED
  BY <1>1, <1>2

(* An ask that is done with leaves the others alone. *)
LEMMA WithoutOffered ==
    ASSUME Offered, NEW a, asks' = Without(a)
    PROVE  Offered'
  BY DEF Offered, Without, Restrict

(* A new ask takes an id that none has. *)
LEMMA NewAskOffered ==
    ASSUME Offered, cycle \in Cycles, NEW where \in {"listed", "late"}, NEW price \in Marks,
           NewAsk(where, price)
    PROVE  Offered'
<1> DEFINE fresh == Asks \ DOMAIN asks
           id == CHOOSE a \in fresh : TRUE
           ask == [where |-> where, shown |-> cycle.amount, left |-> cycle.amount, price |-> price]
<1>1. id \in fresh
  BY DEF NewAsk
<1>2. ask \in AskRecords
  BY DEF Cycles, AskRecords
<1>3. asks' = [a \in DOMAIN asks \union {id} |-> IF a = id THEN ask ELSE asks[a]]
  BY Zenon DEF NewAsk
<1> HIDE DEF fresh, id, ask
<1>4. id \in Asks
  BY <1>1 DEF fresh
<1> QED
  BY <1>2, <1>3, <1>4 DEF Offered

(* The end of a claim, however it ends. *)
LEMMA NextClaimIsCycle == cycle \in Cycles => NextClaim \in Cycles
  BY MarketAssumption, ZenonT(30) DEF NextClaim, Cycles

(* What is found flagged are holders, each with what its claim costs. *)
LEMMA DiscoversCycle ==
    ASSUME Held, cycle \in Cycles, NEW missed, Discovers(missed)
    PROVE  cycle' \in Cycles
<1> USE MarketAssumption
<1> DEFINE found == IF cycle.motion THEN {}
                    ELSE {[holder |-> h, cost |-> yes[h] * cycle.mark] : h \in flagged \ missed}
<1>1. cycle' = [cycle EXCEPT !.at = "claim", !.pending = found]
  BY DEF Discovers
<1>2. found \in SUBSET [holder : Holders, cost : Nat]
  <2>1. cycle.mark \in Marks \union {0}
    BY DEF Cycles
  <2>2. cycle.mark \in Nat
    BY <2>1, Marks \union {0} \subseteq Nat, Zenon
  <2>3. flagged \subseteq Holders /\ \A h \in Holders : yes[h] \in Nat
    BY DEF Held
  <2>4. \A h \in flagged : yes[h] * cycle.mark \in Nat
    BY <2>2, <2>3, SMT
  <2> QED
    BY <2>3, <2>4
<1> HIDE DEF found
<1> QED
  BY <1>1, <1>2, ZenonT(30) DEF Cycles

(* A cycle from await to await (runCycle, sell). *)
LEMMA CycleStepBot == Held /\ BotTypeOK /\ CycleStep => BotTypeOK' /\ UNCHANGED marketVars
<1> SUFFICES ASSUME Held, BotTypeOK, CycleStep PROVE BotTypeOK' /\ UNCHANGED marketVars
  OBVIOUS
<1> USE MarketAssumption
<1>0. cycle \in Cycles /\ claiming \subseteq Holders /\ Offered
  BY DEF BotTypeOK, Cycles, Offered, AskRecords
<1>1. cycle' \in Cycles /\ claiming' \subseteq Holders /\ Offered' => BotTypeOK'
  BY DEF BotTypeOK, Cycles, Offered, AskRecords
<1>2. CASE ReadsMarket
  <2>1. cycle' = [Resting EXCEPT !.at = "discover", !.mark = mark, !.motion = motion]
        /\ UNCHANGED <<marketVars, claiming, asks>>
    BY <1>2 DEF ReadsMarket
  <2>2. cycle' \in Cycles
    BY <2>1, RestingIsCycle, ZenonT(30) DEF Cycles, Held
  <2> QED
    BY <1>0, <1>1, <2>1, <2>2 DEF Offered
<1>3. CASE Discovers({})
  BY <1>0, <1>1, <1>3, DiscoversCycle DEF Discovers, Offered
<1>4. ASSUME NEW p \in cycle.pending, TriesClaim(p) PROVE BotTypeOK' /\ UNCHANGED marketVars
  <2>1. cycle' = [cycle EXCEPT !.at = "send", !.call = p.holder, !.pending = cycle.pending \ {p}]
        /\ UNCHANGED <<marketVars, claiming, asks>>
    BY <1>4, Zenon DEF TriesClaim
  <2>2. p.holder \in Holders /\ cycle.pending \ {p} \in SUBSET [holder : Holders, cost : Nat]
    BY <1>0 DEF Cycles
  <2>3. cycle' \in Cycles
    BY <1>0, <2>1, <2>2, ZenonT(30) DEF Cycles
  <2> QED
    BY <1>0, <1>1, <2>1, <2>3 DEF Offered
<1>5. ASSUME NEW p \in cycle.pending, SkipsClaim(p) PROVE BotTypeOK' /\ UNCHANGED marketVars
  <2>1. cycle' = [cycle EXCEPT !.pending = cycle.pending \ {p}]
        /\ UNCHANGED <<marketVars, claiming, asks>>
    BY <1>5 DEF SkipsClaim, Skips
  <2>2. cycle.pending \ {p} \in SUBSET [holder : Holders, cost : Nat]
    BY <1>0 DEF Cycles
  <2>3. cycle' \in Cycles
    BY <1>0, <2>1, <2>2, ZenonT(30) DEF Cycles
  <2> QED
    BY <1>0, <1>1, <2>1, <2>3 DEF Offered
<1>6. CASE SendsClaim
  <2>1. cycle' = [cycle EXCEPT !.at = "wait", !.tx = "sent"] /\ UNCHANGED <<marketVars, claiming, asks>>
    BY <1>6 DEF SendsClaim
  <2>2. cycle' \in Cycles
    BY <1>0, <2>1, ZenonT(30) DEF Cycles
  <2> QED
    BY <1>0, <1>1, <2>1, <2>2 DEF Offered
<1>7. CASE SeesClaim
  BY <1>0, <1>1, <1>7, NextClaimIsCycle DEF SeesClaim, Offered
<1>8. CASE ReadsYES
  <2>1. UNCHANGED <<marketVars, claiming, asks>> /\ yes[Bot] \in Nat
    BY <1>8 DEF ReadsYES, Held
  <2>2. cycle' = Resting \/ cycle' = [cycle EXCEPT !.at = "book", !.amount = yes[Bot]]
    BY <1>8 DEF ReadsYES
  <2>3. cycle' \in Cycles
    BY <1>0, <2>1, <2>2, RestingIsCycle, ZenonT(30) DEF Cycles
  <2> QED
    BY <1>0, <1>1, <2>1, <2>3 DEF Offered
<1>9. ASSUME NEW bid \in BestBids, NEW expiring \in BOOLEAN, ReadsBook(bid, expiring)
      PROVE  BotTypeOK' /\ UNCHANGED marketVars
  <2>1. UNCHANGED <<marketVars, claiming, asks>>
    BY <1>9 DEF ReadsBook
  <2>2. \/ cycle' = Resting
        \/ cycle' = [cycle EXCEPT !.at = "cancel", !.own = Own, !.target = Target(bid)]
    BY <1>9, Zenon DEF ReadsBook
  <2>3. Target(bid) \in Marks \union {0}
    BY <1>0 DEF Target, BestBids, Cycles
  <2>4. Own \in SUBSET Asks
    BY <1>0 DEF Own, Listed, Offered
  <2>5. cycle' \in Cycles
    BY <1>0, <2>2, <2>3, <2>4, RestingIsCycle, ZenonT(30) DEF Cycles
  <2> QED
    BY <1>0, <1>1, <2>1, <2>5 DEF Offered
<1>10. ASSUME NEW a \in cycle.own, Cancels(a) PROVE BotTypeOK' /\ UNCHANGED marketVars
  <2>1. cycle' = [cycle EXCEPT !.own = cycle.own \ {a}] /\ asks' = Deleted(a)
        /\ UNCHANGED <<marketVars, claiming>>
    BY <1>10 DEF Cancels
  <2>2. cycle.own \ {a} \in SUBSET Asks
    BY <1>0 DEF Cycles
  <2>3. cycle' \in Cycles
    BY <1>0, <2>1, <2>2, ZenonT(30) DEF Cycles
  <2> QED
    BY <1>0, <1>1, <2>1, <2>3, DeletedOffered
<1>11. ASSUME NEW price \in Marks, Posts(price) PROVE BotTypeOK' /\ UNCHANGED marketVars
  <2>1. Offered'
    BY <1>0, <1>11, NewAskOffered DEF Posts, Offered
  <2> QED
    BY <1>0, <1>1, <1>11, <2>1, RestingIsCycle DEF Posts
<1> QED
  BY <1>2, <1>3, <1>4, <1>5, <1>6, <1>7, <1>8, <1>9, <1>10, <1>11 DEF CycleStep

(* What breaks off a cycle, or hides its end, leaves the bot with types. *)
LEMMA BotFaultBot == Held /\ BotTypeOK /\ BotFault => BotTypeOK' /\ UNCHANGED marketVars
<1> SUFFICES ASSUME Held, BotTypeOK, BotFault PROVE BotTypeOK' /\ UNCHANGED marketVars
  OBVIOUS
<1>0. cycle \in Cycles /\ claiming \subseteq Holders /\ Offered
  BY DEF BotTypeOK, Cycles, Offered, AskRecords
<1>1. cycle' \in Cycles /\ claiming' \subseteq Holders /\ Offered' => BotTypeOK'
  BY DEF BotTypeOK, Cycles, Offered, AskRecords
<1>2. ASSUME NEW missed \in SUBSET flagged \ {{}}, Discovers(missed)
      PROVE  BotTypeOK' /\ UNCHANGED marketVars
  BY <1>0, <1>1, <1>2, DiscoversCycle DEF Discovers, Offered
<1>3. CASE CycleBreaksOff
  <2>1. cycle' = Resting /\ UNCHANGED <<marketVars, claiming>>
    BY <1>3 DEF CycleBreaksOff
  <2>2. Offered'
    <3>1. CASE UNCHANGED asks
      BY <1>0, <3>1 DEF Offered
    <3>2. ASSUME NEW a \in cycle.own, asks' = Deleted(a) PROVE Offered'
      BY <1>0, <3>2, DeletedOffered
    <3> QED
      BY <1>3, <3>1, <3>2 DEF CycleBreaksOff
  <2> QED
    BY <1>0, <1>1, <2>1, <2>2, RestingIsCycle
<1>4. CASE YESNotApproved
  BY <1>0, <1>1, <1>4, RestingIsCycle DEF YESNotApproved, Offered
<1>5. CASE ClaimNotSent
  BY <1>0, <1>1, <1>5, NextClaimIsCycle DEF ClaimNotSent, Offered
<1>6. CASE ClaimUnanswered
  <2>1. cycle' = NextClaim /\ claiming' = claiming \union {cycle.call} /\ UNCHANGED <<marketVars, asks>>
    BY <1>6 DEF ClaimUnanswered
  <2>2. cycle.call \in Holders
    BY <1>0 DEF Cycles
  <2> QED
    BY <1>0, <1>1, <2>1, <2>2, NextClaimIsCycle DEF Offered
<1>7. ASSUME NEW price \in Marks, PostUnanswered(price)
      PROVE  BotTypeOK' /\ UNCHANGED marketVars
  <2>1. Offered'
    BY <1>0, <1>7, NewAskOffered DEF PostUnanswered
  <2> QED
    BY <1>0, <1>1, <1>7, <2>1, RestingIsCycle DEF PostUnanswered
<1>8. CASE BotRestarts
  <2>1. cycle' = Resting /\ UNCHANGED <<marketVars, asks>>
        /\ claiming' \in {claiming, claiming \union {cycle.call}}
    BY <1>8 DEF BotRestarts
  <2>2. cycle.call \in Holders
    BY <1>0 DEF Cycles
  <2> QED
    BY <1>0, <1>1, <2>1, <2>2, RestingIsCycle DEF Offered
<1> QED
  BY <1>2, <1>3, <1>4, <1>5, <1>6, <1>7, <1>8 DEF BotFault

(* A claim that is mined pays, or reverts; the bot may be long gone. *)
LEMMA MiningBot == Held /\ BotTypeOK /\ BotMining => Held' /\ BotTypeOK'
<1> SUFFICES ASSUME Held, BotTypeOK, BotMining PROVE Held' /\ BotTypeOK'
  OBVIOUS
<1>0. cycle \in Cycles /\ claiming \subseteq Holders /\ Offered
  BY DEF BotTypeOK, Cycles, Offered, AskRecords
<1>1. cycle' \in Cycles /\ claiming' \subseteq Holders /\ Offered' => BotTypeOK'
  BY DEF BotTypeOK, Cycles, Offered, AskRecords
<1>2. CASE ClaimMined
  <2> DEFINE answer == IF CanClaim(cycle.call) THEN "success" ELSE "reverted"
  <2>1. ClaimEffect(cycle.call) /\ cycle' = [cycle EXCEPT !.tx = answer] /\ UNCHANGED <<claiming, asks>>
    BY <1>2, Zenon DEF ClaimMined
  <2>2. cycle.call \in Holders /\ answer \in {"success", "reverted"}
    BY <1>0 DEF Cycles
  <2> HIDE DEF answer
  <2>3. cycle' \in Cycles
    BY <1>0, <2>1, <2>2, ZenonT(30) DEF Cycles
  <2> QED
    BY <1>0, <1>1, <2>1, <2>2, <2>3, ClaimHeld DEF Offered
<1>3. ASSUME NEW h \in claiming, OldClaimMined(h) PROVE Held' /\ BotTypeOK'
  BY <1>0, <1>1, <1>3, ClaimHeld DEF OldClaimMined, Offered
<1> QED
  BY <1>2, <1>3 DEF BotMining

(* The server and the engine get to an ask. *)
LEMMA BookBot == BotTypeOK /\ BookStep => BotTypeOK' /\ UNCHANGED marketVars
<1> SUFFICES ASSUME BotTypeOK, NEW a \in DOMAIN asks,
                    RecordsFill(a) \/ EngineForgets(a) \/ LateAskArrives(a)
             PROVE  BotTypeOK' /\ UNCHANGED marketVars
  BY DEF BookStep
<1>0. Offered
  BY DEF BotTypeOK, Offered, AskRecords
<1>1. Offered' /\ UNCHANGED <<cycle, claiming>> => BotTypeOK'
  BY DEF BotTypeOK, Offered, AskRecords
<1>2. CASE RecordsFill(a)
  <2>1. CASE asks' = Without(a)
    BY <1>0, <1>1, <1>2, <2>1, WithoutOffered DEF RecordsFill
  <2>2. CASE asks' = [asks EXCEPT ![a].shown = asks[a].left]
    BY <1>0, <1>1, <1>2, <2>2 DEF RecordsFill, Offered, AskRecords
  <2> QED
    BY <1>2, <2>1, <2>2 DEF RecordsFill
<1>3. CASE EngineForgets(a)
  BY <1>0, <1>1, <1>3, WithoutOffered DEF EngineForgets
<1>4. CASE LateAskArrives(a)
  BY <1>0, <1>1, <1>4 DEF LateAskArrives, Offered, AskRecords
<1> QED
  BY <1>2, <1>3, <1>4

(* A fill takes no YES the bot does not have. *)
LEMMA BuyerBot == Held /\ BotTypeOK /\ BuyerStep => Held' /\ BotTypeOK'
<1> SUFFICES ASSUME Held, BotTypeOK, NEW a \in DOMAIN asks, Fills(a) PROVE Held' /\ BotTypeOK'
  BY DEF BuyerStep
<1> USE MarketAssumption
<1>0. Offered /\ asks[a] \in AskRecords
  BY DEF BotTypeOK, Offered, AskRecords
<1>1. asks' = [asks EXCEPT ![a].left = asks[a].left - 1] /\ asks[a].left > 0
      /\ UNCHANGED <<cycle, claiming>>
  BY DEF Fills
<1>2. asks[a].left - 1 \in Nat
  BY <1>0, <1>1 DEF AskRecords
<1>3. Offered'
  BY <1>0, <1>1, <1>2 DEF Offered, AskRecords
<1>4. BotTypeOK'
  BY <1>1, <1>3 DEF BotTypeOK, Offered, AskRecords
<1>5. yes' = [yes EXCEPT ![Bot] = yes[Bot] - 1] /\ yes[Bot] > 0 /\ yes[Bot] \in Nat /\ Bot \notin flagged
  BY DEF Fills, Held
<1>6. yes' \in [Holders -> Nat] /\ \A h \in Holders \ {Bot} : yes'[h] = yes[h]
  BY <1>5 DEF Held
<1>7. weak' \subseteq {h \in Holders : yes'[h] > 0}
  <2>1. weak' = IF yes[Bot] = 1 THEN weak \ {Bot} ELSE weak
    BY DEF Fills
  <2>2. yes[Bot] # 1 => yes'[Bot] > 0
    BY <1>5 DEF Held
  <2> QED
    BY <1>6, <2>1, <2>2 DEF Held
<1>8. flagged' \subseteq {h \in Holders : yes'[h] > 0}
  BY <1>5, <1>6 DEF Fills, Held
<1>9. usdc' \in Nat
  <2>1. usdc' = usdc + asks[a].price /\ usdc \in Nat
    BY DEF Fills, Held
  <2>2. asks[a].price \in Marks
    BY <1>0 DEF AskRecords
  <2>3. asks[a].price \in Nat
    BY <2>2, Marks \subseteq Nat, Zenon
  <2> QED
    BY <2>1, <2>3
<1> QED
  BY <1>4, <1>6, <1>7, <1>8, <1>9 DEF Held, Fills

(* Calls that nobody waits for are still to accrue, or to flag a holder. *)
Calls == {"accrue"} \union Holders

(* The end of a call leaves at most that call behind. *)
LEMMA EndsCalls ==
    ASSUME run \in Runs, unanswered \subseteq Calls, NEW success, Ends(success)
    PROVE  unanswered' \subseteq Calls
  BY DEF Ends, Runs, Calls

(* A run looks at the market and leaves it alone until a transaction is mined. *)
LEMMA RunStepCalls ==
    ASSUME run \in Runs, unanswered \subseteq Calls, faults \in Nat, RunStep \/ KeeperFault
    PROVE  unanswered' \subseteq Calls /\ faults' \in Nat /\ UNCHANGED marketVars
<1>1. run.call \in Calls
  BY DEF Runs, Calls
<1>2. \A bound : Fault(bound) => faults' \in Nat
  BY DEF Fault
<1>3. CASE StartsRun
  BY <1>3 DEF StartsRun
<1>4. ASSUME NEW answered \in BOOLEAN, ReadsLastFundingTime(answered)
      PROVE  unanswered' \subseteq Calls /\ faults' \in Nat /\ UNCHANGED marketVars
  BY <1>2, <1>4 DEF ReadsLastFundingTime
<1>5. CASE Tries
  BY <1>5, EndsCalls DEF Tries
<1>6. CASE Sends
  BY <1>6 DEF Sends
<1>7. CASE Refused
  BY <1>7, EndsCalls DEF Refused
<1>8. CASE SeesReceipt
  BY <1>8, EndsCalls DEF SeesReceipt
<1>9. ASSUME NEW h \in Holders, NEW answered \in BOOLEAN, ChecksHolder(h, answered)
      PROVE  unanswered' \subseteq Calls /\ faults' \in Nat /\ UNCHANGED marketVars
  BY <1>2, <1>9 DEF ChecksHolder
<1>10. CASE RunEnds
  BY <1>10 DEF RunEnds
<1>11. CASE NodeFails
  BY <1>2, <1>11, EndsCalls DEF NodeFails, Retries
<1>12. CASE AnswerLost
  BY <1>1, <1>2, <1>12 DEF AnswerLost
<1>13. CASE KeeperRestarts
  BY <1>1, <1>2, <1>13 DEF KeeperRestarts
<1> QED
  BY <1>3, <1>4, <1>5, <1>6, <1>7, <1>8, <1>9, <1>10, <1>11, <1>12, <1>13
  DEF RunStep, KeeperFault

(* What is mined accrues, flags who may be flagged, or does nothing. *)
LEMMA KeeperMiningHeld ==
    ASSUME Held, unanswered \subseteq Calls, KeeperMining
    PROVE  Held' /\ unanswered' \subseteq Calls /\ UNCHANGED faults
<1>1. ASSUME NEW call, Executes(call) \/ Reverts(call) PROVE Held'
  <2>1. CASE UNCHANGED marketVars
    BY <2>1 DEF Held, marketVars, positionVars
  <2> QED
    BY <1>1, <2>1, FlagHeld DEF Executes, Reverts
<1>2. CASE KeeperTxMined
  BY <1>1, <1>2 DEF KeeperTxMined
<1>3. ASSUME NEW call \in unanswered, UnansweredMined(call)
      PROVE  Held' /\ unanswered' \subseteq Calls /\ UNCHANGED faults
  BY <1>1, <1>3 DEF UnansweredMined
<1> QED
  BY <1>2, <1>3 DEF KeeperMining

(* What is stored and known are holders.  IndexInv has the rest. *)
IndexTypes ==
    /\ stored \subseteq Indexed
    /\ known \in [Scanners -> SUBSET Indexed]
    /\ synced \in [Scanners -> Nat]
    /\ sync \in [Scanners -> Jobs]
    /\ indexFaults \in 0 .. MaxIndexFaults

(* Before the first sync nothing is. *)
LEMMA InitIndexTypes == Init => IndexTypes
  BY IdleIsJob, IndexAssumption DEF Init, Index!Init, IndexTypes, Index!NumbersFit

(* A scan finds recipients, and only they are stored and loaded. *)
LEMMA NextIndexTypes ==
    ASSUME IndexInv, IndexInv', IndexTypes, Index!Next
    PROVE  IndexTypes'
<1>0. \A k \in Scanners : sync'[k] \in Jobs /\ synced'[k] \in Nat
  <2>1. ASSUME NEW k \in Scanners PROVE sync'[k] \in Jobs /\ synced'[k] \in 0 .. cursor'
    <3>1. Sound(sync[k], known[k], synced[k])'
      BY DEF IndexInv
    <3> QED
      BY <3>1 DEF Sound
  <2>2. cursor' \in Nat
    BY DEF IndexInv
  <2> QED
    BY <2>1, <2>2
<1>1. ASSUME NEW k \in Scanners, NEW job, Index!GoesOn(k, job) PROVE sync' \in [Scanners -> Jobs]
  BY <1>0, <1>1 DEF Index!GoesOn, IndexTypes
<1>2. ASSUME NEW k \in Scanners, NEW block, Index!Reaches(k, block) PROVE synced' \in [Scanners -> Nat]
  BY <1>0, <1>2 DEF Index!Reaches, IndexTypes
<1>3. ASSUME NEW k \in Scanners, NEW holders \in SUBSET Indexed, Index!Learns(k, holders)
      PROVE  known' \in [Scanners -> SUBSET Indexed]
  BY <1>3 DEF Index!Learns, IndexTypes
<1>4. Index!Fault => indexFaults' \in 0 .. MaxIndexFaults
  BY IndexAssumption DEF Index!Fault, Index!NumbersFit, IndexTypes
<1>5. UNCHANGED <<stored, known, synced, sync>> =>
        /\ stored' \subseteq Indexed /\ known' \in [Scanners -> SUBSET Indexed]
        /\ synced' \in [Scanners -> Nat] /\ sync' \in [Scanners -> Jobs]
  BY DEF IndexTypes
<1>6. ASSUME NEW k \in Scanners, Index!ReadsCursor(k) PROVE IndexTypes'
  BY <1>1, <1>6 DEF Index!ReadsCursor, Index!storeVars, Index!memoryVars, IndexTypes
<1>7. ASSUME NEW k \in Scanners, Index!Loads(k) PROVE IndexTypes'
  BY <1>1, <1>2, <1>3, <1>7 DEF Index!Loads, Index!storeVars, IndexTypes
<1>8. ASSUME NEW k \in Scanners, NEW head, Index!ReadsHead(k, head), Index!Fault \/ UNCHANGED indexFaults
      PROVE  IndexTypes'
  BY <1>1, <1>4, <1>8 DEF Index!ReadsHead, Index!storeVars, Index!memoryVars, IndexTypes
<1>9. ASSUME NEW k \in Scanners, NEW missed, Index!Scans(k, missed), Index!Fault \/ UNCHANGED indexFaults
      PROVE  IndexTypes'
  <2> DEFINE found == Index!Recipients((sync[k].start .. Index!BatchEnd(sync[k])) \ missed)
  <2>1. Index!Learns(k, found) /\ Index!GoesOn(k, [sync[k] EXCEPT !.at = "store", !.found = found])
        /\ UNCHANGED <<chain, stored, cursor, synced>>
    BY <1>9 DEF Index!Scans, Index!storeVars
  <2> HIDE DEF found
  <2>2. sync'[k].found = found
    BY <2>1 DEF Index!GoesOn, IndexTypes, Jobs
  <2>3. found \in SUBSET Indexed
    BY <1>0, <2>2 DEF Jobs
  <2> QED
    BY <1>1, <1>3, <1>4, <1>9, <2>1, <2>3 DEF IndexTypes
<1>10. ASSUME NEW k \in Scanners, Index!StoresHolders(k) PROVE IndexTypes'
  <2>1. sync[k].found \subseteq Indexed
    BY DEF IndexTypes, Jobs
  <2> QED
    BY <1>1, <1>10, <2>1 DEF Index!StoresHolders, Index!memoryVars, IndexTypes
<1>11. ASSUME NEW k \in Scanners, Index!AdvancesCursor(k) PROVE IndexTypes'
  <2>1. /\ UNCHANGED <<stored, known, indexFaults>>
        /\ sync' \in [Scanners -> Jobs] /\ synced' \in [Scanners -> Nat]
    BY <1>1, <1>2, <1>11 DEF Index!AdvancesCursor
  <2> QED
    BY <2>1 DEF IndexTypes
<1>12. CASE Index!ChainStep
  BY <1>4, <1>5, <1>12 DEF Index!ChainStep, Index!Mined, Index!Reorganised, Index!storeVars, Index!memoryVars, IndexTypes
<1>13. ASSUME NEW k \in Scanners, Index!Fails(k) PROVE IndexTypes'
  BY <1>1, <1>4, <1>13 DEF Index!Fails, Index!storeVars, Index!memoryVars, IndexTypes
<1>14. ASSUME NEW k \in Scanners, Index!Restarts(k) PROVE IndexTypes'
  <2>1. known' \in [Scanners -> SUBSET Indexed] /\ synced' \in [Scanners -> Nat]
    BY <1>14 DEF Index!Restarts, IndexTypes
  <2> QED
    BY <1>1, <1>4, <1>14, <2>1 DEF Index!Restarts, Index!storeVars, IndexTypes
<1> QED
  BY <1>6, <1>7, <1>8, <1>9, <1>10, <1>11, <1>12, <1>13, <1>14
  DEF Index!Next, Index!SyncStep, Index!FaultStep

(* Nothing is ahead of the chain: IndexInv tells how far behind it is. *)
LEMMA IndexTyped == IndexInv /\ IndexTypes => Index!TypeOK
<1> SUFFICES ASSUME IndexInv, IndexTypes PROVE Index!TypeOK
  OBVIOUS
<1>1. Len(chain) \in Nat /\ cursor \in 0 .. Len(chain)
  BY DEF IndexInv
<1>2. ASSUME NEW k \in Scanners
      PROVE  /\ synced[k] \in 0 .. Len(chain)
             /\ sync[k] \in [at : Index!Steps, cursor : 0 .. Len(chain), start : Nat,
                             head : 0 .. Len(chain), found : SUBSET Indexed]
  <2>1. sync[k] \in Jobs /\ sync[k].cursor <= cursor /\ sync[k].head <= Len(chain)
        /\ synced[k] \in 0 .. cursor
    BY DEF IndexInv, Sound
  <2>2. sync[k].cursor \in 0 .. Len(chain) /\ sync[k].head \in 0 .. Len(chain)
    BY <1>1, <2>1 DEF Jobs
  <2> QED
    BY <1>1, <2>1, <2>2 DEF Jobs
<1> QED
  BY <1>1, <1>2 DEF Index!TypeOK, IndexTypes, IndexInv

(* TypeOK, and what RunInv and IndexInv add to it. *)
TypeInv ==
    /\ Held /\ moves \in 0 .. MaxMoves /\ faults \in Nat
    /\ RunInv /\ unanswered \subseteq Calls
    /\ BotTypeOK
    /\ IndexInv /\ IndexTypes
    /\ up \in Deployments

(* It holds of every state a service may start in. *)
LEMMA InitTypeInv == Init => TypeInv
<1> SUFFICES ASSUME Init PROVE TypeInv
  OBVIOUS
<1>1. moves \in 0 .. MaxMoves /\ faults \in Nat
  BY MarketAssumption DEF Init, PositionsInit
<1> QED
  BY <1>1, InitHeld, InitRunInv, InitBot, InitIndexInv, InitIndexTypes DEF Init, KeeperInit, TypeInv

(* Each service in turn, and what goes on around them. *)
LEMMA NextTypeInv == TypeInv /\ [Next]_vars => TypeInv'
<1> SUFFICES ASSUME TypeInv, [Next]_vars PROVE TypeInv'
  OBVIOUS
<1>0. RunInv' /\ IndexInv' /\ IndexTypes'
  <2>1. RunInv' /\ IndexInv'
    BY NextRunInv, NextIndexInv DEF TypeInv
  <2>2. IndexTypes'
    <3>1. CASE Index!Next
      BY <2>1, <3>1, NextIndexTypes DEF TypeInv
    <3>2. CASE UNCHANGED indexVars
      BY <3>2 DEF TypeInv, IndexTypes, indexVars
    <3> QED
      BY <3>1, <3>2, Worlds
  <2> QED
    BY <2>1, <2>2
<1>1. UNCHANGED marketVars => Held'
  BY DEF TypeInv, Held, marketVars, positionVars
<1>2. UNCHANGED botVars => BotTypeOK'
  BY DEF TypeInv, BotTypeOK, botVars
<1>3. UNCHANGED keeperVars => unanswered' \subseteq Calls
  BY DEF TypeInv, keeperVars
<1>4. \A bound : Fault(bound) => faults' \in Nat
  BY DEF Fault, TypeInv
<1>5. CASE KeeperStep
  <2>1. unanswered' \subseteq Calls /\ faults' \in Nat /\ UNCHANGED marketVars
    BY <1>5, RunStepCalls DEF KeeperStep, TypeInv, RunInv
  <2> QED
    BY <1>0, <1>1, <1>2, <1>5, <2>1 DEF KeeperStep, besides, TypeInv
<1>6. CASE KeeperChainStep
  BY <1>0, <1>2, <1>6, KeeperMiningHeld DEF KeeperChainStep, besides, TypeInv
<1>7. CASE BotStep
  <2>1. BotTypeOK' /\ UNCHANGED marketVars
    BY <1>7, CycleStepBot, BotFaultBot DEF BotStep, TypeInv
  <2>2. faults' \in Nat
    BY <1>4, <1>7 DEF BotStep, BotFault, TypeInv
  <2> QED
    BY <1>0, <1>1, <1>3, <1>7, <2>1, <2>2 DEF BotStep, besides, TypeInv
<1>8. CASE BotChainStep
  <2>1. Held' /\ BotTypeOK'
    BY <1>1, <1>8, MiningBot, BuyerBot, BookBot DEF BotChainStep, TypeInv
  <2> QED
    BY <1>0, <1>3, <1>8, <2>1 DEF BotChainStep, besides, TypeInv
<1>9. CASE ViewerUp
  <2>1. UNCHANGED marketVars /\ faults' \in Nat
    <3>1. ViewerStep => UNCHANGED <<marketVars, faults>>
      BY DEF ViewerStep, StartsPoll, PollAdvances, ReadsMarkAndMotion, ReadsClaimable, EndsPoll
    <3>2. ViewerFault => UNCHANGED marketVars /\ faults' \in Nat
      BY <1>4 DEF ViewerFault, MarketUnread, HolderUnread, ViewerRestarts
    <3> QED
      BY <1>9, <3>1, <3>2 DEF ViewerUp, TypeInv
  <2> QED
    BY <1>0, <1>1, <1>2, <1>3, <1>9, <2>1 DEF ViewerUp, besides, TypeInv
<1>10. CASE ProcessUp
  BY <1>0, <1>1, <1>2, <1>3, <1>10 DEF ProcessUp, besides, TypeInv
<1>11. CASE IndexUp
  BY <1>0, <1>1, <1>2, <1>3, <1>11 DEF IndexUp, worldVars, TypeInv
<1>12. CASE OutsideStep
  <2>1. CASE MarketStep /\ UNCHANGED <<faults, keeperVars, botVars, viewerVars, processVars, besides>>
    BY <1>0, <1>2, <1>3, <2>1, MarketHeld DEF besides, TypeInv
  <2>2. CASE OthersAccrue /\ UNCHANGED <<moves, botVars, viewerVars, processVars, besides>>
    BY <1>0, <1>1, <1>2, <2>2 DEF OthersAccrue, besides, TypeInv
  <2> QED
    BY <1>12, <2>1, <2>2 DEF OutsideStep
<1>13. CASE UNCHANGED vars
  BY <1>0, <1>1, <1>2, <1>3, <1>13 DEF vars, worldVars, besides, TypeInv
<1> QED
  BY <1>5, <1>6, <1>7, <1>8, <1>9, <1>10, <1>11, <1>12, <1>13 DEF Next

(* Every variable keeps its type: in particular the bot pays no more than   *)
(* it has and sells no YES it has not, and whoever is weak or flagged holds *)
(* YES, whatever is lost, late or restarted.                                *)
THEOREM TypeCorrect == Spec => []TypeOK
<1>1. TypeInv => TypeOK
  BY IndexTyped DEF TypeInv, Held, RunInv, Runs, Calls, TypeOK, PositionsTypeOK, KeeperTypeOK
<1> QED
  BY <1>1, InitTypeInv, NextTypeInv, PTL DEF Spec
============================================================================
