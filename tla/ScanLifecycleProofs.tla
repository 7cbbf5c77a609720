------------------------ MODULE ScanLifecycleProofs ------------------------
(***************************************************************************)
(* Proofs about ScanLifecycle for every set of scans and every choice of   *)
(* the time limits that satisfies ScanAssumption, and that its rows behave *)
(* as ScanStatus promises.                                                 *)
(***************************************************************************)
EXTENDS ScanLifecycle, TLAPS

\* The values the actions write, so that no step has to look into the sets.
LEMMA Values ==
    /\ InTry \subseteq Worker
    /\ {"none", "event", "gone", "pending", "starting", "erroring"} \subseteq Worker
    /\ {"discovering", "globals", "globals_done", "regions", "everything",
        "checks", "checks_failed", "signin", "signin_failed", "closing"} \subseteq InTry
    /\ {"idle", "inserted", "launch_failed", "done", "reported"} \subseteq Api
    /\ {"global"} \in SUBSET Part /\ {"regional"} \in SUBSET Part
    /\ {"checks"} \in SUBSET Part /\ {"signin"} \in SUBSET Part
    /\ FargatePart \in SUBSET Part
BY DEF InTry, Worker, Working, Api, InApi, Part, FargatePart

\* The type invariant holds of every reachable state: the code's statuses,
\* phases and error texts are the only ones the programs write.
THEOREM TypeCorrect == Spec => []TypeOK
<1> USE Values DEF TypeOK, Status, Phase
<1>1. Init => TypeOK
  BY ScanAssumption DEF Init
<1>2. TypeOK /\ [Next]_vars => TypeOK'
  <2> SUFFICES ASSUME TypeOK, [Next]_vars PROVE TypeOK'
    OBVIOUS
  <2>1. CASE Tick
    BY <2>1 DEF Tick, row, run, reaper
  <2>2. ASSUME NEW s \in Scan, InsertScan(s) PROVE TypeOK'
    BY <2>2 DEF InsertScan, run, reaper
  <2>3. ASSUME NEW s \in Scan, RescanStep(s) PROVE TypeOK'
    BY <2>3 DEF RescanStep, RunTask, MarkLaunchFailed, InvokeAsync, ApiKilled,
                row, run, reaper
  <2>4. ASSUME NEW s \in Scan, FargateStep(s) PROVE TypeOK'
    <3>1. ASSUME NEW from, NEW ph \in Phase, NEW to \in Worker,
                 Announce(s, from, ph, to)
          PROVE  TypeOK'
      BY <3>1 DEF Announce, UpdateScan, Goto, reaper
    <3>2. ASSUME NEW from, NEW parts \in SUBSET Part, NEW to \in Worker,
                 RunUnits(s, from, parts, to)
          PROVE  TypeOK'
      BY <3>2 DEF RunUnits, Goto, row, reaper
    <3>3. CASE FinishFargate(s)
      BY <3>3 DEF FinishFargate, UpdateScan, Goto, reaper
    <3>4. QED
      BY <2>4, <3>1, <3>2, <3>3 DEF FargateStep
  <2>5. ASSUME NEW s \in Scan, StartAttempt(s) \/ EntraStep(s) PROVE TypeOK'
    <3>1. CASE StartAttempt(s)
      BY <3>1 DEF StartAttempt, Goto, row, reaper
    <3>2. CASE BeginEntra(s) \/ FinishEntra(s)
      BY <3>2 DEF BeginEntra, FinishEntra, UpdateScan, Goto, reaper
    <3>3. CASE RunChecks(s) \/ RunSignin(s)
      BY <3>3 DEF RunChecks, RunSignin, Goto, row, reaper
    <3>4. ASSUME NEW from, NEW to \in Worker, SwallowFailure(s, from, to)
          PROVE  TypeOK'
      BY <3>4 DEF SwallowFailure, Goto, row, reaper
    <3>5. QED
      BY <2>5, <3>1, <3>2, <3>3, <3>4 DEF EntraStep
  <2>6. ASSUME NEW s \in Scan, Raise(s) \/ ReportFailure(s) \/ Die(s)
        PROVE TypeOK'
    <3>1. CASE Raise(s)
      BY <3>1 DEF Raise, Goto, row, reaper
    <3>2. CASE ReportFailure(s)
      BY <3>2 DEF ReportFailure, Stop, UpdateScan, Goto, row, reaper
    <3>3. CASE Die(s)
      BY <3>3 DEF Die, Stop, Goto, row, reaper
    <3>4. QED
      BY <2>6, <3>1, <3>2, <3>3
  <2>7. ASSUME NEW s \in Scan, Reap(s) PROVE TypeOK'
    BY <2>7 DEF Reap, run
  <2>8. CASE ReaperList \/ ReaperSelect \/ ReaperExit
    BY <2>8 DEF ReaperList, ReaperSelect, ReaperExit, row, run
  <2>9. CASE UNCHANGED vars
    BY <2>9 DEF vars, row, run, reaper
  <2>10. QED
    BY <2>1, <2>2, <2>3, <2>4, <2>5, <2>6, <2>7, <2>8, <2>9
    DEF Next, WorkerStep
<1>3. QED
  BY <1>1, <1>2, PTL DEF Spec

-----------------------------------------------------------------------------
(* Frames: what a step of one program leaves alone.                        *)

\* A runner writes only its own scan, its own status, phase and error, and a
\* Fargate runner takes a step only while its task is live.
LEMMA RunnerFrame ==
    ASSUME TypeOK, NEW s \in Scan, WorkerStep(s)
    PROVE  /\ UNCHANGED <<now, api, started, rpc, live, todo, listedAt>>
           /\ \A r \in Scan \ {s} :
                /\ worker'[r] = worker[r] /\ status'[r] = status[r]
                /\ err'[r] = err[r] /\ phase'[r] = phase[r]
           /\ s \in Fargate => TaskLive(s)
           /\ err'[s] \in {err[s], "scanner"}
<1> USE DEF TypeOK, TaskLive, Working, InTry, row, reaper, Goto, UpdateScan
<1>1. CASE FargateStep(s)
  BY <1>1 DEF FargateStep, Announce, RunUnits, FinishFargate
<1>2. CASE StartAttempt(s) \/ EntraStep(s)
  BY <1>2, ScanAssumption DEF StartAttempt, EntraStep, BeginEntra, RunChecks,
     RunSignin, SwallowFailure, FinishEntra
<1>3. CASE Raise(s) \/ ReportFailure(s) \/ Die(s)
  BY <1>3 DEF Raise, ReportFailure, Die, Stop
<1>4. QED
  BY <1>1, <1>2, <1>3 DEF WorkerStep

\* The moves of a live Fargate task: it opens its row while it runs, and closes
\* it only as it stops or is about to report a failure.
LEMMA TaskMoves ==
    ASSUME TypeOK, NEW s \in Fargate, WorkerStep(s)
    PROVE  \/ status'[s] = "running"
           \/ status'[s] = status[s] /\ worker'[s] \in {"gone", "erroring"}
           \/ status'[s] = status[s] /\ worker[s] # "erroring"
           \/ worker'[s] \in {"gone", "erroring"}
<1> USE DEF TypeOK, Goto, UpdateScan, row, Scan
<1>1. CASE FargateStep(s)
  BY <1>1 DEF FargateStep, Announce, RunUnits, FinishFargate
<1>2. CASE StartAttempt(s) \/ EntraStep(s)
  BY <1>2, ScanAssumption DEF StartAttempt, EntraStep, BeginEntra, RunChecks,
     RunSignin, SwallowFailure, FinishEntra
<1>3. CASE Raise(s) \/ ReportFailure(s) \/ Die(s)
  BY <1>3, ScanAssumption DEF Raise, ReportFailure, Die, Stop
<1>4. QED
  BY <1>1, <1>2, <1>3 DEF WorkerStep

\* A Fargate runner writes the last phase only with a closed status.
LEMMA DoneIsClosed ==
    ASSUME TypeOK, NEW s \in Fargate, WorkerStep(s),
           status[s] \in Open \cup {"absent"} => phase[s] # "done"
    PROVE  status'[s] \in Open \cup {"absent"} => phase'[s] # "done"
<1> USE DEF TypeOK, Goto, UpdateScan, row, Scan, Open
<1>1. CASE FargateStep(s)
  BY <1>1 DEF FargateStep, Announce, RunUnits, FinishFargate
<1>2. CASE StartAttempt(s) \/ EntraStep(s)
  BY <1>2, ScanAssumption DEF StartAttempt, EntraStep, BeginEntra, RunChecks,
     RunSignin, SwallowFailure, FinishEntra
<1>3. CASE Raise(s) \/ ReportFailure(s) \/ Die(s)
  BY <1>3 DEF Raise, ReportFailure, Die
<1>4. QED
  BY <1>1, <1>2, <1>3 DEF WorkerStep

-----------------------------------------------------------------------------
(* The reaper never fails a scan that runs or may yet run.                 *)

\* The reaper invariant holds initially: no row, no request, no reaper.
LEMMA ReaperInit == Init => ReaperInv
BY ScanAssumption
DEF Init, ReaperInv, WithinLimits, SnapshotCovers, DecidedAreDead, Untouched,
    ReapedIsFinal, ClosedMeansOver, MayRun, TaskLive, Scan, InApi, Closed,
    Working, InTry

\* The argument of the reaper race: when it decides, a stale scan missing from
\* its snapshot was requested more than API_TIMEOUT before the snapshot.
LEMMA StaleIsDead ==
    ASSUME TypeOK, WithinLimits, SnapshotCovers, rpc # "idle",
           NEW s \in Fargate \ live, Stale(s)
    PROVE  ~MayRun(s)
<1> SUFFICES ASSUME MayRun(s) PROVE FALSE
  OBVIOUS
<1>1. listedAt <= started[s] + API_TIMEOUT
  BY DEF SnapshotCovers
<1>2. now <= listedAt + REAPER_TIMEOUT
  BY DEF WithinLimits
<1>3. started[s] + GRACE < now
  BY DEF Stale
<1> QED
  BY <1>1, <1>2, <1>3, ScanAssumption DEF TypeOK, Scan

\* Every step preserves the reaper invariant.
LEMMA ReaperStep ==
    ASSUME TypeOK, ReaperInv, [Next]_vars
    PROVE  ReaperInv'
<1> USE DEF TypeOK, ReaperInv, MayRun, TaskLive, Scan
<1>1. CASE Tick
  <2>1. WithinLimits'
    BY <1>1, ScanAssumption DEF Tick, WithinLimits, row, reaper, InApi
  <2>2. QED
    BY <1>1, <2>1 DEF Tick, SnapshotCovers, DecidedAreDead, Untouched,
       ReapedIsFinal, ClosedMeansOver, row, run, reaper
<1>2. ASSUME NEW s \in Scan, InsertScan(s) PROVE ReaperInv'
  <2> USE <1>2 DEF InsertScan, run, reaper
  <2>1. WithinLimits'
    BY ScanAssumption DEF WithinLimits, InApi
  <2>2. SnapshotCovers'
    BY ScanAssumption DEF SnapshotCovers, WithinLimits
  <2>3. DecidedAreDead' /\ Untouched'
    BY DEF DecidedAreDead, Untouched
  <2>4. ReapedIsFinal' /\ ClosedMeansOver'
    BY DEF ReapedIsFinal, ClosedMeansOver, DecidedAreDead, Closed
  <2>5. QED
    BY <2>1, <2>2, <2>3, <2>4
<1>3. ASSUME NEW s \in Scan, RunTask(s) PROVE ReaperInv'
  <2> USE <1>3 DEF RunTask, row, reaper
  <2>1. WithinLimits'
    BY DEF WithinLimits, InApi
  <2>2. SnapshotCovers' /\ DecidedAreDead' /\ Untouched'
    BY DEF SnapshotCovers, DecidedAreDead, Untouched
  <2>3. ReapedIsFinal' /\ ClosedMeansOver'
    BY DEF ReapedIsFinal, ClosedMeansOver, Untouched, Closed
  <2>4. QED
    BY <2>1, <2>2, <2>3
<1>4. ASSUME NEW s \in Scan, MarkLaunchFailed(s) PROVE ReaperInv'
  BY <1>4 DEF MarkLaunchFailed, run, reaper, WithinLimits, SnapshotCovers,
     DecidedAreDead, Untouched, ReapedIsFinal, ClosedMeansOver, InApi, Open
<1>5. ASSUME NEW s \in Scan, InvokeAsync(s) \/ ApiKilled(s) PROVE ReaperInv'
  <2>1. /\ UNCHANGED <<now, row, reaper>> /\ api' = [api EXCEPT ![s] = "done"]
        /\ api[s] \in InApi
        /\ \A r \in Fargate : worker'[r] = worker[r]
    BY <1>5, ScanAssumption DEF InvokeAsync, ApiKilled, run, InApi
  <2>2. QED
    BY <2>1 DEF row, reaper, WithinLimits, SnapshotCovers,
       DecidedAreDead, Untouched, ReapedIsFinal, ClosedMeansOver, InApi
<1>6. ASSUME NEW s \in Scan, WorkerStep(s) PROVE ReaperInv'
  <2>1. /\ UNCHANGED <<now, api, started, rpc, live, todo, listedAt>>
        /\ \A r \in Scan \ {s} :
             /\ worker'[r] = worker[r] /\ status'[r] = status[r]
             /\ err'[r] = err[r] /\ phase'[r] = phase[r]
        /\ s \in Fargate => TaskLive(s)
        /\ err'[s] \in {err[s], "scanner"}
    BY <1>6, RunnerFrame
  <2>2. WithinLimits' /\ SnapshotCovers'
    BY <2>1 DEF WithinLimits, SnapshotCovers
  <2>3. DecidedAreDead'
    BY <2>1 DEF DecidedAreDead
  <2>4. Untouched' /\ ReapedIsFinal'
    <3>1. CASE s \in Fargate
      BY <2>1, <2>3, <1>6, <3>1, DoneIsClosed
      DEF Untouched, ReapedIsFinal, DecidedAreDead
    <3>2. CASE s \notin Fargate
      BY <2>1, <3>2 DEF Untouched, ReapedIsFinal
    <3>3. QED
      BY <3>1, <3>2
  <2>5. ClosedMeansOver'
    <3>1. CASE s \in Fargate
      BY <2>1, <1>6, <3>1, TaskMoves DEF ClosedMeansOver, Closed, Working, InTry
    <3>2. CASE s \notin Fargate
      BY <2>1, <3>2 DEF ClosedMeansOver
    <3>3. QED
      BY <3>1, <3>2
  <2>6. QED
    BY <2>2, <2>3, <2>4, <2>5
<1>7. CASE ReaperList
  BY <1>7, ScanAssumption DEF ReaperList, row, run, WithinLimits,
     SnapshotCovers, DecidedAreDead, Untouched, ReapedIsFinal,
     ClosedMeansOver, InApi
<1>8. CASE ReaperSelect
  <2> USE <1>8 DEF ReaperSelect, row, run
  <2>1. DecidedAreDead'
    <3>1. ASSUME NEW s \in Fargate, s \in todo' PROVE api[s] # "idle" /\ ~MayRun(s)
      BY <3>1, StaleIsDead DEF Untouched, Stale, Open
    <3>2. QED
      BY <3>1 DEF DecidedAreDead
  <2>2. QED
    BY <2>1 DEF WithinLimits, SnapshotCovers, Untouched, ReapedIsFinal,
       ClosedMeansOver
<1>9. ASSUME NEW s \in Scan, Reap(s) PROVE ReaperInv'
  <2> USE <1>9 DEF Reap, run
  <2>1. WithinLimits' /\ SnapshotCovers' /\ DecidedAreDead'
    BY DEF WithinLimits, SnapshotCovers, DecidedAreDead
  <2>2. Untouched'
    BY DEF Untouched, DecidedAreDead, Open
  <2>3. ReapedIsFinal' /\ ClosedMeansOver'
    BY DEF ReapedIsFinal, ClosedMeansOver, DecidedAreDead, Untouched, Open
  <2>4. QED
    BY <2>1, <2>2, <2>3
<1>10. CASE ReaperExit
  BY <1>10 DEF ReaperExit, row, run, WithinLimits, SnapshotCovers,
     DecidedAreDead, Untouched, ReapedIsFinal, ClosedMeansOver
<1>11. CASE UNCHANGED vars
  BY <1>11 DEF vars, row, run, reaper, WithinLimits, SnapshotCovers,
     DecidedAreDead, Untouched, ReapedIsFinal, ClosedMeansOver
<1>12. QED
  BY <1>1, <1>2, <1>3, <1>4, <1>5, <1>6, <1>7, <1>8, <1>9, <1>10, <1>11
  DEF Next, RescanStep

\* The reaper invariant is an invariant of every scan's life, whatever the
\* scans and the time limits.
THEOREM ReaperCorrect == Spec => []ReaperInv
<1>1. TypeOK /\ ReaperInv /\ [Next]_vars => ReaperInv'
  BY ReaperStep
<1>2. QED
  BY <1>1, ReaperInit, TypeCorrect, PTL DEF Spec

\* The docstring of scan_reaper, for all time limits with API_TIMEOUT +
\* REAPER_TIMEOUT <= GRACE: a live Fargate scan is never on the reaper's list.
THEOREM SparesLiveTasks == Spec => []ReaperSparesLiveTasks
<1>1. ReaperInv => ReaperSparesLiveTasks
  BY DEF ReaperInv, DecidedAreDead, ReaperSparesLiveTasks, MayRun, Scan
<1>2. QED
  BY <1>1, ReaperCorrect, PTL

\* What the reaper failed stays failed, and a closed scan has no runner left.
THEOREM ReapedForGood == Spec => [](ReapedIsFinal /\ ClosedMeansOver)
<1>1. ReaperInv => ReapedIsFinal /\ ClosedMeansOver
  BY DEF ReaperInv
<1>2. QED
  BY <1>1, ReaperCorrect, PTL

-----------------------------------------------------------------------------
(* What a Fargate scan says about its findings is true.                    *)

\* Every step preserves the agreement of a Fargate scan's status and phase
\* with what its runner has committed.
LEMMA ResultsStep ==
    ASSUME TypeOK, ReaperInv, RunnerCommitted, ResultsMatchStatus, [Next]_vars
    PROVE  RunnerCommitted' /\ ResultsMatchStatus'
<1> USE DEF TypeOK, Scan, RunnerCommitted, ResultsMatchStatus
<1>1. CASE \/ Tick \/ ReaperList \/ ReaperSelect \/ ReaperExit \/ UNCHANGED vars
  BY <1>1 DEF Tick, ReaperList, ReaperSelect, ReaperExit, vars, row, run, reaper,
     CommittedSoFar
<1>2. ASSUME NEW s \in Scan, InsertScan(s) \/ MarkLaunchFailed(s)
      PROVE  RunnerCommitted' /\ ResultsMatchStatus'
  BY <1>2 DEF InsertScan, MarkLaunchFailed, run, CommittedSoFar
<1>3. ASSUME NEW s \in Scan, RunTask(s)
      PROVE  RunnerCommitted' /\ ResultsMatchStatus'
  BY <1>3 DEF RunTask, row, ReaperInv, Untouched, CommittedSoFar
<1>4. ASSUME NEW s \in Scan, InvokeAsync(s) \/ ApiKilled(s)
      PROVE  RunnerCommitted' /\ ResultsMatchStatus'
  BY <1>4, ScanAssumption DEF InvokeAsync, ApiKilled, row, run, CommittedSoFar
<1>5. ASSUME NEW s \in Scan, FargateStep(s)
      PROVE  RunnerCommitted' /\ ResultsMatchStatus'
  <2>1. CASE \/ Announce(s, "pending", "region_discovery", "discovering")
             \/ Announce(s, "discovering", "first_signal", "globals")
             \/ Announce(s, "globals_done", "crown_jewel", "regions")
             \/ Announce(s, "discovering", "full", "everything")
    BY <2>1 DEF Announce, UpdateScan, Goto, CommittedSoFar
  <2>2. CASE RunUnits(s, "globals", {"global"}, "globals_done")
    <3>1. PICK failed \in SUBSET {"global"}, acked \in BOOLEAN :
            /\ landed' = [landed EXCEPT ![s] = @ \cup ({"global"} \ failed)]
            /\ gap' = [gap EXCEPT ![s] = @ \/ failed # {}]
            /\ Goto(s, IF acked THEN "globals_done" ELSE "erroring")
      BY <2>2 DEF RunUnits
    <3>2. /\ landed'[s] = landed[s] \cup ({"global"} \ failed)
          /\ gap'[s] = (gap[s] \/ failed # {})
          /\ worker'[s] \in {"globals_done", "erroring"}
      BY <3>1 DEF Goto
    <3>3. CommittedSoFar(s)'
      <4>1. /\ s \in Fargate /\ worker[s] = "globals"
            /\ UNCHANGED <<api, status>>
        BY <2>2 DEF RunUnits, row
      <4>2. landed'[s] = {"global"} \ failed /\ (gap'[s] <=> failed # {})
        BY <4>1, <3>2 DEF CommittedSoFar
      <4>3. /\ failed # {} <=> "global" \notin {"global"} \ failed
            /\ {"global"} \ failed \subseteq FargatePart
            /\ "regional" \notin {"global"} \ failed
        BY DEF FargatePart
      <4>4. QED
        BY <4>1, <4>2, <4>3, <3>2 DEF CommittedSoFar
    <3>4. \A r \in Fargate \ {s} : CommittedSoFar(r)'
      BY <2>2, <3>1 DEF RunUnits, row, Goto, CommittedSoFar
    <3>5. ResultsMatchStatus'
      BY <2>2, <3>1, <3>2 DEF RunUnits, row, FargatePart, CommittedSoFar
    <3>6. QED
      BY <3>3, <3>4, <3>5
  <2>3. CASE RunUnits(s, "regions", {"regional"}, "closing")
    <3>1. PICK failed \in SUBSET {"regional"}, acked \in BOOLEAN :
            /\ landed' = [landed EXCEPT ![s] = @ \cup ({"regional"} \ failed)]
            /\ gap' = [gap EXCEPT ![s] = @ \/ failed # {}]
            /\ Goto(s, IF acked THEN "closing" ELSE "erroring")
      BY <2>3 DEF RunUnits
    <3>2. /\ landed'[s] = landed[s] \cup ({"regional"} \ failed)
          /\ gap'[s] = (gap[s] \/ failed # {})
          /\ worker'[s] \in {"closing", "erroring"}
      BY <3>1 DEF Goto
    <3>3. CommittedSoFar(s)'
      <4>1. /\ s \in Fargate /\ worker[s] = "regions"
            /\ UNCHANGED <<api, status>>
        BY <2>3 DEF RunUnits, row
      <4>2. gap'[s] <=> "global" \notin landed[s] \/ "regional" \in failed
        <5>1. gap[s] <=> "global" \notin landed[s]
          BY <4>1 DEF CommittedSoFar
        <5>2. failed # {} <=> "regional" \in failed
          OBVIOUS
        <5>3. QED
          BY <5>1, <5>2, <3>2
      <4>3. landed'[s] # FargatePart
               <=> "global" \notin landed[s] \/ "regional" \in failed
        BY <4>1, <3>2 DEF FargatePart, CommittedSoFar
      <4>4. landed'[s] \subseteq FargatePart
        BY <4>1, <3>2 DEF FargatePart, CommittedSoFar
      <4>5. QED
        BY <4>1, <4>2, <4>3, <4>4, <3>2 DEF CommittedSoFar
    <3>4. \A r \in Fargate \ {s} : CommittedSoFar(r)'
      BY <2>3, <3>1 DEF RunUnits, row, Goto, CommittedSoFar
    <3>5. ResultsMatchStatus'
      BY <2>3, <3>1, <3>2 DEF RunUnits, row, FargatePart, CommittedSoFar
    <3>6. QED
      BY <3>3, <3>4, <3>5
  <2>4. CASE RunUnits(s, "everything", FargatePart, "closing")
    <3>1. PICK failed \in SUBSET FargatePart, acked \in BOOLEAN :
            /\ landed' = [landed EXCEPT ![s] = @ \cup (FargatePart \ failed)]
            /\ gap' = [gap EXCEPT ![s] = @ \/ failed # {}]
            /\ Goto(s, IF acked THEN "closing" ELSE "erroring")
      BY <2>4 DEF RunUnits
    <3>2. /\ landed'[s] = landed[s] \cup (FargatePart \ failed)
          /\ gap'[s] = (gap[s] \/ failed # {})
          /\ worker'[s] \in {"closing", "erroring"}
      BY <3>1 DEF Goto
    <3>3. CommittedSoFar(s)'
      <4>1. /\ s \in Fargate /\ worker[s] = "everything"
            /\ UNCHANGED <<api, status>>
        BY <2>4 DEF RunUnits, row
      <4>2. landed'[s] = FargatePart \ failed /\ (gap'[s] <=> failed # {})
        BY <4>1, <3>2 DEF CommittedSoFar
      <4>3. failed # {} <=> FargatePart \ failed # FargatePart
        BY DEF FargatePart
      <4>4. QED
        BY <4>1, <4>2, <4>3, <3>2 DEF CommittedSoFar
    <3>4. \A r \in Fargate \ {s} : CommittedSoFar(r)'
      BY <2>4, <3>1 DEF RunUnits, row, Goto, CommittedSoFar
    <3>5. ResultsMatchStatus'
      BY <2>4, <3>1, <3>2 DEF RunUnits, row, FargatePart, CommittedSoFar
    <3>6. QED
      BY <3>3, <3>4, <3>5
  <2>5. CASE FinishFargate(s)
    BY <2>5 DEF FinishFargate, UpdateScan, Goto, FargatePart, CommittedSoFar
  <2>6. QED
    BY <2>1, <2>2, <2>3, <2>4, <2>5, <1>5 DEF FargateStep
<1>6. ASSUME NEW s \in Scan, StartAttempt(s) \/ EntraStep(s)
      PROVE  RunnerCommitted' /\ ResultsMatchStatus'
  BY <1>6, ScanAssumption DEF StartAttempt, EntraStep, BeginEntra, RunChecks,
     RunSignin, SwallowFailure, FinishEntra, UpdateScan, Goto, row,
     CommittedSoFar
<1>7. ASSUME NEW s \in Scan, Raise(s) \/ ReportFailure(s) \/ Die(s)
      PROVE  RunnerCommitted' /\ ResultsMatchStatus'
  BY <1>7, ScanAssumption DEF Raise, ReportFailure, Die, Stop, UpdateScan,
     Goto, row, Working, InTry, CommittedSoFar
<1>8. ASSUME NEW s \in Scan, Reap(s)
      PROVE  RunnerCommitted' /\ ResultsMatchStatus'
  BY <1>8 DEF Reap, run, CommittedSoFar
<1>9. QED
  BY <1>1, <1>2, <1>3, <1>4, <1>5, <1>6, <1>7, <1>8
  DEF Next, RescanStep, WorkerStep

\* A completed Fargate scan has committed everything and skipped nothing, and
\* crown_jewel is announced only over a committed first signal.
THEOREM ResultsCorrect == Spec => []ResultsMatchStatus
<1>1. Init => RunnerCommitted /\ ResultsMatchStatus
  BY DEF Init, RunnerCommitted, ResultsMatchStatus, Scan, CommittedSoFar
<1>2. TypeOK /\ ReaperInv /\ RunnerCommitted /\ ResultsMatchStatus /\ [Next]_vars
        => RunnerCommitted' /\ ResultsMatchStatus'
  BY ResultsStep
<1>3. QED
  BY <1>1, <1>2, TypeCorrect, ReaperCorrect, PTL DEF Spec

-----------------------------------------------------------------------------
(* The refinement of ScanStatus.                                           *)

\* Every step keeps the row in step with its request and its runner.
LEMMA RowFollowsStep ==
    ASSUME TypeOK, RowFollows, [Next]_vars
    PROVE  RowFollows'
<1> USE DEF TypeOK, RowFollows, Working, InTry
<1>1. CASE \/ Tick \/ ReaperList \/ ReaperSelect \/ ReaperExit \/ UNCHANGED vars
  BY <1>1 DEF Tick, ReaperList, ReaperSelect, ReaperExit, vars, row, run, reaper
<1>2. ASSUME NEW s \in Scan, InsertScan(s) \/ MarkLaunchFailed(s)
      PROVE  RowFollows'
  BY <1>2 DEF InsertScan, MarkLaunchFailed, run
<1>3. ASSUME NEW s \in Scan, RunTask(s) \/ InvokeAsync(s) \/ ApiKilled(s)
      PROVE  RowFollows'
  BY <1>3, ScanAssumption DEF RunTask, InvokeAsync, ApiKilled, InApi, row, run
<1>4. ASSUME NEW s \in Scan, FargateStep(s) PROVE RowFollows'
  BY <1>4, ScanAssumption DEF FargateStep, Announce, RunUnits, FinishFargate,
     UpdateScan, Goto, row
<1>5. ASSUME NEW s \in Scan, StartAttempt(s) \/ EntraStep(s) PROVE RowFollows'
  BY <1>5, ScanAssumption DEF StartAttempt, EntraStep, BeginEntra, RunChecks,
     RunSignin, SwallowFailure, FinishEntra, UpdateScan, Goto, row
<1>6. ASSUME NEW s \in Scan, Raise(s) \/ ReportFailure(s) \/ Die(s)
      PROVE  RowFollows'
  BY <1>6, ScanAssumption DEF Raise, ReportFailure, Die, Stop, UpdateScan,
     Goto, row
<1>7. ASSUME NEW s \in Scan, Reap(s) PROVE RowFollows'
  BY <1>7 DEF Reap, run, Open
<1>8. QED
  BY <1>1, <1>2, <1>3, <1>4, <1>5, <1>6, <1>7
  DEF Next, RescanStep, WorkerStep

\* Init => and preserved, hence always.
LEMMA RowAlwaysFollows == Spec => []RowFollows
<1>1. Init => RowFollows
  BY DEF Init, RowFollows, InTry, Working
<1>2. TypeOK /\ RowFollows /\ [Next]_vars => RowFollows'
  BY RowFollowsStep
<1>3. QED
  BY <1>1, <1>2, TypeCorrect, PTL DEF Spec

\* A live Fargate task whose row is closed, and that is not about to report a
\* failure, is one its launcher gave up: its scan is contested.
LEMMA ClosedIsContested ==
    ASSUME TypeOK, ReaperInv, NEW s \in Fargate, TaskLive(s),
           status[s] \in Closed, worker[s] # "erroring"
    PROVE  s \in Contested
BY DEF ReaperInv, ClosedMeansOver, Contested, Scan

\* Every step of the programs is a step of the promise, or none of its.
LEMMA StepImplements ==
    ASSUME TypeOK, ReaperInv, RowFollows, [Next]_vars
    PROVE  [Visible!Next]_(Visible!statusVars)
<1> USE DEF TypeOK, RowFollows, Visible!statusVars, Visible!Set, Contested
<1>1. CASE \/ Tick \/ ReaperList \/ ReaperSelect \/ ReaperExit \/ UNCHANGED vars
  BY <1>1 DEF Tick, ReaperList, ReaperSelect, ReaperExit, vars, row, run, reaper
<1>2. ASSUME NEW s \in Scan, InsertScan(s) PROVE Visible!Request(s)
  BY <1>2 DEF InsertScan, run, Visible!Request
<1>3. ASSUME NEW s \in Scan, MarkLaunchFailed(s) PROVE Visible!GiveUp(s)
  BY <1>3 DEF MarkLaunchFailed, run, Visible!GiveUp
<1>4. ASSUME NEW s \in Scan, RunTask(s) \/ InvokeAsync(s) \/ ApiKilled(s)
      PROVE  UNCHANGED Visible!statusVars
  BY <1>4 DEF RunTask, InvokeAsync, ApiKilled, InApi, row, run
<1>5. ASSUME NEW s \in Scan, StartAttempt(s) PROVE Visible!Contest(s)
  BY <1>5, ScanAssumption DEF StartAttempt, row, Visible!Contest
<1>6. ASSUME NEW s \in Scan, WorkerStep(s), UNCHANGED <<api, attempts, status>>
      PROVE  UNCHANGED Visible!statusVars
  BY <1>6
<1>7. ASSUME NEW s \in Scan, FargateStep(s), ~UNCHANGED status
      PROVE  Visible!Start(s) \/ Visible!Finish(s) \/ Visible!Reopen(s)
  <2>1. /\ UNCHANGED Contested
        /\ s \in Fargate /\ TaskLive(s) /\ worker[s] # "erroring"
    BY <1>7 DEF FargateStep, Announce, RunUnits, FinishFargate, row, TaskLive,
       Working, InTry
  <2>2. CASE \E st \in {"completed", "partial"} :
               /\ worker[s] = "closing"
               /\ status' = [status EXCEPT ![s] = st]
    BY <2>1, <2>2, ClosedIsContested
    DEF Visible!Finish, Visible!Reopen, Closed, InTry, Status
  <2>3. CASE status' = [status EXCEPT ![s] = "running"]
    BY <1>7, <2>1, <2>3, ClosedIsContested
    DEF Visible!Start, Visible!Reopen, Closed, Status, TaskLive, Working, InTry
  <2>4. CASE FinishFargate(s)
    <3>1. PICK st \in {"completed", "partial"} : st = IF gap[s] THEN "partial" ELSE "completed"
      OBVIOUS
    <3>2. QED
      BY <2>2, <2>4, <3>1 DEF FinishFargate, UpdateScan
  <2>5. CASE ~FinishFargate(s)
    BY <1>7, <2>3, <2>5 DEF FargateStep, Announce, RunUnits, UpdateScan, row
  <2>6. QED
    BY <2>4, <2>5
<1>8. ASSUME NEW s \in Scan, EntraStep(s), ~UNCHANGED status
      PROVE  Visible!Start(s) \/ Visible!Finish(s) \/ Visible!Reopen(s)
  <2>1. UNCHANGED Contested /\ s \in Contested
    BY <1>8 DEF EntraStep, BeginEntra, RunChecks, RunSignin, SwallowFailure,
       FinishEntra, Working, InTry
  <2>2. CASE BeginEntra(s)
    BY <1>8, <2>1, <2>2
    DEF BeginEntra, UpdateScan, Visible!Start, Visible!Reopen, Status, Working
  <2>3. CASE FinishEntra(s)
    BY <2>1, <2>3
    DEF FinishEntra, UpdateScan, Visible!Finish, Visible!Reopen, Status,
        Working, InTry
  <2>4. QED
    BY <1>8, <2>2, <2>3 DEF EntraStep, RunChecks, RunSignin, SwallowFailure, row
<1>9. ASSUME NEW s \in Scan, ReportFailure(s)
      PROVE  Visible!Fail(s) \/ UNCHANGED Visible!statusVars
  BY <1>9 DEF ReportFailure, UpdateScan, Visible!Fail, row
<1>10. ASSUME NEW s \in Scan, Raise(s) \/ Die(s)
       PROVE  UNCHANGED Visible!statusVars
  BY <1>10 DEF Raise, Die, row
<1>11. ASSUME NEW s \in Scan, Reap(s)
       PROVE  Visible!Fail(s) \/ UNCHANGED Visible!statusVars
  BY <1>11 DEF Reap, run, Open, Visible!Fail
<1>12. ASSUME NEW s \in Scan, WorkerStep(s)
       PROVE  [Visible!Next]_(Visible!statusVars)
  <2>1. WorkerStep(s) /\ ~StartAttempt(s) => UNCHANGED <<api, attempts>>
    BY DEF WorkerStep, FargateStep, Announce, RunUnits, FinishFargate,
       EntraStep, BeginEntra, RunChecks, RunSignin, SwallowFailure,
       FinishEntra, Raise, ReportFailure, Die
  <2>2. QED
    BY <1>5, <1>6, <1>7, <1>8, <1>9, <1>10, <1>12, <2>1
    DEF WorkerStep, Visible!Next
<1>13. QED
  BY <1>1, <1>2, <1>3, <1>4, <1>11, <1>12 DEF Next, RescanStep, Visible!Next

\* What a client may be told about a scan is what ScanStatus promises: a closed
\* status is final unless the scan is contested.
THEOREM ImplementsStatus == Spec => ImplementsScanStatus
<1>1. Init => Visible!Init
  BY DEF Init, Visible!Init, Contested, RowFollows
<1>2. TypeOK /\ ReaperInv /\ RowFollows /\ [Next]_vars
        => [Visible!Next]_(Visible!statusVars)
  BY StepImplements
<1>3. QED
  BY <1>1, <1>2, TypeCorrect, ReaperCorrect, RowAlwaysFollows, PTL
  DEF Spec, ImplementsScanStatus, Visible!Spec

\* A runner that has ended takes no step.
LEMMA OnlyWorkersStep ==
    ASSUME NEW s \in Scan, WorkerStep(s)
    PROVE  worker[s] # "gone"
BY DEF WorkerStep, FargateStep, Announce, RunUnits, FinishFargate, StartAttempt,
   EntraStep, BeginEntra, RunChecks, RunSignin, SwallowFailure, FinishEntra,
   Raise, ReportFailure, Die, Working, InTry

\* Once its runner has ended, a completed or partial scan keeps its status: no
\* reaper invocation, retry or launcher overwrites it.
THEOREM FinishedForGood == Spec => FinishedIsFinal
<1> DEFINE Kept == \A s \in Scan :
              status[s] \in {"completed", "partial"} /\ worker[s] = "gone"
                /\ api[s] # "launch_failed" => status'[s] = status[s]
<1>1. TypeOK /\ RowFollows /\ [Next]_vars => [Kept]_status
  <2> SUFFICES ASSUME TypeOK, RowFollows, [Next]_vars PROVE Kept
    OBVIOUS
  <2> USE DEF TypeOK
  <2>1. CASE \/ Tick \/ ReaperList \/ ReaperSelect \/ ReaperExit \/ UNCHANGED vars
    BY <2>1 DEF Tick, ReaperList, ReaperSelect, ReaperExit, vars, row
  <2>2. ASSUME NEW s \in Scan, InsertScan(s) \/ RescanStep(s) PROVE Kept
    BY <2>2 DEF InsertScan, RescanStep, RunTask, MarkLaunchFailed, InvokeAsync,
       ApiKilled, RowFollows, row
  <2>3. ASSUME NEW s \in Scan, WorkerStep(s) PROVE Kept
    BY <2>3, RunnerFrame, OnlyWorkersStep
  <2>4. ASSUME NEW s \in Scan, Reap(s) PROVE Kept
    BY <2>4 DEF Reap, Open
  <2>5. QED
    BY <2>1, <2>2, <2>3, <2>4 DEF Next
<1>2. QED
  BY <1>1, TypeCorrect, RowAlwaysFollows, PTL DEF Spec, FinishedIsFinal
=============================================================================
