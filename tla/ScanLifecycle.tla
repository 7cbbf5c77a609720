--------------------------- MODULE ScanLifecycle ---------------------------
(***************************************************************************)
(* The life of a row of the `scans` table: POST /connections/{id}/rescan   *)
(* inserts it (connections_list), a Fargate task or the Entra Lambda moves *)
(* it forward (shasta_runner*, scanner_core/scan_state), and the scheduled *)
(* reaper (scan_reaper) fails the rows nobody works on any more.           *)
(*                                                                         *)
(* Every SQL statement of these programs commits by itself, so a step here *)
(* is one statement (or one commit_scan transaction) together with the     *)
(* control flow up to the next one.  The clock counts coarse time units;   *)
(* the time limits of the Lambdas are deadlines that Tick may not pass.    *)
(***************************************************************************)
EXTENDS Naturals, FiniteSets

CONSTANTS
    Fargate,          \* scans run as ECS tasks (aws, azure, gcp)
    Entra,            \* scans run by the asynchronously invoked Entra Lambda
    GRACE,            \* GRACE_MINUTES of the reaper
    API_TIMEOUT,      \* time limit of the connections_list Lambda
    REAPER_TIMEOUT,   \* time limit of the reaper Lambda
    LAMBDA_CEILING,   \* time limit of one Entra attempt
    EVENT_DELAY,      \* longest wait of an asynchronous event for its attempt
    MAX_ATTEMPTS,     \* attempts Lambda makes at one asynchronous event
    MAX_SCANS,        \* bound: scans that are requested
    MAX_START,        \* bound: no scan is requested after this time
    MAX_TIME          \* bound: the clock stops here

Scan == Fargate \cup Entra

\* The reaper reads the live tasks up to REAPER_TIMEOUT before it decides, and
\* a launch may happen up to API_TIMEOUT after the row's started_at.  The CDK
\* stack sets 15 s, 2 min and 20 min (api-stack.ts:246, scan-stack.ts:169,171).
ASSUME ScanAssumption ==
    /\ Fargate \cap Entra = {}
    /\ {GRACE, API_TIMEOUT, REAPER_TIMEOUT, LAMBDA_CEILING, EVENT_DELAY,
        MAX_ATTEMPTS, MAX_SCANS, MAX_START, MAX_TIME} \subseteq Nat
    /\ API_TIMEOUT + REAPER_TIMEOUT <= GRACE

VARIABLES
    now,                               \* the database clock
    status, phase, started, err, tier, \* the scans row
    api,        \* the rescan request that owns the scan
    worker,     \* where the scan's runner is in its handler
    since,      \* when an Entra event was queued, or its attempt started
    attempts,   \* Entra attempts made so far
    landed,     \* the parts of the scan whose findings are all committed
    gap,        \* some scan unit errored or timed out (had_gap)
    bound,      \* the Entra handler's local name `traceback` has a value
    rpc, live, todo, listedAt          \* the reaper invocation under way

row    == <<status, phase, started, err, tier>>
run    == <<worker, since, attempts, landed, gap, bound>>
reaper == <<rpc, live, todo, listedAt>>
vars   == <<now, row, api, run, reaper>>

Status  == {"absent", "queued", "running", "completed", "partial", "failed"}
Open    == {"queued", "running"}
Closed  == {"completed", "partial", "failed"}
Phase   == {"region_discovery", "first_signal", "crown_jewel", "full", "done"}
FargatePart == {"global", "regional"}
Part    == FargatePart \cup {"checks", "signin"}
InTry   == {"discovering", "globals", "globals_done", "regions", "everything",
            "checks", "checks_failed", "signin", "signin_failed", "closing"}
Working == InTry \cup {"pending", "starting", "erroring"}
Worker  == Working \cup {"none", "event", "gone"}
InApi   == {"inserted", "launch_failed"}
Api     == InApi \cup {"idle", "done", "reported"}

Init ==
    /\ now = 0
    /\ status = [s \in Scan |-> "absent"]
    /\ phase = [s \in Scan |-> "region_discovery"]
    /\ started = [s \in Scan |-> 0]
    /\ err = [s \in Scan |-> "none"]
    /\ tier = [s \in Scan |-> "quick"]
    /\ api = [s \in Scan |-> "idle"]
    /\ worker = [s \in Scan |-> "none"]
    /\ since = [s \in Scan |-> 0]
    /\ attempts = [s \in Scan |-> 0]
    /\ landed = [s \in Scan |-> {}]
    /\ gap = [s \in Scan |-> FALSE]
    /\ bound = [s \in Scan |-> FALSE]
    /\ rpc = "idle" /\ live = {} /\ todo = {} /\ listedAt = 0

-----------------------------------------------------------------------------
(* Time passes, but never beyond the limit of a Lambda that is running.    *)

Tick ==
    /\ now < MAX_TIME
    /\ \A s \in Scan :
        /\ api[s] \in InApi => now < started[s] + API_TIMEOUT
        /\ s \in Entra /\ worker[s] = "event" => now < since[s] + EVENT_DELAY
        /\ s \in Entra /\ worker[s] \in Working => now < since[s] + LAMBDA_CEILING
    /\ rpc # "idle" => now < listedAt + REAPER_TIMEOUT
    /\ now' = now + 1
    /\ UNCHANGED <<row, api, run, reaper>>

-----------------------------------------------------------------------------
(* The rescan request.                                                     *)

InsertScan(s) ==
    /\ api[s] = "idle" /\ now <= MAX_START
    /\ Cardinality({r \in Scan : api[r] # "idle"}) < MAX_SCANS
    /\ \E t \in {"quick", "medium"} : tier' = [tier EXCEPT ![s] = t]
    /\ status' = [status EXCEPT ![s] = "queued"]
    /\ started' = [started EXCEPT ![s] = now]
    /\ api' = [api EXCEPT ![s] = "inserted"]
    /\ UNCHANGED <<now, phase, err, run, reaper>>

\* RunTask raises with no task started, or with one (its answer was lost).
RunTask(s) ==
    /\ s \in Fargate /\ api[s] = "inserted"
    /\ \E raised, taskStarted \in BOOLEAN :
        /\ raised \/ taskStarted
        /\ api' = [api EXCEPT ![s] = IF raised THEN "launch_failed" ELSE "done"]
        /\ worker' = [worker EXCEPT ![s] = IF taskStarted THEN "pending" ELSE @]
    /\ UNCHANGED <<now, row, since, attempts, landed, gap, bound, reaper>>

MarkLaunchFailed(s) ==
    /\ api[s] = "launch_failed"
    /\ status' = [status EXCEPT ![s] = "failed"]
    /\ api' = [api EXCEPT ![s] = "reported"]
    /\ UNCHANGED <<now, phase, started, err, tier, run, reaper>>

\* A failed invoke is logged and swallowed: the row stays 'queued'.
InvokeAsync(s) ==
    /\ s \in Entra /\ api[s] = "inserted"
    /\ \/ /\ worker' = [worker EXCEPT ![s] = "event"]
          /\ since' = [since EXCEPT ![s] = now]
       \/ UNCHANGED <<worker, since>>
    /\ api' = [api EXCEPT ![s] = "done"]
    /\ UNCHANGED <<now, row, attempts, landed, gap, bound, reaper>>

ApiKilled(s) ==
    /\ api[s] \in InApi
    /\ api' = [api EXCEPT ![s] = "done"]
    /\ UNCHANGED <<now, row, run, reaper>>

RescanStep(s) ==
    \/ RunTask(s) \/ MarkLaunchFailed(s) \/ InvokeAsync(s) \/ ApiKilled(s)

-----------------------------------------------------------------------------
(* The runners.  UpdateScan is scan_state.update_scan: it does not look at *)
(* the status it overwrites.                                               *)

UpdateScan(s, st, ph, er) ==
    /\ status' = [status EXCEPT ![s] = st]
    /\ phase' = [phase EXCEPT ![s] = ph]
    /\ err' = [err EXCEPT ![s] = er]
    /\ UNCHANGED <<started, tier>>

Goto(s, w) == worker' = [worker EXCEPT ![s] = w]

\* update_scan('running', phase) between two stages of the Fargate handler.
Announce(s, from, ph, to) ==
    /\ s \in Fargate /\ worker[s] = from
    /\ UpdateScan(s, "running", ph, err[s])
    /\ Goto(s, to)
    /\ UNCHANGED <<now, api, since, attempts, landed, gap, bound, reaper>>

\* Mutant: each stage starts from an empty coverage map.
RunUnitsForgetful(s, from, parts, to) ==
    /\ s \in Fargate /\ worker[s] = from
    /\ \E failed \in SUBSET parts, acked \in BOOLEAN :
        /\ landed' = [landed EXCEPT ![s] = @ \cup (parts \ failed)]
        /\ gap' = [gap EXCEPT ![s] = failed # {}]
        /\ Goto(s, IF acked THEN to ELSE "erroring")
    /\ UNCHANGED <<now, row, api, since, attempts, bound, reaper>>

\* run_units, _absorb and commit_scan: a unit that fails contributes nothing
\* but an error to the coverage map.  The commit may land and still raise.
RunUnits(s, from, parts, to) ==
    /\ s \in Fargate /\ worker[s] = from
    /\ \E failed \in SUBSET parts, acked \in BOOLEAN :
        /\ landed' = [landed EXCEPT ![s] = @ \cup (parts \ failed)]
        /\ gap' = [gap EXCEPT ![s] = @ \/ failed # {}]
        /\ Goto(s, IF acked THEN to ELSE "erroring")
    /\ UNCHANGED <<now, row, api, since, attempts, bound, reaper>>

FinishFargate(s) ==
    /\ s \in Fargate /\ worker[s] = "closing"
    /\ UpdateScan(s, IF gap[s] THEN "partial" ELSE "completed", "done", err[s])
    /\ \E acked \in BOOLEAN : Goto(s, IF acked THEN "gone" ELSE "erroring")
    /\ UNCHANGED <<now, api, since, attempts, landed, gap, bound, reaper>>

FargateStep(s) ==
    \/ Announce(s, "pending", "region_discovery", "discovering")
    \/ /\ tier[s] = "quick"
       /\ \/ Announce(s, "discovering", "first_signal", "globals")
          \/ RunUnits(s, "globals", {"global"}, "globals_done")
          \/ Announce(s, "globals_done", "crown_jewel", "regions")
          \/ RunUnits(s, "regions", {"regional"}, "closing")
    \/ /\ tier[s] = "medium"
       /\ \/ Announce(s, "discovering", "full", "everything")
          \/ RunUnits(s, "everything", FargatePart, "closing")
    \/ FinishFargate(s)

\* The end of an Entra attempt that raised or was cut off: Lambda queues the
\* event again until its attempts are used up.  A Fargate task just stops.
Stop(s) ==
    IF s \in Entra /\ attempts[s] < MAX_ATTEMPTS
    THEN Goto(s, "event") /\ since' = [since EXCEPT ![s] = now]
    ELSE Goto(s, "gone") /\ UNCHANGED since

StartAttempt(s) ==
    /\ s \in Entra /\ worker[s] = "event"
    /\ Goto(s, "starting")
    /\ since' = [since EXCEPT ![s] = now]
    /\ attempts' = [attempts EXCEPT ![s] = @ + 1]
    /\ bound' = [bound EXCEPT ![s] = FALSE]
    /\ UNCHANGED <<now, row, api, landed, gap, reaper>>

BeginEntra(s) ==
    /\ s \in Entra /\ worker[s] = "starting"
    /\ UpdateScan(s, "running", phase[s], err[s])
    /\ Goto(s, "checks")
    /\ UNCHANGED <<now, api, since, attempts, landed, gap, bound, reaper>>

RunChecks(s) ==
    /\ s \in Entra /\ worker[s] = "checks"
    /\ \/ /\ landed' = [landed EXCEPT ![s] = @ \cup {"checks"}]
          /\ Goto(s, "signin")
       \/ Goto(s, "checks_failed") /\ UNCHANGED landed
    /\ UNCHANGED <<now, row, api, since, attempts, gap, bound, reaper>>

\* After the sign-in pass come the premium flag and the pushes, whose failures
\* are swallowed; that of the pushes executes `import traceback`.
RunSignin(s) ==
    /\ s \in Entra /\ worker[s] = "signin"
    /\ \/ /\ landed' = [landed EXCEPT ![s] = @ \cup {"signin"}]
          /\ \E pushFailed \in BOOLEAN : bound' = [bound EXCEPT ![s] = pushFailed]
          /\ Goto(s, "closing")
       \/ Goto(s, "signin_failed") /\ UNCHANGED <<landed, bound>>
    /\ UNCHANGED <<now, row, api, since, attempts, gap, reaper>>

\* The except clause of either pass.  It means to go on without the findings,
\* but formats traceback.format_exc(), and the `import traceback` further down
\* makes that name local to the handler: unbound, it raises.
SwallowFailure(s, from, to) ==
    /\ s \in Entra /\ worker[s] = from
    /\ Goto(s, IF bound[s] THEN to ELSE "erroring")
    /\ UNCHANGED <<now, row, api, since, attempts, landed, gap, bound, reaper>>

FinishEntra(s) ==
    /\ s \in Entra /\ worker[s] = "closing"
    /\ UpdateScan(s, "completed", phase[s], err[s])
    /\ \E acked \in BOOLEAN : Goto(s, IF acked THEN "gone" ELSE "erroring")
    /\ UNCHANGED <<now, api, since, attempts, landed, gap, bound, reaper>>

EntraStep(s) ==
    \/ BeginEntra(s) \/ RunChecks(s) \/ RunSignin(s)
    \/ SwallowFailure(s, "checks_failed", "signin")
    \/ SwallowFailure(s, "signin_failed", "closing")
    \/ FinishEntra(s)

\* An exception inside the handler's try block.
Raise(s) ==
    /\ worker[s] \in InTry
    /\ Goto(s, "erroring")
    /\ UNCHANGED <<now, row, api, since, attempts, landed, gap, bound, reaper>>

\* The outer except clause: mark the row failed, then re-raise.  The Entra
\* handler's formats the traceback first, and does not get to the UPDATE.
ReportFailure(s) ==
    /\ worker[s] = "erroring"
    /\ IF s \in Fargate \/ bound[s]
       THEN UpdateScan(s, "failed", IF s \in Fargate THEN "done" ELSE phase[s], "scanner")
       ELSE UNCHANGED row
    /\ Stop(s)
    /\ UNCHANGED <<now, api, attempts, landed, gap, bound, reaper>>

\* Image pull failure, out of memory, spot reclaim, a Lambda timeout, an
\* exception outside the try block: the runner stops and writes nothing.
Die(s) ==
    /\ worker[s] \in Working
    /\ Stop(s)
    /\ UNCHANGED <<now, row, api, attempts, landed, gap, bound, reaper>>

WorkerStep(s) ==
    \/ FargateStep(s) \/ StartAttempt(s) \/ EntraStep(s)
    \/ Raise(s) \/ ReportFailure(s) \/ Die(s)

-----------------------------------------------------------------------------
(* The reaper: two reads, then one conditional UPDATE per selected scan.   *)

TaskLive(s) == s \in Fargate /\ worker[s] \in Working

\* Mutant: only tasks that already run are listed, not the pending ones.
ReaperListsRunning ==
    /\ rpc = "idle"
    /\ rpc' = "listed"
    /\ live' = {s \in Scan : TaskLive(s) /\ worker[s] # "pending"}
    /\ listedAt' = now
    /\ UNCHANGED <<now, row, api, run, todo>>

ReaperList ==
    /\ rpc = "idle"
    /\ rpc' = "listed"
    /\ live' = {s \in Scan : TaskLive(s)}
    /\ listedAt' = now
    /\ UNCHANGED <<now, row, api, run, todo>>

\* Mutants: no grace period; the queued scans are forgotten.
StaleAtOnce(s) == status[s] \in Open /\ started[s] < now
StaleRunning(s) == status[s] = "running" /\ started[s] + GRACE < now

Stale(s) == status[s] \in Open /\ started[s] + GRACE < now

\* Mutant: the snapshot of the live tasks is not used.
ReaperSelectAll ==
    /\ rpc = "listed"
    /\ rpc' = "reaping"
    /\ todo' = {s \in Scan : Stale(s)}
    /\ UNCHANGED <<now, row, api, run, live, listedAt>>

ReaperSelect ==
    /\ rpc = "listed"
    /\ rpc' = "reaping"
    /\ todo' = {s \in Scan : Stale(s)} \ live
    /\ UNCHANGED <<now, row, api, run, live, listedAt>>

\* Mutant: the UPDATE does not check the status again.
ReapUnchecked(s) ==
    /\ rpc = "reaping" /\ s \in todo
    /\ status' = [status EXCEPT ![s] = "failed"]
    /\ err' = [err EXCEPT ![s] = IF @ = "none" THEN "reaped" ELSE @]
    /\ todo' = todo \ {s}
    /\ UNCHANGED <<now, phase, started, tier, api, run, rpc, live, listedAt>>

Reap(s) ==
    /\ rpc = "reaping" /\ s \in todo
    /\ IF status[s] \in Open
       THEN /\ status' = [status EXCEPT ![s] = "failed"]
            /\ err' = [err EXCEPT ![s] = IF @ = "none" THEN "reaped" ELSE @]
       ELSE UNCHANGED <<status, err>>
    /\ todo' = todo \ {s}
    /\ UNCHANGED <<now, phase, started, tier, api, run, rpc, live, listedAt>>

\* The handler returns, or the Lambda is cut off at any point.
ReaperExit ==
    /\ rpc # "idle"
    /\ rpc' = "idle" /\ live' = {} /\ todo' = {} /\ listedAt' = 0
    /\ UNCHANGED <<now, row, api, run>>

-----------------------------------------------------------------------------
Next ==
    \/ Tick
    \/ \E s \in Scan :
        InsertScan(s) \/ RescanStep(s) \/ WorkerStep(s) \/ Reap(s)
    \/ ReaperList \/ ReaperSelect \/ ReaperExit

\* A request ends (or is cut off), a runner moves on or stops (its cloud calls
\* time out), and EventBridge starts the reaper again and again, so that not
\* every one of its invocations is cut off before the same statement.
Fairness ==
    /\ WF_vars(Tick)
    /\ \A s \in Scan :
        WF_vars(RescanStep(s)) /\ WF_vars(WorkerStep(s)) /\ SF_vars(Reap(s))
    /\ WF_vars(ReaperList) /\ SF_vars(ReaperSelect) /\ WF_vars(ReaperExit)

Spec == Init /\ [][Next]_vars
FairSpec == Spec /\ Fairness
-----------------------------------------------------------------------------
\* Type invariant of the scans table, the requests, the runners and the reaper.
TypeOK ==
    /\ now \in Nat
    /\ status \in [Scan -> Status] /\ phase \in [Scan -> Phase]
    /\ started \in [Scan -> Nat] /\ tier \in [Scan -> {"quick", "medium"}]
    /\ err \in [Scan -> {"none", "scanner", "reaped"}]
    /\ api \in [Scan -> Api] /\ worker \in [Scan -> Worker]
    /\ since \in [Scan -> Nat] /\ attempts \in [Scan -> Nat]
    /\ landed \in [Scan -> SUBSET Part]
    /\ gap \in [Scan -> BOOLEAN] /\ bound \in [Scan -> BOOLEAN]
    /\ rpc \in {"idle", "listed", "reaping"} /\ listedAt \in Nat
    /\ live \in SUBSET Scan /\ todo \in SUBSET Scan

\* A scan the reaper has decided to fail has no live Fargate task, from the
\* decision to the UPDATE: scan_reaper's docstring, "a legitimately
\* long-running Fargate scan is never reaped".  It reads the tasks before the
\* rows, so it holds only because a launch follows its row soon enough.
ReaperSparesLiveTasks == \A s \in todo \cap Fargate : ~TaskLive(s)

\* A Fargate scan closed by the reaper stays failed, for no late runner writes
\* to it although update_scan never looks at the status it overwrites; and it
\* had not reached its end.
ReapedIsFinal ==
    \A s \in Fargate : err[s] = "reaped" => status[s] = "failed" /\ phase[s] # "done"

\* The result of a runner that has ended is never changed again, not even by a
\* reaper that decided while it was still running: "avoid racing a scan that
\* finished between the SELECT and now" (scan_reaper/main.py:84).
FinishedIsFinal ==
    [][\A s \in Scan :
        status[s] \in {"completed", "partial"} /\ worker[s] = "gone"
            /\ api[s] # "launch_failed" => status'[s] = status[s]]_status

\* A runner of a closed Fargate scan can only be one whose launch answer was
\* lost, or one about to replace its own result by 'failed'.
ClosedMeansOver ==
    \A s \in Fargate : status[s] \in Closed /\ TaskLive(s) =>
        api[s] = "reported" \/ worker[s] = "erroring"

\* The status of a Fargate scan is the truth about its findings: completed only
\* when both parts are committed whole, partial only when one is not, and a
\* crown-jewel phase without the whole first signal will not end as completed.
ResultsMatchStatus ==
    \A s \in Fargate :
        /\ status[s] = "completed" => FargatePart \subseteq landed[s]
        /\ status[s] = "partial" => ~(FargatePart \subseteq landed[s])
        /\ phase[s] = "crown_jewel" => "global" \in landed[s] \/ gap[s]

\* A sign-in pass that raises does not fail the Entra scan: the comment at
\* shasta_runner_entra/app/main.py:77-81, "a Graph failure here never fails
\* the Shasta entra scan".
SigninSparesScan ==
    [][\A s \in Entra : worker[s] = "signin_failed" => worker'[s] # "erroring"]_worker

\* Every scan settles: whatever crashes, its row is eventually closed for good
\* (the reaper's purpose: no row stuck at queued or running).
EveryScanSettles ==
    \A s \in Scan : status[s] # "absent" ~> [](status[s] \in Closed)

\* The rows behave as ScanStatus promises to their readers.  An Entra scan is
\* contested from its request on: its event may be retried after any failure.
Contested == {s \in Scan : api[s] = "reported" \/ attempts[s] > 0}
Visible == INSTANCE ScanStatus WITH contested <- Contested
ImplementsScanStatus == Visible!Spec

-----------------------------------------------------------------------------
(* The inductive strengthening behind the three properties about the       *)
(* reaper: what its snapshot of the live tasks is still good for when the  *)
(* decision and the UPDATEs come.                                          *)

MayRun(s) == TaskLive(s) \/ api[s] = "inserted"

\* The clock has not passed the limit of a request or of the reaper.
WithinLimits ==
    /\ \A s \in Scan : api[s] \in InApi =>
        started[s] <= now /\ now <= started[s] + API_TIMEOUT
    /\ rpc # "idle" => listedAt <= now /\ now <= listedAt + REAPER_TIMEOUT

\* A Fargate scan that runs, or may yet run, without being in the snapshot was
\* requested at most API_TIMEOUT before the snapshot.
SnapshotCovers ==
    rpc # "idle" => \A s \in Fargate \ live :
        MayRun(s) => listedAt <= started[s] + API_TIMEOUT

\* What the reaper decided about can no longer run; neither can what it failed.
DecidedAreDead ==
    /\ rpc # "reaping" => todo = {}
    /\ \A s \in Fargate : s \in todo \/ err[s] = "reaped" =>
        api[s] # "idle" /\ ~MayRun(s)

\* Before its request and before its launch a scan's row is untouched, and as
\* long as it is open its phase is not the last one.
Untouched ==
    \A s \in Fargate :
        /\ api[s] = "idle" => status[s] = "absent" /\ ~TaskLive(s)
        /\ api[s] = "inserted" => status[s] = "queued" /\ ~TaskLive(s)
        /\ status[s] \in Open \cup {"absent"} => phase[s] # "done"

\* The invariant of the reaper race: each part is needed for the next one.
ReaperInv ==
    /\ WithinLimits /\ SnapshotCovers /\ DecidedAreDead /\ Untouched
    /\ ReapedIsFinal /\ ClosedMeansOver

\* Where the runner of a Fargate scan is tells what it has committed, and that
\* had_gap is set exactly when something of it is missing.
CommittedSoFar(s) ==
    /\ landed[s] \subseteq FargatePart
    /\ api[s] \in {"idle", "inserted"} => worker[s] = "none"
    /\ worker[s] \in {"none", "pending", "discovering", "globals", "everything"} =>
        landed[s] = {} /\ ~gap[s]
    /\ worker[s] \in {"globals_done", "regions"} =>
        "regional" \notin landed[s] /\ (gap[s] <=> "global" \notin landed[s])
    /\ worker[s] = "closing" => (gap[s] <=> landed[s] # FargatePart)
    /\ status[s] \in {"completed", "partial"} => worker[s] \in {"gone", "erroring"}

RunnerCommitted == \A s \in Fargate : CommittedSoFar(s)

\* The row exists once it is requested, and is past 'queued' once its runner
\* has begun; an Entra runner has counted its attempt.
RowFollows ==
    \A s \in Scan :
        /\ status[s] = "absent" => api[s] = "idle" /\ attempts[s] = 0
        /\ api[s] \in {"idle", "inserted"} => worker[s] = "none"
        /\ api[s] = "idle" => status[s] = "absent"
        /\ worker[s] \in InTry \cup {"erroring"} => status[s] # "queued"
        /\ s \in Entra => worker[s] # "pending"
        /\ s \in Entra /\ worker[s] \in Working => attempts[s] > 0
        /\ s \in Fargate => worker[s] \notin {"event", "starting"}
=============================================================================
