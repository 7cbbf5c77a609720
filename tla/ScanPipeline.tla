---------------------------- MODULE ScanPipeline ----------------------------
(***************************************************************************)
(* What an Azure or GCP scan covers: the probe of every subscription or    *)
(* project (subscription_discovery.py, project_discovery.py), the scan     *)
(* units built for those worth scanning, the thread pool that runs them    *)
(* under per-service slots (scanner_core/scan_pipeline.py), and the        *)
(* runner's handler, which merges the outcomes, commits and decides        *)
(* between completed and partial.                                          *)
(*                                                                         *)
(* A unit is one module on one place; its service is its module.  The      *)
(* order in which the pool takes units from its queue is left open.        *)
(***************************************************************************)
EXTENDS Naturals, FiniteSets

CONSTANTS
    Place,                \* the subscriptions or projects of the connection
    PhaseOne, PhaseTwo,   \* modules_for_tier; only a quick scan has a second phase
    WORKERS,              \* threads of the pool
    CAP,                  \* slots of a service
    BATCH_TIMEOUT         \* whether run_units is given a batch_timeout

ASSUME PipelineAssumption ==
    /\ {WORKERS, CAP} \subseteq Nat \ {0} /\ BATCH_TIMEOUT \in BOOLEAN
    /\ PhaseOne \cap PhaseTwo = {} /\ IsFiniteSet(Place \X (PhaseOne \cup PhaseTwo))

VARIABLES
    actual,                  \* what each place really holds
    states,                  \* what its probe said
    pc, phase,               \* where the handler is
    queued, waiting, running,   \* units in the pool: not taken, without and with a slot
    returned, raised,        \* units whose future is done
    free,                    \* free slots of each service
    outcome,                 \* UnitOutcome.status of each unit
    absorbed,                \* units whose findings are in the accumulators
    errors,                  \* units in the errors of the coverage map
    committed,               \* units whose findings commit_scan has written
    final                    \* the scan's closing status

pool    == <<queued, waiting, running, returned, raised, free>>
handler == <<pc, phase, outcome, absorbed, errors, committed, final>>
pipelineVars == <<actual, states, pool, handler>>

Module == PhaseOne \cup PhaseTwo
Unit   == Place \X Module
Service(u) == u[2]
States == {"active", "empty", "unknown"}

PipelineInit ==
    /\ actual \in [Place -> {"active", "empty"}]
    /\ states = [p \in Place |-> "none"]
    /\ pc = "probing" /\ phase = 1
    /\ queued = {} /\ waiting = {} /\ running = {} /\ returned = {} /\ raised = {}
    /\ free = [m \in Module |-> CAP]
    /\ outcome = [u \in Unit |-> "none"]
    /\ absorbed = {} /\ errors = {} /\ committed = {} /\ final = "none"

-----------------------------------------------------------------------------
(* Discovery.                                                              *)

\* Mutant: a failed probe counts as an empty place.
ProbeAssuming(p) ==
    /\ pc = "probing" /\ states[p] = "none"
    /\ \E failed \in BOOLEAN :
        states' = [states EXCEPT ![p] = IF failed THEN "empty" ELSE actual[p]]
    /\ UNCHANGED <<actual, pool, handler>>

Probe(p) ==
    /\ pc = "probing" /\ states[p] = "none"
    /\ \E failed \in BOOLEAN :
        states' = [states EXCEPT ![p] = IF failed THEN "unknown" ELSE actual[p]]
    /\ UNCHANGED <<actual, pool, handler>>

Scannable == {p \in Place : states[p] \in {"active", "unknown"}}
Units(n)  == Scannable \X (IF n = 1 THEN PhaseOne ELSE PhaseTwo)

\* run_units submits the units of the phase.
Submit(n) == queued' = Units(n) /\ pc' = "running" /\ phase' = n

Discovered ==
    /\ pc = "probing" /\ \A p \in Place : states[p] # "none"
    /\ Submit(1)
    /\ UNCHANGED <<actual, states, waiting, running, returned, raised, free, outcome,
                   absorbed, errors, committed, final>>

-----------------------------------------------------------------------------
(* The pool.                                                               *)

Busy == waiting \cup running

\* A thread takes a unit and holds on to it while it waits for the slot.
Take(u) ==
    /\ u \in queued /\ Cardinality(Busy) < WORKERS
    /\ queued' = queued \ {u} /\ waiting' = waiting \cup {u}
    /\ UNCHANGED <<actual, states, running, returned, raised, free, handler>>

Acquire(u) ==
    /\ u \in waiting /\ free[Service(u)] > 0
    /\ free' = [free EXCEPT ![Service(u)] = @ - 1]
    /\ waiting' = waiting \ {u} /\ running' = running \cup {u}
    /\ UNCHANGED <<actual, states, queued, returned, raised, handler>>

\* Mutant: the slot is released only when the unit succeeds.
FinishLeaking(u, ok) ==
    /\ u \in running
    /\ running' = running \ {u}
    /\ free' = IF ok THEN [free EXCEPT ![Service(u)] = @ + 1] ELSE free
    /\ returned' = IF ok THEN returned \cup {u} ELSE returned
    /\ raised' = IF ok THEN raised ELSE raised \cup {u}
    /\ UNCHANGED <<actual, states, queued, waiting, handler>>

\* The unit returns its findings or raises.
Finish(u, ok) ==
    /\ u \in running
    /\ running' = running \ {u}
    /\ free' = [free EXCEPT ![Service(u)] = @ + 1]
    /\ returned' = IF ok THEN returned \cup {u} ELSE returned
    /\ raised' = IF ok THEN raised ELSE raised \cup {u}
    /\ UNCHANGED <<actual, states, queued, waiting, handler>>

-----------------------------------------------------------------------------
(* run_units and the handler.                                              *)

\* wait() returns: all futures are done, or the deadline has passed.  What is
\* still queued is cancelled; cancelling a unit in a thread does nothing.
Collect ==
    /\ pc = "running"
    /\ BATCH_TIMEOUT \/ queued \cup Busy = {}
    /\ outcome' = [u \in Unit |->
         CASE u \in returned \cap Units(phase)      -> "success"
           [] u \in raised \cap Units(phase)        -> "error"
           [] u \in queued \cup Busy                -> "timeout"
           [] OTHER                                 -> outcome[u]]
    /\ queued' = {}
    /\ pc' = "joining"
    /\ UNCHANGED <<actual, states, waiting, running, returned, raised, free, phase,
                   absorbed, errors, committed, final>>

Absorb ==
    /\ absorbed' = absorbed \cup {u \in Units(phase) : outcome[u] = "success"}
    /\ errors' = errors \cup {u \in Units(phase) : outcome[u] \in {"error", "timeout"}}

\* Leaving the with-block joins the threads; then the handler absorbs the
\* results and commits all it has accumulated, or fails at that.
Joined ==
    /\ pc = "joining" /\ Busy = {}
    /\ Absorb
    /\ \/ committed' = committed \cup absorbed' /\ pc' = "committed" /\ UNCHANGED final
       \/ pc' = "done" /\ final' = "failed" /\ UNCHANGED committed
    /\ UNCHANGED <<actual, states, pool, phase, outcome>>

NextPhase ==
    /\ pc = "committed" /\ phase = 1 /\ PhaseTwo # {}
    /\ Submit(2)
    /\ UNCHANGED <<actual, states, waiting, running, returned, raised, free, outcome,
                   absorbed, errors, committed, final>>

\* had_gap decides.
Close ==
    /\ pc = "committed" /\ (phase = 2 \/ PhaseTwo = {})
    /\ final' = IF errors # {} THEN "partial" ELSE "completed"
    /\ pc' = "done"
    /\ UNCHANGED <<actual, states, pool, phase, outcome, absorbed, errors, committed>>

-----------------------------------------------------------------------------
Probing == \E p \in Place : Probe(p)
PoolStep == \E u \in Unit : Take(u) \/ Acquire(u) \/ \E ok \in BOOLEAN : Finish(u, ok)
HandlerStep == Discovered \/ Collect \/ Joined \/ NextPhase \/ Close

PipelineNext == Probing \/ PoolStep \/ HandlerStep

PipelineSpec == PipelineInit /\ [][PipelineNext]_pipelineVars
-----------------------------------------------------------------------------
\* Type invariant of the discovery, the pool and the handler.
PipelineTypeOK ==
    /\ actual \in [Place -> {"active", "empty"}]
    /\ states \in [Place -> States \cup {"none"}]
    /\ pc \in {"probing", "running", "joining", "committed", "done"} /\ phase \in 1..2
    /\ queued \subseteq Unit /\ waiting \subseteq Unit /\ running \subseteq Unit
    /\ returned \subseteq Unit /\ raised \subseteq Unit
    /\ free \in [Module -> 0..CAP]
    /\ outcome \in [Unit -> {"none", "success", "error", "timeout"}]
    /\ absorbed \subseteq Unit /\ errors \subseteq Unit /\ committed \subseteq Unit
    /\ final \in {"none", "completed", "partial", "failed"}

\* A completed scan has committed the findings of every module on every place
\* that holds anything: no failed probe, failed unit or timed-out unit leaves a
\* gap that the status does not show.
CompletedSawEverything ==
    final = "completed" => \A p \in Place :
        actual[p] = "active" => {p} \X Module \subseteq committed

\* The slots of a service: its free ones and its running units make CAP, so no
\* more than CAP of its units run at once, whichever of them raised.
SlotsConserved ==
    \A m \in Module : free[m] + Cardinality({u \in running : Service(u) = m}) = CAP

\* What is merged is what is reported: a unit's findings are in the accumulators
\* exactly if its outcome is success; a late result is discarded.
MergedAsReported ==
    pc \in {"committed", "done"} =>
        \A u \in Unit : u \in absorbed <=> outcome[u] = "success"

\* Every scan comes to a closing status: no unit waits for a slot forever.
ScanEnds == (\E p \in Place : states[p] # "none") ~> (pc = "done")

-----------------------------------------------------------------------------
(* The inductive strengthening behind CompletedSawEverything and           *)
(* MergedAsReported.                                                       *)

\* A probe does not take a place that holds something for an empty one, and
\* every place has been probed before the first unit is built.
ProbesTell ==
    /\ \A p \in Place : states[p] \in {"none", "unknown", actual[p]}
    /\ pc # "probing" => \A p \in Place : states[p] # "none"

\* The pool works on the units of the phase and on nothing else, and before it
\* is collected each of them is somewhere in it.
PoolHolds ==
    /\ queued \cap Busy = {} /\ waiting \cap running = {}
    /\ queued \cup Busy \subseteq Units(phase)
    /\ pc \in {"probing", "committed", "done"} => queued \cup Busy = {}
    /\ pc = "joining" => queued = {}
    /\ pc = "running" => Units(phase) \subseteq queued \cup Busy \cup returned \cup raised

\* An outcome is set when its phase is collected, and merged when the threads
\* have been joined.
Reported ==
    /\ phase = 1 => \A u \in Unit \ Units(1) : outcome[u] = "none"
    /\ pc = "probing" => phase = 1
    /\ pc \in {"probing", "running"} => \A u \in Units(phase) : outcome[u] = "none"
    /\ pc = "joining" => \A u \in Units(phase) : outcome[u] # "none"
    /\ absorbed = {u \in Unit : outcome[u] = "success" /\ (pc = "joining" => u \notin Units(phase))}

\* The units of a phase that is over are committed or in the errors.
Accounted ==
    /\ phase = 2 \/ pc = "committed" => Units(1) \subseteq committed \cup errors
    /\ phase = 2 /\ pc = "committed" => Units(2) \subseteq committed \cup errors
    /\ final = "completed" => pc = "done" /\ Units(1) \cup Units(2) \subseteq committed
=============================================================================
