--------------------------- MODULE OutboundProofs ---------------------------
(***************************************************************************)
(* Proofs about what the platform does in other people's systems, for any  *)
(* number of places, modules, threads, slots, scans, findings and calls,   *)
(* of stages and deliveries: the units of a scan (ScanPipeline), the Slack *)
(* cards of critical findings (FindingBroadcast), the assistant's action   *)
(* tools (ActionTools), and all three side by side, as Outbound has them.  *)
(***************************************************************************)
EXTENDS Outbound, FiniteSetTheorems, TLAPS

-----------------------------------------------------------------------------
(* The units of a scan.                                                    *)

\* The inductive invariant.
PipelineInv ==
    /\ PipelineTypeOK /\ SlotsConserved
    /\ ProbesTell /\ PoolHolds /\ Reported /\ Accounted

\* The units of the two phases are units, and no unit is in both.
LEMMA UnitsFacts ==
    /\ Units(1) \subseteq Unit /\ Units(2) \subseteq Unit
    /\ Units(1) = Scannable \X PhaseOne /\ Units(2) = Scannable \X PhaseTwo
    /\ Units(1) \cap Units(2) = {}
    BY PipelineAssumption DEF PipelineAssumption, Units, Unit, Module, Scannable

\* The units stay the same while the answers of the probes do.
LEMMA UnitsStay ==
    ASSUME UNCHANGED states
    PROVE  /\ Units(1)' = Units(1) /\ Units(2)' = Units(2)
           /\ phase' = phase => Units(phase)' = Units(phase)
    BY DEF Units, Scannable

\* The units of a service that run.
Running(m) == {u \in running : Service(u) = m}

\* They are finitely many.
LEMMA RunningFinite ==
    ASSUME PipelineTypeOK, NEW m \in Module
    PROVE  IsFiniteSet(Running(m)) /\ Cardinality(Running(m)) \in Nat
<1>1. IsFiniteSet(Unit)
    BY PipelineAssumption DEF PipelineAssumption, Unit, Module
<1>2. Running(m) \in SUBSET Unit
    BY DEF Running, PipelineTypeOK
<1>3. IsFiniteSet(Running(m))
    BY <1>1, <1>2, FS_Subset
<1> QED BY <1>3, FS_CardinalityType

-----------------------------------------------------------------------------
\* Steps that leave the pool's threads and slots alone keep the count.
LEMMA SlotsStay ==
    ASSUME SlotsConserved, UNCHANGED <<running, free>>
    PROVE  SlotsConserved'
    BY DEF SlotsConserved

\* The invariant holds initially.
LEMMA InitIInv == PipelineInit => PipelineInv
<1> SUFFICES ASSUME PipelineInit PROVE PipelineInv
    OBVIOUS
<1> USE PipelineAssumption DEF PipelineAssumption
<1>1. PipelineTypeOK
    BY DEF PipelineInit, PipelineTypeOK, States
<1>2. SlotsConserved
    <2>1. SUFFICES ASSUME NEW m \in Module
                   PROVE  free[m] + Cardinality({u \in running : Service(u) = m}) = CAP
        BY DEF SlotsConserved
    <2>2. {u \in running : Service(u) = m} = {}
        BY DEF PipelineInit
    <2>3. free[m] = CAP /\ CAP \in Nat
        BY DEF PipelineInit
    <2>4. Cardinality({u \in running : Service(u) = m}) = 0
        BY <2>2, FS_EmptySet
    <2> QED BY <2>3, <2>4
<1>3. ProbesTell /\ PoolHolds /\ Accounted
    BY DEF PipelineInit, ProbesTell, PoolHolds, Busy, Accounted
<1>4. Reported
    BY UnitsFacts DEF PipelineInit, Reported
<1> QED BY <1>1, <1>2, <1>3, <1>4 DEF PipelineInv

\* A probe keeps the invariant: no unit has been built yet.
LEMMA ProbeStep == ASSUME PipelineInv, NEW p \in Place, Probe(p) PROVE PipelineInv'
<1>1. /\ pc = "probing" /\ UNCHANGED <<actual, pool, handler>>
      /\ \E failed \in BOOLEAN :
            states' = [states EXCEPT ![p] = IF failed THEN "unknown" ELSE actual[p]]
    BY DEF Probe
<1>2. /\ UNCHANGED <<queued, waiting, running, returned, raised, free, pc, phase, outcome>>
      /\ UNCHANGED <<absorbed, errors, committed, final>>
    BY <1>1 DEF pool, handler
<1>3. states' = [states EXCEPT ![p] = "unknown"] \/ states' = [states EXCEPT ![p] = actual[p]]
    BY <1>1
<1>4. PipelineTypeOK'
    BY <1>1, <1>2, <1>3 DEF PipelineInv, PipelineTypeOK, States
<1>5. SlotsConserved'
    BY <1>2, SlotsStay DEF PipelineInv
<1>6. ProbesTell'
    BY <1>1, <1>2, <1>3 DEF PipelineInv, ProbesTell, PipelineTypeOK
<1>7. phase = 1 /\ queued = {} /\ waiting = {} /\ running = {}
    BY <1>1 DEF PipelineInv, Reported, PoolHolds, Busy
<1>8. PoolHolds'
    BY <1>1, <1>2, <1>7 DEF PoolHolds, Busy
<1>9. \A u \in Unit : outcome[u] = "none"
    BY <1>1, <1>7, UnitsFacts DEF PipelineInv, Reported
<1>10. absorbed = {}
    BY <1>1, <1>9 DEF PipelineInv, Reported
<1>11. Units(1)' \subseteq Unit
    BY <1>4, UnitsFacts DEF PipelineTypeOK, Units, Unit, Module, Scannable
<1>12. Reported'
    BY <1>1, <1>2, <1>7, <1>9, <1>10, <1>11 DEF Reported
<1>13. Accounted'
    BY <1>1, <1>2, <1>7 DEF PipelineInv, Accounted
<1> QED BY <1>4, <1>5, <1>6, <1>8, <1>12, <1>13 DEF PipelineInv

\* The first run_units keeps the invariant.
LEMMA DiscoveredStep == ASSUME PipelineInv, Discovered PROVE PipelineInv'
<1>1. /\ pc = "probing" /\ \A p \in Place : states[p] # "none"
      /\ queued' = Units(1) /\ pc' = "running" /\ phase' = 1
      /\ UNCHANGED <<actual, states, waiting, running, returned, raised, free, outcome>>
      /\ UNCHANGED <<absorbed, errors, committed, final>>
    BY DEF Discovered, Submit
<1>2. /\ phase = 1 /\ queued = {} /\ waiting = {} /\ running = {}
    BY <1>1 DEF PipelineInv, Reported, PoolHolds, Busy
<1>3. Units(1)' = Units(1) /\ Units(phase)' = Units(1)
    BY <1>1, <1>2, UnitsStay
<1>4. PipelineTypeOK'
    BY <1>1, UnitsFacts DEF PipelineInv, PipelineTypeOK
<1>5. SlotsConserved'
    BY <1>1, SlotsStay DEF PipelineInv
<1>6. ProbesTell'
    BY <1>1 DEF PipelineInv, ProbesTell
<1>7. PoolHolds'
    BY <1>1, <1>2, <1>3 DEF PoolHolds, Busy
<1>8. Reported'
    BY <1>1, <1>2, <1>3 DEF PipelineInv, Reported
<1>9. Accounted'
    BY <1>1, <1>2 DEF PipelineInv, Accounted
<1> QED BY <1>4, <1>5, <1>6, <1>7, <1>8, <1>9 DEF PipelineInv

-----------------------------------------------------------------------------
\* The handler's part of the invariant does not see the pool's steps.
LEMMA HandlerParts ==
    ASSUME PipelineInv, UNCHANGED <<actual, states, handler>>
    PROVE  ProbesTell' /\ Reported' /\ Accounted'
<1>1. /\ UNCHANGED <<pc, phase, outcome, absorbed, errors, committed, final>>
      /\ UNCHANGED <<actual, states>>
    BY DEF handler
<1>2. /\ Units(1)' = Units(1) /\ Units(2)' = Units(2) /\ Units(phase)' = Units(phase)
    BY <1>1, UnitsStay
<1>3. ProbesTell'
    BY <1>1 DEF PipelineInv, ProbesTell
<1>4. Reported'
    BY <1>1, <1>2 DEF PipelineInv, Reported
<1>5. Accounted'
    BY <1>1, <1>2 DEF PipelineInv, Accounted
<1> QED BY <1>3, <1>4, <1>5

\* A thread that takes a unit.
LEMMA TakeStep == ASSUME PipelineInv, NEW u \in Unit, Take(u) PROVE PipelineInv'
<1>1. /\ u \in queued /\ queued' = queued \ {u} /\ waiting' = waiting \cup {u}
      /\ UNCHANGED <<actual, states, running, returned, raised, free, handler>>
    BY DEF Take
<1>2. UNCHANGED <<pc, phase, outcome, absorbed, errors, committed, final>>
    BY <1>1 DEF handler
<1>3. Units(phase)' = Units(phase)
    BY <1>1, <1>2, UnitsStay
<1>4. PipelineTypeOK'
    BY <1>1, <1>2 DEF PipelineInv, PipelineTypeOK
<1>5. SlotsConserved'
    BY <1>1, SlotsStay DEF PipelineInv
<1>6. PoolHolds'
    BY <1>1, <1>2, <1>3 DEF PipelineInv, PoolHolds, Busy
<1> QED BY <1>1, <1>4, <1>5, <1>6, HandlerParts DEF PipelineInv

\* A thread that gets a slot.
LEMMA AcquireStep == ASSUME PipelineInv, NEW u \in Unit, Acquire(u) PROVE PipelineInv'
<1> USE PipelineAssumption DEF PipelineAssumption
<1>1. /\ u \in waiting /\ free[Service(u)] > 0
      /\ free' = [free EXCEPT ![Service(u)] = @ - 1]
      /\ waiting' = waiting \ {u} /\ running' = running \cup {u}
      /\ UNCHANGED <<actual, states, queued, returned, raised, handler>>
    BY DEF Acquire
<1>2. UNCHANGED <<pc, phase, outcome, absorbed, errors, committed, final>>
    BY <1>1 DEF handler
<1>3. Units(phase)' = Units(phase)
    BY <1>1, <1>2, UnitsStay
<1>4. Service(u) \in Module /\ free \in [Module -> 0..CAP]
    BY DEF PipelineInv, PipelineTypeOK, Service, Unit
<1>5. free' \in [Module -> 0..CAP]
    BY <1>1, <1>4
<1>6. PipelineTypeOK'
    BY <1>1, <1>2, <1>5 DEF PipelineInv, PipelineTypeOK
<1>7. PoolHolds'
    BY <1>1, <1>2, <1>3 DEF PipelineInv, PoolHolds, Busy
<1>8. SlotsConserved'
    <2>1. SUFFICES ASSUME NEW m \in Module PROVE free'[m] + Cardinality(Running(m)') = CAP
        BY DEF SlotsConserved, Running
    <2>2. /\ IsFiniteSet(Running(m)) /\ Cardinality(Running(m)) \in Nat
          /\ free[m] + Cardinality(Running(m)) = CAP
        BY RunningFinite DEF PipelineInv, SlotsConserved, Running
    <2>3. CASE Service(u) = m
        <3>1. Running(m)' = Running(m) \cup {u} /\ u \notin Running(m)
            BY <1>1, <2>3 DEF Running, PipelineInv, PoolHolds
        <3>2. Cardinality(Running(m)') = Cardinality(Running(m)) + 1
            BY <2>2, <3>1, FS_AddElement
        <3>3. free'[m] = free[m] - 1
            BY <1>1, <1>4, <2>3
        <3> QED BY <1>4, <2>2, <3>2, <3>3
    <2>4. CASE Service(u) # m
        <3>1. Running(m)' = Running(m)
            BY <1>1, <2>4 DEF Running
        <3>2. free'[m] = free[m]
            BY <1>1, <1>4, <2>4
        <3> QED BY <2>2, <3>1, <3>2
    <2> QED BY <2>3, <2>4
<1> QED BY <1>1, <1>6, <1>7, <1>8, HandlerParts DEF PipelineInv

\* A unit that returns or raises gives its slot back.
LEMMA FinishStep == ASSUME PipelineInv, NEW u \in Unit, NEW ok \in BOOLEAN, Finish(u, ok) PROVE PipelineInv'
<1> USE PipelineAssumption DEF PipelineAssumption
<1>1. /\ u \in running /\ running' = running \ {u}
      /\ free' = [free EXCEPT ![Service(u)] = @ + 1]
      /\ returned' = IF ok THEN returned \cup {u} ELSE returned
      /\ raised' = IF ok THEN raised ELSE raised \cup {u}
      /\ UNCHANGED <<actual, states, queued, waiting, handler>>
    BY DEF Finish
<1>2. UNCHANGED <<pc, phase, outcome, absorbed, errors, committed, final>>
    BY <1>1 DEF handler
<1>3. Units(phase)' = Units(phase)
    BY <1>1, <1>2, UnitsStay
<1>4. Service(u) \in Module /\ free \in [Module -> 0..CAP]
    BY DEF PipelineInv, PipelineTypeOK, Service, Unit
<1>5. returned' \cup raised' = returned \cup raised \cup {u}
    BY <1>1
<1>6. PoolHolds'
    BY <1>1, <1>2, <1>3, <1>5 DEF PipelineInv, PoolHolds, Busy
<1>7. SlotsConserved' /\ free[Service(u)] < CAP
    <2>1. ASSUME NEW m \in Module
          PROVE  /\ free'[m] + Cardinality(Running(m)') = CAP
                 /\ Service(u) = m => free[m] < CAP
        <3>2. /\ IsFiniteSet(Running(m)) /\ Cardinality(Running(m)) \in Nat
              /\ free[m] + Cardinality(Running(m)) = CAP
            BY RunningFinite DEF PipelineInv, SlotsConserved, Running
        <3>3. CASE Service(u) = m
            <4>1. Running(m)' = Running(m) \ {u} /\ u \in Running(m)
                BY <1>1, <3>3 DEF Running
            <4>2. /\ Cardinality(Running(m)') = Cardinality(Running(m)) - 1
                  /\ IsFiniteSet(Running(m)')
                BY <3>2, <4>1, FS_RemoveElement
            <4>3. Cardinality(Running(m)') \in Nat
                BY <4>2, FS_CardinalityType
            <4>4. free'[m] = free[m] + 1 /\ free[m] \in 0..CAP
                BY <1>1, <1>4, <3>3
            <4> QED BY <3>2, <4>2, <4>3, <4>4
        <3>4. CASE Service(u) # m
            <4>1. Running(m)' = Running(m)
                BY <1>1, <3>4 DEF Running
            <4>2. free'[m] = free[m]
                BY <1>1, <1>4, <3>4
            <4> QED BY <3>2, <3>4, <4>1, <4>2
        <3> QED BY <3>3, <3>4
    <2> QED BY <1>4, <2>1 DEF SlotsConserved, Running
<1>8. free' \in [Module -> 0..CAP]
    BY <1>1, <1>4, <1>7
<1>9. returned' \subseteq Unit /\ raised' \subseteq Unit
    BY <1>5 DEF PipelineInv, PipelineTypeOK
<1>10. PipelineTypeOK'
    BY <1>1, <1>2, <1>8, <1>9 DEF PipelineInv, PipelineTypeOK
<1> QED BY <1>1, <1>6, <1>7, <1>10, HandlerParts DEF PipelineInv

-----------------------------------------------------------------------------
\* The end of wait(): every unit of the phase gets its outcome.
LEMMA CollectStep == ASSUME PipelineInv, Collect PROVE PipelineInv'
<1>1. /\ pc = "running" /\ queued' = {} /\ pc' = "joining"
      /\ UNCHANGED <<actual, states, waiting, running, returned, raised, free, phase>>
      /\ UNCHANGED <<absorbed, errors, committed, final>>
    BY DEF Collect
<1>2. /\ Units(1)' = Units(1) /\ Units(2)' = Units(2) /\ Units(phase)' = Units(phase)
    BY <1>1, UnitsStay
<1>3. /\ phase \in 1..2 /\ Units(phase) \subseteq Unit
      /\ phase = 1 \/ phase = 2
    BY UnitsFacts DEF PipelineInv, PipelineTypeOK
<1>4. \A u \in Unit : outcome[u] \in {"none", "success", "error", "timeout"}
    BY DEF PipelineInv, PipelineTypeOK
<1>5. outcome' = [u \in Unit |->
         CASE u \in returned \cap Units(phase)      -> "success"
           [] u \in raised \cap Units(phase)        -> "error"
           [] u \in queued \cup Busy                -> "timeout"
           [] OTHER                                 -> outcome[u]]
    BY DEF Collect
<1>6. ASSUME NEW u \in Unit
      PROVE  /\ u \in Units(phase) => outcome'[u] \in {"success", "error", "timeout"}
             /\ u \notin Units(phase) => outcome'[u] = outcome[u]
    <2>1. u \in Units(phase) => u \in queued \cup Busy \cup returned \cup raised
        BY <1>1 DEF PipelineInv, PoolHolds
    <2>2. u \notin Units(phase) => u \notin queued \cup Busy
        BY DEF PipelineInv, PoolHolds
    <2>3. CASE u \in Units(phase)
        BY <1>5, <2>1, <2>3
    <2>4. CASE u \notin Units(phase)
        BY <1>5, <2>2, <2>4
    <2> QED BY <2>3, <2>4
<1>7. PipelineTypeOK'
    <2>1. outcome' \in [Unit -> {"none", "success", "error", "timeout"}]
        BY <1>4, <1>5, <1>6
    <2> QED BY <1>1, <2>1 DEF PipelineInv, PipelineTypeOK
<1>8. SlotsConserved'
    BY <1>1, SlotsStay DEF PipelineInv
<1>9. ProbesTell'
    BY <1>1 DEF PipelineInv, ProbesTell
<1>10. PoolHolds'
    BY <1>1, <1>2 DEF PipelineInv, PoolHolds, Busy
<1>11. Reported'
    <2>1. phase = 1 => \A u \in Unit \ Units(1) : outcome'[u] = "none"
        BY <1>6 DEF PipelineInv, Reported
    <2>2. \A u \in Units(phase) : outcome'[u] # "none"
        BY <1>3, <1>6
    <2>3. absorbed = {u \in Unit : outcome'[u] = "success" /\ u \notin Units(phase)}
        <3>1. absorbed = {u \in Unit : outcome[u] = "success"}
            BY <1>1 DEF PipelineInv, Reported
        <3>2. \A u \in Units(phase) : outcome[u] = "none"
            BY <1>1 DEF PipelineInv, Reported
        <3> QED BY <1>6, <3>1, <3>2
    <2> QED BY <1>1, <1>2, <2>1, <2>2, <2>3 DEF Reported
<1>12. Accounted'
    BY <1>1, <1>2 DEF PipelineInv, Accounted
<1> QED BY <1>7, <1>8, <1>9, <1>10, <1>11, <1>12 DEF PipelineInv

\* The merge after the threads have been joined, and the commit.
LEMMA JoinedStep == ASSUME PipelineInv, Joined PROVE PipelineInv'
<1>1. /\ pc = "joining" /\ Busy = {}
      /\ absorbed' = absorbed \cup {u \in Units(phase) : outcome[u] = "success"}
      /\ errors' = errors \cup {u \in Units(phase) : outcome[u] \in {"error", "timeout"}}
      /\ UNCHANGED <<actual, states, queued, waiting, running, returned, raised, free, phase, outcome>>
    BY DEF Joined, Absorb, pool
<1>2. \/ committed' = committed \cup absorbed' /\ pc' = "committed" /\ final' = final
      \/ committed' = committed /\ pc' = "done" /\ final' = "failed"
    BY DEF Joined
<1>3. /\ Units(1)' = Units(1) /\ Units(2)' = Units(2) /\ Units(phase)' = Units(phase)
    BY <1>1, UnitsStay
<1>4. (phase = 1 \/ phase = 2) /\ Units(phase) \subseteq Unit
    BY UnitsFacts DEF PipelineInv, PipelineTypeOK
<1>5. \A u \in Units(phase) : outcome[u] \in {"success", "error", "timeout"}
    BY <1>1, <1>4 DEF PipelineInv, PipelineTypeOK, Reported
<1>6. /\ absorbed' \subseteq Unit /\ errors' \subseteq Unit /\ committed' \subseteq Unit
    BY <1>1, <1>2, <1>4 DEF PipelineInv, PipelineTypeOK
<1>7. PipelineTypeOK'
    <2>1. /\ pc' \in {"probing", "running", "joining", "committed", "done"}
          /\ final' \in {"none", "completed", "partial", "failed"}
        BY <1>2 DEF PipelineInv, PipelineTypeOK
    <2> QED BY <1>1, <1>6, <2>1 DEF PipelineInv, PipelineTypeOK
<1>8. SlotsConserved'
    BY <1>1, SlotsStay DEF PipelineInv
<1>9. ProbesTell'
    BY <1>1 DEF PipelineInv, ProbesTell
<1>10. PoolHolds'
    BY <1>1, <1>2, <1>3 DEF PipelineInv, PoolHolds, Busy
<1>11. Reported'
    <2>1. absorbed' = {u \in Unit : outcome[u] = "success"}
        <3>1. absorbed = {u \in Unit : outcome[u] = "success" /\ u \notin Units(phase)}
            BY <1>1 DEF PipelineInv, Reported
        <3> QED BY <1>1, <1>4, <3>1
    <2>2. phase = 1 => \A u \in Unit \ Units(1) : outcome[u] = "none"
        BY DEF PipelineInv, Reported
    <2>3. pc' # "joining" /\ pc' # "probing" /\ pc' # "running"
        BY <1>2
    <2> QED BY <1>1, <1>3, <2>1, <2>2, <2>3 DEF Reported
<1>12. Accounted'
    <2>1. pc' = "committed" => Units(phase) \subseteq committed' \cup errors'
        BY <1>1, <1>2, <1>5
    <2>2. phase = 2 => Units(1) \subseteq committed' \cup errors'
        BY <1>1, <1>2 DEF PipelineInv, Accounted
    <2>3. final' # "completed"
        BY <1>1, <1>2 DEF PipelineInv, Accounted
    <2> QED BY <1>1, <1>3, <1>4, <2>1, <2>2, <2>3 DEF Accounted
<1> QED BY <1>7, <1>8, <1>9, <1>10, <1>11, <1>12 DEF PipelineInv

\* The second run_units of a quick scan.
LEMMA NextPhaseStep == ASSUME PipelineInv, NextPhase PROVE PipelineInv'
<1>1. /\ pc = "committed" /\ phase = 1
      /\ queued' = Units(2) /\ pc' = "running" /\ phase' = 2
      /\ UNCHANGED <<actual, states, waiting, running, returned, raised, free, outcome>>
      /\ UNCHANGED <<absorbed, errors, committed, final>>
    BY DEF NextPhase, Submit
<1>2. queued = {} /\ waiting = {} /\ running = {}
    BY <1>1 DEF PipelineInv, PoolHolds, Busy
<1>3. Units(1)' = Units(1) /\ Units(2)' = Units(2) /\ Units(phase)' = Units(2)
    BY <1>1, UnitsStay DEF Units, Scannable
<1>4. PipelineTypeOK'
    BY <1>1, UnitsFacts DEF PipelineInv, PipelineTypeOK
<1>5. SlotsConserved'
    BY <1>1, SlotsStay DEF PipelineInv
<1>6. ProbesTell'
    BY <1>1 DEF PipelineInv, ProbesTell
<1>7. PoolHolds'
    BY <1>1, <1>2, <1>3 DEF PoolHolds, Busy
<1>8. Reported'
    <2>1. \A u \in Units(2) : outcome[u] = "none"
        BY <1>1, UnitsFacts DEF PipelineInv, Reported
    <2>2. absorbed = {u \in Unit : outcome[u] = "success"}
        BY <1>1 DEF PipelineInv, Reported
    <2> QED BY <1>1, <1>3, <2>1, <2>2 DEF Reported
<1>9. Accounted'
    BY <1>1, <1>3 DEF PipelineInv, Accounted
<1> QED BY <1>4, <1>5, <1>6, <1>7, <1>8, <1>9 DEF PipelineInv

\* The closing status: completed only if there are no errors.
LEMMA CloseStep == ASSUME PipelineInv, Close PROVE PipelineInv'
<1>1. /\ pc = "committed" /\ (phase = 2 \/ PhaseTwo = {})
      /\ final' = IF errors # {} THEN "partial" ELSE "completed"
      /\ pc' = "done"
      /\ UNCHANGED <<actual, states, queued, waiting, running, returned, raised, free>>
      /\ UNCHANGED <<phase, outcome, absorbed, errors, committed>>
    BY DEF Close, pool
<1>2. /\ Units(1)' = Units(1) /\ Units(2)' = Units(2) /\ Units(phase)' = Units(phase)
    BY <1>1, UnitsStay
<1>3. PipelineTypeOK'
    BY <1>1 DEF PipelineInv, PipelineTypeOK
<1>4. SlotsConserved'
    BY <1>1, SlotsStay DEF PipelineInv
<1>5. ProbesTell'
    BY <1>1 DEF PipelineInv, ProbesTell
<1>6. PoolHolds'
    BY <1>1, <1>2 DEF PipelineInv, PoolHolds, Busy
<1>7. Reported'
    BY <1>1, <1>2 DEF PipelineInv, Reported
<1>8. Accounted'
    <2>1. errors = {} => Units(1) \subseteq committed
        BY <1>1 DEF PipelineInv, Accounted
    <2>2. errors = {} => Units(2) \subseteq committed
        <3>1. CASE phase = 2
            BY <1>1, <3>1 DEF PipelineInv, Accounted
        <3>2. CASE PhaseTwo = {}
            BY <3>2, UnitsFacts
        <3> QED BY <1>1, <3>1, <3>2
    <2>3. phase = 2 => Units(1) \subseteq committed \cup errors
        BY DEF PipelineInv, Accounted
    <2> QED BY <1>1, <1>2, <2>1, <2>2, <2>3 DEF Accounted
<1> QED BY <1>3, <1>4, <1>5, <1>6, <1>7, <1>8 DEF PipelineInv

-----------------------------------------------------------------------------
\* Every step, or none, keeps the invariant.
LEMMA NextIInv == PipelineInv /\ [PipelineNext]_pipelineVars => PipelineInv'
<1> SUFFICES ASSUME PipelineInv, [PipelineNext]_pipelineVars PROVE PipelineInv'
    OBVIOUS
<1>1. CASE Probing
    BY <1>1, ProbeStep DEF Probing
<1>2. CASE PoolStep
    BY <1>2, TakeStep, AcquireStep, FinishStep DEF PoolStep
<1>3. CASE HandlerStep
    BY <1>3, DiscoveredStep, CollectStep, JoinedStep, NextPhaseStep, CloseStep DEF HandlerStep
<1>4. CASE UNCHANGED pipelineVars
    <2>1. /\ UNCHANGED <<actual, states, queued, waiting, running, returned, raised, free>>
          /\ UNCHANGED <<pc, phase, outcome, absorbed, errors, committed, final>>
          /\ UNCHANGED handler
        BY <1>4 DEF pipelineVars, pool, handler
    <2>2. Units(phase)' = Units(phase)
        BY <2>1, UnitsStay
    <2>3. PipelineTypeOK'
        BY <2>1 DEF PipelineInv, PipelineTypeOK
    <2>4. SlotsConserved'
        BY <2>1, SlotsStay DEF PipelineInv
    <2>5. PoolHolds'
        BY <2>1, <2>2 DEF PipelineInv, PoolHolds, Busy
    <2> QED BY <2>1, <2>3, <2>4, <2>5, HandlerParts DEF PipelineInv
<1> QED BY <1>1, <1>2, <1>3, <1>4 DEF PipelineNext

\* The inductive invariant holds in every reachable state of a scan.
THEOREM Inductive == PipelineSpec => []PipelineInv
<1> QED BY InitIInv, NextIInv, PTL DEF PipelineSpec

\* Every reachable state of the discovery, the pool and the handler is well
\* typed.
THEOREM PipelineTypeCorrect == PipelineSpec => []PipelineTypeOK
<1>1. PipelineInv => PipelineTypeOK
    BY DEF PipelineInv
<1> QED BY <1>1, Inductive, PTL

\* No slot of a service is ever lost or used twice, whichever units raise.
THEOREM SlotsKept == PipelineSpec => []SlotsConserved
<1>1. PipelineInv => SlotsConserved
    BY DEF PipelineInv
<1> QED BY <1>1, Inductive, PTL

\* The findings in the accumulators are those of the units reported as
\* successful: a result that comes after the deadline is discarded.
THEOREM MergedRight == PipelineSpec => []MergedAsReported
<1>1. PipelineInv => MergedAsReported
    <2>1. ASSUME PipelineInv, pc \in {"committed", "done"}, NEW u \in Unit
          PROVE  u \in absorbed <=> outcome[u] = "success"
        BY <2>1 DEF PipelineInv, Reported
    <2> QED BY <2>1 DEF MergedAsReported
<1> QED BY <1>1, Inductive, PTL

\* A scan that is called completed has committed every module on every place
\* that holds anything, however many probes and units failed in between.
THEOREM CompletedIsWhole == PipelineSpec => []CompletedSawEverything
<1>1. PipelineInv => CompletedSawEverything
    <2>1. SUFFICES ASSUME PipelineInv, final = "completed", NEW p \in Place, actual[p] = "active",
                          NEW u \in {p} \X Module
                   PROVE  u \in committed
        BY DEF CompletedSawEverything
    <2>2. pc = "done" /\ Units(1) \cup Units(2) \subseteq committed
        BY <2>1 DEF PipelineInv, Accounted
    <2>3. states[p] \in {"unknown", "active"}
        BY <2>1, <2>2 DEF PipelineInv, ProbesTell
    <2>4. p \in Scannable
        BY <2>3 DEF Scannable
    <2>5. u \in Units(1) \cup Units(2)
        BY <2>1, <2>4, UnitsFacts DEF Module
    <2> QED BY <2>2, <2>5
<1> QED BY <1>1, Inductive, PTL

-----------------------------------------------------------------------------
(* The cards of critical findings.                                         *)

\* BroadcastTypeOK bounds the cards by the delivery limit.  That is not inductive: a
\* delivery posts at most one card, so the cards stay behind the deliveries.
CardsCounted ==
    \A m \in Message :
        /\ cards[m] <= receives[m]
        /\ state[m] \in {"received", "unseen", "ready"} => cards[m] < receives[m]

BroadcastTypeInv == BroadcastTypeOK /\ CardsCounted

\* A scan publishes messages of its current stage.
LEMMA MessageType ==
    ASSUME BroadcastTypeOK, NEW s \in Scan, NEW f \in Finding
    PROVE  MessageOf(s, f) \in Message
BY DEF BroadcastTypeOK, MessageOf, Message

\* Every step of a scan keeps the types and the count.
LEMMA ScanType ==
    ASSUME BroadcastTypeInv, NEW s \in Scan, ScanStep(s)
    PROVE  BroadcastTypeInv'
<1> USE DEF BroadcastTypeInv, BroadcastTypeOK, CardsCounted, delivery, State, InHand
<1>1. CASE BeginCommit(s) BY <1>1 DEF BeginCommit
<1>2. CASE Commit(s) BY <1>2 DEF Commit
<1>3. CASE CommitRaises(s) BY <1>3 DEF CommitRaises
<1>4. CASE EndStage(s)
    <2>1. CASE stage[s] < COMMITS
        <3>1. stage[s] + 1 \in 1..COMMITS
            BY <2>1, BroadcastAssumption DEF BroadcastAssumption
        <3> QED BY <1>4, <2>1, <3>1 DEF EndStage
    <2>2. CASE ~(stage[s] < COMMITS)
        BY <1>4, <2>2 DEF EndStage
    <2> QED BY <2>1, <2>2
<1>5. CASE ScanDies(s) BY <1>5 DEF ScanDies
<1>6. ASSUME NEW f \in Finding, Publish(s, f) PROVE BroadcastTypeInv'
    BY <1>6 DEF Publish
<1> QED BY <1>1, <1>2, <1>3, <1>4, <1>5, <1>6 DEF ScanStep

\* Every step of a delivery keeps the types and the count.
LEMMA DeliverType ==
    ASSUME BroadcastTypeInv, NEW m \in Message, Deliver(m)
    PROVE  BroadcastTypeInv'
<1> USE DEF BroadcastTypeInv, BroadcastTypeOK, CardsCounted, scans, delivery, State, InHand, To, Key
<1>1. CASE Receive(m)
    <2>1. MAX_RECEIVE \in Nat
        BY BroadcastAssumption DEF BroadcastAssumption
    <2> QED BY <1>1, <2>1 DEF Receive
<1>2. CASE CheckSeen(m) BY <1>2 DEF CheckSeen
<1>3. CASE CheckGates(m) BY <1>3 DEF CheckGates
<1>4. CASE Post(m)
    <2>1. MAX_RECEIVE \in Nat
        BY BroadcastAssumption DEF BroadcastAssumption
    <2>2. cards[m] < receives[m] /\ receives[m] \in 0..MAX_RECEIVE
        BY <1>4 DEF Post
    <2>3. cards[m] + 1 \in 0..MAX_RECEIVE /\ cards[m] + 1 <= receives[m]
        BY <2>1, <2>2
    <2> QED BY <1>4, <2>3 DEF Post
<1>5. CASE MarkSeen(m)
    <2>1. Key(m) \in Finding \X Scan
        BY DEF Message
    <2> QED BY <1>5, <2>1 DEF MarkSeen
<1>6. CASE InvocationDies(m) BY <1>6 DEF InvocationDies
<1> QED BY <1>1, <1>2, <1>3, <1>4, <1>5, <1>6 DEF Deliver

\* A step of another part keeps them too.
LEMMA StutterType == BroadcastTypeInv /\ UNCHANGED broadcastVars => BroadcastTypeInv'
BY DEF BroadcastTypeInv, BroadcastTypeOK, CardsCounted, broadcastVars, scans, delivery

\* Every reachable state of the scans, messages and tables has its type.
THEOREM BroadcastTypeCorrect == BroadcastSpec => []BroadcastTypeOK
<1>1. BroadcastInit => BroadcastTypeInv
    BY BroadcastAssumption
    DEF BroadcastInit, BroadcastTypeInv, BroadcastTypeOK, CardsCounted, State, BroadcastAssumption
<1>2. BroadcastTypeInv /\ [BroadcastNext]_broadcastVars => BroadcastTypeInv'
    BY ScanType, DeliverType, StutterType DEF BroadcastNext
<1>3. BroadcastTypeInv => BroadcastTypeOK
    BY DEF BroadcastTypeInv
<1> QED BY <1>1, <1>2, <1>3, PTL DEF BroadcastSpec

-----------------------------------------------------------------------------
\* What a scan is about to publish is committed.
PendingIsVisible == \A s \in Scan : pending[s] \subseteq findings

\* The row of a published finding is visible: commit_scan publishes after its
\* transaction, and only what that transaction wrote.
THEOREM VisibleWhenPublished == BroadcastSpec => []PublishedIsVisible
<1> DEFINE Inv == PublishedIsVisible /\ PendingIsVisible
<1>1. BroadcastInit => Inv
    BY DEF BroadcastInit, PublishedIsVisible, PendingIsVisible
<1>2. BroadcastTypeOK /\ Inv /\ [BroadcastNext]_broadcastVars => Inv'
    <2> SUFFICES ASSUME BroadcastTypeOK, Inv, [BroadcastNext]_broadcastVars PROVE Inv'
        OBVIOUS
    <2> USE DEF PublishedIsVisible, PendingIsVisible, BroadcastTypeOK
    <2>1. ASSUME NEW s \in Scan, ScanStep(s) PROVE Inv'
        <3>1. CASE BeginCommit(s) BY <3>1 DEF BeginCommit
        <3>2. CASE Commit(s) BY <3>2 DEF Commit
        <3>3. CASE CommitRaises(s) BY <3>3 DEF CommitRaises
        <3>4. CASE EndStage(s) BY <3>4 DEF EndStage
        <3>5. CASE ScanDies(s) BY <3>5 DEF ScanDies
        <3>6. ASSUME NEW f \in Finding, Publish(s, f) PROVE Inv'
            <4>1. MessageOf(s, f).finding = f /\ f \in findings
                BY <3>6 DEF MessageOf, Publish
            <4> QED BY <3>6, <4>1 DEF Publish
        <3> QED BY <2>1, <3>1, <3>2, <3>3, <3>4, <3>5, <3>6 DEF ScanStep
    <2>2. ASSUME NEW m \in Message, Deliver(m) PROVE Inv'
        <3>1. state[m] # "none"
            BY <2>2 DEF Deliver, Receive, CheckSeen, CheckGates, Post, MarkSeen,
                        InvocationDies, InHand
        <3>2. findings' = findings /\ pending' = pending
            BY <2>2 DEF Deliver, Receive, CheckSeen, CheckGates, Post, MarkSeen,
                        InvocationDies, scans
        <3>3. \A n \in Message : n # m => state'[n] = state[n]
            BY <2>2 DEF Deliver, Receive, CheckSeen, CheckGates, Post, MarkSeen,
                        InvocationDies, To
        <3> QED BY <3>1, <3>2, <3>3
    <2>3. CASE UNCHANGED broadcastVars
        BY <2>3 DEF broadcastVars, scans
    <2> QED BY <2>1, <2>2, <2>3 DEF BroadcastNext
<1> QED BY <1>1, <1>2, BroadcastTypeCorrect, PTL DEF BroadcastSpec

-----------------------------------------------------------------------------
\* A pair in the seen table, and a delivery whose post has been confirmed, have
\* a card in the channel.
HasCard(k) == \E n \in Message : Key(n) = k /\ cards[n] > 0

MarkedHasCard ==
    /\ \A k \in seen : HasCard(k)
    /\ \A m \in Message : state[m] = "posted" => cards[m] > 0

SwallowInv == NoCardSwallowed /\ MarkedHasCard

\* A card stays in the channel.
LEMMA CardsStay ==
    ASSUME BroadcastTypeOK, [BroadcastNext]_broadcastVars, NEW k, HasCard(k)
    PROVE  HasCard(k)'
<1>1. PICK n \in Message : Key(n) = k /\ cards[n] > 0
    BY DEF HasCard
<1>2. cards'[n] > 0
    <2>1. cards[n] \in Nat
        BY DEF BroadcastTypeOK
    <2>2. ASSUME NEW m \in Message, Post(m) PROVE cards'[n] > 0
        <3>1. cards'[n] = cards[n] \/ cards'[n] = cards[n] + 1
            BY <2>2 DEF Post, BroadcastTypeOK
        <3> QED BY <3>1, <2>1, <1>1
    <2>3. (\E m \in Message : Post(m)) \/ cards' = cards
        BY DEF BroadcastNext, ScanStep, Deliver, BeginCommit, Commit, CommitRaises, EndStage, ScanDies,
               Publish, Receive, CheckSeen, CheckGates, MarkSeen, InvocationDies, broadcastVars, delivery
    <2> QED BY <1>1, <2>2, <2>3
<1> QED BY <1>1, <1>2 DEF HasCard, Key

\* A scan acknowledges no message and marks nothing.
LEMMA ScanSwallows ==
    ASSUME BroadcastTypeOK, SwallowInv, NEW s \in Scan, ScanStep(s)
    PROVE  SwallowInv'
<1>1. cards' = cards /\ seen' = seen /\ muted' = muted
    BY DEF ScanStep, BeginCommit, Commit, CommitRaises, EndStage, ScanDies, Publish, delivery
<1>2. \A m \in Message : state'[m] = state[m] \/ state'[m] = "queued"
    BY DEF ScanStep, BeginCommit, Commit, CommitRaises, EndStage, ScanDies, Publish, BroadcastTypeOK
<1> QED BY <1>1, <1>2 DEF SwallowInv, NoCardSwallowed, MarkedHasCard, HasCard, Key

\* A step of one delivery: what it may acknowledge, and what it may mark.
LEMMA DeliverSwallows ==
    ASSUME BroadcastTypeOK, PublishedIsVisible, SwallowInv, NEW m \in Message, Deliver(m)
    PROVE  SwallowInv'
<1>1. [BroadcastNext]_broadcastVars
    BY DEF BroadcastNext
<1>2. \A n \in Message : n # m => state'[n] = state[n]
    BY DEF Deliver, Receive, CheckSeen, CheckGates, Post, MarkSeen, InvocationDies, To, BroadcastTypeOK
<1>3. \A n \in Message : HasCard(Key(n)) => HasCard(Key(n))'
    BY <1>1, CardsStay DEF Key
<1>4. muted \subseteq muted'
    BY DEF Deliver, Receive, CheckSeen, CheckGates, Post, MarkSeen, InvocationDies, delivery
<1>5. state'[m] = "posted" => cards'[m] > 0
    BY DEF Deliver, Receive, CheckSeen, CheckGates, Post, MarkSeen, InvocationDies, To, BroadcastTypeOK
<1>6. seen' \subseteq seen \cup {Key(m)} /\ (Key(m) \in seen' => HasCard(Key(m)))
    <2>1. CASE MarkSeen(m)
        BY <2>1 DEF MarkSeen, SwallowInv, MarkedHasCard, HasCard
    <2>2. CASE ~MarkSeen(m)
        BY <2>2 DEF Deliver, Receive, CheckSeen, CheckGates, Post, InvocationDies, delivery,
                    SwallowInv, MarkedHasCard
    <2> QED BY <2>1, <2>2
<1>7. state'[m] = "acked" => m \in muted' \/ HasCard(Key(m))
    <2>1. CASE Receive(m) BY <2>1 DEF Receive, To, BroadcastTypeOK
    <2>2. CASE CheckSeen(m)
        BY <2>2 DEF CheckSeen, To, BroadcastTypeOK, SwallowInv, MarkedHasCard
    <2>3. CASE CheckGates(m)
        <3>1. m.finding \in findings
            BY <2>3 DEF CheckGates, PublishedIsVisible
        <3> QED BY <2>3, <3>1 DEF CheckGates, To, BroadcastTypeOK
    <2>4. CASE Post(m) BY <2>4 DEF Post, To, BroadcastTypeOK
    <2>5. CASE MarkSeen(m)
        BY <2>5 DEF MarkSeen, SwallowInv, MarkedHasCard, HasCard
    <2>6. CASE InvocationDies(m) BY <2>6 DEF InvocationDies, To, BroadcastTypeOK
    <2> QED BY <2>1, <2>2, <2>3, <2>4, <2>5, <2>6 DEF Deliver
<1>8. NoCardSwallowed'
    <2>1. SUFFICES ASSUME NEW n \in Message, state'[n] = "acked"
                   PROVE  n \in muted' \/ HasCard(Key(n))'
        BY DEF NoCardSwallowed, HasCard, Key
    <2>2. n \in muted' \/ HasCard(Key(n))
        BY <2>1, <1>2, <1>4, <1>7 DEF SwallowInv, NoCardSwallowed, HasCard
    <2> QED BY <2>2, <1>3
<1>9. MarkedHasCard'
    <2>1. \A k \in seen' : HasCard(k)
        BY <1>6 DEF SwallowInv, MarkedHasCard
    <2>2. \A k \in seen' : HasCard(k)'
        BY <2>1, <1>1, CardsStay
    <2>3. ASSUME NEW n \in Message, n # m, state'[n] = "posted" PROVE cards'[n] > 0
        <3>1. cards[n] > 0 /\ cards'[n] = cards[n]
            BY <2>3, <1>2 DEF SwallowInv, MarkedHasCard, BroadcastTypeOK, Deliver, Receive, CheckSeen,
                CheckGates, Post, MarkSeen, InvocationDies, delivery
        <3> QED BY <3>1
    <2> QED BY <2>2, <2>3, <1>5 DEF MarkedHasCard
<1> QED BY <1>8, <1>9 DEF SwallowInv

\* A message that the subscriber has acknowledged has left a card, its own or
\* another's of the same scan, unless broadcasting was off: the seen table is
\* marked after the post, and a message is never ahead of its finding's row.
THEOREM NoneSwallowed == BroadcastSpec => []NoCardSwallowed
<1>1. BroadcastInit => SwallowInv
    BY DEF BroadcastInit, SwallowInv, NoCardSwallowed, MarkedHasCard
<1>2. BroadcastTypeOK /\ PublishedIsVisible /\ SwallowInv /\ [BroadcastNext]_broadcastVars => SwallowInv'
    <2>1. SwallowInv /\ UNCHANGED broadcastVars => SwallowInv'
        BY DEF SwallowInv, NoCardSwallowed, MarkedHasCard, HasCard, Key, broadcastVars, delivery
    <2> QED BY <2>1, ScanSwallows, DeliverSwallows DEF BroadcastNext
<1>3. SwallowInv => NoCardSwallowed
    BY DEF SwallowInv
<1> QED BY <1>1, <1>2, <1>3, BroadcastTypeCorrect, VisibleWhenPublished, PTL DEF BroadcastSpec

-----------------------------------------------------------------------------
(* The action tools.                                                       *)

\* Where a call may be.
ToolStep == {"idle", "called", "read", "based", "branched", "committed", "found", "resolved",
             "dated", "ruled", "over"}

\* A call that has not answered has done nothing, and one that has is over.
AnswersOnce ==
    \A c \in Call : /\ step[c] # "over" => effect[c] = 0 /\ answer[c] = "none"
                    /\ answer[c] = "done" => effect[c] = 1
                    /\ answer[c] = "refused" => effect[c] = 0

\* What a call commits to, or opens a request for, is there and so is its fork.
BranchThere ==
    /\ branch # NoContent => fork # NoContent
    /\ pr => branch # NoContent
    /\ \A c \in Call : step[c] \in {"branched", "committed"} => branch # NoContent

ToolsInv ==
    /\ ToolsTypeOK /\ step \in [Call -> ToolStep]
    /\ attempts \in [Call -> Nat] /\ pings \in [Call -> Nat]
    /\ AnswersOnce /\ BranchThere /\ NothingUndone

\* No call has begun.
LEMMA ToolsInvInit == ToolsInit => ToolsInv
<1> SUFFICES ASSUME ToolsInit PROVE ToolsInv
  OBVIOUS
<1>1. MAX_EDITS \in Nat /\ MAX_TIME \in Nat /\ MAX_ATTEMPTS \in Nat
  BY ToolsAssumption DEF ToolsAssumption
<1>2. main \in Content
  BY <1>1 DEF ToolsInit, Content
<1>3. ToolsTypeOK
  BY <1>1, <1>2 DEF ToolsInit, ToolsTypeOK
<1> QED
  BY <1>3 DEF ToolsInit, ToolsInv, ToolStep, AnswersOnce, BranchThere, NothingUndone

\* A call moves or answers, and only what is over has done something.
LEMMA CallMoves ==
  ASSUME ToolsInv, NEW c \in Call, step[c] # "over",
         \/ /\ effect' = effect
            /\ (\E s \in ToolStep \ {"over"} : Go(c, s))
               \/ (\E a \in {"refused", "error"} : Answer(c, a))
         \/ Done(c) /\ (Answer(c, "done") \/ Answer(c, "error"))
  PROVE  /\ AnswersOnce' /\ step' \in [Call -> ToolStep]
         /\ answer' \in [Call -> {"none", "done", "refused", "error"}] /\ effect' \in [Call -> 0..1]
         /\ \A d \in Call \ {c} : step'[d] = step[d]
<1> USE DEF ToolsInv, ToolsTypeOK, AnswersOnce
<1>1. effect[c] = 0 /\ answer[c] = "none"
  OBVIOUS
<1>2. ASSUME effect' = effect, NEW s \in ToolStep \ {"over"}, Go(c, s)
      PROVE  /\ AnswersOnce' /\ step' \in [Call -> ToolStep]
             /\ answer' \in [Call -> {"none", "done", "refused", "error"}] /\ effect' \in [Call -> 0..1]
             /\ \A d \in Call \ {c} : step'[d] = step[d]
  BY <1>1, <1>2 DEF Go
<1>3. ASSUME effect' = effect, NEW a \in {"refused", "error"}, Answer(c, a)
      PROVE  /\ AnswersOnce' /\ step' \in [Call -> ToolStep]
             /\ answer' \in [Call -> {"none", "done", "refused", "error"}] /\ effect' \in [Call -> 0..1]
             /\ \A d \in Call \ {c} : step'[d] = step[d]
  BY <1>1, <1>3 DEF Answer, ToolStep
<1>4. ASSUME Done(c), NEW a \in {"done", "error"}, Answer(c, a)
      PROVE  /\ AnswersOnce' /\ step' \in [Call -> ToolStep]
             /\ answer' \in [Call -> {"none", "done", "refused", "error"}] /\ effect' \in [Call -> 0..1]
             /\ \A d \in Call \ {c} : step'[d] = step[d]
  <2>1. step' = [step EXCEPT ![c] = "over"] /\ answer' = [answer EXCEPT ![c] = a]
        /\ effect' = [effect EXCEPT ![c] = 1]
    BY <1>1, <1>4 DEF Done, Answer
  <2> QED
    BY <2>1 DEF ToolStep
<1> QED
  BY <1>2, <1>3, <1>4

\* A step of a tool that leaves the repository alone.
LEMMA ElsewhereKeeps ==
  ASSUME ToolsInv, NEW c \in Call,
         \/ Dispatch(c)
         \/ Raises(c)
         \/ FindGrant(c)
         \/ DeleteGrant(c)
         \/ Resolve(c)
         \/ Send(c)
         \/ FireAt(c)
         \/ PutRule(c)
         \/ PutTargets(c)
  PROVE  ToolsInv'
<1>1. step[c] # "over"
  BY DEF Dispatch, Raises, FindGrant, DeleteGrant, Resolve, Send, FireAt, PutRule, PutTargets, At
<1>2. \/ /\ effect' = effect
         /\ (\E s \in ToolStep \ {"over", "branched", "committed"} : Go(c, s))
            \/ (\E a \in {"refused", "error"} : Answer(c, a))
      \/ Done(c) /\ (Answer(c, "done") \/ Answer(c, "error"))
  BY DEF Dispatch, Raises, FindGrant, DeleteGrant, Resolve, Send, FireAt, PutRule, PutTargets,
         ToolStep
<1>3. /\ AnswersOnce' /\ step' \in [Call -> ToolStep]
      /\ answer' \in [Call -> {"none", "done", "refused", "error"}] /\ effect' \in [Call -> 0..1]
      /\ \A d \in Call \ {c} : step'[d] = step[d]
  BY <1>1, <1>2, CallMoves
<1>4. step'[c] \notin {"branched", "committed"}
  BY <1>2 DEF ToolsInv, Go, Answer
<1>5. UNCHANGED <<repoVars, clock, fired, attempts, pings>>
  BY DEF Dispatch, Raises, FindGrant, DeleteGrant, Resolve, Send, FireAt, PutRule, PutTargets,
         InGrant, InSend, InForensic, timeVars
<1>6. BranchThere' /\ NothingUndone'
  BY <1>3, <1>4, <1>5 DEF ToolsInv, BranchThere, NothingUndone, repoVars
<1>7. grants' \subseteq grants /\ rule' \in [Call -> {"none", "enabled", "armed"}]
  <2>1. CASE PutRule(c) \/ PutTargets(c)
    BY <2>1 DEF PutRule, PutTargets, InForensic, ToolsInv, ToolsTypeOK
  <2>2. CASE ~PutRule(c) /\ ~PutTargets(c)
    BY <2>2 DEF Dispatch, Raises, FindGrant, DeleteGrant, Resolve, Send, FireAt,
            InGrant, InSend, InForensic, timeVars, ToolsInv, ToolsTypeOK
  <2> QED
    BY <2>1, <2>2
<1>8. ToolsTypeOK'
  BY <1>3, <1>5, <1>7 DEF ToolsInv, ToolsTypeOK, repoVars
<1> QED
  BY <1>3, <1>5, <1>6, <1>8 DEF ToolsInv

\* The callback and the clock.
LEMMA TimeKeeps ==
  ASSUME ToolsInv, Tick \/ \E c \in Call : Callback(c)
  PROVE  ToolsInv'
<1> USE DEF ToolsInv, ToolsTypeOK
<1>1. UNCHANGED <<calls, repoVars, grants>>
  BY DEF Tick, Callback, InForensic
<1>2. MAX_TIME \in Nat /\ MAX_ATTEMPTS \in Nat
  BY ToolsAssumption DEF ToolsAssumption
<1>3. AnswersOnce' /\ BranchThere' /\ NothingUndone'
  BY <1>1 DEF AnswersOnce, BranchThere, NothingUndone, calls, repoVars
<1>4. CASE Tick
  <2>1. clock' \in 0..MAX_TIME /\ fired' \subseteq Call /\ UNCHANGED <<rule, attempts, pings>>
    BY <1>2, <1>4 DEF Tick
  <2> QED
    BY <1>1, <1>3, <2>1 DEF calls, repoVars
<1>5. ASSUME NEW c \in Call, Callback(c) PROVE ToolsInv'
  <2>1. /\ attempts' = [attempts EXCEPT ![c] = @ + 1] /\ attempts[c] < MAX_ATTEMPTS
        /\ UNCHANGED clock /\ fired' \subseteq fired
    BY <1>5 DEF Callback
  <2>2. rule' \in [Call -> {"none", "enabled", "armed"}]
    BY <1>5 DEF Callback
  <2>3. pings' = pings \/ pings' = [pings EXCEPT ![c] = @ + 1]
    BY <1>5 DEF Callback
  <2>4. attempts' \in [Call -> Nat] /\ pings' \in [Call -> Nat]
    BY <2>1, <2>3
  <2>5. \A d \in Call : pings'[d] <= attempts'[d] /\ attempts'[d] <= MAX_ATTEMPTS
    BY <1>2, <2>1, <2>3
  <2> QED
    BY <1>1, <1>3, <2>1, <2>2, <2>4, <2>5 DEF calls, repoVars
<1> QED
  BY <1>4, <1>5

\* The repository: nobody but a commit over the blob it read changes the branch.
LEMMA PrKeeps ==
  ASSUME ToolsInv, NEW c \in Call, PrStep(c)
  PROVE  ToolsInv'
<1>1. step[c] # "over"
  BY DEF PrStep, ReadManifest, ReadBase, CreateBranch, CommitBump, OpenPr, At
<1>2. \/ /\ effect' = effect
         /\ (\E s \in ToolStep \ {"over"} : Go(c, s)) \/ (\E a \in {"refused", "error"} : Answer(c, a))
      \/ Done(c) /\ (Answer(c, "done") \/ Answer(c, "error"))
  BY DEF PrStep, ReadManifest, ReadBase, CreateBranch, CommitBump, OpenPr, ToolStep
<1>3. /\ AnswersOnce' /\ step' \in [Call -> ToolStep]
      /\ answer' \in [Call -> {"none", "done", "refused", "error"}] /\ effect' \in [Call -> 0..1]
      /\ \A d \in Call \ {c} : step'[d] = step[d]
  BY <1>1, <1>2, CallMoves
<1>4. UNCHANGED <<grants, timeVars, main>>
  BY DEF PrStep, ReadManifest, ReadBase, CreateBranch, CommitBump, OpenPr, InPr
<1>5. /\ manifest' \in [Call -> Content] /\ base' \in [Call -> Content]
      /\ {branch', fork'} \subseteq Content \cup {NoContent}
      /\ BranchThere' /\ NothingUndone'
  <2> USE <1>3 DEF ToolsInv, ToolsTypeOK, BranchThere, NothingUndone
  <2>0. NoContent \notin Content
    BY ToolsAssumption DEF ToolsAssumption, Content
  <2>1. CASE ReadManifest(c) \/ ReadBase(c)
    <3>1. UNCHANGED <<branch, fork, pr>> /\ step'[c] \notin {"branched", "committed"}
      BY <2>1 DEF ReadManifest, ReadBase, Go, Answer
    <3>2. manifest' \in [Call -> Content] /\ base' \in [Call -> Content]
      BY <2>1 DEF ReadManifest, ReadBase
    <3> QED
      BY <3>1, <3>2
  <2>2. CASE CreateBranch(c)
    <3>1. UNCHANGED <<pr, manifest, base>> /\ base[c] \in Content
          /\ \/ branch = NoContent /\ branch' = base[c] /\ fork' = base[c]
             \/ branch # NoContent /\ UNCHANGED <<branch, fork>>
      BY <2>2 DEF CreateBranch
    <3> QED
      BY <2>0, <3>1
  <2>3. CASE CommitBump(c)
    <3>1. UNCHANGED <<pr, manifest, base, fork>> /\ manifest[c] \in Content /\ step[c] = "branched"
          /\ \/ branch = manifest[c] /\ branch' = [manifest[c] EXCEPT !.bumped = TRUE]
             \/ UNCHANGED branch /\ step'[c] = "over"
      BY <2>3 DEF CommitBump, At, Answer
    <3>2. branch # NoContent
      BY <3>1
    <3>3. [manifest[c] EXCEPT !.bumped = TRUE] \in Content
          /\ [manifest[c] EXCEPT !.bumped = TRUE].edits = manifest[c].edits
      BY <3>1 DEF Content
    <3> QED
      BY <2>0, <3>1, <3>2, <3>3
  <2>4. CASE OpenPr(c)
    <3>1. UNCHANGED <<branch, fork, manifest, base>> /\ step[c] = "committed" /\ step'[c] = "over"
      BY <2>4 DEF OpenPr, At, Answer
    <3> QED
      BY <3>1
  <2> QED
    BY <2>1, <2>2, <2>3, <2>4 DEF PrStep
<1>6. ToolsTypeOK'
  BY <1>3, <1>4, <1>5 DEF ToolsInv, ToolsTypeOK, timeVars
<1> QED
  BY <1>3, <1>4, <1>5, <1>6 DEF ToolsInv, timeVars

\* The developers: a push, and a request that is merged or closed.
LEMMA DevelopersKeep == ASSUME ToolsInv, Push \/ DecidePr PROVE ToolsInv'
<1>1. UNCHANGED <<calls, branch, manifest, base, grants, timeVars>>
  BY DEF Push, DecidePr, InPr
<1>2. main' \in Content
  <2>1. CASE Push
    <3>1. main \in Content /\ MAX_EDITS \in Nat
      BY ToolsAssumption DEF ToolsAssumption, ToolsInv, ToolsTypeOK
    <3> QED
      BY <2>1, <3>1 DEF Push, Content
  <2>2. CASE DecidePr
    <3>1. branch \in Content /\ main \in Content
      BY <2>2 DEF DecidePr, ToolsInv, ToolsTypeOK, BranchThere
    <3> QED
      BY <2>2, <3>1 DEF DecidePr, Content
  <2> QED
    BY <2>1, <2>2
<1>3. (fork' = fork \/ fork' = branch) /\ (pr' => pr) 
  BY DEF Push, DecidePr
<1>4. BranchThere' /\ NothingUndone'
  BY <1>1, <1>3 DEF ToolsInv, BranchThere, NothingUndone, calls
<1>5. ToolsTypeOK'
  BY <1>1, <1>2, <1>3 DEF ToolsInv, ToolsTypeOK, calls, timeVars
<1> QED
  BY <1>1, <1>4, <1>5 DEF ToolsInv, AnswersOnce, calls, timeVars

\* The invariant is inductive.
LEMMA ToolsInvNext == ToolsInv /\ [ToolsNext]_toolVars => ToolsInv'
<1> SUFFICES ASSUME ToolsInv, [ToolsNext]_toolVars PROVE ToolsInv'
  OBVIOUS
<1>1. CASE UNCHANGED toolVars
  BY <1>1 DEF toolVars, calls, repoVars, timeVars, ToolsInv, ToolsTypeOK, AnswersOnce,
              BranchThere, NothingUndone
<1>2. CASE ToolsNext
  BY <1>2, ElsewhereKeeps, TimeKeeps, PrKeeps, DevelopersKeep DEF ToolsNext
<1> QED
  BY <1>1, <1>2

\* Calls, the repository, the grants and the rules have their types.
THEOREM ToolsTypeCorrect == ToolsSpec => []ToolsTypeOK
<1> QED
  BY ToolsInvInit, ToolsInvNext, PTL DEF ToolsSpec, ToolsInv

\* What the assistant says it did was done, and what it refuses was not
\* (tools/main.py).
THEOREM SaidIsDoneAlways == ToolsSpec => []SaidIsDone
<1>1. ToolsInv => SaidIsDone
  BY DEF ToolsInv, AnswersOnce, SaidIsDone
<1> QED
  BY <1>1, ToolsInvInit, ToolsInvNext, PTL DEF ToolsSpec

\* The bump's branch differs from its fork by the pin only, through any pushes,
\* half-way failures and second calls (create_pr_with_bump.py).
THEOREM NothingUndoneAlways == ToolsSpec => []NothingUndone
<1> QED
  BY ToolsInvInit, ToolsInvNext, PTL DEF ToolsSpec, ToolsInv

-----------------------------------------------------------------------------
(* Side by side.                                                           *)

\* A behaviour of the composition is, for each part, a behaviour of that part:
\* the scenarios only let the others stand still.
LEMMA PartsOfOutbound ==
  FairSpec => PipelineSpec /\ BroadcastSpec /\ ToolsSpec
<1>1. Init => PipelineInit /\ BroadcastInit /\ ToolsInit
  BY DEF Init
<1>2. [Next]_vars => /\ [PipelineNext]_pipelineVars /\ [BroadcastNext]_broadcastVars
                     /\ [ToolsNext]_toolVars
  <2>1. CASE OnUnits(PipelineNext) BY <2>1 DEF OnUnits
  <2>2. CASE OnCards BY <2>2 DEF OnCards
  <2>3. CASE OnTools BY <2>3 DEF OnTools
  <2>4. CASE UNCHANGED vars BY <2>4 DEF vars
  <2> QED BY <2>1, <2>2, <2>3, <2>4 DEF Next
<1> QED BY <1>1, <1>2, PTL DEF FairSpec, PipelineSpec, BroadcastSpec, ToolsSpec

\* The three parts side by side have their types.
THEOREM OutboundTypeCorrect == FairSpec => []TypeOK
BY PartsOfOutbound, PipelineTypeCorrect, BroadcastTypeCorrect, ToolsTypeCorrect, PTL DEF TypeOK

\* What holds of the parts holds side by side, as the run checks them: a scan that
\* is called completed has seen everything, no card is swallowed, and the tools did
\* what the assistant says and nothing beside it.
THEOREM OutboundKeepsItsWord ==
  FairSpec => [](CompletedSawEverything /\ NoCardSwallowed /\ NothingUndone /\ SaidIsDone)
BY PartsOfOutbound, CompletedIsWhole, NoneSwallowed, NothingUndoneAlways, SaidIsDoneAlways, PTL
=============================================================================
