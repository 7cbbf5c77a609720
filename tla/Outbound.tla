------------------------------ MODULE Outbound ------------------------------
(***************************************************************************)
(* What the platform does in other people's systems: the units of a scan   *)
(* that read an Azure or GCP cloud (ScanPipeline), the Slack cards of      *)
(* critical findings (FindingBroadcast) and the assistant's action tools   *)
(* (ActionTools), each in behaviours of its own.                           *)
(***************************************************************************)
EXTENDS ScanPipeline, FindingBroadcast, ActionTools

vars == <<pipelineVars, broadcastVars, toolVars>>

\* What the places hold matters where they are scanned.
Init ==
    /\ PipelineInit /\ BroadcastInit /\ ToolsInit
    /\ scenario # "units" => actual = [p \in Place |-> "empty"]

OnUnits(act) ==
    scenario = "units" /\ act /\ UNCHANGED <<broadcastVars, toolVars>>
OnCards ==
    scenario = "cards" /\ BroadcastNext /\ UNCHANGED <<pipelineVars, toolVars>>
OnTools == ToolsNext /\ UNCHANGED <<pipelineVars, broadcastVars>>

Next == OnUnits(PipelineNext) \/ OnCards \/ OnTools

\* Threads are scheduled, and every cloud call returns or times out
\* (SCAN_BOTO_CONFIG and its Azure and GCP counterparts).
UnitsFairness ==
    WF_vars(OnUnits(Probing)) /\ WF_vars(OnUnits(PoolStep)) /\ WF_vars(OnUnits(HandlerStep))

FairSpec ==
    Init /\ [][Next]_vars /\ UnitsFairness /\ BroadcastFairness /\ ToolsFairness

TypeOK == PipelineTypeOK /\ BroadcastTypeOK /\ ToolsTypeOK
=============================================================================
