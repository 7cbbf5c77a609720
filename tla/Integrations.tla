---------------------------- MODULE Integrations ----------------------------
(***************************************************************************)
(* What a tenant connects: its clouds (Connections; for an AWS account     *)
(* also what a scan of it covers, AwsScan), its users' accounts at other   *)
(* vendors (McpConnector), its repositories (AiScan) and its directory     *)
(* (EntraSignins).  They keep rows of their own; scenario says which of    *)
(* them a behaviour is about.                                              *)
(***************************************************************************)
EXTENDS Connections, AwsScan, McpConnector, AiScan, EntraSignins

VARIABLE scenario

vars == <<scenario, connVars, awsVars, mcpVars, aiVars, signinVars>>

\* The kind of cloud and the keys of findings vary where they matter.
Init ==
    /\ scenario \in {"clouds", "account", "vendors", "repositories", "directory"}
    /\ ConnInit /\ (scenario # "clouds" => cloud = "aws")
    /\ AwsInit /\ (scenario # "account" => tier = "quick" /\ footprint = [r \in Region |-> "empty"])
    /\ McpInit
    /\ AiInit /\ (scenario # "repositories" => keys = "enforced")
    /\ SigninInit /\ (scenario # "directory" => licensed)

OnClouds ==
    /\ scenario = "clouds" /\ ConnNext
    /\ UNCHANGED <<scenario, awsVars, mcpVars, aiVars, signinVars>>
OnAccount ==
    /\ scenario = "account" /\ AwsNext
    /\ UNCHANGED <<scenario, connVars, mcpVars, aiVars, signinVars>>
OnVendors(step) ==
    /\ scenario = "vendors" /\ step
    /\ UNCHANGED <<scenario, connVars, awsVars, aiVars, signinVars>>
OnRepositories(step) ==
    /\ scenario = "repositories" /\ step
    /\ UNCHANGED <<scenario, connVars, awsVars, mcpVars, signinVars>>
OnDirectory ==
    /\ scenario = "directory" /\ SigninNext
    /\ UNCHANGED <<scenario, connVars, awsVars, mcpVars, aiVars>>

Next ==
    OnClouds \/ OnAccount \/ OnVendors(McpNext) \/ OnRepositories(AiNext) \/ OnDirectory

Spec == Init /\ [][Next]_vars

\* A call that holds or waits for the refresh lock, and a scanner that has a
\* message, get on: the vendor, the database and git answer or time out.
FairSpec == Spec /\ WF_vars(OnVendors(CallStep)) /\ WF_vars(OnRepositories(ScannerStep))

TypeOK == ConnTypeOK /\ AwsTypeOK /\ McpTypeOK /\ AiTypeOK /\ SigninTypeOK

\* What waits for something held elsewhere gets on: a call that waits for the
\* refresh lock ends with a token or an error, also when the call that holds the
\* lock dies, and a queued scan's message is handled or given up, also when two
\* scanners wait for each other's entities.
WorkEnds == RefreshEnds /\ ScansEnd
=============================================================================
