----------------------------- MODULE Governance -----------------------------
(***************************************************************************)
(* A tenant's workspace: how it is requested and decided (TenantApproval), *)
(* what it is shown of its findings, entities and risks (Posture), the     *)
(* action cards of its chat (ApprovalCard), its documents, questionnaires  *)
(* and trust page (Registers), and the Slack bot its admins run            *)
(* (WorkspaceBot), each in behaviours of its own.                          *)
(***************************************************************************)
EXTENDS TenantApproval, Posture, ApprovalCard, Registers, WorkspaceBot

vars == <<approvalVars, postureVars, cardVars, registerVars, botVars>>

\* Where nobody signs up it does not matter who would, or by which link.
Init ==
    /\ ApprovalInit /\ PostureInit /\ CardInit /\ RegisterInit /\ BotInit
    /\ scenario # "signup" =>
        /\ who = [t \in Trigger |-> CHOOSE i \in Identity : TRUE]
        /\ link = [c \in Click |-> "approve"]

OnSignUp ==
    scenario = "signup" /\ ApprovalNext /\ UNCHANGED <<postureVars, cardVars, registerVars, botVars>>

OnPosture ==
    /\ \/ scenario = "findings" /\ FindingsNext
       \/ scenario = "graph" /\ GraphNext
       \/ scenario = "risks" /\ RisksNext
    /\ UNCHANGED <<approvalVars, cardVars, registerVars, botVars>>

OnCard ==
    scenario = "card" /\ CardNext /\ UNCHANGED <<approvalVars, postureVars, registerVars, botVars>>

OnRegister == RegisterNext /\ UNCHANGED <<approvalVars, postureVars, cardVars, botVars>>

OnBot ==
    /\ scenario = "bot" /\ BotNext
    /\ UNCHANGED <<approvalVars, postureVars, cardVars, registerVars>>

Next == OnSignUp \/ OnPosture \/ OnCard \/ OnRegister \/ OnBot

Spec == Init /\ [][Next]_vars

TypeOK == ApprovalTypeOK /\ PostureTypeOK /\ CardTypeOK /\ RegisterTypeOK /\ BotTypeOK
=============================================================================
