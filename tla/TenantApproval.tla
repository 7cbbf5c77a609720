--------------------------- MODULE TenantApproval ---------------------------
(***************************************************************************)
(* How a workspace is requested and decided: the Cognito trigger           *)
(* (post_confirmation) finds or creates the tenant of an e-mail address,   *)
(* links the user and mails an Approve and a Reject link; the decision     *)
(* page behind the links (admin_decision) and the administrators' list     *)
(* (admin_tenants) set its status.                                         *)
(*                                                                         *)
(* One tenant: the rows of different addresses do not meet.  Each SQL      *)
(* statement commits by itself, so a step is one statement.  Cognito       *)
(* repeats a trigger that does not answer in time, and one address may     *)
(* sign in through several identity providers.  Tokens that do not verify  *)
(* or have expired change nothing and are left out.                        *)
(***************************************************************************)
EXTENDS Naturals, Sequences, FiniteSets

CONSTANTS
    Identity,     \* (sso_provider, sso_subject) pairs of the address
    Trigger,      \* invocations of the trigger, repeated ones included
    Click,        \* requests to the decision page
    IN_APP        \* bound: decisions taken in the administrators' list

ASSUME ApprovalAssumption == IN_APP \in Nat

VARIABLES
    status, approvedAt, nonces,  \* the tenants row; "absent" before the INSERT
    role,                        \* users.role of each identity; "none": no row
    mailed,                      \* the two links have been sent
    tpc, who,                    \* where each trigger is, and for whom
    cpc, link,                   \* where each click is, and which link it follows
    decided, inApp               \* the decisions in order, and how many in the app

tenant   == <<status, approvedAt, nonces>>
triggers == <<tpc, who>>
clickers   == <<cpc, link>>
approvalVars     == <<tenant, role, mailed, triggers, clickers, decided, inApp>>

Decision == {"approve", "reject"}
NewStatus(d) == IF d = "approve" THEN "approved" ELSE "rejected"

ApprovalInit ==
    /\ status = "absent" /\ approvedAt = FALSE /\ nonces = {}
    /\ role = [i \in Identity |-> "none"]
    /\ mailed = FALSE
    /\ tpc = [t \in Trigger |-> "idle"] /\ who \in [Trigger -> Identity]
    /\ cpc = [c \in Click |-> "idle"] /\ link \in [Click -> Decision]
    /\ decided = <<>> /\ inApp = 0

-----------------------------------------------------------------------------
(* The trigger.                                                            *)

Goto(t, l) == tpc' = [tpc EXCEPT ![t] = l]

FindTenant(t) ==
    /\ tpc[t] = "idle"
    /\ Goto(t, IF status = "absent" THEN "create" ELSE "member")
    /\ UNCHANGED <<tenant, role, mailed, who, clickers, decided, inApp>>

\* Mutant: an INSERT that takes over a row that is already there.
CreateTenantUpsert(t) ==
    /\ tpc[t] = "create"
    /\ status' = "pending"
    /\ Goto(t, "admin")
    /\ UNCHANGED <<approvedAt, nonces, role, mailed, who, clickers, decided, inApp>>

\* email_domain is UNIQUE: the INSERT of the slower of two triggers raises.
CreateTenant(t) ==
    /\ tpc[t] = "create"
    /\ IF status = "absent"
       THEN status' = "pending" /\ Goto(t, "admin")
       ELSE Goto(t, "done") /\ UNCHANGED status
    /\ UNCHANGED <<approvedAt, nonces, role, mailed, who, clickers, decided, inApp>>

\* An identity that has a row keeps its tenant and its role.
UpsertUser(t, l, r) ==
    /\ tpc[t] = l
    /\ role' = [role EXCEPT ![who[t]] = IF @ = "none" THEN r ELSE @]
    /\ Goto(t, IF r = "admin" THEN "mail" ELSE "done")
    /\ UNCHANGED <<tenant, mailed, who, clickers, decided, inApp>>

\* A failed mail is logged and swallowed.
SendApprovalEmail(t) ==
    /\ tpc[t] = "mail"
    /\ \E sent \in BOOLEAN : mailed' = (mailed \/ sent)
    /\ Goto(t, "done")
    /\ UNCHANGED <<tenant, role, who, clickers, decided, inApp>>

\* A statement fails, or the Lambda is cut off.
TriggerFails(t) ==
    /\ tpc[t] \notin {"idle", "done"}
    /\ Goto(t, "done")
    /\ UNCHANGED <<tenant, role, mailed, who, clickers, decided, inApp>>

-----------------------------------------------------------------------------
(* The decisions.                                                          *)

Decide(d) ==
    /\ status' = NewStatus(d)
    /\ approvedAt' = (approvedAt \/ d = "approve")
    /\ decided' = Append(decided, d)

\* The page reads the row and refuses a nonce it finds there.
GetTenant(c) ==
    /\ mailed /\ cpc[c] = "idle"
    /\ cpc' = [cpc EXCEPT ![c] = IF link[c] \in nonces THEN "refused" ELSE "read"]
    /\ UNCHANGED <<tenant, role, mailed, triggers, link, decided, inApp>>

\* Then it updates the row, whatever happened to it in between.
UpdateTenantDecision(c) ==
    /\ cpc[c] = "read"
    /\ Decide(link[c])
    /\ nonces' = nonces \cup {link[c]}
    /\ cpc' = [cpc EXCEPT ![c] = "answered"]
    /\ UNCHANGED <<role, mailed, triggers, link, inApp>>

DecideInApp(d) ==
    /\ status # "absent" /\ inApp < IN_APP
    /\ Decide(d)
    /\ inApp' = inApp + 1
    /\ UNCHANGED <<nonces, role, mailed, triggers, clickers>>

-----------------------------------------------------------------------------
ApprovalNext ==
    \/ \E t \in Trigger :
        \/ FindTenant(t) \/ CreateTenant(t)
        \/ UpsertUser(t, "admin", "admin") \/ UpsertUser(t, "member", "member")
        \/ SendApprovalEmail(t) \/ TriggerFails(t)
    \/ \E c \in Click : GetTenant(c) \/ UpdateTenantDecision(c)
    \/ \E d \in Decision : DecideInApp(d)

ApprovalSpec == ApprovalInit /\ [][ApprovalNext]_approvalVars
-----------------------------------------------------------------------------
\* Type invariant of the tables, the triggers and the clickers.
ApprovalTypeOK ==
    /\ status \in {"absent", "pending", "approved", "rejected"}
    /\ approvedAt \in BOOLEAN /\ mailed \in BOOLEAN /\ nonces \subseteq Decision
    /\ role \in [Identity -> {"none", "admin", "member"}]
    /\ tpc \in [Trigger -> {"idle", "create", "admin", "member", "mail", "done"}]
    /\ who \in [Trigger -> Identity]
    /\ cpc \in [Click -> {"idle", "read", "refused", "answered"}]
    /\ link \in [Click -> Decision]
    /\ decided \in Seq(Decision) /\ inApp \in 0..IN_APP

\* The row shows the latest decision and whether it was ever approved; nothing
\* a late or repeated trigger does puts a decided tenant back to pending.
DecisionsStand ==
    /\ approvedAt <=> \E i \in DOMAIN decided : decided[i] = "approve"
    /\ status = IF decided # <<>> THEN NewStatus(decided[Len(decided)])
                ELSE IF status = "absent" THEN "absent" ELSE "pending"

\* However the clickers on the two links interleave, a link that has decided is
\* recorded as used, so that a click that comes later is refused.
UsedStaysUsed == \A c \in Click : cpc[c] = "answered" => link[c] \in nonces

\* Triggers that race for a new tenant, or are repeated, leave it with at most
\* one administrator, who got there by creating it.
OneAdmin ==
    /\ \A i, j \in Identity : role[i] = "admin" /\ role[j] = "admin" => i = j
    /\ \A i \in Identity : role[i] # "none" => status # "absent"

\* The creator is never demoted by a repeated trigger that finds the tenant.
CreatorStaysAdmin ==
    [][\A i \in Identity : role[i] = "admin" => role'[i] = "admin"]_role
=============================================================================
