----------------------------- MODULE Connections -----------------------------
(***************************************************************************)
(* One cloud connection of a tenant, from the onboarding link to its end:  *)
(* the customer's set-up script (or Microsoft's consent page) reports what *)
(* it set up, the user picks what to scan, starts scans and deletes the    *)
(* connection (lambdas onboarding_*_initiate, onboarding_*_complete,       *)
(* onboarding_entra_callback, connections_list and the Azure and GCP scan  *)
(* tasks).                                                                 *)
(*                                                                         *)
(* Every handler reads the row, decides, and writes it by its id alone: no *)
(* write repeats the condition the decision was made on.                   *)
(***************************************************************************)
EXTENDS FiniteSets

CONSTANTS
    Completion,   \* reports of the set-up script; each stands for its account
    Sub,          \* subscriptions (Azure) or projects (GCP)
    Reported,     \* what each report found in its account
    Patch,        \* PATCH requests: a selection
    Delete,       \* DELETE requests
    Rescan,       \* POST /rescan requests; each stands for its scans row
    None

ASSUME ConnectionAssumption ==
    /\ Reported \in [Completion -> (SUBSET Sub) \ {{}}]
    /\ None \notin Completion

VARIABLES
    cloud,        \* what is connected; "org" and "project" are the two modes of GCP
    conn,         \* the cloud_connections row
    secret,       \* whose credentials the connection's secret holds
    grants,       \* accounts that may put events on the central bus
    complete,     \* each report: how far its handler is
    patch,        \* each PATCH: the scope it is about to write
    delete,       \* each DELETE: how far it is
    rescan        \* each rescan and its scans row

connVars == <<cloud, conn, secret, grants, complete, patch, delete, rescan>>

Scope  == [known : SUBSET Sub, selected : SUBSET Sub, names : SUBSET Sub]
NoScope == [known |-> {}, selected |-> {}, names |-> {}]
Here   == {"pending", "active", "revoked"}
Conn   == [status : Here \cup {"absent", "deleted"},
           acct : Completion \cup {None}, scope : Scope]

Outcome == {"active", "empty", "fails"}    \* a probe raises, or answers neither
Scanning == {"started", "probing", "scanning"}
Scan   == [pc : {"idle", "read", "over", "queued", "failed", "partial", "completed"}
                  \cup Scanning,
           want : SUBSET Sub,                     \* what it is to cover
           probe : [Sub -> Outcome \cup {None}], clean : SUBSET Sub]
NoScan == [pc |-> "idle", want |-> {}, probe |-> [s \in Sub |-> None], clean |-> {}]

ConnInit ==
    /\ cloud \in {"aws", "azure", "entra", "project", "org"}
    /\ conn = [status |-> "absent", acct |-> None, scope |-> NoScope]
    /\ secret = None /\ grants = {}
    /\ complete = [c \in Completion |-> "idle"]
    /\ patch = [p \in Patch |-> [pc |-> "idle", scope |-> NoScope]]
    /\ delete = [d \in Delete |-> "idle"]
    /\ rescan = [r \in Rescan |-> NoScan]

\* UPDATE ... WHERE conn_id: nothing happens when the row is gone.
UpdateConn(row) == conn' = IF conn.status \in Here THEN row ELSE conn

-----------------------------------------------------------------------------
(* Onboarding.                                                             *)

Initiate ==
    /\ conn.status = "absent"
    /\ conn' = [conn EXCEPT !.status = "pending"]
    /\ UNCHANGED <<cloud, secret, grants, complete, patch, delete, rescan>>

\* The report arrives; a connection that is not pending refuses it.
CheckPending(c) ==
    /\ complete[c] = "idle" /\ conn.status # "absent"
    /\ complete' = [complete EXCEPT
         ![c] = IF conn.status = "pending" THEN "checked" ELSE "over"]
    /\ UNCHANGED <<cloud, conn, secret, grants, patch, delete, rescan>>

\* AWS and Azure keep credentials; a grant that fails is only logged.
StoreCredentials(c) ==
    /\ cloud \in {"aws", "azure"} /\ complete[c] = "checked"
    /\ secret' = c
    /\ grants' \in IF cloud = "aws" THEN {grants, grants \cup {c}} ELSE {grants}
    /\ complete' = [complete EXCEPT ![c] = "stored"]
    /\ UNCHANGED <<cloud, conn, patch, delete, rescan>>

\* A report with a subscription list names what there is and selects all of it;
\* an organisation is listed by its first scan.
ReportedScope(c) ==
    IF cloud = "azure" THEN [known |-> Reported[c], selected |-> Reported[c], names |-> {}]
    ELSE IF cloud \in {"project", "org"} THEN NoScope
    ELSE conn.scope

Activate(c) ==
    /\ complete[c] = IF cloud \in {"aws", "azure"} THEN "stored" ELSE "checked"
    /\ UpdateConn([status |-> "active", acct |-> c, scope |-> ReportedScope(c)])
    /\ complete' = [complete EXCEPT ![c] = "over"]
    /\ UNCHANGED <<cloud, secret, grants, patch, delete, rescan>>

CompleteFails(c) ==
    /\ complete[c] \in {"checked", "stored"}
    /\ complete' = [complete EXCEPT ![c] = "over"]
    /\ UNCHANGED <<cloud, conn, secret, grants, patch, delete, rescan>>

-----------------------------------------------------------------------------
(* The selection.                                                          *)

ReadScope(p) ==
    /\ patch[p].pc = "idle" /\ cloud = "azure" /\ conn.status = "active"
    /\ \E selected \in (SUBSET conn.scope.known) \ {{}} :
        patch' = [patch EXCEPT ![p] =
                    [pc |-> "write", scope |-> [conn.scope EXCEPT !.selected = selected]]]
    /\ UNCHANGED <<cloud, conn, secret, grants, complete, delete, rescan>>

\* The whole scope, as it was read.
WriteScope(p) ==
    /\ patch[p].pc = "write"
    /\ UpdateConn([conn EXCEPT !.scope = patch[p].scope])
    /\ patch' = [patch EXCEPT ![p].pc = "over"]
    /\ UNCHANGED <<cloud, secret, grants, complete, delete, rescan>>

-----------------------------------------------------------------------------
(* Deletion: an active connection is revoked, one that never came about is *)
(* deleted with its secret.                                                *)

ReadStatus(d) ==
    /\ delete[d] = "idle" /\ conn.status # "absent"
    /\ delete' = [delete EXCEPT ![d] =
         CASE conn.status = "active" -> "revoke"
           [] conn.status = "pending" -> "secret"
           [] OTHER -> "over"]
    /\ UNCHANGED <<cloud, conn, secret, grants, complete, patch, rescan>>

Revoke(d) ==
    /\ delete[d] = "revoke"
    /\ UpdateConn([conn EXCEPT !.status = "revoked"])
    /\ delete' = [delete EXCEPT ![d] = "over"]
    /\ UNCHANGED <<cloud, secret, grants, complete, patch, rescan>>

DeleteSecret(d) ==
    /\ delete[d] = "secret"
    /\ secret' \in {secret, None}
    /\ delete' = [delete EXCEPT ![d] = "row"]
    /\ UNCHANGED <<cloud, conn, grants, complete, patch, rescan>>

\* A connection with a scan is kept by the scan's foreign key: the statement
\* fails.
HasScan == \E r \in Rescan : rescan[r].pc \notin {"idle", "read", "over"}
DeleteRow(d) ==
    /\ delete[d] = "row"
    /\ conn' = IF conn.status \in Here /\ ~HasScan THEN [conn EXCEPT !.status = "deleted"]
               ELSE conn
    /\ delete' = [delete EXCEPT ![d] = "over"]
    /\ UNCHANGED <<cloud, secret, grants, complete, patch, rescan>>

-----------------------------------------------------------------------------
(* Scans.                                                                  *)

\* The subset the user selected, or all there is; a single project is its
\* own list, and the whole organisation is an empty one.
Chosen ==
    CASE cloud = "azure" -> IF conn.scope.selected # {} THEN conn.scope.selected
                            ELSE conn.scope.known
      [] cloud = "project" -> {CHOOSE s \in Reported[conn.acct] : TRUE}
      [] cloud = "org" -> conn.scope.selected
      [] OTHER -> {}

ReadConn(r) ==
    /\ rescan[r].pc = "idle" /\ conn.status = "active"
    /\ cloud \in {"aws", "azure"} => secret # None
    /\ cloud = "azure" => Chosen # {}
    /\ rescan' = [rescan EXCEPT ![r].pc = "read", ![r].want = Chosen]
    /\ UNCHANGED <<cloud, conn, secret, grants, complete, patch, delete>>

\* The scans row, then the task; without a connection there is no row.  A task
\* that does not start marks the scan failed; an Entra scan whose runner is not
\* reached stays queued.
StartTask(r) ==
    /\ rescan[r].pc = "read"
    /\ rescan' \in {[rescan EXCEPT ![r].pc = pc] : pc \in
         IF conn.status \notin Here THEN {"over"}
         ELSE {"started", IF cloud = "entra" THEN "queued" ELSE "failed"}}
    /\ UNCHANGED <<cloud, conn, secret, grants, complete, patch, delete>>

\* The task names what it sees on the connection: the display names of
\* subscriptions (if it can), the projects of an organisation.
ListTargets(r) ==
    /\ rescan[r].pc = "started" /\ cloud \in {"azure", "project", "org"}
    /\ cloud = "azure" => secret # None
    /\ \E seen \in SUBSET Sub :
        /\ conn' \in
             CASE seen = {} \/ cloud = "project" \/ conn.status \notin Here -> {conn}
               [] cloud = "azure" -> {conn, [conn EXCEPT !.scope.names = seen]}
               [] cloud = "org" -> {conn, [conn EXCEPT !.scope.known = seen]}
        /\ LET want == IF cloud = "org" /\ rescan[r].want = {} THEN seen ELSE rescan[r].want
           IN  rescan' = [rescan EXCEPT ![r].want = want,
                                        ![r].pc = IF want = {} THEN "failed" ELSE "probing"]
    /\ UNCHANGED <<cloud, secret, grants, complete, patch, delete>>

\* Each target is asked what it runs.
Discover(r) ==
    /\ rescan[r].pc = "probing"
    /\ \E outcome \in [rescan[r].want -> Outcome] :
        rescan' = [rescan EXCEPT ![r].pc = "scanning",
                     ![r].probe = [s \in Sub |-> IF s \in rescan[r].want THEN outcome[s] ELSE None]]
    /\ UNCHANGED <<cloud, conn, secret, grants, complete, patch, delete>>

\* Mutant: a target whose probe fails counts as one that runs nothing.
SwallowProbe(outcome) == IF outcome = "active" THEN "active" ELSE "empty"

\* A probe that fails leaves the target unknown.
Classify(outcome) == IF outcome \in {"active", "empty"} THEN outcome ELSE "unknown"

\* What is active or unknown is scanned; any unit that fails makes the scan
\* partial.
RunUnits(r) ==
    /\ rescan[r].pc = "scanning"
    /\ LET scannable == {s \in rescan[r].want : Classify(rescan[r].probe[s]) # "empty"}
       IN  \E clean \in SUBSET scannable :
             rescan' = [rescan EXCEPT ![r].clean = clean,
                          ![r].pc = IF clean = scannable THEN "completed" ELSE "partial"]
    /\ UNCHANGED <<cloud, conn, secret, grants, complete, patch, delete>>

\* Bad credentials, a listing or a commit that fails.
ScanFails(r) ==
    /\ rescan[r].pc \in Scanning /\ cloud \in {"azure", "project", "org"}
    /\ rescan' = [rescan EXCEPT ![r].pc = "failed"]
    /\ UNCHANGED <<cloud, conn, secret, grants, complete, patch, delete>>

ConnNext ==
    \/ Initiate
    \/ \E c \in Completion :
        CheckPending(c) \/ StoreCredentials(c) \/ Activate(c) \/ CompleteFails(c)
    \/ \E p \in Patch : ReadScope(p) \/ WriteScope(p)
    \/ \E d \in Delete : ReadStatus(d) \/ Revoke(d) \/ DeleteSecret(d) \/ DeleteRow(d)
    \/ \E r \in Rescan :
        \/ ReadConn(r) \/ StartTask(r) \/ ListTargets(r) \/ Discover(r)
        \/ RunUnits(r) \/ ScanFails(r)

-----------------------------------------------------------------------------

ConnTypeOK ==
    /\ conn \in Conn /\ secret \in Completion \cup {None} /\ grants \subseteq Completion
    /\ complete \in [Completion -> {"idle", "checked", "stored", "over"}]
    /\ patch \in [Patch -> [pc : {"idle", "write", "over"}, scope : Scope]]
    /\ delete \in [Delete -> {"idle", "revoke", "secret", "row", "over"}]
    /\ rescan \in [Rescan -> Scan]

\* A scan that says completed has covered everything it was to cover: each
\* target was scanned without an error, or said itself that it runs nothing
\* (the anti-blind-spot invariant of subscription_discovery).
CompletedCovers ==
    \A r \in Rescan : rescan[r].pc = "completed" =>
        /\ rescan[r].want # {}
        /\ \A s \in rescan[r].want : s \in rescan[r].clean \/ rescan[r].probe[s] = "empty"
=============================================================================
