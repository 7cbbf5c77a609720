------------------------------- MODULE AiScan -------------------------------
(***************************************************************************)
(* Scans of a tenant's repositories for AI assets: the GitHub installation *)
(* (ai_github), the queue, the scanner that clones a repository and writes *)
(* what it found into the shared entity graph in one transaction           *)
(* (ai_scanner), and the matcher that looks for exploited vulnerabilities  *)
(* among what the scans found (ai_supply_chain_matcher).                   *)
(*                                                                         *)
(* Two scanners write entities they share in the order each found them, so *)
(* their transactions may wait for each other; the database then aborts    *)
(* one.  A message whose handler fails comes back, a few times.            *)
(***************************************************************************)
EXTENDS Naturals, Sequences

CONSTANTS
    AiScanId,     \* scans; each stands for its repository and its ai_scans row
    Key,          \* entities (kind and natural key)
    Writes,       \* the entity writes of a scan's commit, in their order; a stub
                  \* stands for an entity an edge or finding points at and the
                  \* scan does not describe
    Vulnerable,   \* scans that find a package with a CVE
    MAX_RECEIVES  \* receives of a message before the dead-letter queue

ASSUME AiScanAssumption ==
    /\ Writes \in [AiScanId -> Seq([key : Key, stub : BOOLEAN])]
    /\ \A k \in AiScanId : Writes[k] # <<>> /\ ~Writes[k][1].stub
    /\ Vulnerable \subseteq AiScanId
    /\ MAX_RECEIVES \in Nat \ {0}

VARIABLES
    link,         \* the ai_connections row
    keys,         \* whether the database has the foreign keys of findings
    aiScan,       \* the ai_scans rows: their status
    message,      \* each scan's message on ai-scan-queue
    runner,       \* each scan's handler
    pos,          \* entity writes its transaction has made
    graph,        \* the entities table: what is said of each entity
    sca,          \* scans whose findings are committed
    kev,          \* whether the CVE is on the exploited list
    matching,     \* each scan's message to the matcher and what its handler has left
    active,       \* scans whose ai_supply_chain_active finding exists
    pushed        \* those that were pushed to the phones

aiVars == <<link, keys, aiScan, message, runner, pos, graph, sca, kev, matching, active, pushed>>
scanVars  == <<aiScan, message, runner, pos>>
matchVars == <<kev, matching, active, pushed>>

Message == [at : {"nowhere", "queue", "handler", "gone", "dlq"}, received : 0..MAX_RECEIVES]
NoMessage == [at |-> "nowhere", received |-> 0]

AiInit ==
    /\ link = "none" /\ keys \in {"enforced", "absent"}
    /\ aiScan = [k \in AiScanId |-> "none"]
    /\ message = [k \in AiScanId |-> NoMessage]
    /\ runner = [k \in AiScanId |-> "idle"] /\ pos = [k \in AiScanId |-> 0]
    /\ graph = [e \in Key |-> "absent"]
    /\ sca = {} /\ kev = FALSE /\ active = {} /\ pushed = {}
    /\ matching = [k \in AiScanId |-> [msg |-> NoMessage, todo |-> {}, emitted |-> {}]]

\* A handler takes a message; one it fails comes back or is given up.
Received(m) == [at |-> "handler", received |-> m.received + 1]

Returned(m) == [m EXCEPT !.at = IF m.received < MAX_RECEIVES THEN "queue" ELSE "dlq"]

Deleted(m) == [m EXCEPT !.at = "gone"]

\* Rows a transaction has written stay locked until it ends.
Locked(k) == {Writes[k][n].key : n \in 1..pos[k]}
Wants(k)  == IF runner[k] = "writing" /\ pos[k] < Len(Writes[k])
             THEN {Writes[k][pos[k] + 1].key} ELSE {}
Free(k, e) == \A j \in AiScanId \ {k} : e \notin Locked(j)

\* What an upsert makes of an entity.  The mark _stub survives an insert only;
\* on a conflict it is taken off, and the attributes left are the new ones.
Upserted(said, stub) ==
    IF ~stub THEN "described" ELSE IF said = "absent" THEN "stub" ELSE "blank"

-----------------------------------------------------------------------------
(* The installation and the requests.                                      *)

GithubComplete ==
    /\ link # "active" /\ link' = "active"
    /\ UNCHANGED <<keys, scanVars, graph, sca, matchVars>>

\* The user deletes it, or GitHub answers 401 to the list of repositories.
GithubRevoked ==
    /\ link = "active" /\ link' = "revoked"
    /\ UNCHANGED <<keys, scanVars, graph, sca, matchVars>>

\* The repository's entity is upserted with no attributes, the row inserted,
\* the message sent; when sending fails the row stays.
StartScan(k) ==
    /\ aiScan[k] = "none" /\ link = "active"
    /\ Free(k, Writes[k][1].key)
    /\ graph' = [graph EXCEPT ![Writes[k][1].key] = "blank"]
    /\ aiScan' = [aiScan EXCEPT ![k] = "queued"]
    /\ message' \in {message, [message EXCEPT ![k].at = "queue"]}
    /\ UNCHANGED <<link, keys, runner, pos, sca, matchVars>>

-----------------------------------------------------------------------------
(* The scanner.                                                            *)

Receive(k) ==
    /\ message[k].at = "queue"
    /\ message' = [message EXCEPT ![k] = Received(@)]
    /\ runner' = [runner EXCEPT ![k] = "cloning"]
    /\ UNCHANGED <<link, keys, aiScan, pos, graph, sca, matchVars>>

\* The handler's exception: the transaction, if any, is rolled back.
Raise(k) ==
    /\ runner' = [runner EXCEPT ![k] = "idle"] /\ pos' = [pos EXCEPT ![k] = 0]
    /\ message' = [message EXCEPT ![k] = Returned(@)]
MarkFailed(k) == aiScan' = [aiScan EXCEPT ![k] = "failed"]

\* A clone that fails is raised without a context to record it in.
CloneFails(k) ==
    /\ runner[k] = "cloning"
    /\ Raise(k)
    /\ UNCHANGED <<link, keys, aiScan, graph, sca, matchVars>>

\* A repository that is too large is recorded, and not tried again.
RepoTooLarge(k) ==
    /\ runner[k] = "cloning"
    /\ MarkFailed(k)
    /\ message' = [message EXCEPT ![k] = Deleted(@)]
    /\ runner' = [runner EXCEPT ![k] = "idle"]
    /\ UNCHANGED <<link, keys, pos, graph, sca, matchVars>>

\* Mutant: the scan's row is updated first, in a statement of its own.
BeginByStatus(k) ==
    /\ runner[k] = "cloning"
    /\ runner' = [runner EXCEPT ![k] = "writing"]
    /\ aiScan' = [aiScan EXCEPT ![k] = "success"]
    /\ UNCHANGED <<link, keys, message, pos, graph, sca, matchVars>>

\* Clone, detectors and Trivy are done, the transaction begins.
Begin(k) ==
    /\ runner[k] = "cloning"
    /\ runner' = [runner EXCEPT ![k] = "writing"]
    /\ UNCHANGED <<link, keys, aiScan, message, pos, graph, sca, matchVars>>

\* The next entity, once no other transaction holds it.
WriteEntity(k) ==
    /\ Wants(k) # {} /\ \A e \in Wants(k) : Free(k, e)
    /\ pos' = [pos EXCEPT ![k] = @ + 1]
    /\ UNCHANGED <<link, keys, aiScan, message, runner, graph, sca, matchVars>>

\* A detector, Trivy or a statement fails; so does a finding's insert when its
\* conn_id and scan_id, which are those of ai_connections and ai_scans, have to
\* be in cloud_connections and scans.
ScanRaises(k) ==
    /\ runner[k] \in {"cloning", "writing"}
    /\ MarkFailed(k) /\ Raise(k)
    /\ UNCHANGED <<link, keys, graph, sca, matchVars>>

\* Two transactions wait for each other: the database aborts one.
Deadlocked(k) ==
    \E j \in AiScanId \ {k} : Wants(k) \cap Locked(j) # {} /\ Wants(j) \cap Locked(k) # {}
DeadlockDetected(k) == Deadlocked(k) /\ ScanRaises(k)

\* The graph, the findings and the row of the scan, at once.
Commit(k) ==
    /\ runner[k] = "writing" /\ Wants(k) = {}
    /\ keys = "enforced" => k \notin Vulnerable
    /\ graph' = [e \in Key |->
         IF \E n \in 1..pos[k] : Writes[k][n].key = e
         THEN Upserted(graph[e], \A n \in 1..pos[k] : Writes[k][n].key = e => Writes[k][n].stub)
         ELSE graph[e]]
    /\ sca' = sca \cup ({k} \cap Vulnerable)
    /\ aiScan' = [aiScan EXCEPT ![k] = "success"]
    /\ runner' = [runner EXCEPT ![k] = "committed"] /\ pos' = [pos EXCEPT ![k] = 0]
    /\ UNCHANGED <<link, keys, message, matchVars>>

EnqueueMatcher(k) ==
    /\ runner[k] = "committed"
    /\ runner' = [runner EXCEPT ![k] = "idle"]
    /\ message' = [message EXCEPT ![k] = Deleted(@)]
    /\ matching' = [matching EXCEPT ![k].msg.at = "queue"]
    /\ UNCHANGED <<link, keys, aiScan, pos, graph, sca, kev, active, pushed>>

\* The committed scan is marked failed, and run again.
EnqueueFails(k) ==
    /\ runner[k] = "committed"
    /\ MarkFailed(k) /\ Raise(k)
    /\ UNCHANGED <<link, keys, graph, sca, matchVars>>

\* The Lambda runs into its limit, or cannot even record its failure; the message
\* comes back when the database has long rolled the transaction back (720 s).
ScannerDies(k) ==
    /\ runner[k] # "idle"
    /\ Raise(k)
    /\ UNCHANGED <<link, keys, aiScan, graph, sca, matchVars>>

-----------------------------------------------------------------------------
(* The matcher.                                                            *)

KevListed ==
    /\ ~kev /\ kev' = TRUE
    /\ UNCHANGED <<link, keys, scanVars, graph, sca, matching, active, pushed>>

Matches == IF kev THEN sca ELSE {}

\* Mutant: what already has its finding is left out.
FindNewMatches(k) ==
    /\ matching[k].msg.at = "queue"
    /\ matching' = [matching EXCEPT ![k] =
         [msg |-> Received(@.msg), todo |-> Matches \ active, emitted |-> {}]]
    /\ UNCHANGED <<link, keys, scanVars, graph, sca, kev, active, pushed>>

\* Every match of the tenant.  The guard against those that have their finding
\* compares a check_id no finding has.
FindMatches(k) ==
    /\ matching[k].msg.at = "queue"
    /\ matching' = [matching EXCEPT ![k] =
         [msg |-> Received(@.msg), todo |-> Matches, emitted |-> {}]]
    /\ UNCHANGED <<link, keys, scanVars, graph, sca, kev, active, pushed>>

Handling(k) == matching[k].msg.at = "handler"

\* One match after the other: the finding, then the push.
EmitFinding(k, m) ==
    /\ Handling(k) /\ matching[k].emitted = {} /\ m \in matching[k].todo
    /\ matching' = [matching EXCEPT ![k].emitted = {m}]
    /\ active' = active \cup {m}
    /\ UNCHANGED <<link, keys, scanVars, graph, sca, kev, pushed>>

FirePush(k, m) ==
    /\ Handling(k) /\ m \in matching[k].emitted
    /\ matching' = [matching EXCEPT ![k].emitted = {}, ![k].todo = @ \ {m}]
    /\ pushed' = pushed \cup {m}
    /\ UNCHANGED <<link, keys, scanVars, graph, sca, kev, active>>

MatcherDone(k) ==
    /\ Handling(k) /\ matching[k].todo = {}
    /\ matching' = [matching EXCEPT ![k].msg = Deleted(@)]
    /\ UNCHANGED <<link, keys, scanVars, graph, sca, kev, active, pushed>>

MatcherFails(k) ==
    /\ Handling(k)
    /\ matching' = [matching EXCEPT ![k].msg = Returned(@), ![k].emitted = {}]
    /\ UNCHANGED <<link, keys, scanVars, graph, sca, kev, active, pushed>>

-----------------------------------------------------------------------------

ScannerStep ==
    \E k \in AiScanId :
        \/ Receive(k) \/ CloneFails(k) \/ RepoTooLarge(k) \/ Begin(k) \/ WriteEntity(k)
        \/ DeadlockDetected(k) \/ Commit(k) \/ EnqueueMatcher(k)
        \/ (keys = "enforced" /\ k \in Vulnerable /\ ScanRaises(k))

AiNext ==
    \/ GithubComplete \/ GithubRevoked \/ KevListed
    \/ \E k \in AiScanId : StartScan(k) \/ ScanRaises(k) \/ EnqueueFails(k) \/ ScannerDies(k)
    \/ ScannerStep
    \/ \E k \in AiScanId :
        \/ FindMatches(k) \/ MatcherDone(k) \/ MatcherFails(k)
        \/ \E m \in AiScanId : EmitFinding(k, m) \/ FirePush(k, m)

-----------------------------------------------------------------------------

AiTypeOK ==
    /\ link \in {"none", "active", "revoked"} /\ keys \in {"enforced", "absent"}
    /\ aiScan \in [AiScanId -> {"none", "queued", "success", "failed"}]
    /\ message \in [AiScanId -> Message]
    /\ runner \in [AiScanId -> {"idle", "cloning", "writing", "committed"}]
    /\ pos \in [AiScanId -> Nat] /\ \A k \in AiScanId : pos[k] <= Len(Writes[k])
    /\ graph \in [Key -> {"absent", "stub", "blank", "described"}]
    /\ sca \subseteq AiScanId /\ kev \in BOOLEAN
    /\ matching \in [AiScanId -> [msg : Message, todo : SUBSET AiScanId,
                                  emitted : SUBSET AiScanId]]
    /\ active \subseteq AiScanId /\ pushed \subseteq active

\* A scan that reports success has everything it found in the graph and its
\* vulnerabilities among the findings, through aborted, killed and repeated runs.
SuccessHasGraph ==
    \A k \in AiScanId : aiScan[k] = "success" =>
        /\ \A n \in 1..Len(Writes[k]) : graph[Writes[k][n].key] # "absent"
        /\ k \in Vulnerable => k \in sca

\* A critical supply-chain finding whose matcher was not given up on has been
\* pushed: a push that fails is made up for by the retry, although the finding
\* is already there.
ActiveIsPushed ==
    (\A k \in AiScanId : matching[k].msg.at \in {"nowhere", "gone"}) => active \subseteq pushed

\* A scan that was queued ends: its message is handled or given up (part of
\* WorkEnds).
ScansEnd ==
    \A k \in AiScanId : message[k].at = "queue" ~> message[k].at \in {"gone", "dlq"}

\* What the writer's header says of stubs: one is created for an entity that is
\* not yet in the table.  It is written also over one that is, and takes the
\* place of what another scan said of it.
StubLeavesEntity ==
    [][\A k \in AiScanId : runner[k] = "writing" /\ runner'[k] = "committed" =>
        \A n \in 1..Len(Writes[k]) :
            Writes[k][n].stub /\ graph[Writes[k][n].key] # "absent" =>
                graph'[Writes[k][n].key] = graph[Writes[k][n].key]]_aiVars
=============================================================================
