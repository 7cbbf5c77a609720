------------------------- MODULE IntegrationsProofs -------------------------
(***************************************************************************)
(* Proofs about what a tenant connects, for any number of connections,     *)
(* regions, calls, repositories, users and overlapping handlers: its       *)
(* clouds (Connections), the scan of an account (AwsScan), the accounts at *)
(* other vendors (McpConnector), its repositories (AiScan) and its         *)
(* directory (EntraSignins), each by itself and then side by side, as      *)
(* Integrations has them.                                                  *)
(***************************************************************************)
EXTENDS Integrations, TLAPS

-----------------------------------------------------------------------------
(* The clouds: onboarding, selection, deletion and scans.                  *)

ConnSpec == ConnInit /\ [][ConnNext]_connVars

\* An active connection has the account that reported.
ActiveHasAccount == conn.status = "active" => conn.acct \in Completion

\* From its listing on, a scan has something to cover.
TargetsKnown ==
    \A r \in Rescan : rescan[r].pc \in {"probing", "scanning", "completed"} => rescan[r].want # {}

ConnInv == ConnTypeOK /\ ActiveHasAccount /\ TargetsKnown /\ CompletedCovers

\* Nothing is connected.
LEMMA ConnInvInit == ConnInit => ConnInv
  BY DEF ConnInit, ConnInv, ConnTypeOK, ActiveHasAccount, TargetsKnown, CompletedCovers,
         Conn, NoScope, Scope, Scan, NoScan, Here, Scanning, Outcome

\* What the handlers of a connection write keeps the types and the account.
LEMMA HandlerKeeps ==
  ASSUME ConnInv,
         \/ Initiate
         \/ \E c \in Completion :
              CheckPending(c) \/ StoreCredentials(c) \/ Activate(c) \/ CompleteFails(c)
         \/ \E p \in Patch : ReadScope(p) \/ WriteScope(p)
         \/ \E d \in Delete : ReadStatus(d) \/ Revoke(d) \/ DeleteSecret(d) \/ DeleteRow(d)
  PROVE  ConnInv'
<1> USE DEF ConnInv, ConnTypeOK
<1>1. rescan' = rescan
  BY DEF Initiate, CheckPending, StoreCredentials, Activate, CompleteFails, ReadScope, WriteScope,
         ReadStatus, Revoke, DeleteSecret, DeleteRow
<1>2. TargetsKnown' /\ CompletedCovers'
  BY <1>1 DEF TargetsKnown, CompletedCovers
<1>3. ConnTypeOK' /\ ActiveHasAccount'
  <2> USE DEF ActiveHasAccount
  <2>1. CASE Initiate
    BY <1>1, <2>1 DEF Initiate, Conn, Here
  <2>2. ASSUME NEW c \in Completion, CheckPending(c) \/ StoreCredentials(c) \/ CompleteFails(c)
        PROVE  ConnTypeOK' /\ ActiveHasAccount'
    BY <1>1, <2>2 DEF CheckPending, StoreCredentials, CompleteFails
  <2>3. ASSUME NEW c \in Completion, Activate(c)
        PROVE  ConnTypeOK' /\ ActiveHasAccount'
    <3>1. Reported[c] \subseteq Sub
      BY ConnectionAssumption DEF ConnectionAssumption
    <3>2. ReportedScope(c) \in Scope
      BY <3>1 DEF ReportedScope, Scope, NoScope, Conn
    <3>3. [status |-> "active", acct |-> c, scope |-> ReportedScope(c)] \in Conn
      BY <3>2 DEF Conn, Here
    <3>4. conn' \in {conn, [status |-> "active", acct |-> c, scope |-> ReportedScope(c)]}
      BY <2>3 DEF Activate, UpdateConn
    <3>5. complete' \in [Completion -> {"idle", "checked", "stored", "over"}]
          /\ UNCHANGED <<cloud, secret, grants, patch, delete, rescan>>
      BY <2>3 DEF Activate
    <3> QED
      BY <3>3, <3>4, <3>5
  <2>4. ASSUME NEW p \in Patch, ReadScope(p)
        PROVE  ConnTypeOK' /\ ActiveHasAccount'
    <3>1. PICK selected \in (SUBSET conn.scope.known) \ {{}} :
            patch' = [patch EXCEPT ![p] =
                    [pc |-> "write", scope |-> [conn.scope EXCEPT !.selected = selected]]]
      BY <2>4 DEF ReadScope
    <3>2. [conn.scope EXCEPT !.selected = selected] \in Scope
      BY DEF Conn, Scope
    <3>3. UNCHANGED <<cloud, conn, secret, grants, complete, delete, rescan>>
      BY <2>4 DEF ReadScope
    <3> QED
      BY <3>1, <3>2, <3>3
  <2>5. ASSUME NEW p \in Patch, WriteScope(p)
        PROVE  ConnTypeOK' /\ ActiveHasAccount'
    <3>1. [conn EXCEPT !.scope = patch[p].scope] \in Conn
          /\ [conn EXCEPT !.scope = patch[p].scope].status = conn.status
          /\ [conn EXCEPT !.scope = patch[p].scope].acct = conn.acct
      BY DEF Conn
    <3>2. conn' \in {conn, [conn EXCEPT !.scope = patch[p].scope]}
      BY <2>5 DEF WriteScope, UpdateConn
    <3>3. patch' \in [Patch -> [pc : {"idle", "write", "over"}, scope : Scope]]
      BY <2>5 DEF WriteScope
    <3> QED
      BY <2>5, <3>1, <3>2, <3>3 DEF WriteScope
  <2>6. ASSUME NEW d \in Delete, ReadStatus(d) \/ DeleteSecret(d)
        PROVE  ConnTypeOK' /\ ActiveHasAccount'
    BY <1>1, <2>6 DEF ReadStatus, DeleteSecret
  <2>7. ASSUME NEW d \in Delete, Revoke(d) \/ DeleteRow(d)
        PROVE  ConnTypeOK' /\ ActiveHasAccount'
    <3>1. \A s \in {"revoked", "deleted"} :
            [conn EXCEPT !.status = s] \in Conn /\ [conn EXCEPT !.status = s].status = s
      BY DEF Conn, Here
    <3>2. conn' = conn \/ \E s \in {"revoked", "deleted"} : conn' = [conn EXCEPT !.status = s]
      BY <2>7 DEF Revoke, DeleteRow, UpdateConn
    <3> QED
      BY <2>7, <3>1, <3>2 DEF Revoke, DeleteRow
  <2> QED
    BY <2>1, <2>2, <2>3, <2>4, <2>5, <2>6, <2>7
<1> QED
  BY <1>2, <1>3

\* A scan that begins knows what is there; one that completes has covered it.
LEMMA ScanKeeps ==
  ASSUME ConnInv, NEW r \in Rescan,
         \/ ReadConn(r) \/ StartTask(r) \/ ListTargets(r) \/ Discover(r)
         \/ RunUnits(r) \/ ScanFails(r)
  PROVE  ConnInv'
<1> USE DEF ConnInv, ConnTypeOK
<1>1. UNCHANGED <<cloud, secret, grants, complete, patch, delete>>
  BY DEF ReadConn, StartTask, ListTargets, Discover, RunUnits, ScanFails
<1>2. rescan[r] \in Scan /\ rescan[r].want \subseteq Sub
  BY DEF Scan
<1>3. ASSUME NEW x \in Scan, rescan' = [rescan EXCEPT ![r] = x],
             x.pc \in {"probing", "scanning", "completed"} => x.want # {},
             x.pc = "completed" => \A s \in x.want : s \in x.clean \/ x.probe[s] = "empty",
             conn' \in Conn, conn'.status = conn.status, conn'.acct = conn.acct
      PROVE  ConnInv'
  <2>1. ConnTypeOK' /\ ActiveHasAccount'
    BY <1>1, <1>3 DEF ActiveHasAccount
  <2>2. rescan'[r] = x /\ \A q \in Rescan \ {r} : rescan'[q] = rescan[q]
    BY <1>3
  <2>3. TargetsKnown' /\ CompletedCovers'
    BY <1>3, <2>2 DEF TargetsKnown, CompletedCovers
  <2> QED
    BY <2>1, <2>3
<1>4. CASE ReadConn(r)
  <2>1. Chosen \subseteq Sub
    <3>1. CASE cloud = "project"
      <4>1. Reported[conn.acct] # {} /\ Reported[conn.acct] \subseteq Sub
        BY <1>4, ConnectionAssumption DEF ReadConn, ActiveHasAccount, ConnectionAssumption
      <4>2. (CHOOSE s \in Reported[conn.acct] : TRUE) \in Reported[conn.acct]
        BY <4>1
      <4> QED
        BY <3>1, <4>1, <4>2 DEF Chosen
    <3>2. CASE cloud # "project"
      <4>1. conn.scope.selected \subseteq Sub /\ conn.scope.known \subseteq Sub
        BY DEF Conn, Scope
      <4> QED
        BY <3>2, <4>1 DEF Chosen
    <3> QED
      BY <3>1, <3>2
  <2> DEFINE x == [rescan[r] EXCEPT !.pc = "read", !.want = Chosen]
  <2>2. x \in Scan /\ x.pc = "read"
    BY <1>2, <2>1 DEF Scan
  <2>3. rescan' = [rescan EXCEPT ![r] = x] /\ conn' = conn
    BY <1>4 DEF ReadConn
  <2> HIDE DEF x
  <2> QED
    BY <1>3, <2>2, <2>3
<1>5. CASE StartTask(r)
  <2>1. PICK pc \in {"over", "started", "queued", "failed"} :
             rescan' = [rescan EXCEPT ![r].pc = pc]
    BY <1>5 DEF StartTask
  <2> DEFINE x == [rescan[r] EXCEPT !.pc = pc]
  <2>2. x \in Scan /\ x.pc = pc
    BY <1>2 DEF Scan, Scanning
  <2>3. rescan' = [rescan EXCEPT ![r] = x] /\ conn' = conn
    BY <1>5, <2>1 DEF StartTask
  <2> HIDE DEF x
  <2> QED
    BY <1>3, <2>2, <2>3
<1>6. CASE ListTargets(r)
  <2>1. PICK seen \in SUBSET Sub :
        /\ conn' \in
             CASE seen = {} \/ cloud = "project" \/ conn.status \notin Here -> {conn}
               [] cloud = "azure" -> {conn, [conn EXCEPT !.scope.names = seen]}
               [] cloud = "org" -> {conn, [conn EXCEPT !.scope.known = seen]}
        /\ LET want == IF cloud = "org" /\ rescan[r].want = {} THEN seen ELSE rescan[r].want
           IN  rescan' = [rescan EXCEPT ![r].want = want,
                                        ![r].pc = IF want = {} THEN "failed" ELSE "probing"]
    BY <1>6 DEF ListTargets
  <2> DEFINE want == IF cloud = "org" /\ rescan[r].want = {} THEN seen ELSE rescan[r].want
             x == [rescan[r] EXCEPT !.want = want, !.pc = IF want = {} THEN "failed" ELSE "probing"]
  <2>2. want \subseteq Sub
    BY <1>2
  <2>3. rescan' = [rescan EXCEPT ![r] = x]
    BY <2>1
  <2>4. x \in Scan /\ x.pc \in {"failed", "probing"} /\ (x.pc = "probing" => x.want # {})
    <3> HIDE DEF want
    <3> QED
      BY <1>2, <2>2 DEF Scan, Scanning
  <2>5. conn' \in {conn, [conn EXCEPT !.scope.names = seen], [conn EXCEPT !.scope.known = seen]}
    BY <1>6, <2>1 DEF ListTargets
  <2>6. conn' \in Conn /\ conn'.status = conn.status /\ conn'.acct = conn.acct
    BY <2>5 DEF Conn, Scope
  <2> HIDE DEF x
  <2> QED
    BY <1>3, <2>3, <2>4, <2>6
<1>7. CASE Discover(r)
  <2>1. PICK outcome \in [rescan[r].want -> Outcome] :
        rescan' = [rescan EXCEPT ![r].pc = "scanning",
                     ![r].probe = [s \in Sub |-> IF s \in rescan[r].want THEN outcome[s] ELSE None]]
    BY <1>7 DEF Discover
  <2> DEFINE probe == [s \in Sub |-> IF s \in rescan[r].want THEN outcome[s] ELSE None]
             x == [rescan[r] EXCEPT !.pc = "scanning", !.probe = probe]
  <2>2. probe \in [Sub -> Outcome \cup {None}]
    OBVIOUS
  <2>3. rescan' = [rescan EXCEPT ![r] = x] /\ conn' = conn
    BY <1>7, <2>1 DEF Discover
  <2>4. x \in Scan /\ x.pc = "scanning" /\ x.want = rescan[r].want
    <3> HIDE DEF probe
    <3> QED
      BY <1>2, <2>2 DEF Scan, Scanning
  <2>5. rescan[r].want # {}
    BY <1>7 DEF Discover, TargetsKnown
  <2> HIDE DEF x
  <2> QED
    BY <1>3, <2>3, <2>4, <2>5
<1>8. CASE RunUnits(r)
  <2> DEFINE scannable == {s \in rescan[r].want : Classify(rescan[r].probe[s]) # "empty"}
  <2>1. PICK clean \in SUBSET scannable :
          rescan' = [rescan EXCEPT ![r].clean = clean,
                          ![r].pc = IF clean = scannable THEN "completed" ELSE "partial"]
    BY <1>8 DEF RunUnits
  <2> DEFINE x == [rescan[r] EXCEPT !.clean = clean,
                                    !.pc = IF clean = scannable THEN "completed" ELSE "partial"]
  <2>2. rescan' = [rescan EXCEPT ![r] = x] /\ conn' = conn
    BY <1>8, <2>1 DEF RunUnits
  <2>3. scannable \subseteq Sub /\ clean \subseteq Sub
    BY <1>2, <2>1
  <2>4. \A s \in rescan[r].want : s \in scannable \/ rescan[r].probe[s] = "empty"
    BY DEF Classify
  <2>5. rescan[r].want # {}
    BY <1>8 DEF RunUnits, TargetsKnown
  <2>6. /\ x \in Scan /\ x.want = rescan[r].want /\ x.probe = rescan[r].probe /\ x.clean = clean
        /\ x.pc = "completed" => clean = scannable
    <3> HIDE DEF scannable
    <3> QED
      BY <1>2, <2>3 DEF Scan
  <2> HIDE DEF x, scannable
  <2> QED
    BY <1>3, <2>2, <2>4, <2>5, <2>6
<1>9. CASE ScanFails(r)
  <2> DEFINE x == [rescan[r] EXCEPT !.pc = "failed"]
  <2>1. rescan' = [rescan EXCEPT ![r] = x] /\ conn' = conn
    BY <1>9 DEF ScanFails
  <2>2. x \in Scan /\ x.pc = "failed"
    BY <1>2 DEF Scan
  <2> HIDE DEF x
  <2> QED
    BY <1>3, <2>1, <2>2
<1> QED
  BY <1>4, <1>5, <1>6, <1>7, <1>8, <1>9

\* Every step keeps the invariant.
LEMMA ConnInvNext == ConnInv /\ [ConnNext]_connVars => ConnInv'
<1>1. ConnInv /\ UNCHANGED connVars => ConnInv'
  BY DEF connVars, ConnInv, ConnTypeOK, ActiveHasAccount, TargetsKnown, CompletedCovers
<1> QED
  BY <1>1, HandlerKeeps, ScanKeeps DEF ConnNext

\* The connection, its handlers and its scans have their types.
THEOREM ConnTypeCorrect == ConnSpec => []ConnTypeOK
<1>1. ConnInv => ConnTypeOK
  BY DEF ConnInv
<1> QED
  BY <1>1, ConnInvInit, ConnInvNext, PTL DEF ConnSpec

\* A scan that says completed had targets and covered each (the anti-blind-spot
\* invariant of subscription_discovery), whatever was reported, selected,
\* renamed or deleted while it ran.
THEOREM CompletedCoversAlways == ConnSpec => []CompletedCovers
<1>1. ConnInv => CompletedCovers
  BY DEF ConnInv
<1> QED
  BY <1>1, ConnInvInit, ConnInvNext, PTL DEF ConnSpec

-----------------------------------------------------------------------------
(* The account: what a scan that is called completed has seen.             *)

Planned == {"planned", "first_signal", "commit_first", "crown_jewel", "full", "commit", "finish"}

\* The customer only adds: what a region held when the scan began it holds, or more.
OnlyGrows ==
    /\ AtStage("idle") => before = footprint
    /\ \A r \in Region :
        /\ before[r] # "disabled" => footprint[r] # "disabled"
        /\ before[r] \notin {"disabled", "empty"} => footprint[r] \notin {"disabled", "empty"}
        /\ before[r] = "active" => footprint[r] = "active"

\* The scope is found once, and a region that held a workload of a probed kind is
\* never classified as idle.
ScopeFound ==
    /\ AtStage("probing") => method = "footprint_probe"
    /\ stage \in Planned => method # "none"
    /\ stage \in {"probing"} \cup Planned =>
        /\ method = "footprint_probe" => {r \in Region : before[r] # "disabled"} \subseteq InScope
        /\ method # "explicit_override" =>
             \A r \in InScope : before[r] = "active" => states[r] \in {"listed", "active", "unknown"}
    /\ stage \in Planned => \A r \in Region : states[r] # "listed"

\* Where the handler is it is at its tier, and every unit of the phases behind it
\* ran or counts as a gap.
Accounted(u) == u[2] \in coverage[u[1]].run \cup coverage[u[1]].errors
PhasesRan ==
    /\ stage \in {"idle", "probing", "over"} \cup Planned
    /\ stage \in {"first_signal", "commit_first", "crown_jewel"} => tier = "quick"
    /\ AtStage("full") => MediumUp
    /\ stage \in {"commit_first", "crown_jewel", "commit", "finish"} =>
         \A u \in GlobalUnits : Accounted(u)
    /\ stage \in {"commit", "finish"} => \A u \in RegionUnits : Accounted(u)
    /\ AtStage("finish") => emitted \subseteq committed
    /\ stage # "over" => final = "none"

\* The buckets of the coverage map are records.
CoverageShape ==
    coverage = [b \in Bucket |-> [run |-> coverage[b].run, skipped |-> coverage[b].skipped,
                                  errors |-> coverage[b].errors]]

\* The edge of what lies in a bucket.
Below1(b, k) == Edge(Account, "contains", <<b, k>>)

\* What ran has emitted the edges of what was there when the scan began.
SeenGlobal ==
    /\ "enum_iam" \in coverage["global"].run =>
         {Below1("global", "role"), Below1("global", "user")} \subseteq emitted
    /\ "enum_s3" \in coverage["global"].run => Below1("global", "bucket") \in emitted
SeenNetwork ==
    \A r \in Region : "enum_network" \in coverage[r].run /\ before[r] \notin {"disabled", "empty"} =>
        {Below1(r, "vpc"), Edge(<<r, "vpc">>, "contains", <<r, "subnet">>),
         Edge(<<r, "vpc">>, "contains", <<r, "security_group">>)} \subseteq emitted
SeenCompute ==
    \A r \in Region : "enum_compute" \in coverage[r].run /\ before[r] = "active" =>
        {Below1(r, "instance"), Below1(r, "function")} \subseteq emitted
SeenServices ==
    \A r \in Region : "coverage" \in coverage[r].run /\ before[r] = "active" =>
        \A c \in Collector : <<r, c>> \in silent \/ Below1(r, c) \in emitted
Seen == SeenGlobal /\ SeenNetwork /\ SeenCompute /\ SeenServices

AwsInv ==
    /\ AwsTypeOK /\ OnlyGrows /\ ScopeFound /\ PhasesRan /\ CoverageShape /\ Seen
    /\ NothingMissed

\* No scan has begun.
LEMMA AwsInvInit == AwsInit => AwsInv
<1> SUFFICES ASSUME AwsInit PROVE AwsInv
  OBVIOUS
<1>1. \A b \in Bucket : coverage[b].run = {} /\ coverage[b].errors = {}
  BY DEF AwsInit
<1>2. AwsTypeOK /\ OnlyGrows /\ ScopeFound /\ PhasesRan
  BY DEF AwsInit, AwsTypeOK, OnlyGrows, ScopeFound, PhasesRan, AtStage, InScope, Planned
<1>3. CoverageShape
  BY DEF AwsInit, CoverageShape
<1>4. Seen
  BY <1>1 DEF Seen, SeenGlobal, SeenNetwork, SeenCompute, SeenServices, Bucket
<1>5. NothingMissed
  BY DEF AwsInit, NothingMissed, NoBlindSpot, InventoryReached
<1> QED
  BY <1>2, <1>3, <1>4, <1>5 DEF AwsInv

\* A step that ends nothing as completed misses nothing.
LEMMA NotCompleted == ASSUME final' # "completed" PROVE NothingMissed'
  BY DEF NothingMissed, NoBlindSpot, InventoryReached

\* The customer's changes.
LEMMA DeployKeeps == ASSUME AwsInv, NEW r \in Region, Deploy(r) PROVE AwsInv'
<1> USE DEF AwsInv
<1>1. UNCHANGED <<before, stage, tier, method, states, silent, coverage, emitted, committed, final>>
      /\ stage \notin {"idle", "over"}
  BY DEF Deploy
<1>2. footprint' \in [Region -> Holding] /\ OnlyGrows'
  BY <1>1 DEF Deploy, AwsTypeOK, OnlyGrows, Holding, AtStage
<1>3. AwsTypeOK'
  BY <1>1, <1>2 DEF AwsTypeOK
<1>4. ScopeFound'
  BY <1>1 DEF ScopeFound, InScope, AtStage
<1>5. PhasesRan'
  BY <1>1 DEF PhasesRan, Accounted, GlobalUnits, RegionUnits, InScope, FullDepth, MediumUp, AtStage
<1>6. CoverageShape' /\ Seen'
  BY <1>1 DEF CoverageShape, Seen, SeenGlobal, SeenNetwork, SeenCompute, SeenServices
<1>7. NothingMissed'
  BY <1>1, NotCompleted DEF PhasesRan
<1> QED
  BY <1>2, <1>3, <1>4, <1>5, <1>6, <1>7

\* A step before the first unit runs.
LEMMA BeforeUnits ==
  ASSUME AwsInv, UNCHANGED Discovery, before' = before, stage \in {"idle", "probing", "planned"},
         stage' \in {"probing", "planned"} \cup {IF MediumUp THEN "full" ELSE "first_signal"},
         method' \in {"explicit_override", "footprint_probe", "degraded_default"},
         states' \in [Region -> {"none", "listed", "active", "default_only", "empty", "unknown"}],
         ScopeFound'
  PROVE  AwsInv'
<1> USE DEF AwsInv, Discovery
<1>1. AwsTypeOK'
  BY DEF AwsTypeOK
<1>2. OnlyGrows'
  BY DEF OnlyGrows, AtStage
<1>3. PhasesRan'
  <2>1. tier' = tier /\ final' = "none" /\ (tier = "quick" \/ tier = "medium")
    BY DEF PhasesRan, AwsTypeOK, Tier
  <2> QED
    BY <2>1 DEF PhasesRan, MediumUp, AtStage, Planned
<1>4. CoverageShape' /\ Seen'
  BY DEF CoverageShape, Seen, SeenGlobal, SeenNetwork, SeenCompute, SeenServices
<1>5. NothingMissed'
  BY NotCompleted DEF PhasesRan
<1> QED
  BY <1>1, <1>2, <1>3, <1>4, <1>5

\* The regions are given, listed or taken from the default set.
LEMMA ListRegionsKeeps == ASSUME AwsInv, ListRegions PROVE AwsInv'
<1>1. UNCHANGED Discovery /\ before' = before /\ before' = footprint /\ stage = "idle"
  BY DEF AwsInv, ListRegions, OnlyGrows, AtStage
<1>2. CASE /\ method' = "explicit_override" /\ GoTo("planned")
           /\ \E given \in (SUBSET Region) \ {{}} :
                states' = [r \in Region |-> IF r \in given THEN "active" ELSE "none"]
  <2>1. states' \in [Region -> {"none", "active"}]
    BY <1>2
  <2>2. ScopeFound'
    BY <1>2, <2>1 DEF ScopeFound, InScope, GoTo, AtStage
  <2> QED
    BY <1>1, <1>2, <2>1, <2>2, BeforeUnits DEF GoTo
<1>3. CASE /\ method' = "footprint_probe" /\ GoTo("probing")
           /\ states' = [r \in Region |-> IF r \in Enabled THEN "listed" ELSE "none"]
  <2>1. states' \in [Region -> {"none", "listed"}]
    BY <1>3
  <2>2. ScopeFound'
    BY <1>1, <1>3 DEF ScopeFound, InScope, GoTo, AtStage, Enabled, Planned
  <2> QED
    BY <1>1, <1>3, <2>1, <2>2, BeforeUnits DEF GoTo
<1>4. CASE /\ method' = "degraded_default" /\ GoTo("planned")
           /\ states' = [r \in Region |-> IF r \in DegradedDefault THEN "unknown" ELSE "none"]
  <2>1. states' \in [Region -> {"none", "unknown"}]
    BY <1>4
  <2>2. ScopeFound'
    BY <1>4, <2>1 DEF ScopeFound, InScope, GoTo, AtStage
  <2> QED
    BY <1>1, <1>4, <2>1, <2>2, BeforeUnits DEF GoTo
<1> QED
  BY <1>2, <1>3, <1>4 DEF ListRegions

\* A region is probed: one that held a workload of a probed kind when the scan
\* began holds it still.
LEMMA ProbeRegionKeeps == ASSUME AwsInv, NEW r \in Region, ProbeRegion(r) PROVE AwsInv'
<1>1. /\ UNCHANGED <<before, stage, method, Discovery>> /\ stage = "probing" /\ states[r] = "listed"
      /\ method = "footprint_probe"
  BY DEF AwsInv, ProbeRegion, ScopeFound, AtStage
<1>2. PICK s \in {"active", "default_only", "empty", "unknown"} :
        /\ states' = [states EXCEPT ![r] = s]
        /\ before[r] = "active" => s \in {"active", "unknown"}
  BY DEF ProbeRegion, Probed, ClassifyRegion, AwsInv, OnlyGrows
<1>3. /\ states' \in [Region -> {"none", "listed", "active", "default_only", "empty", "unknown"}]
      /\ states'[r] = s /\ \A q \in Region \ {r} : states'[q] = states[q]
  BY <1>2 DEF AwsInv, AwsTypeOK
<1>4. InScope' = InScope
  BY <1>1, <1>2, <1>3 DEF InScope
<1>5. ScopeFound'
  BY <1>1, <1>2, <1>3, <1>4 DEF AwsInv, ScopeFound, AtStage, Planned
<1> QED
  BY <1>1, <1>3, <1>5, BeforeUnits

\* The probes are in, and the plan is made.
LEMMA PlanKeeps == ASSUME AwsInv, DiscoverRegions \/ BuildScanPlan PROVE AwsInv'
<1>1. /\ UNCHANGED <<before, method, states, Discovery>>
      /\ stage \in {"probing", "planned"}
      /\ stage' \in {"planned"} \cup {IF MediumUp THEN "full" ELSE "first_signal"}
  BY DEF DiscoverRegions, BuildScanPlan, AtStage, GoTo
<1>2. \A r \in Region : states[r] # "listed"
  BY DEF DiscoverRegions, BuildScanPlan, AwsInv, ScopeFound, AtStage, Planned
<1>3. method \in {"explicit_override", "footprint_probe", "degraded_default"}
  BY <1>1 DEF AwsInv, AwsTypeOK, ScopeFound, Planned, AtStage
<1>4. ScopeFound'
  BY <1>1, <1>2 DEF AwsInv, ScopeFound, InScope, AtStage, Planned
<1>5. states \in [Region -> {"none", "listed", "active", "default_only", "empty", "unknown"}]
  BY DEF AwsInv, AwsTypeOK
<1> QED
  BY <1>1, <1>3, <1>4, <1>5, BeforeUnits

\* The units of a phase are pairs of a bucket and a module.
LEMMA UnitPairs ==
  ASSUME NEW u \in Phase
  PROVE  u = <<u[1], u[2]>> /\ u[1] \in Bucket
<1>1. u \in GlobalUnits \cup RegionUnits
  BY DEF Phase
<1> QED
  BY <1>1 DEF GlobalUnits, RegionUnits, Bucket, InScope, FullDepth

\* What a phase leaves in the coverage map.
LEMMA AbsorbRun ==
  ASSUME CoverageShape, NEW ran, NEW failed, coverage' = Absorb(ran, failed)
  PROVE  /\ DOMAIN coverage' = Bucket /\ CoverageShape'
         /\ \A b \in Bucket :
              /\ coverage'[b].run = coverage[b].run \cup {u[2] : u \in {v \in ran : v[1] = b}}
              /\ coverage'[b].errors = coverage[b].errors \cup {u[2] : u \in {v \in failed : v[1] = b}}
<1> DEFINE R(b) == coverage[b].run \cup {u[2] : u \in {v \in ran : v[1] = b}}
           F(b) == coverage[b].errors \cup {u[2] : u \in {v \in failed : v[1] = b}}
<1>1. coverage' = [b \in Bucket |-> [coverage[b] EXCEPT !.run = R(b), !.errors = F(b)]]
  BY DEF Absorb
<1> HIDE DEF R, F
<1>2. \A b \in Bucket : coverage[b] = [run |-> coverage[b].run, skipped |-> coverage[b].skipped,
                                       errors |-> coverage[b].errors]
  BY DEF CoverageShape
<1>3. \A b \in Bucket :
        coverage'[b] = [run |-> R(b), skipped |-> coverage[b].skipped, errors |-> F(b)]
  BY <1>1, <1>2
<1>4. \A b \in Bucket : /\ coverage'[b].run = R(b) /\ coverage'[b].errors = F(b)
                        /\ coverage'[b].skipped = coverage[b].skipped
  <2> TAKE b \in Bucket
  <2> DEFINE c == coverage'[b]
             s == coverage[b].skipped
             ran1 == R(b)
             failed1 == F(b)
  <2>1. c = [run |-> ran1, skipped |-> s, errors |-> failed1]
    BY <1>3
  <2> HIDE DEF c, s, ran1, failed1
  <2>2. c.run = ran1 /\ c.errors = failed1 /\ c.skipped = s
    BY <2>1
  <2> QED
    BY <2>2 DEF c, s, ran1, failed1
<1>5. coverage' = [b \in Bucket |-> [run |-> R(b), skipped |-> coverage[b].skipped, errors |-> F(b)]]
  BY <1>1, <1>2
<1>6. CoverageShape'
  BY <1>4, <1>5 DEF CoverageShape
<1> QED
  BY <1>1, <1>4, <1>6 DEF R, F

\* The units of a phase: each runs or fails, and what ran has seen what there was.
LEMMA RunUnitsKeeps == ASSUME AwsInv, RunAccountUnits PROVE AwsInv'
<1>1. PICK failed \in SUBSET Phase : \E calls :
        /\ coverage' = Absorb(Phase \ failed, failed)
        /\ silent' = silent \cup calls
        /\ emitted' = emitted \cup UNION {Emits(u, calls) : u \in Phase \ failed}
  <2>1. UpTo(Phase) \subseteq SUBSET Phase
    BY DEF UpTo, kSubset
  <2>2. \E failed \in UpTo(Phase) : \E calls :
        /\ coverage' = Absorb(Phase \ failed, failed)
        /\ silent' = silent \cup calls
        /\ emitted' = emitted \cup UNION {Emits(u, calls) : u \in Phase \ failed}
    BY DEF RunAccountUnits
  <2> QED
    BY <2>1, <2>2
<1>2. PICK calls :
        /\ coverage' = Absorb(Phase \ failed, failed)
        /\ silent' = silent \cup calls
        /\ emitted' = emitted \cup UNION {Emits(u, calls) : u \in Phase \ failed}
  BY <1>1
<1>3. /\ UNCHANGED <<footprint, before, tier, method, states, committed, final>>
      /\ \/ stage = "first_signal" /\ stage' = "commit_first"
         \/ stage \in {"crown_jewel", "full"} /\ stage' = "commit"
  BY DEF RunAccountUnits, AtStage, GoTo
<1>4. /\ DOMAIN coverage' = Bucket /\ CoverageShape'
      /\ \A b \in Bucket :
           /\ coverage'[b].run = coverage[b].run \cup {u[2] : u \in {v \in Phase \ failed : v[1] = b}}
           /\ coverage'[b].errors = coverage[b].errors \cup {u[2] : u \in {v \in failed : v[1] = b}}
  BY <1>2, AbsorbRun DEF AwsInv
<1>5. \A u \in Phase \ failed : Emits(u, calls) \subseteq emitted'
  BY <1>2
<1>6. \A m : \A b \in Bucket : m \in coverage'[b].run =>
        m \in coverage[b].run \/ (<<b, m>> \in Phase \ failed /\ Emits(<<b, m>>, calls) \subseteq emitted')
  <2> SUFFICES ASSUME NEW b \in Bucket, NEW m, m \in coverage'[b].run, m \notin coverage[b].run
               PROVE  <<b, m>> \in Phase \ failed
    BY <1>5
  <2>1. PICK u \in Phase \ failed : u[1] = b /\ u[2] = m
    BY <1>4
  <2> QED
    BY <2>1, UnitPairs
<1>7. emitted \subseteq emitted' /\ silent \subseteq silent' /\ calls \subseteq silent'
  BY <1>2
<1>8. AwsTypeOK'
  BY <1>3, <1>4, <1>7 DEF AwsInv, AwsTypeOK
<1>9. OnlyGrows'
  BY <1>3 DEF AwsInv, OnlyGrows, AtStage
<1>10. ScopeFound'
  BY <1>3 DEF AwsInv, ScopeFound, AtStage, InScope, Planned
<1>11. PhasesRan'
  <2>1. \A u : Accounted(u) /\ u[1] \in Bucket => Accounted(u)'
    BY <1>4 DEF Accounted
  <2>2. \A u \in Phase : Accounted(u)'
    BY <1>4, UnitPairs DEF Accounted
  <2>3. UNCHANGED <<GlobalUnits, RegionUnits, MediumUp>>
    BY <1>3 DEF GlobalUnits, RegionUnits, MediumUp, InScope, FullDepth
  <2>4. CASE stage = "first_signal" /\ stage' = "commit_first"
    <3>1. Phase = GlobalUnits
      BY <2>4 DEF Phase, AtStage
    <3> QED
      BY <1>3, <2>2, <2>3, <2>4, <3>1 DEF AwsInv, PhasesRan, AtStage, Planned
  <2>5. CASE stage \in {"crown_jewel", "full"} /\ stage' = "commit"
    <3>1. \A u \in GlobalUnits \cup RegionUnits : Accounted(u)'
      <4>1. CASE stage = "crown_jewel"
        <5>1. Phase = RegionUnits
          BY <4>1 DEF Phase, AtStage
        <5>2. \A u \in GlobalUnits : Accounted(u) /\ u[1] \in Bucket
          BY <4>1 DEF AwsInv, PhasesRan, GlobalUnits, Bucket
        <5> QED
          BY <2>1, <2>2, <5>1, <5>2
      <4>2. CASE stage = "full"
        <5>1. Phase = GlobalUnits \cup RegionUnits
          BY <4>2 DEF Phase, AtStage
        <5> QED
          BY <2>2, <5>1
      <4> QED
        BY <2>5, <4>1, <4>2
    <3> QED
      BY <1>3, <2>3, <2>5, <3>1 DEF AwsInv, PhasesRan, AtStage, Planned
  <2> QED
    BY <1>3, <2>4, <2>5
<1>12. SeenGlobal'
  <2>1. <<"global", "enum_iam">> \in Phase /\ Emits(<<"global", "enum_iam">>, calls) \subseteq emitted'
          => {Below1("global", "role"), Below1("global", "user")} \subseteq emitted'
    BY DEF Emits, EnumerateIam, Contained, Kinds, Below1
  <2>2. <<"global", "enum_s3">> \in Phase /\ Emits(<<"global", "enum_s3">>, calls) \subseteq emitted'
          => Below1("global", "bucket") \in emitted'
    BY DEF Emits, EnumerateStorage, Contained, Kinds, Below1
  <2>3. "global" \in Bucket
    BY DEF Bucket
  <2> QED
    BY <1>6, <1>7, <2>1, <2>2, <2>3 DEF AwsInv, Seen, SeenGlobal, Below1, Edge, Account
<1>13. SeenNetwork'
  <2> SUFFICES ASSUME NEW r \in Region, "enum_network" \in coverage'[r].run,
                      before[r] \notin {"disabled", "empty"}
               PROVE  {Below1(r, "vpc"), Edge(<<r, "vpc">>, "contains", <<r, "subnet">>),
                       Edge(<<r, "vpc">>, "contains", <<r, "security_group">>)} \subseteq emitted'
    BY <1>3 DEF SeenNetwork, Below1, Edge, Account
  <2>1. r \in Bucket /\ r # "global"
    BY AwsAssumption DEF Bucket, AwsAssumption
  <2>2. footprint[r] \in {"default_only", "unprobed", "active"}
    BY DEF AwsInv, OnlyGrows, AwsTypeOK, Holding
  <2>3. Network \subseteq Kinds(r)
    BY <2>1, <2>2 DEF Kinds
  <2>4. CASE Emits(<<r, "enum_network">>, calls) \subseteq emitted'
    <3>1. EnumerateNetwork(r) \subseteq emitted'
      BY <2>4 DEF Emits
    <3> QED
      BY <2>3, <3>1 DEF EnumerateNetwork, Contained, Network, Below1
  <2>5. CASE "enum_network" \in coverage[r].run
    BY <1>7, <2>5 DEF AwsInv, Seen, SeenNetwork
  <2> QED
    BY <1>6, <2>1, <2>4, <2>5
<1>14. SeenCompute'
  <2> SUFFICES ASSUME NEW r \in Region, "enum_compute" \in coverage'[r].run, before[r] = "active"
               PROVE  {Below1(r, "instance"), Below1(r, "function")} \subseteq emitted'
    BY <1>3 DEF SeenCompute, Below1, Edge, Account
  <2>1. r \in Bucket /\ r # "global"
    BY AwsAssumption DEF Bucket, AwsAssumption
  <2>2. {"instance", "function"} \subseteq Kinds(r)
    BY <2>1 DEF Kinds, AwsInv, OnlyGrows
  <2>3. CASE Emits(<<r, "enum_compute">>, calls) \subseteq emitted'
    <3>1. EnumerateCompute(r) \subseteq emitted'
      BY <2>3 DEF Emits
    <3> QED
      BY <2>2, <3>1 DEF EnumerateCompute, Contained, Below1
  <2>4. CASE "enum_compute" \in coverage[r].run
    BY <1>7, <2>4 DEF AwsInv, Seen, SeenCompute
  <2> QED
    BY <1>6, <2>1, <2>3, <2>4
<1>15. SeenServices'
  <2> SUFFICES ASSUME NEW r \in Region, "coverage" \in coverage'[r].run, before[r] = "active",
                      NEW c \in Collector
               PROVE  <<r, c>> \in silent' \/ Below1(r, c) \in emitted'
    BY <1>3 DEF SeenServices, Below1, Edge, Account
  <2>1. r \in Bucket /\ r # "global"
    BY AwsAssumption DEF Bucket, AwsAssumption
  <2>2. Collector \subseteq Kinds(r)
    BY <2>1 DEF Kinds, AwsInv, OnlyGrows
  <2>3. CASE Emits(<<r, "coverage">>, calls) \subseteq emitted'
    <3>1. RunCoverage(r, calls) \subseteq emitted'
      BY <2>3 DEF Emits
    <3> QED
      BY <1>7, <2>2, <3>1 DEF RunCoverage, Contained, Below1
  <2>4. CASE "coverage" \in coverage[r].run
    BY <1>7, <2>4 DEF AwsInv, Seen, SeenServices
  <2> QED
    BY <1>6, <2>1, <2>3, <2>4
<1>16. NothingMissed'
  BY <1>3, NotCompleted DEF AwsInv, PhasesRan
<1> QED
  BY <1>4, <1>8, <1>9, <1>10, <1>11, <1>12, <1>13, <1>14, <1>15, <1>16 DEF AwsInv, Seen

\* The commit takes over what was emitted.
LEMMA CommitScanKeeps == ASSUME AwsInv, CommitScan PROVE AwsInv'
<1>1. /\ UNCHANGED <<before, method, states, footprint, tier, silent, coverage, emitted, final>>
      /\ \/ stage = "commit_first" /\ stage' = "crown_jewel"
         \/ stage = "commit" /\ stage' = "finish"
      /\ committed' = committed \cup emitted
  BY DEF CommitScan, AtStage, GoTo
<1> USE DEF AwsInv
<1>2. AwsTypeOK' /\ OnlyGrows'
  BY <1>1 DEF AwsTypeOK, OnlyGrows, AtStage
<1>3. ScopeFound'
  BY <1>1 DEF ScopeFound, InScope, AtStage, Planned
<1>4. PhasesRan'
  <2>1. UNCHANGED <<GlobalUnits, RegionUnits, MediumUp>> /\ \A u : Accounted(u)' = Accounted(u)
    BY <1>1 DEF GlobalUnits, RegionUnits, MediumUp, InScope, FullDepth, Accounted
  <2> QED
    BY <1>1, <2>1 DEF PhasesRan, AtStage, Planned
<1>5. CoverageShape' /\ Seen'
  BY <1>1 DEF CoverageShape, Seen, SeenGlobal, SeenNetwork, SeenCompute, SeenServices
<1>6. NothingMissed'
  BY <1>1, NotCompleted DEF PhasesRan
<1> QED
  BY <1>2, <1>3, <1>4, <1>5, <1>6

\* The closing status: without a gap everything that was planned ran.
LEMMA FinishKeeps == ASSUME AwsInv, Finish PROVE AwsInv'
<1>1. /\ UNCHANGED <<footprint, before, tier, method, states, silent, coverage, emitted, committed>>
      /\ stage = "finish" /\ stage' = "over"
      /\ final' = IF HadGap THEN "partial" ELSE "completed"
  BY DEF Finish, AtStage, GoTo
<1> USE DEF AwsInv
<1>2. AwsTypeOK' /\ OnlyGrows'
  BY <1>1 DEF AwsTypeOK, OnlyGrows, AtStage
<1>3. ScopeFound' /\ PhasesRan'
  BY <1>1 DEF ScopeFound, PhasesRan, AtStage, Planned
<1>4. CoverageShape' /\ Seen'
  BY <1>1 DEF CoverageShape, Seen, SeenGlobal, SeenNetwork, SeenCompute, SeenServices
<1>5. CASE HadGap
  BY <1>1, <1>2, <1>3, <1>4, <1>5, NotCompleted
<1>6. CASE ~HadGap
  <2>1. /\ \A u \in GlobalUnits : u[2] \in coverage["global"].run
        /\ \A u \in RegionUnits : u[2] \in coverage[u[1]].run
    <3>1. \A u \in GlobalUnits \cup RegionUnits : u[1] \in Bucket /\ (u \in GlobalUnits => u[1] = "global")
      BY DEF GlobalUnits, RegionUnits, Bucket, InScope, FullDepth
    <3>2. \A u \in GlobalUnits \cup RegionUnits : Accounted(u)
      BY <1>1 DEF PhasesRan
    <3> QED
      BY <1>6, <3>1, <3>2 DEF Accounted, HadGap
  <2>2. Ran("global", {"enum_iam", "enum_s3"} \cup GlobalModule)
    <3>1. \A m \in {"enum_iam", "enum_s3"} \cup GlobalModule : <<"global", m>> \in GlobalUnits
      BY DEF GlobalUnits
    <3> QED
      BY <2>1, <3>1 DEF Ran
  <2>3. \A r \in InScope : Ran(r, {"enum_compute", "enum_network", "coverage"})
    <3>1. \A r \in InScope : \A m \in {"enum_compute", "enum_network", "coverage"} :
            <<r, m>> \in RegionUnits
      BY DEF RegionUnits
    <3> QED
      BY <2>1, <3>1 DEF Ran
  <2>4. ASSUME method # "explicit_override", MediumUp, NEW r \in InScope, before[r] = "active"
        PROVE  Ran(r, RegionalModule)
    <3>1. r \in FullDepth
      BY <1>1, <2>4 DEF ScopeFound, FullDepth, InScope, Planned
    <3>2. \A m \in RegionalModule : <<r, m>> \in RegionUnits
      BY <2>4, <3>1 DEF RegionUnits
    <3> QED
      BY <2>1, <3>2 DEF Ran
  <2>5. method = "footprint_probe" => {r \in Region : before[r] # "disabled"} \subseteq InScope
    BY <1>1 DEF ScopeFound, Planned
  <2>6. NoBlindSpot'
    <3>1. InScope' = InScope /\ MediumUp' = MediumUp /\ \A b, m : Ran(b, m)' = Ran(b, m)
      BY <1>1 DEF InScope, MediumUp, Ran
    <3> QED
      BY <1>1, <2>2, <2>3, <2>4, <2>5, <3>1 DEF NoBlindSpot
  <2>7. emitted \subseteq committed
    BY <1>1 DEF PhasesRan, AtStage
  <2>8. \A b, k : Below1(b, k) \in committed => <<b, k>> \in InGraph
    BY DEF Below1, InGraph, Below, Edge
  <2>9. \A b, k : /\ Below1(b, "vpc") \in committed
                  /\ Edge(<<b, "vpc">>, "contains", <<b, k>>) \in committed
                  => <<b, k>> \in InGraph
    <3> SUFFICES ASSUME NEW b, NEW k, Below1(b, "vpc") \in committed,
                        Edge(<<b, "vpc">>, "contains", <<b, k>>) \in committed
                 PROVE  <<b, k>> \in InGraph
      OBVIOUS
    <3>1. <<b, "vpc">> \in Below(Account) /\ <<b, k>> \in Below(<<b, "vpc">>)
      BY DEF Below1, Below, Edge
    <3> QED
      BY <3>1 DEF InGraph
  <2>10. {"global"} \X {"role", "user", "bucket"} \subseteq InGraph
    <3>1. {"enum_iam", "enum_s3"} \subseteq coverage["global"].run
      BY <2>2 DEF Ran
    <3>2. \A k \in {"role", "user", "bucket"} : <<"global", k>> \in InGraph
      BY <2>7, <2>8, <3>1 DEF Seen, SeenGlobal
    <3> QED
      BY <3>2
  <2>11. ASSUME NEW r \in InScope, before[r] \notin {"disabled", "empty"}
         PROVE  {r} \X Network \subseteq InGraph
    <3>1. "enum_network" \in coverage[r].run /\ r \in Region
      BY <2>3 DEF Ran, InScope
    <3>2. \A k \in Network : <<r, k>> \in InGraph
      BY <2>7, <2>8, <2>9, <2>11, <3>1 DEF Seen, SeenNetwork, Network
    <3> QED
      BY <3>2
  <2>12. ASSUME NEW r \in InScope, before[r] = "active"
         PROVE  ({r} \X ({"instance", "function"} \cup Collector)) \ silent \subseteq InGraph
    <3>1. {"enum_compute", "coverage"} \subseteq coverage[r].run /\ r \in Region
      BY <2>3 DEF Ran, InScope
    <3>2. \A k \in {"instance", "function"} : <<r, k>> \in InGraph
      BY <2>7, <2>8, <2>12, <3>1 DEF Seen, SeenCompute
    <3>3. \A k \in Collector : <<r, k>> \in silent \/ <<r, k>> \in InGraph
      BY <2>7, <2>8, <2>12, <3>1 DEF Seen, SeenServices
    <3> QED
      BY <3>2, <3>3
  <2>13. InventoryReached'
    <3>1. InScope' = InScope /\ InGraph' = InGraph
      BY <1>1 DEF InScope, InGraph, Below
    <3> QED
      BY <1>1, <2>10, <2>11, <2>12, <3>1 DEF InventoryReached
  <2> QED
    BY <1>2, <1>3, <1>4, <2>6, <2>13 DEF NothingMissed
<1> QED
  BY <1>5, <1>6

\* A scan that fails is not called completed.
LEMMA AccountScanFailsKeeps == ASSUME AwsInv, AccountScanFails PROVE AwsInv'
<1>1. /\ UNCHANGED <<footprint, before, tier, method, states, silent, coverage, emitted, committed>>
      /\ stage \notin {"idle", "over"} /\ stage' = "over" /\ final' = "failed"
  BY DEF AccountScanFails, GoTo
<1> USE DEF AwsInv
<1>2. AwsTypeOK' /\ OnlyGrows'
  BY <1>1 DEF AwsTypeOK, OnlyGrows, AtStage
<1>3. ScopeFound' /\ PhasesRan'
  BY <1>1 DEF ScopeFound, PhasesRan, AtStage, Planned
<1>4. CoverageShape' /\ Seen'
  BY <1>1 DEF CoverageShape, Seen, SeenGlobal, SeenNetwork, SeenCompute, SeenServices
<1> QED
  BY <1>1, <1>2, <1>3, <1>4, NotCompleted

\* The invariant is inductive: one case per action.
LEMMA AwsInvNext == AwsInv /\ [AwsNext]_awsVars => AwsInv'
<1> SUFFICES ASSUME AwsInv, [AwsNext]_awsVars PROVE AwsInv'
  OBVIOUS
<1>1. CASE ListRegions
  BY <1>1, ListRegionsKeeps
<1>2. CASE DiscoverRegions \/ BuildScanPlan
  BY <1>2, PlanKeeps
<1>3. CASE RunAccountUnits
  BY <1>3, RunUnitsKeeps
<1>4. CASE CommitScan
  BY <1>4, CommitScanKeeps
<1>5. CASE Finish
  BY <1>5, FinishKeeps
<1>6. CASE AccountScanFails
  BY <1>6, AccountScanFailsKeeps
<1>7. CASE \E r \in Region : Deploy(r) \/ ProbeRegion(r)
  BY <1>7, DeployKeeps, ProbeRegionKeeps
<1>8. CASE UNCHANGED awsVars
  <2> USE DEF AwsInv, awsVars
  <2>1. AwsTypeOK' /\ OnlyGrows' /\ CoverageShape' /\ Seen'
    BY <1>8 DEF AwsTypeOK, OnlyGrows, AtStage, CoverageShape, Seen, SeenGlobal, SeenNetwork,
                SeenCompute, SeenServices
  <2>2. ScopeFound'
    BY <1>8 DEF ScopeFound, AtStage, InScope, Planned
  <2>3. PhasesRan'
    BY <1>8 DEF PhasesRan, AtStage, Accounted, GlobalUnits, RegionUnits, MediumUp, InScope,
                FullDepth, Planned
  <2>4. NothingMissed'
    BY <1>8 DEF NothingMissed, NoBlindSpot, InventoryReached, InGraph, Below, InScope, Ran,
                MediumUp
  <2> QED
    BY <2>1, <2>2, <2>3, <2>4
<1> QED
  BY <1>1, <1>2, <1>3, <1>4, <1>5, <1>6, <1>7, <1>8 DEF AwsNext, AwsStep

\* The scan of an account keeps the shape the type invariant gives it.
THEOREM AwsTypeCorrect == AwsSpec => []AwsTypeOK
<1> QED
  BY AwsInvInit, AwsInvNext, PTL DEF AwsSpec, AwsInv

\* Whatever the account holds and the customer adds meanwhile, whichever calls and
\* units fail: a scan that app.main closes as completed swept what it should, and
\* what was there when it began is found from the account in its inventory.
THEOREM NothingMissedAlways == AwsSpec => []NothingMissed
<1> QED
  BY AwsInvInit, AwsInvNext, PTL DEF AwsSpec, AwsInv

-----------------------------------------------------------------------------
(* The vendors: OAuth flows, refreshes and disconnections.                 *)

\* The advisory lock belongs to the call whose transaction is open.
LockHeld ==
    \A c \in Call : call[c].pc \in InTxn => lock = c

\* A pair has been handed out; one that a callback is about to store is new to
\* the vendor, to the row and to every transaction.
PairsKnown ==
    /\ spent \subseteq 1..minted /\ granted \subseteq 1..minted
    /\ connector.pair \in 0..minted
    /\ granted \cap spent = {} /\ connector.pair \notin granted
    /\ \A c \in Call : call[c].old \in 0..minted /\ call[c].new \in 0..minted
    /\ \A c \in Call : call[c].pc \in InTxn => call[c].old # 0 /\ call[c].old \notin granted
    /\ \A c \in Call : call[c].pc = "rotated" => call[c].new \notin granted

\* What the transaction holds: a pair still good unless its successor was lost,
\* and after the rotation a spent one and its successor.
TxnPairs ==
    \A c \in Call :
        /\ call[c].pc = "locked" /\ call[c].old \in spent => call[c].old \in lost
        /\ call[c].pc = "rotated" => call[c].old \in spent /\ call[c].new \notin spent

McpInv == McpTypeOK /\ LockHeld /\ PairsKnown /\ TxnPairs /\ ConnectorLives

\* Nothing is connected, handed out or under way.
LEMMA McpInvInit == McpInit => McpInv
<1>1. MAX_PAIRS \in Nat \ {0}
  BY ConnectorAssumption DEF ConnectorAssumption
<1> QED
  BY <1>1 DEF McpInit, McpInv, McpTypeOK, LockHeld, PairsKnown, TxnPairs, ConnectorLives,
       RefreshedOnce, StoredIsGood, InTxn, Over, Pair

\* A flow's steps touch the row only with a pair no one else has.
LEMMA FlowKeeps ==
  ASSUME McpInv,
         \/ \E f \in Flow : InitiateSlack(f) \/ StateExpires(f) \/ CallbackSlack(f)
         \/ \E n \in Pair : UpsertConnector(n) \/ CallbackDies(n) \/ Expires(n)
  PROVE  McpInv'
<1>1. MAX_PAIRS \in Nat \ {0}
  BY ConnectorAssumption DEF ConnectorAssumption
<1>2. UNCHANGED <<spent, reused, lost, lock, call, disconnect>>
  BY DEF InitiateSlack, StateExpires, CallbackSlack, UpsertConnector, CallbackDies, Expires,
         vendorVars
<1> USE DEF McpInv, McpTypeOK, Pair
<1>3. minted' \in 0..MAX_PAIRS /\ minted \in Nat /\ minted' \in {minted, minted + 1}
  BY <1>1 DEF InitiateSlack, StateExpires, CallbackSlack, UpsertConnector, CallbackDies, Expires,
         vendorVars
<1>4. \/ granted' \subseteq granted /\ connector' = connector
      \/ /\ granted' = granted \cup {minted + 1} /\ minted' = minted + 1 /\ connector' = connector
      \/ \E n \in granted : /\ granted' = granted \ {n}
                            /\ connector' = [status |-> "active", pair |-> n]
  BY DEF InitiateSlack, StateExpires, CallbackSlack, UpsertConnector, CallbackDies, Expires,
         vendorVars, flowVars
<1>5. McpTypeOK'
  <2>1. expiring' \subseteq Pair
    BY <1>1 DEF InitiateSlack, StateExpires, CallbackSlack, UpsertConnector, CallbackDies, Expires
  <2>2. flow' \in [Flow -> {"idle", "open", "over"}] /\ verifiers' \subseteq Flow
    BY DEF InitiateSlack, StateExpires, CallbackSlack, UpsertConnector, CallbackDies, Expires,
           flowVars
  <2>3. granted' \subseteq Pair
    <3>1. minted' = minted + 1 => minted + 1 \in 1..MAX_PAIRS
      BY <1>1, <1>3
    <3> QED
      BY <1>4, <3>1
  <2>4. connector' \in [status : {"none", "active", "revoked"}, pair : 0..MAX_PAIRS]
    BY <1>1, <1>4
  <2> QED
    BY <1>2, <1>3, <2>1, <2>2, <2>3, <2>4
<1>6. LockHeld' /\ TxnPairs'
  BY <1>2 DEF LockHeld, TxnPairs
<1>7. PairsKnown'
  <2> USE DEF PairsKnown
  <2>1. CASE granted' \subseteq granted /\ connector' = connector
    BY <1>1, <1>2, <1>3, <2>1
  <2>2. CASE granted' = granted \cup {minted + 1} /\ minted' = minted + 1 /\ connector' = connector
    BY <1>1, <1>2, <1>3, <2>2
  <2>3. CASE \E n \in granted : /\ granted' = granted \ {n}
                               /\ connector' = [status |-> "active", pair |-> n]
    BY <1>1, <1>2, <1>3, <2>3
  <2> QED
    BY <1>4, <2>1, <2>2, <2>3
<1>8. ConnectorLives'
  <2>1. connector'.pair = connector.pair \/ connector'.pair \in granted
    BY <1>4
  <2>2. connector'.pair \in granted => connector'.pair \notin spent
    BY DEF PairsKnown
  <2> QED
    BY <1>2, <2>1, <2>2 DEF ConnectorLives, RefreshedOnce, StoredIsGood
<1> QED
  BY <1>5, <1>6, <1>7, <1>8

\* Where a call does no more than look, or wait in vain.
LEMMA IdleCallKeeps ==
  ASSUME McpInv, NEW c \in Call,
         \/ LookUp(c) \/ LockTimesOut(c) \/ \E old \in Pair : LockAndReread(c, old)
  PROVE  McpInv'
<1> USE DEF McpInv, McpTypeOK, Pair
<1>1. UNCHANGED <<connector, vendorVars, expiring, flowVars, disconnect>>
      /\ call[c].pc \in {"idle", "waiting"}
  BY DEF LookUp, LockTimesOut, LockAndReread
<1>2. CASE \E pc \in {"missing", "waiting", "served", "failed"} :
             call' = [call EXCEPT ![c].pc = pc] /\ lock' = lock
  <2>1. PICK pc \in {"missing", "waiting", "served", "failed"} :
             call' = [call EXCEPT ![c].pc = pc] /\ lock' = lock
    BY <1>2
  <2>2. McpTypeOK'
    BY <1>1, <2>1 DEF vendorVars, flowVars, InTxn, Over
  <2>3. LockHeld' /\ PairsKnown' /\ TxnPairs'
    BY <1>1, <2>1 DEF vendorVars, flowVars, InTxn, Over, LockHeld, PairsKnown, TxnPairs
  <2>4. ConnectorLives'
    BY <1>1, <2>1 DEF vendorVars, ConnectorLives, RefreshedOnce, StoredIsGood
  <2> QED
    BY <2>2, <2>3, <2>4
<1>3. CASE /\ lock = Nobody /\ lock' = c /\ connector.pair \in Pair
           /\ call' = [call EXCEPT ![c].pc = "locked", ![c].old = connector.pair]
  <2>1. \A d \in Call : call[d].pc \notin InTxn
    BY <1>3, ConnectorAssumption DEF ConnectorAssumption, LockHeld
  <2>2. McpTypeOK'
    BY <1>1, <1>3 DEF vendorVars, flowVars, InTxn, Over
  <2>3. /\ call'[c].pc = "locked" /\ call'[c].old = connector.pair /\ call'[c].new = call[c].new
        /\ \A d \in Call \ {c} : call'[d] = call[d]
    BY <1>3
  <2>4. LockHeld'
    BY <1>3, <2>1, <2>3 DEF LockHeld
  <2>5. TxnPairs'
    <3>1. connector.pair \in spent => connector.pair \in lost
      BY <2>1 DEF ConnectorLives, StoredIsGood, InTxn
    <3> QED
      BY <1>1, <2>1, <2>3, <3>1 DEF TxnPairs, InTxn, vendorVars
  <2>6. PairsKnown'
    <3>1. minted' = minted /\ spent' = spent /\ granted' = granted /\ connector' = connector
          /\ connector.pair # 0
      BY <1>1, <1>3, ConnectorAssumption DEF vendorVars, flowVars, ConnectorAssumption
    <3> QED
      BY <2>1, <2>3, <3>1 DEF PairsKnown, InTxn
  <2>7. ConnectorLives'
    BY <1>1, <2>1, <2>3 DEF ConnectorLives, RefreshedOnce, StoredIsGood, InTxn, vendorVars
  <2> QED
    BY <2>2, <2>4, <2>5, <2>6, <2>7
<1> QED
  BY <1>2, <1>3 DEF LookUp, LockTimesOut, LockAndReread, Step

\* The steps of an open transaction: at most this call uses the token it holds.
LEMMA TxnKeeps ==
  ASSUME McpInv, NEW c \in Call,
         \/ Rotate(c) \/ RotateRefused(c) \/ RotateAnswerLost(c) \/ StorePair(c)
         \/ TxnExpires(c) \/ CallDies(c)
  PROVE  McpInv'
<1> USE DEF McpInv, McpTypeOK, Pair, vendorVars, flowVars
<1>1. MAX_PAIRS \in Nat \ {0} /\ Nobody \notin Call
  BY ConnectorAssumption DEF ConnectorAssumption
<1>2. call[c].pc \in InTxn /\ lock = c /\ \A d \in Call \ {c} : call[d].pc \notin InTxn
  BY <1>1 DEF LockHeld, InTxn, Rotate, RotateRefused, RotateAnswerLost, StorePair, TxnExpires,
       CallDies
<1>3. minted \in Nat /\ call[c] \in [pc : {"idle", "waiting"} \cup InTxn \cup Over,
                                    old : 0..MAX_PAIRS, new : 0..MAX_PAIRS]
  BY <1>1
<1>4. CASE Rotate(c)
  <2>1. /\ call[c].pc = "locked" /\ call[c].old \notin spent /\ minted < MAX_PAIRS
        /\ minted' = minted + 1 /\ spent' = spent \cup {call[c].old}
        /\ call' = [call EXCEPT ![c].pc = "rotated", ![c].new = minted + 1]
        /\ UNCHANGED <<connector, reused, lost, expiring, flowVars, lock, disconnect>>
    BY <1>4 DEF Rotate
  <2>2. /\ call'[c].pc = "rotated" /\ call'[c].old = call[c].old /\ call'[c].new = minted + 1
        /\ \A d \in Call \ {c} : call'[d] = call[d]
    BY <2>1
  <2>3. minted + 1 \in 1..MAX_PAIRS
    BY <1>1, <1>3, <2>1
  <2>4. call[c].old \in 1..minted
    BY <1>2, <1>3 DEF PairsKnown
  <2>5. McpTypeOK'
    <3>1. spent' \subseteq Pair /\ minted' \in 0..MAX_PAIRS
      BY <1>1, <1>3, <2>1, <2>3, <2>4
    <3>2. call' \in [Call -> [pc : {"idle", "waiting"} \cup InTxn \cup Over,
                             old : 0..MAX_PAIRS, new : 0..MAX_PAIRS]]
      <4>1. 0..MAX_PAIRS \subseteq Nat /\ minted + 1 \in 0..MAX_PAIRS
        BY <1>1, <2>3
      <4>2. [call[c] EXCEPT !.pc = "rotated", !.new = minted + 1]
              \in [pc : {"idle", "waiting"} \cup InTxn \cup Over,
                  old : 0..MAX_PAIRS, new : 0..MAX_PAIRS]
        BY <1>3, <4>1 DEF InTxn
      <4> QED
        BY <2>1, <4>2
    <3> QED
      BY <2>1, <3>1, <3>2
  <2>6. LockHeld'
    BY <1>2, <2>1, <2>2 DEF LockHeld
  <2>7. PairsKnown'
    BY <1>1, <1>2, <1>3, <2>1, <2>2, <2>4 DEF PairsKnown, InTxn
  <2>8. TxnPairs'
    BY <1>1, <1>2, <1>3, <2>1, <2>2, <2>4 DEF TxnPairs, PairsKnown, InTxn
  <2>9. ConnectorLives'
    BY <1>2, <2>1, <2>2 DEF ConnectorLives, RefreshedOnce, StoredIsGood, InTxn
  <2> QED
    BY <2>5, <2>6, <2>7, <2>8, <2>9
<1>5. ASSUME NEW pc \in Over \cup {"dead"}, call' = [call EXCEPT ![c].pc = pc],
             lock' \in {lock, Nobody}, lock' = lock \/ pc # "dead", pc = "dead" \/ lock' = Nobody,
             minted' = minted, spent' = spent, granted' = granted,
             connector' \in {connector, [connector EXCEPT !.pair = call[c].new]},
             connector' # connector => call[c].pc = "rotated",
             call[c].pc = "rotated" /\ connector'.pair = call[c].old => call[c].old \in lost',
             lost \subseteq lost', lost' \subseteq Pair, reused' \subseteq lost',
             UNCHANGED <<expiring, flow, verifiers, disconnect>>
      PROVE  McpInv'
  <2>1. /\ call'[c].pc = pc /\ call'[c].old = call[c].old /\ call'[c].new = call[c].new
        /\ \A d \in Call \ {c} : call'[d] = call[d]
        /\ pc # "locked" /\ pc # "rotated" /\ (pc \in InTxn => lock' = lock)
    BY <1>5 DEF InTxn, Over
  <2>2. McpTypeOK'
    <3>1. connector' \in [status : {"none", "active", "revoked"}, pair : 0..MAX_PAIRS]
      BY <1>3, <1>5
    <3>2. call' \in [Call -> [pc : {"idle", "waiting"} \cup InTxn \cup Over,
                             old : 0..MAX_PAIRS, new : 0..MAX_PAIRS]]
      BY <1>5 DEF InTxn
    <3>3. lock' \in Call \cup {Nobody}
      BY <1>5
    <3> QED
      BY <1>5, <3>1, <3>2, <3>3
  <2>3. LockHeld'
    BY <1>2, <2>1 DEF LockHeld
  <2>4. PairsKnown'
    BY <1>2, <1>3, <1>5, <2>1 DEF PairsKnown, InTxn
  <2>5. TxnPairs'
    BY <1>2, <1>5, <2>1 DEF TxnPairs, InTxn
  <2>6. ConnectorLives'
    <3>1. connector' # connector => connector'.pair \notin spent
      BY <1>3, <1>5 DEF TxnPairs
    <3>2. connector' = connector /\ connector.pair \in spent => connector.pair \in lost'
      BY <1>2, <1>5 DEF ConnectorLives, StoredIsGood, InTxn
    <3> QED
      BY <1>5, <3>1, <3>2 DEF ConnectorLives, RefreshedOnce, StoredIsGood
  <2> QED
    BY <2>2, <2>3, <2>4, <2>5, <2>6
<1>6. CASE RotateRefused(c)
  <2>1. call[c].pc = "locked" /\ reused' \subseteq lost'
    BY <1>6 DEF RotateRefused, TxnPairs, ConnectorLives, RefreshedOnce
  <2> QED
    BY <1>5, <1>6, <2>1 DEF RotateRefused, Rollback, Step, Over
<1>7. CASE RotateAnswerLost(c)
  <2>1. call[c].old \in Pair
    BY <1>7 DEF RotateAnswerLost, TxnPairs
  <2> QED
    BY <1>5, <1>7, <2>1 DEF RotateAnswerLost, Rollback, Step, Over, ConnectorLives, RefreshedOnce
<1>8. CASE StorePair(c)
  <2>1. connector'.pair = call[c].new /\ call[c].new # call[c].old
    BY <1>8 DEF StorePair, TxnPairs
  <2> QED
    BY <1>5, <1>8, <2>1 DEF StorePair, Step, Over, ConnectorLives, RefreshedOnce
<1>9. CASE TxnExpires(c)
  BY <1>5, <1>9 DEF TxnExpires, Step, Over, ConnectorLives, RefreshedOnce
<1>10. CASE CallDies(c)
  <2>1. call[c].pc = "rotated" => call[c].old \in Pair
    BY <1>10 DEF CallDies, TxnPairs
  <2>2. lost' \subseteq Pair /\ lost \subseteq lost'
        /\ (call[c].pc = "rotated" => call[c].old \in lost')
    BY <1>10, <2>1 DEF CallDies
  <2> QED
    BY <1>5, <1>10, <2>2 DEF CallDies, Step, ConnectorLives, RefreshedOnce
<1> QED
  BY <1>4, <1>6, <1>7, <1>8, <1>9, <1>10

\* A disconnection changes nothing but the row's status.
LEMMA DisconnectKeeps ==
  ASSUME McpInv, NEW d \in Disconnect, ReadConnector(d) \/ MarkRevoked(d)
  PROVE  McpInv'
<1> USE DEF McpInv, McpTypeOK, vendorVars, flowVars
<1>1. /\ connector' \in {connector, [connector EXCEPT !.status = "revoked"]}
      /\ disconnect' \in [Disconnect -> {"idle", "revoking", "over"}]
      /\ UNCHANGED <<vendorVars, expiring, flowVars, lock, call>>
  BY DEF ReadConnector, MarkRevoked
<1>2. connector' \in [status : {"none", "active", "revoked"}, pair : 0..MAX_PAIRS]
      /\ connector'.pair = connector.pair
  BY <1>1
<1>3. McpTypeOK'
  BY <1>1, <1>2
<1>4. LockHeld' /\ TxnPairs'
  BY <1>1 DEF LockHeld, TxnPairs
<1>5. PairsKnown'
  BY <1>1, <1>2 DEF PairsKnown
<1>6. ConnectorLives'
  BY <1>1, <1>2 DEF ConnectorLives, RefreshedOnce, StoredIsGood
<1> QED
  BY <1>3, <1>4, <1>5, <1>6

\* Every step keeps the invariant.
LEMMA McpInvNext == McpInv /\ [McpNext]_mcpVars => McpInv'
<1> SUFFICES ASSUME McpInv, [McpNext]_mcpVars PROVE McpInv'
  OBVIOUS
<1>1. CASE UNCHANGED mcpVars
  BY <1>1 DEF mcpVars, McpInv, McpTypeOK, LockHeld, PairsKnown, TxnPairs, ConnectorLives,
       RefreshedOnce, StoredIsGood
<1> QED
  BY <1>1, FlowKeeps, IdleCallKeeps, TxnKeeps, DisconnectKeeps DEF McpNext, CallStep

\* The rows, the pairs, the calls and the flows have their types.
THEOREM McpTypeCorrect == McpSpec => []McpTypeOK
<1>1. McpInv => McpTypeOK
  BY DEF McpInv
<1> QED
  BY <1>1, McpInvInit, McpInvNext, PTL DEF McpSpec

\* A refresh token goes to the vendor once unless its successor was lost, and no
\* interleaving of calls, reconnections and disconnections leaves a dead pair in
\* the row (_shared/mcp_oauth's advisory lock).
THEOREM ConnectorLivesAlways == McpSpec => []ConnectorLives
<1>1. McpInv => ConnectorLives
  BY DEF McpInv
<1> QED
  BY <1>1, McpInvInit, McpInvNext, PTL DEF McpSpec

\* Only a new grant takes a disconnected connector back: a refresh under way
\* when it is disconnected leaves it revoked.
THEOREM RevokedStandsAlways == McpSpec => RevokedStands
<1>1. McpInv /\ [McpNext]_mcpVars
        => [connector.status = "revoked" /\ connector'.status # "revoked" =>
              connector'.pair \in granted \ granted']_mcpVars
  <2> SUFFICES ASSUME McpInv, McpNext, connector.status = "revoked", connector'.status # "revoked"
               PROVE  connector'.pair \in granted \ granted'
    BY DEF mcpVars
  <2>1. connector \in [status : {"none", "active", "revoked"}, pair : 0..MAX_PAIRS]
    BY DEF McpInv, McpTypeOK
  <2>2. \/ connector' = connector
        \/ \E n \in Pair : UpsertConnector(n)
        \/ \E p \in Nat : connector' = [connector EXCEPT !.pair = p]
        \/ connector' = [connector EXCEPT !.status = "revoked"]
    <3>1. ASSUME NEW c \in Call, StorePair(c)
          PROVE  call[c].new \in Nat /\ connector' = [connector EXCEPT !.pair = call[c].new]
      BY <3>1, ConnectorAssumption DEF StorePair, McpInv, McpTypeOK, ConnectorAssumption
    <3> QED
      BY <3>1 DEF McpNext, CallStep, InitiateSlack, StateExpires, CallbackSlack, CallbackDies,
           Expires, LookUp, LockTimesOut, CallDies, LockAndReread, Rotate, RotateRefused,
           RotateAnswerLost, TxnExpires, ReadConnector, MarkRevoked
  <2>3. \E n \in Pair : UpsertConnector(n)
    BY <2>1, <2>2
  <2> QED
    BY <2>3 DEF UpsertConnector
<1> QED
  BY <1>1, McpInvInit, McpInvNext, PTL DEF McpSpec, RevokedStands

-----------------------------------------------------------------------------
(* The repositories: the scanner's queue, the graph and the matcher.       *)

AiSpec == AiInit /\ [][AiNext]_aiVars

\* A scan nobody asked for has no message; one that may be received has receives
\* left; a handler is at work just while its message is with it; and until the
\* message is gone nothing was sent to the matcher.
MessagesInOrder ==
    \A k \in AiScanId :
        /\ aiScan[k] = "none" => message[k] = NoMessage
        /\ message[k].at = "queue" => message[k].received < MAX_RECEIVES
        /\ runner[k] # "idle" => message[k].at = "handler" /\ aiScan[k] # "none"
        /\ message[k].at # "gone" => matching[k].msg = NoMessage
        /\ matching[k].msg.at = "queue" => matching[k].msg.received < MAX_RECEIVES

\* What is found and what a matcher has left are matches; what was emitted is
\* found; and what was not pushed is in the hand of a matcher that pushes it, or
\* one that finds it again, or one that was given up.
FoundIsCarried ==
    /\ active \subseteq Matches
    /\ \A k \in AiScanId : matching[k].todo \subseteq Matches /\ matching[k].emitted \subseteq active
    /\ \A m \in active \ pushed : \E k \in AiScanId :
         \/ matching[k].msg.at \in {"queue", "dlq"}
         \/ matching[k].msg.at = "handler" /\ m \in matching[k].todo

AiInv == AiTypeOK /\ MessagesInOrder /\ SuccessHasGraph /\ FoundIsCarried

\* No repository has been scanned.
LEMMA AiInvInit == AiInit => AiInv
<1> SUFFICES ASSUME AiInit PROVE AiInv
  OBVIOUS
<1>1. /\ MAX_RECEIVES \in Nat \ {0}
      /\ \A k \in AiScanId : Len(Writes[k]) \in Nat
  BY AiScanAssumption DEF AiScanAssumption
<1>2. NoMessage \in Message /\ \A k \in AiScanId : 0 <= Len(Writes[k])
  BY <1>1 DEF NoMessage, Message
<1>3. AiTypeOK
  BY <1>2 DEF AiInit, AiTypeOK
<1>4. MessagesInOrder
  BY DEF AiInit, MessagesInOrder, NoMessage
<1>5. SuccessHasGraph /\ FoundIsCarried
  BY DEF AiInit, SuccessHasGraph, FoundIsCarried
<1> QED
  BY <1>3, <1>4, <1>5 DEF AiInv

\* A message that is received or comes back is a message, and may be received
\* when it is on the queue.
LEMMA MessageMoves ==
  ASSUME NEW m \in Message
  PROVE  /\ m.received < MAX_RECEIVES => Received(m) \in Message /\ Received(m).at = "handler"
         /\ Returned(m) \in Message /\ Returned(m).at \in {"queue", "dlq"}
         /\ Returned(m).at = "queue" => Returned(m).received < MAX_RECEIVES
         /\ Deleted(m) \in Message /\ Deleted(m).at = "gone"
<1>1. MAX_RECEIVES \in Nat \ {0}
  BY AiScanAssumption DEF AiScanAssumption
<1> QED
  BY <1>1 DEF Message, Received, Returned, Deleted

\* The installation and the exploited list: what matched goes on matching.
LEMMA ListKeeps ==
  ASSUME AiInv, GithubComplete \/ GithubRevoked \/ KevListed
  PROVE  AiInv'
<1>1. UNCHANGED <<keys, scanVars, graph, sca, matching, active, pushed>>
      /\ link' \in {"none", "active", "revoked"} /\ kev' \in BOOLEAN /\ Matches \subseteq Matches'
  BY DEF GithubComplete, GithubRevoked, KevListed, matchVars, AiInv, AiTypeOK, Matches
<1>2. AiTypeOK' /\ MessagesInOrder' /\ SuccessHasGraph'
  BY <1>1 DEF AiInv, AiTypeOK, MessagesInOrder, SuccessHasGraph, scanVars
<1>3. FoundIsCarried'
  BY <1>1 DEF AiInv, FoundIsCarried
<1> QED
  BY <1>2, <1>3 DEF AiInv

\* What a scan writes are entities.
LEMMA WritesAreEntities ==
  ASSUME NEW k \in AiScanId, NEW n \in 1..Len(Writes[k])
  PROVE  Writes[k][n].key \in Key /\ Writes[k][n].stub \in BOOLEAN
<1>1. Writes[k] \in Seq([key : Key, stub : BOOLEAN])
  BY AiScanAssumption DEF AiScanAssumption
<1> DEFINE W == [key : Key, stub : BOOLEAN]
<1>2. Writes[k][n] \in W
  <2> HIDE DEF W
  <2>1. Writes[k] \in Seq(W)
    BY <1>1 DEF W
  <2> QED
    BY <2>1
<1> QED
  BY <1>2

\* A step of a scanner that moves its message and its row, and neither takes an
\* entity from the graph nor a finding from the table.
LEMMA ScannerMoves ==
  ASSUME AiInv, NEW k \in AiScanId,
         message' = [message EXCEPT ![k] = message'[k]], message'[k] \in Message,
         aiScan' = [aiScan EXCEPT ![k] = aiScan'[k]],
         aiScan'[k] \in {"none", "queued", "success", "failed"},
         runner' = [runner EXCEPT ![k] = runner'[k]],
         runner'[k] \in {"idle", "cloning", "writing", "committed"},
         pos' = [pos EXCEPT ![k] = pos'[k]], pos'[k] \in 0..Len(Writes[k]),
         graph' \in [Key -> {"absent", "stub", "blank", "described"}],
         \A e \in Key : graph[e] # "absent" => graph'[e] # "absent",
         sca' \in {sca, sca \cup {k}},
         aiScan'[k] = "success" =>
            \/ aiScan[k] = "success"
            \/ /\ \A i \in 1..Len(Writes[k]) : graph'[Writes[k][i].key] # "absent"
               /\ k \in Vulnerable => k \in sca',
         aiScan'[k] = "none" => message'[k] = NoMessage,
         message'[k].at = "queue" => message'[k].received < MAX_RECEIVES,
         runner'[k] # "idle" => message'[k].at = "handler" /\ aiScan'[k] # "none",
         message'[k].at # "gone" => message[k].at # "gone",
         UNCHANGED <<link, keys, matchVars>>
  PROVE  AiInv'
<1> USE DEF AiInv, AiTypeOK, matchVars
<1>1. \A j \in AiScanId \ {k} :
           message'[j] = message[j] /\ aiScan'[j] = aiScan[j] /\ runner'[j] = runner[j]
           /\ pos'[j] = pos[j]
  OBVIOUS
<1>2. AiTypeOK'
  <2>1. Len(Writes[k]) \in Nat
    BY AiScanAssumption DEF AiScanAssumption
  <2>2. pos'[k] \in Nat /\ pos'[k] <= Len(Writes[k]) /\ pos' \in [AiScanId -> Nat]
    <3>1. pos'[k] \in Nat /\ pos'[k] <= Len(Writes[k])
      BY <2>1
    <3>2. pos \in [AiScanId -> Nat]
      OBVIOUS
    <3> QED
      BY <3>1, <3>2
  <2>3. \A j \in AiScanId : pos'[j] <= Len(Writes[j])
    BY <1>1, <2>2
  <2> QED
    BY <2>2, <2>3
<1>3. MessagesInOrder'
  BY <1>1 DEF MessagesInOrder
<1>4. SuccessHasGraph'
  <2>1. \A j \in AiScanId : \A i \in 1..Len(Writes[j]) : Writes[j][i].key \in Key
    BY WritesAreEntities
  <2>2. ASSUME NEW j \in AiScanId, aiScan[j] = "success"
        PROVE  /\ \A i \in 1..Len(Writes[j]) : graph'[Writes[j][i].key] # "absent"
               /\ j \in Vulnerable => j \in sca'
    BY <2>1, <2>2 DEF SuccessHasGraph
  <2>3. ASSUME NEW j \in AiScanId, aiScan'[j] = "success"
        PROVE  /\ \A i \in 1..Len(Writes[j]) : graph'[Writes[j][i].key] # "absent"
               /\ j \in Vulnerable => j \in sca'
    BY <1>1, <2>2, <2>3
  <2> QED
    BY <2>3 DEF SuccessHasGraph
<1>5. FoundIsCarried'
  <2>1. Matches \subseteq Matches'
    BY DEF Matches
  <2> QED
    BY <2>1 DEF FoundIsCarried
<1> QED
  BY <1>2, <1>3, <1>4, <1>5

\* A scan is requested.
LEMMA StartScanKeeps == ASSUME AiInv, NEW k \in AiScanId, StartScan(k) PROVE AiInv'
<1>1. message[k] = NoMessage /\ message[k].at = "nowhere" /\ message[k] \in Message /\ runner[k] = "idle"
      /\ message \in [AiScanId -> Message] /\ MAX_RECEIVES \in Nat \ {0}
  BY AiScanAssumption DEF AiInv, AiTypeOK, MessagesInOrder, StartScan, NoMessage, AiScanAssumption
<1>2. PICK m \in {NoMessage, [NoMessage EXCEPT !.at = "queue"]} : message' = [message EXCEPT ![k] = m]
  <2>1. CASE message' = message
    BY <1>1, <2>1
  <2>2. CASE message' = [message EXCEPT ![k].at = "queue"]
    BY <1>1, <2>2
  <2> QED
    BY <2>1, <2>2 DEF StartScan
<1>3. m \in Message /\ (m.at = "queue" => m.received < MAX_RECEIVES)
  BY <1>1 DEF Message, NoMessage
<1>4. /\ graph' \in [Key -> {"absent", "stub", "blank", "described"}]
      /\ \A e \in Key : graph[e] # "absent" => graph'[e] # "absent"
  BY DEF AiInv, AiTypeOK, StartScan
<1>5. /\ aiScan' = [aiScan EXCEPT ![k] = "queued"] /\ runner' = [runner EXCEPT ![k] = "idle"]
      /\ pos[k] \in 0..Len(Writes[k]) /\ pos' = [pos EXCEPT ![k] = pos[k]]
      /\ UNCHANGED <<link, keys, sca, matchVars>>
  BY <1>1 DEF AiInv, AiTypeOK, StartScan
<1>6. /\ message'[k] = m /\ aiScan'[k] = "queued"
      /\ runner'[k] = "idle" /\ pos'[k] = pos[k]
  BY <1>2, <1>5 DEF AiInv, AiTypeOK
<1> QED
  BY <1>1, <1>2, <1>3, <1>4, <1>5, <1>6, ScannerMoves

\* What is at hand when a scanner is at work.
LEMMA AtWork ==
  ASSUME AiInv, NEW k \in AiScanId, runner[k] # "idle"
  PROVE  /\ message[k] \in Message /\ message[k].at = "handler" /\ aiScan[k] # "none"
         /\ aiScan[k] \in {"none", "queued", "success", "failed"}
         /\ pos[k] \in 0..Len(Writes[k]) /\ 0 \in 0..Len(Writes[k])
         /\ graph \in [Key -> {"absent", "stub", "blank", "described"}]
         /\ matching[k].msg = NoMessage
<1>1. Writes[k] \in Seq([key : Key, stub : BOOLEAN])
  BY AiScanAssumption DEF AiScanAssumption
<1> QED
  BY <1>1 DEF AiInv, AiTypeOK, MessagesInOrder

\* Taking a message, and beginning the transaction.
LEMMA ReceiveKeeps == ASSUME AiInv, NEW k \in AiScanId, Receive(k) PROVE AiInv'
<1>1. /\ message[k] \in Message /\ message[k].at = "queue" /\ message[k].received < MAX_RECEIVES
      /\ aiScan[k] # "none" /\ aiScan[k] \in {"none", "queued", "success", "failed"}
      /\ pos[k] \in 0..Len(Writes[k]) /\ graph \in [Key -> {"absent", "stub", "blank", "described"}]
  BY DEF AiInv, AiTypeOK, MessagesInOrder, Receive, NoMessage
<1>2. Received(message[k]) \in Message /\ Received(message[k]).at = "handler"
  BY <1>1, MessageMoves
<1>3. /\ message' = [message EXCEPT ![k] = Received(message[k])]
      /\ aiScan' = [aiScan EXCEPT ![k] = aiScan[k]] /\ runner' = [runner EXCEPT ![k] = "cloning"]
      /\ pos' = [pos EXCEPT ![k] = pos[k]]
      /\ UNCHANGED <<link, keys, graph, sca, matchVars>>
  BY DEF Receive, AiInv, AiTypeOK
<1>4. /\ message'[k] = Received(message[k]) /\ aiScan'[k] = aiScan[k]
      /\ runner'[k] = "cloning" /\ pos'[k] = pos[k]
  BY <1>3 DEF AiInv, AiTypeOK
<1> QED
  BY <1>1, <1>2, <1>3, <1>4, ScannerMoves

\* Beginning the transaction, and its next write.
LEMMA BeginKeeps == ASSUME AiInv, NEW k \in AiScanId, Begin(k) \/ WriteEntity(k) PROVE AiInv'
<1>1. runner[k] # "idle" /\ Writes[k] \in Seq([key : Key, stub : BOOLEAN])
  BY AiScanAssumption DEF Begin, WriteEntity, Wants, AiScanAssumption
<1>2. PICK n \in 0..Len(Writes[k]) : pos' = [pos EXCEPT ![k] = n]
  <2>1. CASE Begin(k)
    BY <1>1, <2>1, AtWork DEF Begin, AiInv, AiTypeOK
  <2>2. CASE WriteEntity(k)
    <3>1. pos[k] < Len(Writes[k]) /\ pos' = [pos EXCEPT ![k] = @ + 1]
      BY <2>2 DEF WriteEntity, Wants
    <3>2. pos[k] + 1 \in 0..Len(Writes[k])
      BY <1>1, <3>1, AtWork
    <3>3. pos' = [pos EXCEPT ![k] = pos[k] + 1]
      BY <3>1 DEF AiInv, AiTypeOK
    <3> QED
      BY <3>2, <3>3
  <2> QED
    BY <2>1, <2>2
<1>3. /\ message' = [message EXCEPT ![k] = message[k]]
      /\ aiScan' = [aiScan EXCEPT ![k] = aiScan[k]]
      /\ runner' = [runner EXCEPT ![k] = "writing"]
      /\ UNCHANGED <<link, keys, graph, sca, matchVars>>
  BY DEF Begin, WriteEntity, Wants, AiInv, AiTypeOK
<1>4. /\ message'[k] = message[k] /\ aiScan'[k] = aiScan[k]
      /\ runner'[k] = "writing" /\ pos'[k] = n
  BY <1>2, <1>3 DEF AiInv, AiTypeOK
<1> QED
  BY <1>1, <1>2, <1>3, <1>4, AtWork, ScannerMoves

\* A run that ends without a commit, whatever it leaves in the row.
LEMMA RaiseKeeps ==
  ASSUME AiInv, NEW k \in AiScanId, runner[k] # "idle", Raise(k),
         NEW s \in {aiScan[k], "failed"}, aiScan' = [aiScan EXCEPT ![k] = s],
         UNCHANGED <<link, keys, graph, sca, matchVars>>
  PROVE  AiInv'
<1>1. /\ Returned(message[k]) \in Message /\ Returned(message[k]).at \in {"queue", "dlq"}
      /\ Returned(message[k]).at = "queue" => Returned(message[k]).received < MAX_RECEIVES
  BY AtWork, MessageMoves
<1>2. /\ message' = [message EXCEPT ![k] = Returned(message[k])]
      /\ runner' = [runner EXCEPT ![k] = "idle"]
      /\ pos' = [pos EXCEPT ![k] = 0]
  BY DEF Raise, AiInv, AiTypeOK
<1>3. /\ message'[k] = Returned(message[k]) /\ aiScan'[k] = s
      /\ runner'[k] = "idle" /\ pos'[k] = 0
  BY <1>2 DEF AiInv, AiTypeOK
<1> QED
  BY <1>1, <1>2, <1>3, AtWork, ScannerMoves

\* The ways a run fails, from the clone to the message to the matcher.
LEMMA FailureKeeps ==
  ASSUME AiInv, NEW k \in AiScanId,
         \/ CloneFails(k)
         \/ ScanRaises(k)
         \/ EnqueueFails(k)
         \/ ScannerDies(k)
  PROVE  AiInv'
<1>1. runner[k] # "idle" /\ Raise(k) /\ UNCHANGED <<link, keys, graph, sca, matchVars>>
  BY DEF CloneFails, ScanRaises, EnqueueFails, ScannerDies
<1>2. \E s \in {aiScan[k], "failed"} : aiScan' = [aiScan EXCEPT ![k] = s]
  BY DEF CloneFails, ScanRaises, EnqueueFails, ScannerDies, MarkFailed, AiInv, AiTypeOK
<1> QED
  BY <1>1, <1>2, RaiseKeeps

\* A repository that is too large ends its message.
LEMMA TooLargeKeeps == ASSUME AiInv, NEW k \in AiScanId, RepoTooLarge(k) PROVE AiInv'
<1>1. runner[k] # "idle"
  BY DEF RepoTooLarge
<1>2. Deleted(message[k]) \in Message /\ Deleted(message[k]).at = "gone"
  BY <1>1, AtWork, MessageMoves
<1>3. /\ message' = [message EXCEPT ![k] = Deleted(message[k])]
      /\ aiScan' = [aiScan EXCEPT ![k] = "failed"] /\ runner' = [runner EXCEPT ![k] = "idle"]
      /\ pos' = [pos EXCEPT ![k] = pos[k]]
      /\ UNCHANGED <<link, keys, graph, sca, matchVars>>
  BY DEF RepoTooLarge, MarkFailed, AiInv, AiTypeOK
<1>4. /\ message'[k] = Deleted(message[k]) /\ aiScan'[k] = "failed"
      /\ runner'[k] = "idle" /\ pos'[k] = pos[k]
  BY <1>3 DEF AiInv, AiTypeOK
<1> QED
  BY <1>1, <1>2, <1>3, <1>4, AtWork, ScannerMoves

\* The commit: every entity the scan writes is in the graph, and what it found is kept.
LEMMA CommitKeeps == ASSUME AiInv, NEW k \in AiScanId, Commit(k) PROVE AiInv'
<1>1. runner[k] = "writing" /\ runner[k] # "idle" /\ Writes[k] \in Seq([key : Key, stub : BOOLEAN])
  BY AiScanAssumption DEF Commit, AiScanAssumption
<1>2. pos[k] = Len(Writes[k])
  <2>1. ~(pos[k] < Len(Writes[k]))
    BY <1>1 DEF Commit, Wants
  <2> QED
    BY <1>1, <2>1, AtWork
<1>3. \A x, b : Upserted(x, b) \in {"stub", "blank", "described"}
  BY DEF Upserted
<1>4. /\ graph' \in [Key -> {"absent", "stub", "blank", "described"}]
      /\ \A e \in Key : graph[e] # "absent" => graph'[e] # "absent"
  <2> DEFINE all(e) == \A n \in 1..pos[k] : Writes[k][n].key = e => Writes[k][n].stub
  <2>0. graph' = [e \in Key |-> IF \E n \in 1..pos[k] : Writes[k][n].key = e
                               THEN Upserted(graph[e], all(e)) ELSE graph[e]]
    BY DEF Commit
  <2> HIDE DEF all
  <2>1. \A e \in Key : /\ graph'[e] \in {"absent", "stub", "blank", "described"}
                       /\ graph[e] # "absent" => graph'[e] # "absent"
    BY <1>1, <1>3, <2>0, AtWork
  <2> QED
    BY <2>0, <2>1
<1>5. \A i \in 1..Len(Writes[k]) : graph'[Writes[k][i].key] # "absent"
  BY <1>2, <1>3, WritesAreEntities DEF Commit
<1>6. sca' \in {sca, sca \cup {k}} /\ (k \in Vulnerable => k \in sca')
  BY DEF Commit
<1>7. /\ message' = [message EXCEPT ![k] = message[k]]
      /\ aiScan' = [aiScan EXCEPT ![k] = "success"] /\ runner' = [runner EXCEPT ![k] = "committed"]
      /\ pos' = [pos EXCEPT ![k] = 0]
      /\ UNCHANGED <<link, keys, matchVars>>
  BY DEF Commit, AiInv, AiTypeOK
<1>8. /\ message'[k] = message[k] /\ aiScan'[k] = "success"
      /\ runner'[k] = "committed" /\ pos'[k] = 0
  BY <1>7 DEF AiInv, AiTypeOK
<1> QED
  BY <1>1, <1>4, <1>5, <1>6, <1>7, <1>8, AtWork, ScannerMoves

Matching == [msg : Message, todo : SUBSET AiScanId, emitted : SUBSET AiScanId]

\* The matcher's message: what it finds, and what it has dealt with.
LEMMA MatcherMoves ==
  ASSUME AiInv, NEW k \in AiScanId,
         matching' = [matching EXCEPT ![k] = matching'[k]],
         matching'[k] \in Matching,
         message[k].at # "gone" => matching'[k].msg = NoMessage,
         matching'[k].msg.at = "queue" => matching'[k].msg.received < MAX_RECEIVES,
         matching'[k].todo \subseteq Matches, matching'[k].emitted \subseteq active',
         active \subseteq active', active' \subseteq Matches, pushed \subseteq pushed', pushed' \subseteq active',
         \A m \in active' \ pushed' :
            \/ /\ m \in active
               /\ \/ matching[k].msg.at = "gone"
                  \/ matching[k].msg.at = "nowhere"
                  \/ matching[k].msg.at = "handler" /\ m \notin matching[k].todo
            \/ matching'[k].msg.at \in {"queue", "dlq"}
            \/ matching'[k].msg.at = "handler" /\ m \in matching'[k].todo,
         UNCHANGED <<link, keys, scanVars, graph, sca, kev>>
  PROVE  AiInv'
<1> USE DEF AiInv, AiTypeOK, scanVars
<1>1. \A j \in AiScanId \ {k} : matching'[j] = matching[j]
  OBVIOUS
<1>2. Matches' = Matches /\ Matches \subseteq AiScanId
  BY DEF Matches
<1>3. AiTypeOK'
  <2>1. matching \in [AiScanId -> Matching]
    BY DEF Matching
  <2>2. matching' \in [AiScanId -> Matching]
    BY <2>1
  <2>3. active' \subseteq AiScanId /\ pushed' \subseteq active'
    BY <1>2
  <2>4. matching' \in [AiScanId -> [msg : Message, todo : SUBSET AiScanId, emitted : SUBSET AiScanId]]
    BY <2>2 DEF Matching
  <2>5. UNCHANGED <<link, keys, aiScan, message, runner, pos, graph, sca, kev>>
    OBVIOUS
  <2>6. /\ link' \in {"none", "active", "revoked"} /\ keys' \in {"enforced", "absent"}
        /\ aiScan' \in [AiScanId -> {"none", "queued", "success", "failed"}]
        /\ message' \in [AiScanId -> Message]
        /\ runner' \in [AiScanId -> {"idle", "cloning", "writing", "committed"}]
        /\ graph' \in [Key -> {"absent", "stub", "blank", "described"}]
        /\ sca' \subseteq AiScanId /\ kev' \in BOOLEAN
    BY <2>5
  <2>7. pos' \in [AiScanId -> Nat] /\ \A j \in AiScanId : pos'[j] <= Len(Writes[j])
    BY <2>5
  <2> QED
    BY <2>3, <2>4, <2>6, <2>7
<1>4. MessagesInOrder'
  <2> USE DEF MessagesInOrder
  <2>1. UNCHANGED <<aiScan, message, runner>> /\ MessagesInOrder
    OBVIOUS
  <2>2. ASSUME NEW j \in AiScanId
        PROVE  /\ message[j].at # "gone" => matching'[j].msg = NoMessage
               /\ matching'[j].msg.at = "queue" => matching'[j].msg.received < MAX_RECEIVES
    <3>1. CASE j = k
      BY <3>1
    <3>2. CASE j # k
      <4>1. matching'[j] = matching[j]
        BY <1>1, <3>2
      <4> QED
        BY <2>1, <4>1
    <3> QED
      BY <3>1, <3>2
  <2> HIDE DEF AiInv, AiTypeOK, scanVars
  <2> QED
    BY <2>1, <2>2
<1>5. SuccessHasGraph'
  BY DEF SuccessHasGraph
<1>6. FoundIsCarried'
  <2>1. \A j \in AiScanId : matching'[j].todo \subseteq Matches /\ matching'[j].emitted \subseteq active'
    BY <1>1 DEF FoundIsCarried
  <2>2. ASSUME NEW m \in active' \ pushed'
        PROVE  \E j \in AiScanId : \/ matching'[j].msg.at \in {"queue", "dlq"}
                                   \/ matching'[j].msg.at = "handler" /\ m \in matching'[j].todo
    <3>1. CASE \/ matching'[k].msg.at \in {"queue", "dlq"}
               \/ matching'[k].msg.at = "handler" /\ m \in matching'[k].todo
      BY <3>1
    <3>2. CASE /\ m \in active
               /\ \/ matching[k].msg.at = "gone"
                  \/ matching[k].msg.at = "nowhere"
                  \/ matching[k].msg.at = "handler" /\ m \notin matching[k].todo
      <4>1. PICK j \in AiScanId : \/ matching[j].msg.at \in {"queue", "dlq"}
                                  \/ matching[j].msg.at = "handler" /\ m \in matching[j].todo
        BY <3>2 DEF FoundIsCarried
      <4>2. j # k
        BY <3>2, <4>1
      <4> QED
        BY <1>1, <4>1, <4>2
    <3> QED
      BY <3>1, <3>2
  <2> QED
    BY <1>2, <2>1, <2>2 DEF FoundIsCarried
<1> QED
  BY <1>3, <1>4, <1>5, <1>6

\* The steps of a matcher.
LEMMA MatcherKeeps ==
  ASSUME AiInv, NEW k \in AiScanId,
         \/ FindMatches(k)
         \/ MatcherDone(k)
         \/ MatcherFails(k)
  PROVE  AiInv'
<1>0. matching[k] \in Matching /\ matching \in [AiScanId -> Matching]
  BY DEF AiInv, AiTypeOK, Matching
<1>1. matching[k].msg \in Message /\ matching[k].todo \subseteq AiScanId /\ matching[k].emitted \subseteq active
      /\ matching[k].todo \subseteq Matches /\ Matches \subseteq AiScanId /\ matching[k].emitted \subseteq AiScanId
  BY DEF AiInv, AiTypeOK, FoundIsCarried, Matches
<1>2. message[k].at = "gone"
  BY DEF AiInv, MessagesInOrder, FindMatches, MatcherDone, MatcherFails, Handling, NoMessage
<1>3. active \subseteq Matches /\ pushed \subseteq active
  BY DEF AiInv, AiTypeOK, FoundIsCarried
<1>4. CASE FindMatches(k)
  <2>1. Received(matching[k].msg) \in Message /\ Received(matching[k].msg).at = "handler"
    BY <1>1, <1>4, MessageMoves DEF FindMatches, AiInv, MessagesInOrder
  <2>2. /\ matching' = [matching EXCEPT ![k] = [msg |-> Received(matching[k].msg), todo |-> Matches, emitted |-> {}]]
        /\ UNCHANGED <<link, keys, scanVars, graph, sca, kev, active, pushed>>
    BY <1>4 DEF FindMatches
  <2>3. matching'[k] = [msg |-> Received(matching[k].msg), todo |-> Matches, emitted |-> {}]
    BY <2>2 DEF AiInv, AiTypeOK
  <2> QED
    <3>1. matching'[k] \in Matching
      BY <1>1, <2>1, <2>3 DEF Matching
    <3>2. /\ matching'[k].msg = Received(matching[k].msg)
          /\ matching'[k].todo = Matches /\ matching'[k].emitted = {}
      BY <2>3
    <3>3. matching' = [matching EXCEPT ![k] = matching'[k]]
      BY <2>2, <2>3
    <3>4. matching'[k].msg.at = "handler"
      BY <2>1, <3>2
    <3> QED
      BY <1>1, <1>2, <1>3, <2>2, <3>1, <3>2, <3>3, <3>4, MatcherMoves
<1>5. CASE MatcherDone(k)
  <2>1. Deleted(matching[k].msg) \in Message /\ Deleted(matching[k].msg).at = "gone"
    BY <1>1, MessageMoves
  <2> DEFINE d == [matching[k] EXCEPT !.msg = Deleted(matching[k].msg)]
  <2>2. /\ matching' = [matching EXCEPT ![k] = d] /\ matching[k].msg.at = "handler" /\ matching[k].todo = {}
        /\ UNCHANGED <<link, keys, scanVars, graph, sca, kev, active, pushed>>
    BY <1>5 DEF MatcherDone, Handling
  <2>3. d.msg = Deleted(matching[k].msg) /\ d.todo = matching[k].todo /\ d.emitted = matching[k].emitted
        /\ d \in Matching
    BY <1>0, <1>1, <2>1 DEF Matching
  <2> HIDE DEF d
  <2>4. matching'[k] = d
    BY <2>2 DEF AiInv, AiTypeOK
  <2> QED
    BY <1>1, <1>2, <1>3, <2>1, <2>2, <2>3, <2>4, MatcherMoves
<1>6. CASE MatcherFails(k)
  <2>1. /\ Returned(matching[k].msg) \in Message /\ Returned(matching[k].msg).at \in {"queue", "dlq"}
        /\ Returned(matching[k].msg).at = "queue" => Returned(matching[k].msg).received < MAX_RECEIVES
    BY <1>1, MessageMoves
  <2> DEFINE d == [matching[k] EXCEPT !.msg = Returned(matching[k].msg), !.emitted = {}]
  <2>2. /\ matching' = [matching EXCEPT ![k] = d]
        /\ UNCHANGED <<link, keys, scanVars, graph, sca, kev, active, pushed>>
    BY <1>6 DEF MatcherFails, AiInv, AiTypeOK
  <2>3. d.msg = Returned(matching[k].msg) /\ d.todo = matching[k].todo /\ d.emitted = {}
        /\ d \in Matching
    BY <1>0, <1>1, <2>1 DEF Matching
  <2> HIDE DEF d
  <2>4. matching'[k] = d
    BY <2>2 DEF AiInv, AiTypeOK
  <2> QED
    BY <1>1, <1>2, <1>3, <2>1, <2>2, <2>3, <2>4, MatcherMoves
<1> QED
  BY <1>4, <1>5, <1>6

\* One match: the finding, which is in hand until it is pushed, and the push.
LEMMA EmitKeeps ==
  ASSUME AiInv, NEW k \in AiScanId, NEW m \in AiScanId, EmitFinding(k, m) \/ FirePush(k, m)
  PROVE  AiInv'
<1>0. matching[k] \in Matching /\ matching \in [AiScanId -> Matching]
  BY DEF AiInv, AiTypeOK, Matching
<1>1. /\ matching[k].msg \in Message /\ matching[k].todo \subseteq AiScanId /\ matching[k].emitted \subseteq active
      /\ matching[k].todo \subseteq Matches /\ Matches \subseteq AiScanId /\ matching[k].emitted \subseteq AiScanId
      /\ active \subseteq Matches /\ pushed \subseteq active
  BY DEF AiInv, AiTypeOK, FoundIsCarried, Matches
<1>2. message[k].at = "gone" /\ matching[k].msg.at = "handler"
  BY DEF AiInv, MessagesInOrder, EmitFinding, FirePush, Handling, NoMessage
<1>3. CASE EmitFinding(k, m)
  <2> DEFINE d == [matching[k] EXCEPT !.emitted = {m}]
  <2>1. /\ matching' = [matching EXCEPT ![k] = d] /\ active' = active \cup {m} /\ m \in matching[k].todo
        /\ UNCHANGED <<link, keys, scanVars, graph, sca, kev, pushed>>
    BY <1>3 DEF EmitFinding
  <2>2. d.msg = matching[k].msg /\ d.todo = matching[k].todo /\ d.emitted = {m}
        /\ d \in Matching
    BY <1>0, <1>1 DEF Matching
  <2> HIDE DEF d
  <2>3. matching'[k] = d
    BY <2>1 DEF AiInv, AiTypeOK
  <2> QED
    BY <1>1, <1>2, <2>1, <2>2, <2>3, MatcherMoves
<1>4. CASE FirePush(k, m)
  <2> DEFINE d == [matching[k] EXCEPT !.emitted = {}, !.todo = matching[k].todo \ {m}]
  <2>1. /\ matching' = [matching EXCEPT ![k] = d] /\ pushed' = pushed \cup {m} /\ m \in matching[k].emitted
        /\ UNCHANGED <<link, keys, scanVars, graph, sca, kev, active>>
    BY <1>4 DEF FirePush, AiInv, AiTypeOK
  <2>2. d.msg = matching[k].msg /\ d.todo = matching[k].todo \ {m} /\ d.emitted = {}
        /\ d \in Matching
    BY <1>0, <1>1 DEF Matching
  <2> HIDE DEF d
  <2>3. matching'[k] = d
    BY <2>1 DEF AiInv, AiTypeOK
  <2> QED
    BY <1>1, <1>2, <2>1, <2>2, <2>3, MatcherMoves
<1> QED
  BY <1>3, <1>4

\* The committed scan's message to the matcher: the first and only one, because
\* its own is gone with it.
LEMMA EnqueueKeeps == ASSUME AiInv, NEW k \in AiScanId, EnqueueMatcher(k) PROVE AiInv'
<1>0. matching[k] \in Matching /\ matching \in [AiScanId -> Matching]
  BY DEF AiInv, AiTypeOK, Matching
<1>1. /\ runner[k] # "idle" /\ message[k] \in Message /\ matching[k].msg = NoMessage
      /\ MAX_RECEIVES \in Nat \ {0}
  BY AtWork, AiScanAssumption DEF EnqueueMatcher, AiScanAssumption
<1> DEFINE q == [NoMessage EXCEPT !.at = "queue"]
           d == [matching[k] EXCEPT !.msg = q]
<1>2. q \in Message /\ q.at = "queue" /\ q.received < MAX_RECEIVES
  BY <1>1 DEF NoMessage, Message
<1>3. Deleted(message[k]) \in Message /\ Deleted(message[k]).at = "gone"
  BY <1>1, MessageMoves
<1>4. /\ message' = [message EXCEPT ![k] = Deleted(message[k])] /\ runner' = [runner EXCEPT ![k] = "idle"]
      /\ matching' = [matching EXCEPT ![k] = d]
      /\ UNCHANGED <<link, keys, aiScan, pos, graph, sca, kev, active, pushed>>
  BY <1>1 DEF EnqueueMatcher, AiInv, AiTypeOK
<1> HIDE DEF q
<1>5. d.msg = q /\ d.todo = matching[k].todo /\ d.emitted = matching[k].emitted
      /\ d \in Matching
  BY <1>0, <1>2 DEF Matching
<1> HIDE DEF d
<1>6. /\ message'[k] = Deleted(message[k]) /\ runner'[k] = "idle" /\ matching'[k] = d
      /\ \A j \in AiScanId \ {k} : message'[j] = message[j] /\ runner'[j] = runner[j] /\ matching'[j] = matching[j]
  BY <1>4 DEF AiInv, AiTypeOK
<1>7. Matches' = Matches
  BY <1>4 DEF Matches
<1>8. AiTypeOK'
  <2>1. matching' \in [AiScanId -> Matching] /\ message' \in [AiScanId -> Message]
    BY <1>0, <1>3, <1>4, <1>5 DEF AiInv, AiTypeOK
  <2>2. runner' \in [AiScanId -> {"idle", "cloning", "writing", "committed"}]
    BY <1>4 DEF AiInv, AiTypeOK
  <2> QED
    BY <1>4, <2>1, <2>2 DEF AiInv, AiTypeOK, Matching
<1>9. MessagesInOrder'
  BY <1>1, <1>2, <1>3, <1>4, <1>5, <1>6, AtWork DEF AiInv, MessagesInOrder
<1>10. SuccessHasGraph'
  BY <1>4 DEF AiInv, SuccessHasGraph
<1>11. FoundIsCarried'
  BY <1>2, <1>4, <1>5, <1>6, <1>7 DEF AiInv, FoundIsCarried
<1> QED
  BY <1>8, <1>9, <1>10, <1>11 DEF AiInv

\* The invariant is inductive: one case per action.
LEMMA AiInvNext == AiInv /\ [AiNext]_aiVars => AiInv'
<1> SUFFICES ASSUME AiInv, [AiNext]_aiVars PROVE AiInv'
  OBVIOUS
<1>1. CASE GithubComplete \/ GithubRevoked \/ KevListed
  BY <1>1, ListKeeps
<1>2. CASE \E k \in AiScanId : StartScan(k) \/ ScanRaises(k) \/ EnqueueFails(k) \/ ScannerDies(k)
  BY <1>2, StartScanKeeps, FailureKeeps
<1>3. CASE ScannerStep
  <2>1. PICK k \in AiScanId :
          \/ Receive(k)
          \/ CloneFails(k)
          \/ RepoTooLarge(k)
          \/ Begin(k)
          \/ WriteEntity(k)
          \/ Commit(k)
          \/ EnqueueMatcher(k)
          \/ ScanRaises(k)
    BY <1>3 DEF ScannerStep, DeadlockDetected
  <2> QED
    BY <2>1, ReceiveKeeps, FailureKeeps, TooLargeKeeps, BeginKeeps, CommitKeeps, EnqueueKeeps
<1>4. CASE \E k \in AiScanId : FindMatches(k) \/ MatcherDone(k) \/ MatcherFails(k)
  BY <1>4, MatcherKeeps
<1>5. CASE \E k \in AiScanId : \E m \in AiScanId : EmitFinding(k, m) \/ FirePush(k, m)
  BY <1>5, EmitKeeps
<1>6. CASE UNCHANGED aiVars
  <2>1. UNCHANGED Matches
    BY <1>6 DEF aiVars, Matches
  <2> QED
    BY <1>6, <2>1 DEF aiVars, AiInv, AiTypeOK, MessagesInOrder, SuccessHasGraph, FoundIsCarried
<1> QED
  BY <1>1, <1>2, <1>3, <1>4, <1>5, <1>6 DEF AiNext

\* The scans, the transactions and the messages of ai_scanner and the matcher have
\* the shape the type invariant gives them.
THEOREM AiTypeCorrect == AiSpec => []AiTypeOK
<1> QED
  BY AiInvInit, AiInvNext, PTL DEF AiSpec, AiInv

\* A scan that reports success has its entities in the graph and its vulnerabilities
\* among the findings, whatever of its runs was aborted, killed or repeated: the
\* one transaction of persistence.commit_ai_scan.
THEOREM SuccessHasGraphAlways == AiSpec => []SuccessHasGraph
<1> QED
  BY AiInvInit, AiInvNext, PTL DEF AiSpec, AiInv

\* A supply-chain finding whose matchers ran to their end has been pushed: the
\* retry of ai_supply_chain_matcher finds what is already a finding again.
THEOREM ActiveIsPushedAlways == AiSpec => []ActiveIsPushed
<1>1. AiInv => ActiveIsPushed
  <2> SUFFICES ASSUME AiInv, \A k \in AiScanId : matching[k].msg.at \in {"nowhere", "gone"},
                      NEW m \in active, m \notin pushed
               PROVE  FALSE
    BY DEF ActiveIsPushed
  <2> QED
    BY DEF AiInv, FoundIsCarried
<1> QED
  BY <1>1, AiInvInit, AiInvNext, PTL DEF AiSpec

-----------------------------------------------------------------------------
(* The directory: the passes over the sign-ins of its users.               *)

\* The pages and what was matched are sign-ins, invocation by invocation.
SigninTypeInv ==
    /\ SigninTypeOK
    /\ page \in [Attempt -> SUBSET Signin] /\ matched \in [Attempt -> SUBSET Signin]

\* A step of an invocation keeps the types.
LEMMA PassType ==
  ASSUME NEW k \in Attempt, SigninTypeInv,
         \/ StartPass(k) \/ FetchSignins(k) \/ UpdateFlag(k) \/ FirePushes(k) \/ PassDies(k)
         \/ \E e \in Signin : WriteSignin(k, e)
  PROVE  SigninTypeInv'
<1> USE DEF SigninTypeInv, SigninTypeOK, Move
<1>1. CASE StartPass(k)
  BY <1>1 DEF StartPass
<1>2. CASE FetchSignins(k)
  <2>1. PICK events \in SUBSET Signin :
            /\ matched' = [matched EXCEPT ![k] = MatchApp(events)]
            /\ page' = [page EXCEPT ![k] = MatchApp(events)]
    BY <1>2 DEF FetchSignins
  <2>2. MatchApp(events) \in SUBSET Signin
    BY DEF MatchApp
  <2>3. /\ page' \in [Attempt -> SUBSET Signin] /\ matched' \in [Attempt -> SUBSET Signin]
        /\ \A j \in Attempt : page'[j] \subseteq matched'[j] /\ matched'[j] \subseteq Signin
    BY <2>1, <2>2
  <2>4. \E v \in {"required", "open", "unclear"} : verdict' = [verdict EXCEPT ![k] = v]
    BY <1>2 DEF FetchSignins
  <2>5. at' = [at EXCEPT ![k] = "writing"] /\ UNCHANGED <<licensed, banner, noted>>
    BY <1>2 DEF FetchSignins
  <2> QED
    BY <2>3, <2>4, <2>5
<1>3. CASE UpdateFlag(k)
  <2>1. /\ at' = [at EXCEPT ![k] = "pushing"]
        /\ UNCHANGED <<licensed, page, matched, verdict>>
    BY <1>3 DEF UpdateFlag
  <2>2. noted' \subseteq Attempt
    BY <1>3 DEF UpdateFlag
  <2>3. CASE banner' = banner
    BY <2>1, <2>2, <2>3
  <2>4. CASE banner' = (CASE verdict[k] = "required" -> TRUE
                           [] verdict[k] = "open"     -> FALSE
                           [] OTHER                   -> banner)
    <3>1. banner' \in BOOLEAN
      BY <2>4
    <3> QED
      BY <2>1, <2>2, <3>1
  <2> QED
    BY <1>3, <2>3, <2>4 DEF UpdateFlag
<1>4. CASE FirePushes(k)
  BY <1>4 DEF FirePushes
<1>5. CASE PassDies(k)
  BY <1>5 DEF PassDies
<1>6. ASSUME NEW e \in Signin, WriteSignin(k, e)
      PROVE  SigninTypeInv'
  <2>1. page' = [page EXCEPT ![k] = page[k] \ {e}]
        /\ UNCHANGED <<licensed, banner, at, matched, verdict, noted>>
    BY <1>6 DEF WriteSignin
  <2> QED
    BY <2>1
<1> QED
  BY <1>1, <1>2, <1>3, <1>4, <1>5, <1>6

\* Every reachable state of the sign-in pass is well typed.
THEOREM SigninTypeCorrect == SigninSpec => []SigninTypeOK
<1> USE DEF SigninTypeInv
<1>1. SigninInit => SigninTypeInv
  BY DEF SigninInit, SigninTypeOK
<1>2. SigninTypeInv /\ [SigninNext]_signinVars => SigninTypeInv'
  <2>1. SigninTypeInv /\ Licence => SigninTypeInv'
    BY DEF Licence, SigninTypeOK
  <2>2. SigninTypeInv /\ UNCHANGED signinVars => SigninTypeInv'
    BY DEF signinVars, SigninTypeOK
  <2> QED
    BY <2>1, <2>2, PassType DEF SigninNext
<1> QED
  BY <1>1, <1>2, PTL DEF SigninSpec

\* What an invocation was ahead of is over for good, a verdict is known before
\* anything is written, and it is noted by invocations that have left that step.
SigninInv ==
    /\ at \in [Attempt -> {"idle", "fetching", "writing", "pushing", "over"}]
    /\ verdict \in [Attempt -> {"none", "required", "open", "unclear"}]
    /\ ahead \in [Attempt -> SUBSET Attempt]
    /\ noted \subseteq Attempt
    /\ \A k \in Attempt : ahead[k] \subseteq PassOver
    /\ \A k \in Attempt : at[k] = "writing" => verdict[k] # "none"
    /\ \A k \in noted : at[k] \in {"pushing", "over"}
    /\ BannerFollows

\* The invariant holds before any scan.
LEMMA SigninInvInit == SigninInit => SigninInv
  BY DEF SigninInit, SigninInv, PassOver, BannerFollows

\* The licence is nothing the invariant speaks of.
LEMMA LicenceKeeps == SigninInv /\ Licence => SigninInv'
  BY DEF SigninInv, Licence, PassOver, BannerFollows

\* An invocation that begins has noted nothing.
LEMMA StartPassKeeps ==
  ASSUME NEW k \in Attempt, SigninInv, StartPass(k)
  PROVE  SigninInv'
<1> USE DEF SigninInv, StartPass, Move, PassOver
<1>1. k \notin noted /\ \A j \in noted : ahead'[j] = ahead[j]
  OBVIOUS
<1>2. BannerFollows'
  BY <1>1 DEF BannerFollows
<1>3. \A j \in Attempt : ahead'[j] \subseteq PassOver'
  OBVIOUS
<1> QED
  BY <1>2, <1>3

\* One that fetches has noted nothing, and gets a verdict.
LEMMA FetchSigninsKeeps ==
  ASSUME NEW k \in Attempt, SigninInv, FetchSignins(k)
  PROVE  SigninInv'
<1> USE DEF SigninInv, Move, PassOver
<1>1. /\ at[k] = "fetching" /\ at' = [at EXCEPT ![k] = "writing"]
      /\ UNCHANGED <<banner, noted, ahead>>
  BY DEF FetchSignins
<1>2. \E v \in {"required", "open", "unclear"} : verdict' = [verdict EXCEPT ![k] = v]
  BY DEF FetchSignins
<1>3. k \notin noted /\ \A j \in noted : verdict'[j] = verdict[j]
  BY <1>1, <1>2
<1>4. BannerFollows'
  BY <1>1, <1>3 DEF BannerFollows
<1> QED
  BY <1>1, <1>2, <1>3, <1>4

\* Rows and pushes leave verdicts and banner alone; so does a death.
LEMMA OthersKeep ==
  ASSUME NEW k \in Attempt, SigninInv,
         \/ \E e \in Signin : WriteSignin(k, e)
         \/ FirePushes(k)
         \/ PassDies(k)
  PROVE  SigninInv'
<1> USE DEF SigninInv, Move, PassOver
<1>1. UNCHANGED <<banner, verdict, noted, ahead>>
  BY DEF WriteSignin, FirePushes, PassDies
<1>2. at' = at \/ (at[k] # "over" /\ at' = [at EXCEPT ![k] = "over"])
  BY DEF WriteSignin, FirePushes, PassDies
<1>3. BannerFollows'
  BY <1>1 DEF BannerFollows
<1> QED
  BY <1>1, <1>2, <1>3

\* Who overturns what another has noted was not over before the other began.
LEMMA UpdateFlagKeeps ==
  ASSUME NEW k \in Attempt, SigninInv, UpdateFlag(k)
  PROVE  SigninInv'
<1> USE DEF SigninInv, Move, PassOver
<1>1. /\ at[k] = "writing" /\ at' = [at EXCEPT ![k] = "pushing"]
      /\ UNCHANGED <<verdict, ahead>>
  BY DEF UpdateFlag
<1>2. \A j \in Attempt : k \notin ahead[j]
  BY <1>1
<1>3. CASE UNCHANGED <<banner, noted>>
  <2>1. BannerFollows'
    BY <1>1, <1>3 DEF BannerFollows
  <2> QED
    BY <1>1, <1>3, <2>1
<1>4. CASE noted' = noted \cup {k} /\ verdict[k] = "unclear" /\ banner' = banner
  <2>1. BannerFollows'
    BY <1>1, <1>4 DEF BannerFollows
  <2> QED
    BY <1>1, <1>4, <2>1
<1>5. CASE /\ noted' = noted \cup {k} /\ verdict[k] \in {"required", "open"}
           /\ banner' = (verdict[k] = "required")
  <2>1. SUFFICES ASSUME NEW j \in noted', verdict[j] # "unclear",
                        banner' # (verdict[j] = "required")
                 PROVE  \E i \in noted' \ ahead[j] : verdict[i] \notin {"unclear", verdict[j]}
    BY <1>1, <1>5 DEF BannerFollows
  <2>2. k \in noted' \ ahead[j]
    BY <1>2, <1>5
  <2>3. verdict[k] # verdict[j]
    BY <1>5, <2>1
  <2> QED
    BY <1>5, <2>2, <2>3
<1>6. \/ UNCHANGED <<banner, noted>>
      \/ noted' = noted \cup {k} /\ verdict[k] = "unclear" /\ banner' = banner
      \/ /\ noted' = noted \cup {k} /\ verdict[k] \in {"required", "open"}
         /\ banner' = (verdict[k] = "required")
  BY <1>1 DEF UpdateFlag
<1> QED
  BY <1>3, <1>4, <1>5, <1>6

\* The banner follows the evidence: what a scan has noted of the licence stands
\* until one that was not over before it notes the opposite
\* (_update_connection_premium_flag).
THEOREM BannerFollowsAlways == SigninSpec => []BannerFollows
<1>1. SigninInit => SigninInv
  BY SigninInvInit
<1>2. SigninInv /\ [SigninNext]_signinVars => SigninInv'
  <2> SUFFICES ASSUME SigninInv, [SigninNext]_signinVars PROVE SigninInv'
    OBVIOUS
  <2>1. CASE Licence
    BY <2>1, LicenceKeeps
  <2>2. CASE \E k \in Attempt : StartPass(k)
    BY <2>2, StartPassKeeps
  <2>3. CASE \E k \in Attempt : FetchSignins(k)
    BY <2>3, FetchSigninsKeeps
  <2>4. CASE \E k \in Attempt : UpdateFlag(k)
    BY <2>4, UpdateFlagKeeps
  <2>5. CASE \E k \in Attempt :
               (\E e \in Signin : WriteSignin(k, e)) \/ FirePushes(k) \/ PassDies(k)
    BY <2>5, OthersKeep
  <2>6. CASE UNCHANGED signinVars
    BY <2>6 DEF signinVars, SigninInv, PassOver, BannerFollows
  <2> QED
    BY <2>1, <2>2, <2>3, <2>4, <2>5, <2>6 DEF SigninNext
<1>3. SigninInv => BannerFollows
  BY DEF SigninInv
<1> QED
  BY <1>1, <1>2, <1>3, PTL DEF SigninSpec

-----------------------------------------------------------------------------
(* Side by side.                                                           *)

\* A behaviour of the composition is, for each part, a behaviour of that part:
\* the scenarios only let the others stand still.
LEMMA PartsOfIntegrations ==
  Spec => ConnSpec /\ AwsSpec /\ McpSpec /\ AiSpec /\ SigninSpec
<1>1. Init => ConnInit /\ AwsInit /\ McpInit /\ AiInit /\ SigninInit
  BY DEF Init
<1>2. [Next]_vars => /\ [ConnNext]_connVars /\ [AwsNext]_awsVars /\ [McpNext]_mcpVars
                     /\ [AiNext]_aiVars /\ [SigninNext]_signinVars
  <2>1. CASE OnClouds BY <2>1 DEF OnClouds
  <2>2. CASE OnAccount BY <2>2 DEF OnAccount
  <2>3. CASE OnVendors(McpNext) BY <2>3 DEF OnVendors
  <2>4. CASE OnRepositories(AiNext) BY <2>4 DEF OnRepositories
  <2>5. CASE OnDirectory BY <2>5 DEF OnDirectory
  <2>6. CASE UNCHANGED vars BY <2>6 DEF vars
  <2> QED BY <2>1, <2>2, <2>3, <2>4, <2>5, <2>6 DEF Next
<1> QED BY <1>1, <1>2, PTL DEF Spec, ConnSpec, AwsSpec, McpSpec, AiSpec, SigninSpec

\* What a tenant has connected has its types.
THEOREM IntegrationsTypeCorrect == Spec => []TypeOK
BY PartsOfIntegrations, ConnTypeCorrect, AwsTypeCorrect, McpTypeCorrect, AiTypeCorrect,
   SigninTypeCorrect, PTL DEF TypeOK

\* What holds of the parts holds of what a tenant has connected, as the run checks
\* it together: what is called completed, successful or active is what it says.
THEOREM IntegrationsKeepTheirWord ==
  Spec => /\ [](CompletedCovers /\ NothingMissed /\ ConnectorLives)
          /\ [](SuccessHasGraph /\ ActiveIsPushed /\ BannerFollows)
          /\ RevokedStands
BY PartsOfIntegrations, CompletedCoversAlways, NothingMissedAlways, ConnectorLivesAlways,
   SuccessHasGraphAlways, ActiveIsPushedAlways, BannerFollowsAlways, RevokedStandsAlways, PTL
=============================================================================
