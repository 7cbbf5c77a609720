------------------------------ MODULE AwsScan -------------------------------
(***************************************************************************)
(* The scan of an AWS account (shasta_runner/app): which regions it finds, *)
(* how it classifies them, what it runs in each of them at which tier, and *)
(* what it writes: the coverage map, the entities and the edges.           *)
(*                                                                         *)
(* The threads of a phase are ScanPipeline's subject; here a phase is one  *)
(* step with the units that failed in it.  What the customer has in a      *)
(* region is one resource of each kind.                                    *)
(***************************************************************************)
EXTENDS Naturals, FiniteSetsExt

CONSTANTS
    Region,
    DegradedDefault,    \* _DEGRADED_DEFAULT_REGIONS
    Collector,          \* the services of the coverage engine
    RegionalModule, GlobalModule,   \* Shasta's modules
    MAX_FAULTS          \* bound: units and calls that fail in a scan

ASSUME AwsAssumption ==
    /\ DegradedDefault \subseteq Region /\ "global" \notin Region
    /\ IsFiniteSet(Region) /\ MAX_FAULTS \in Nat

VARIABLES
    footprint,   \* what each region holds
    before,      \* what it held when the scan began
    stage, tier, \* where the handler is; scan_tier
    method, states,   \* RegionDiscovery
    silent,      \* calls that failed inside a unit that succeeded
    coverage,    \* coverage_map: what ran in a bucket, was skipped, failed
    emitted,     \* the edges in the accumulators
    committed,   \* the edges commit_scan has written, with both their ends
    final        \* the closing status

awsVars == <<footprint, before, stage, tier, method, states, silent, coverage, emitted,
             committed, final>>

\* A deep scan runs the units of a medium one: nothing reads run_capabilities.
Tier    == {"quick", "medium"}
\* "unprobed": besides the default VPC only what the probe does not ask for.
Holding == {"disabled", "empty", "default_only", "unprobed", "active"}
Bucket  == Region \cup {"global"}

AwsInit ==
    /\ footprint \in [Region -> Holding] /\ before = footprint
    /\ stage = "idle" /\ tier \in Tier /\ method = "none"
    /\ states = [r \in Region |-> "none"]
    /\ silent = {} /\ emitted = {} /\ committed = {} /\ final = "none"
    /\ coverage = [b \in Bucket |-> [run |-> {}, skipped |-> {}, errors |-> {}]]

AtStage(s) == stage = s
GoTo(s)    == stage' = s
Enabled    == {r \in Region : footprint[r] # "disabled"}

\* The customer goes on working: regions are enabled and filled.
Deploy(r) ==
    /\ stage \notin {"idle", "over"} /\ footprint[r] # "active"
    /\ footprint' = [footprint EXCEPT ![r] = IF @ = "disabled" THEN "default_only" ELSE "active"]
    /\ UNCHANGED <<before, stage, tier, method, states, silent, coverage, emitted, committed,
                   final>>

-----------------------------------------------------------------------------
(* Region discovery.                                                       *)

Discovery == <<footprint, tier, silent, coverage, emitted, committed, final>>

\* The regions are given, or listed, or, when that fails, a default set.
ListRegions ==
    /\ AtStage("idle")
    /\ before' = footprint
    /\ \/ \E given \in (SUBSET Region) \ {{}} :
            /\ method' = "explicit_override" /\ GoTo("planned")
            /\ states' = [r \in Region |-> IF r \in given THEN "active" ELSE "none"]
       \/ /\ method' = "footprint_probe" /\ GoTo("probing")
          /\ states' = [r \in Region |-> IF r \in Enabled THEN "listed" ELSE "none"]
       \/ /\ method' = "degraded_default" /\ GoTo("planned")
          /\ states' = [r \in Region |-> IF r \in DegradedDefault THEN "unknown" ELSE "none"]
    /\ UNCHANGED Discovery

ClassifyRegion(real, default) ==
    IF real THEN "active" ELSE IF default THEN "default_only" ELSE "empty"

\* What the probe asks for: VPCs, then instances, functions, databases, load
\* balancers and clusters.
Probed(r) == ClassifyRegion(footprint[r] = "active", footprint[r] \in {"default_only", "unprobed"})

ProbeRegion(r) ==
    /\ AtStage("probing") /\ states[r] = "listed"
    /\ \E errored \in BOOLEAN :
        states' = [states EXCEPT ![r] = IF errored THEN "unknown" ELSE Probed(r)]
    /\ UNCHANGED <<before, stage, method, Discovery>>

DiscoverRegions ==
    /\ AtStage("probing") /\ \A r \in Region : states[r] # "listed"
    /\ GoTo("planned")
    /\ UNCHANGED <<before, method, states, Discovery>>

-----------------------------------------------------------------------------
(* The plan: a unit is a module in a bucket.                               *)

InScope     == {r \in Region : states[r] # "none"}
MediumUp  == tier = "medium"
FullDepth == {r \in InScope : states[r] \in {"active", "unknown"}}

GlobalUnits ==
    {"global"} \X ({"enum_iam", "enum_s3"} \cup GlobalModule
                   \cup IF MediumUp THEN {"ai_pass"} ELSE {})
RegionUnits ==
    (InScope \X {"enum_compute", "enum_network", "coverage"})
    \cup IF MediumUp THEN FullDepth \X RegionalModule ELSE {}

\* A quick scan commits what the global units found before it goes on.
Phase == CASE AtStage("first_signal") -> GlobalUnits
           [] AtStage("crown_jewel")  -> RegionUnits
           [] AtStage("full")         -> GlobalUnits \cup RegionUnits
           [] OTHER                   -> {}

BuildScanPlan ==
    /\ AtStage("planned")
    /\ GoTo(IF MediumUp THEN "full" ELSE "first_signal")
    /\ UNCHANGED <<before, method, states, Discovery>>

-----------------------------------------------------------------------------
(* The units.  A resource is a kind in a bucket.                           *)

Account == <<"global", "account">>
Network == {"vpc", "subnet", "security_group"}

\* What there is to see.
Kinds(b) ==
    IF b = "global" THEN {"role", "user", "bucket"}
    ELSE CASE footprint[b] = "default_only" -> Network
           [] footprint[b] = "unprobed" -> Network \cup Collector
           [] footprint[b] = "active" -> Network \cup {"instance", "function"} \cup Collector
           [] OTHER -> {}

Edge(source, kind, target) == [source |-> source, kind |-> kind, target |-> target]
Contained(b, kinds) == {Edge(Account, "contains", <<b, k>>) : k \in kinds \cap Kinds(b)}

\* Mutant: a subnet's VPC is named in the bucket of the account.
EnumerateNetworkElsewhere(r) ==
    Contained(r, {"vpc"})
    \cup {Edge(<<"global", "vpc">>, "contains", <<r, k>>) :
            k \in {"subnet", "security_group"} \cap Kinds(r)}

EnumerateNetwork(r) ==
    Contained(r, {"vpc"})
    \cup {Edge(<<r, "vpc">>, "contains", <<r, k>>) :
            k \in {"subnet", "security_group"} \cap Kinds(r)}

\* An instance's role is written under the key of its instance profile, which no
\* other unit uses; that of a function under the role's own.
EnumerateCompute(r) ==
    Contained(r, {"instance", "function"})
    \cup {Edge(<<r, "instance">>, "assumes", <<"global", "instance_profile">>) :
            k \in {"instance"} \cap Kinds(r)}
    \cup {Edge(<<r, "function">>, "assumes", <<"global", "role">>) :
            k \in {"function"} \cap Kinds(r)}

EnumerateIam     == Contained("global", {"role", "user"})
EnumerateStorage == Contained("global", {"bucket"})

\* A collector that fails is skipped and its services are not looked at.
RunCoverage(r, failed) == Contained(r, {c \in Collector : <<r, c>> \notin failed})

\* A function with AI credentials is an entity of a kind of its own; a region where
\* the calls fail has none.
RunAiPass(failed) ==
    {Edge(Account, "contains", <<r, "ai_function">>) :
        r \in {s \in InScope : "function" \in Kinds(s) /\ <<s, "ai">> \notin failed}}

\* parse_arn: what a finding is about becomes an entity when its kind is known.
Convert(b) == Contained(b, Network \cup {"instance", "function", "role", "user", "bucket"})

Emits(u, failed) ==
    LET b == u[1]
    IN  CASE u[2] = "enum_iam"     -> EnumerateIam
          [] u[2] = "enum_s3"      -> EnumerateStorage
          [] u[2] = "ai_pass"      -> RunAiPass(failed)
          [] u[2] = "enum_compute" -> EnumerateCompute(b)
          [] u[2] = "enum_network" -> EnumerateNetwork(b)
          [] u[2] = "coverage"     -> RunCoverage(b, failed)
          [] OTHER -> IF u \in failed THEN {} ELSE Convert(b)

\* The calls whose failure a unit survives: collectors, the AI calls of a region,
\* and the checks of a module, which answer not_assessed.
Survives(u) ==
    CASE u[2] = "coverage" -> {u[1]} \X Collector
      [] u[2] = "ai_pass"  -> InScope \X {"ai"}
      [] u[2] \in GlobalModule \cup RegionalModule -> {u}
      [] OTHER -> {}

-----------------------------------------------------------------------------
(* The handler.                                                            *)

Absorb(ran, failed) ==
    [b \in Bucket |->
        [coverage[b] EXCEPT !.run = @ \cup {u[2] : u \in {v \in ran : v[1] = b}},
                            !.errors = @ \cup {u[2] : u \in {v \in failed : v[1] = b}}]]

Faults  == Cardinality(silent) + Cardinality({b \in Bucket : coverage[b].errors # {}})
UpTo(S) == UNION {kSubset(n, S) : n \in 0..(MAX_FAULTS - Faults)}

\* The units of a phase run, and what they bring is merged.
RunAccountUnits ==
    /\ \/ AtStage("first_signal") /\ GoTo("commit_first")
       \/ stage \in {"crown_jewel", "full"} /\ GoTo("commit")
    /\ \E failed \in UpTo(Phase) :
       \E calls \in UpTo(UNION {Survives(u) : u \in Phase \ failed}) :
        /\ Cardinality(failed) + Cardinality(calls) + Faults <= MAX_FAULTS
        /\ coverage' = Absorb(Phase \ failed, failed)
        /\ silent' = silent \cup calls
        /\ emitted' = emitted \cup UNION {Emits(u, calls) : u \in Phase \ failed}
    /\ UNCHANGED <<footprint, before, tier, method, states, committed, final>>

CommitScan ==
    /\ \/ AtStage("commit_first") /\ GoTo("crown_jewel")
       \/ AtStage("commit") /\ GoTo("finish")
    /\ committed' = committed \cup emitted
    /\ UNCHANGED <<before, method, states, footprint, tier, silent, coverage, emitted, final>>

HadGap == \E b \in Bucket : coverage[b].errors # {}

Finish ==
    /\ AtStage("finish") /\ GoTo("over")
    /\ final' = IF HadGap THEN "partial" ELSE "completed"
    /\ UNCHANGED <<footprint, before, tier, method, states, silent, coverage, emitted, committed>>

\* The role cannot be assumed, or a statement fails.
AccountScanFails ==
    /\ stage \notin {"idle", "over"} /\ GoTo("over")
    /\ final' = "failed"
    /\ UNCHANGED <<footprint, before, tier, method, states, silent, coverage, emitted, committed>>

AwsStep == ListRegions \/ DiscoverRegions \/ BuildScanPlan \/ RunAccountUnits \/ CommitScan \/ Finish

AwsNext ==
    \/ AwsStep \/ AccountScanFails
    \/ \E r \in Region : Deploy(r) \/ ProbeRegion(r)

AwsSpec == AwsInit /\ [][AwsNext]_awsVars

-----------------------------------------------------------------------------
\* Type invariant of the scan of an account.
AwsTypeOK ==
    /\ footprint \in [Region -> Holding] /\ before \in [Region -> Holding]
    /\ tier \in Tier
    /\ method \in {"none", "explicit_override", "footprint_probe", "degraded_default"}
    /\ states \in [Region -> {"none", "listed", "active", "default_only", "empty", "unknown"}]
    /\ DOMAIN coverage = Bucket
    /\ committed \subseteq emitted
    /\ final \in {"none", "completed", "partial", "failed"}

Ran(b, modules) == modules \subseteq coverage[b].run

\* No blind spot behind "completed".  A scan that found its regions by itself has
\* every region that was enabled when it began in its scope, ran the global modules
\* and the inventory of each of them, and, above the quick tier, swept with every
\* module each region that held a workload of a probed kind when the scan began: whatever
\* the probe could not find out counted against the region being idle.
NoBlindSpot ==
    final = "completed" /\ method # "explicit_override" =>
        /\ Ran("global", {"enum_iam", "enum_s3"} \cup GlobalModule)
        /\ \A r \in InScope : Ran(r, {"enum_compute", "enum_network", "coverage"})
        /\ method = "footprint_probe" => {r \in Region : before[r] # "disabled"} \subseteq InScope
        /\ MediumUp => \A r \in InScope : before[r] = "active" => Ran(r, RegionalModule)

\* What is contained in what is contained in the account.
Below(x) == {e.target : e \in {f \in committed : f.kind = "contains" /\ f.source = x}}
InGraph  == Below(Account) \cup UNION {Below(x) : x \in Below(Account)}

\* The inventory hangs together.  What a region of the scope held when the scan
\* began is found from the account along "contains", directly or through its VPC,
\* although four enumerators, the coverage engine and the findings each name the
\* ends of their edges by themselves; only what a collector failed to list may be
\* missing.
InventoryReached ==
    final = "completed" =>
        /\ {"global"} \X {"role", "user", "bucket"} \subseteq InGraph
        /\ \A r \in InScope :
            /\ before[r] \notin {"disabled", "empty"} => {r} \X Network \subseteq InGraph
            /\ before[r] = "active" =>
                 ({r} \X ({"instance", "function"} \cup Collector)) \ silent \subseteq InGraph

\* A scan that is called completed has missed nothing it should have seen.
NothingMissed == NoBlindSpot /\ InventoryReached

\* What the design says of collectors: one that fails marks what it would have
\* listed as not assessed in the scan's record.
NotAssessedIsRecorded ==
    final \in {"completed", "partial"} =>
        \A r \in Region, c \in Collector :
            <<r, c>> \in silent => c \in coverage[r].skipped \cup coverage[r].errors
=============================================================================
