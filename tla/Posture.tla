------------------------------ MODULE Posture ------------------------------
(***************************************************************************)
(* What a tenant is shown of its findings and entities.  Several views     *)
(* read the same tables, each with SQL of its own: the findings page       *)
(* (findings_list), the risks page (findings_rollup), the dashboard        *)
(* (findings_summary, compliance_summary), the AI page (ai_summary), the   *)
(* entity graph (entities_api), the chat agent's tools (tools_dispatch)    *)
(* and the public trust page (trust).  A reader compares them.             *)
(*                                                                         *)
(* A view is one statement, here an operator on the tables; the tables     *)
(* change underneath, scan by scan.  The rows of one tenant only.          *)
(***************************************************************************)
EXTENDS Naturals, Sequences, FiniteSets

CONSTANTS
    Finding,      \* natural keys with what a check says of its findings, see FindingType
    Entity,       \* entities with their kind and domain, see EntityType
    NoRepo,
    Risk,
    Framework, AiFramework, Control,
    Person,
    NoConn, NoPerson, AnyCloud, AnyFramework,
    PAGE,         \* bound: rows of the chat agent's search by check (10 in the code)
    BROAD_PAGE,   \* bound: rows of its search over everything (200)
    GRAPH_DEPTH, GRAPH_MAX_NODES,
    MAX_EDGES,    \* bound: edges of the graph
    ENTITY_PAGE   \* bound: entities of a page (50 in the API, 20 in the chat)

Cloud    == {"aws", "azure", "entra", "gcp"}
Severity == {"critical", "high", "low"}     \* medium and info rank between and below
FindingStatus == {"fail", "partial", "pass", "not_assessed"}
Rank(s)  == CASE s = "critical" -> 1 [] s = "high" -> 2 [] s = "low" -> 4

\* The sum of the numbers f gives, as the size of a disjoint union.
SumOf(f) == Cardinality(UNION {{k} \X (1..f[k]) : k \in DOMAIN f})

\* conn is the cloud of the connection: findings of code have none.  aiSubject:
\* the entity the finding is about is an AI resource, or its evidence says so.
FindingType ==
    [check : STRING, domain : STRING, resource : STRING, conn : Cloud \cup {NoConn},
     tags : SUBSET (Framework \X Control), aiSubject : BOOLEAN,
     person : Person \cup {NoPerson}]

ASSUME PostureAssumption ==
    /\ \A f \in Finding : /\ f.tags \subseteq Framework \X Control /\ f.aiSubject \in BOOLEAN
                          /\ f.conn \in Cloud \cup {NoConn}
    /\ IsFiniteSet(Control) /\ AiFramework \subseteq Framework
    /\ AnyCloud \notin Cloud /\ AnyFramework \notin Framework
    /\ {PAGE, BROAD_PAGE, GRAPH_DEPTH, GRAPH_MAX_NODES, ENTITY_PAGE} \subseteq Nat \ {0}
    /\ \A e \in Entity : {e.kind, e.domain} \subseteq STRING
    /\ NoRepo \notin Entity
    /\ MAX_EDGES \in Nat

VARIABLES
    row,          \* the findings table: severity and status of each row there is
    edges,        \* the edges table
    seen,         \* the entities table: of each, those last seen when it was, or later
    risk          \* the risks table

postureVars == <<row, edges, seen, risk>>

RiskStatus == {"open", "mitigated", "accepted", "transferred", "closed"}

PostureInit ==
    /\ row = [f \in {} |-> [severity |-> "low", status |-> "pass"]] /\ edges = {}
    /\ seen = [e \in {} |-> {}] /\ risk = [r \in {} |-> [severity |-> "low", status |-> "open"]]

Rows  == DOMAIN row
Known == DOMAIN seen

-----------------------------------------------------------------------------
(* The tables change.                                                      *)

\* A scan commits a finding: its row is inserted, or severity and status follow.
UpsertFinding(f) ==
    \E s \in Severity, st \in FindingStatus :
        row' = [g \in Rows \cup {f} |->
                    IF g = f THEN [severity |-> s, status |-> st] ELSE row[g]]
    /\ UNCHANGED <<edges, seen, risk>>

\* The rows one transaction upserts have its time as last_seen_at.
SeenNow(es) == [e \in Known \cup es |-> IF e \in es THEN es ELSE seen[e] \cup es]

UpsertEntities(es) ==
    /\ seen' = SeenNow(es)
    /\ UNCHANGED <<row, edges, risk>>

\* The ends of an edge are upserted before it, as stubs where need be.
UpsertEdge(a, b) ==
    /\ a # b /\ Cardinality(edges) < MAX_EDGES
    /\ edges' = edges \cup {<<a, b>>}
    /\ seen' = SeenNow({a, b})
    /\ UNCHANGED <<row, risk>>

CreateRisk(r) ==
    /\ r \notin DOMAIN risk
    /\ \E s \in Severity :
        risk' = [q \in DOMAIN risk \cup {r} |->
                    IF q = r THEN [severity |-> s, status |-> "open"] ELSE risk[q]]
    /\ UNCHANGED <<row, edges, seen>>

UpdateRisk(r) ==
    /\ r \in DOMAIN risk
    /\ \E st \in RiskStatus : risk' = [risk EXCEPT ![r].status = st]
    /\ UNCHANGED <<row, edges, seen>>

FindingsNext == \E f \in Finding : UpsertFinding(f)
GraphNext    == \/ \E es \in SUBSET Entity : es # {} /\ IsFiniteSet(es) /\ UpsertEntities(es)
                \/ \E a, b \in Entity : UpsertEdge(a, b)
RisksNext    == \E r \in Risk : CreateRisk(r) \/ UpdateRisk(r)

PostureSpec == PostureInit /\ [][FindingsNext \/ GraphNext \/ RisksNext]_postureVars

-----------------------------------------------------------------------------
(* The pages of the web application.                                       *)

Query == [severities : SUBSET Severity, statuses : SUBSET FindingStatus,
          cloud : Cloud \cup {AnyCloud}, framework : Framework \cup {AnyFramework}]

\* No value, or none that is allowed, means every severity but only "fail".
Normal(q) == [q EXCEPT
    !.severities = IF @ = {} THEN Severity ELSE @,
    !.statuses   = IF @ = {} THEN {"fail"} ELSE @]

\* GET /findings: the rows its total counts; a page holds the first of them.
ListFindings(q) ==
    LET n == Normal(q) IN
    {f \in Rows :
        /\ row[f].severity \in n.severities /\ row[f].status \in n.statuses
        /\ n.cloud # AnyCloud => f.conn = n.cloud
        /\ n.framework # AnyFramework => \E c \in Control : <<n.framework, c>> \in f.tags}

Total(q) == Cardinality(ListFindings(q))

\* GET /findings/rollup: a group per domain and check, with the worst severity.
RollupRows(q) ==
    LET n == Normal(q) IN
    {f \in Rows : /\ row[f].severity \in n.severities /\ row[f].status \in n.statuses
                  /\ n.cloud # AnyCloud => f.conn = n.cloud}

GroupKeys(q) == {<<f.domain, f.check>> : f \in RollupRows(q)}

\* Mutant: a group keeps the severity of the row that opened it.
RollupFirst(q) ==
    [k \in GroupKeys(q) |->
        LET members == {f \in RollupRows(q) : <<f.domain, f.check>> = k}
        IN [count |-> Cardinality(members),
            severity |-> row[CHOOSE f \in members : TRUE].severity]]

Rollup(q) ==
    [k \in GroupKeys(q) |->
        LET members == {f \in RollupRows(q) : <<f.domain, f.check>> = k}
        IN [count |-> Cardinality(members),
            severity |-> CHOOSE s \in {row[f].severity : f \in members} :
                            \A f \in members : Rank(s) <= Rank(row[f].severity)]]

\* GET /findings/summary: tiles count every row of a status, the donut and the
\* bar only what there is to do.
Actionable == {"fail", "partial"}
ByStatus(st) == Cardinality({f \in Rows : row[f].status = st})
BySeverity(s) ==
    Cardinality({f \in Rows : row[f].status \in Actionable /\ row[f].severity = s})
ByCloud(c) == Cardinality({f \in Rows : row[f].status \in Actionable /\ f.conn = c})

\* GET /compliance/summary: a control with a failing finding fails, one with a
\* passing finding and no failing one passes, any other is not assessed.
TaggedRows(fw, c, st) == {f \in Rows : <<fw, c>> \in f.tags /\ row[f].status = st}
Scores(controls, fails, passes) ==
    [total |-> Cardinality(controls), failing |-> Cardinality(fails),
     passing |-> Cardinality(passes \ fails)]
ComplianceSummary ==
    [fw \in {t[1] : t \in UNION {f.tags : f \in Rows}} |->
        Scores({c \in Control : \E f \in Rows : <<fw, c>> \in f.tags},
               {c \in Control : TaggedRows(fw, c, "fail") # {}},
               {c \in Control : TaggedRows(fw, c, "pass") # {}})]

-----------------------------------------------------------------------------
(* The AI page.                                                            *)

AiTouching(f) == f.aiSubject \/ \E t \in f.tags : t[1] \in AiFramework

AiScore(st) == Cardinality({f \in Rows : AiTouching(f) /\ row[f].status = st})

\* Every AI-touching finding, whatever its status; the answer has no entry for gcp.
AiBySource(src) ==
    Cardinality({f \in Rows : /\ AiTouching(f)
                              /\ src = IF f.conn = NoConn THEN "code" ELSE f.conn})

AiByFramework(fw, st) ==
    Cardinality({f \in Rows : /\ \E c \in Control : <<fw, c>> \in f.tags
                              /\ row[f].status = st /\ AiTouching(f)})

AiPeople ==
    [p \in {f.person : f \in {g \in Rows : g.person # NoPerson /\ AiTouching(g)
                                           /\ row[g].status \in Actionable}} |->
        [st \in Actionable |->
            Cardinality({f \in Rows : f.person = p /\ AiTouching(f) /\ row[f].status = st})]]

-----------------------------------------------------------------------------
(* The chat agent's tools.                                                 *)

\* query_findings looks at open findings only and ignores what it does not know.
QueryFindings(severity, cloud, check) ==
    {f \in Rows :
        /\ row[f].status = "fail"
        /\ severity \in Severity => row[f].severity = severity
        /\ cloud \in Cloud => f.conn = cloud
        /\ check # "" => f.check = check}

\* The first limit of them: the worst ones; last_seen orders the rest.
Pages(found, limit) ==
    {p \in SUBSET found :
        /\ Cardinality(p) = IF Cardinality(found) < limit THEN Cardinality(found) ELSE limit
        /\ \A f \in p, g \in found \ p : Rank(row[f].severity) <= Rank(row[g].severity)}

\* The rows that may come first on a page.
Leading(page) ==
    {f \in page : \A g \in page : Rank(row[f].severity) <= Rank(row[g].severity)}

\* What the answer draws: up to CARDS of them as cards, the first one named as
\* its source, and more, or none, as a list.
CARDS == 3
FindingsAnswer(page) ==
    LET few == page # {} /\ Cardinality(page) <= CARDS IN
    [cards |-> IF few THEN page ELSE {}, entries |-> IF few THEN {} ELSE page,
     sources |-> IF few THEN Leading(page) ELSE {}]

\* get_finding: the first match of the check, and the finding asked for instead
\* when a search over everything has it.  The answers it may give.
GetFinding(f) ==
    LET first == UNION {Leading(page) : page \in Pages(QueryFindings("", "", f.check), PAGE)}
    IN UNION {IF f \in broad THEN {f} ELSE first :
                  broad \in Pages(QueryFindings("", "", ""), BROAD_PAGE)}

SeverityBreakdown(s) == Cardinality({f \in Rows : row[f].status = "fail" /\ row[f].severity = s})

\* The morning briefing names the worst severity that has an open finding.
Briefing ==
    LET open == {s \in Severity : SeverityBreakdown(s) > 0} IN
    [top   |-> IF open = {} THEN "none"
               ELSE CHOOSE s \in open : \A r \in open : Rank(s) <= Rank(r),
     total |-> SumOf([s \in Severity |-> SeverityBreakdown(s)])]

ChatCompliance ==
    LET tags == UNION {f.tags : f \in Rows} IN
    [fw \in {t[1] : t \in tags} |->
        Scores({t[2] : t \in {u \in tags : u[1] = fw}},
               {c \in Control : \E f \in TaggedRows(fw, c, "fail") : TRUE},
               {c \in Control : \E f \in TaggedRows(fw, c, "pass") : TRUE})]

-----------------------------------------------------------------------------
(* The public trust page, as far as its settings show it.                  *)

TrustCompliance ==
    [fw \in {g \in Framework : \E f \in Rows : \E t \in f.tags : t[1] = g} |->
        Scores({c \in Control : \E f \in Rows : <<fw, c>> \in f.tags},
               {c \in Control : \E f \in Rows : <<fw, c>> \in f.tags /\ row[f].status = "fail"},
               {c \in Control : \E f \in Rows : <<fw, c>> \in f.tags /\ row[f].status = "pass"})]

TrustFindings(s) == Cardinality({f \in Rows : row[f].status = "fail" /\ row[f].severity = s})

-----------------------------------------------------------------------------
(* The entity graph.                                                       *)

Neighbours(e) == {x \in Entity : <<e, x>> \in edges \/ <<x, e>> \in edges}

\* The recursive walk: everything within depth steps, either way along an edge.
Walks(root, d) ==
    {w \in [0..d -> Entity] : w[0] = root /\ \A i \in 1..d : w[i] \in Neighbours(w[i - 1])}
Walked(root) == UNION {{w[d] : w \in Walks(root, d)} : d \in 0..GRAPH_DEPTH}

\* At most GRAPH_MAX_NODES of them, in no order; then the edges among those.
Graphs(root) ==
    LET walked == Walked(root) IN
    {[nodes |-> nodes, edges |-> {e \in edges : e[1] \in nodes /\ e[2] \in nodes},
      truncated |-> Cardinality(walked) > GRAPH_MAX_NODES] :
        nodes \in IF Cardinality(walked) > GRAPH_MAX_NODES
                  THEN {s \in SUBSET walked : Cardinality(s) = GRAPH_MAX_NODES} ELSE {walked}}

Relationships(e) == {x \in edges : x[1] = e \/ x[2] = e}

EntitiesOfRepo(repo) == {e \in Known : <<repo, e>> \in edges}

\* GET /entities: what its filters leave; an empty one lets everything through.
ListEntities(domain, kind, repo) ==
    {e \in IF repo = NoRepo THEN Known ELSE EntitiesOfRepo(repo) :
        (domain # "" => e.domain = domain) /\ (kind # "" => e.kind = kind)}

\* The latest first, and those last seen together in any order.
NotAfter(as, bs) == \A a \in as, b \in bs : a \in seen[b]
Together(a, b)   == a \in seen[b] /\ b \in seen[a]
Lesser(m, n)     == IF m < n THEN m ELSE n

\* A page of what is left of them after so many.
PagesAfter(skipped, found) ==
    {p \in SUBSET found :
        \E before \in SUBSET (found \ p) :
            LET after == found \ (p \cup before) IN
            /\ Cardinality(before) = Lesser(skipped, Cardinality(found))
            /\ Cardinality(p) = Lesser(ENTITY_PAGE, Cardinality(found \ before))
            /\ NotAfter(before, p) /\ NotAfter(before, after) /\ NotAfter(p, after)}

\* What the n-th page of them may show, and whether it names a next one.
EntityPages(found, n) == PagesAfter((n - 1) * ENTITY_PAGE, found)
HasNext(found, n) == Cardinality(found) > n * ENTITY_PAGE
PageNumbers(found) == {1} \cup {n + 1 : n \in {m \in 1..Cardinality(found) : HasNext(found, m)}}

GetEntity(e) == {x \in Known : x = e}

\* The chat's query_entities and get_entity.
MatchingEntities(domain, kind) ==
    {e \in Known : (domain = "" \/ e.domain = domain) /\ (kind = "" \/ e.kind = kind)}
QueryEntities(domain, kind) ==
    LET found == MatchingEntities(domain, kind)
    IN {p \in SUBSET found : /\ Cardinality(p) = Lesser(ENTITY_PAGE, Cardinality(found))
                             /\ NotAfter(p, found \ p)}
EntityRow(e)  == {x \in Known : x = e}
ChatEntity(e) == EntityRow(e)

-----------------------------------------------------------------------------
(* The risk register.                                                      *)

\* GET /risks: a filter that is no status or no severity is ignored.
ListRisks(status, severity) ==
    {r \in DOMAIN risk : /\ status \in RiskStatus => risk[r].status = status
                         /\ severity \in Severity => risk[r].severity = severity}

\* The chat's list_risks: a card for each, and the one it puts first.
ChatRisks(status, severity) ==
    {r \in DOMAIN risk : /\ status \notin RiskStatus \/ risk[r].status = status
                         /\ severity \notin Severity \/ risk[r].severity = severity}
RiskCards(risks) == [r \in risks |-> risk[r]]
FirstCards(cards) ==
    {r \in DOMAIN cards : \A q \in DOMAIN cards : Rank(cards[r].severity) <= Rank(cards[q].severity)}

-----------------------------------------------------------------------------

\* Type invariant: rows of known findings, edges between entities.
PostureTypeOK ==
    /\ Rows \subseteq Finding
    /\ \A f \in Rows : row[f] \in [severity : Severity, status : FindingStatus]
    /\ edges \subseteq Entity \X Entity
    /\ Known \subseteq Entity /\ seen \in [Known -> SUBSET Known]
    /\ \A r \in DOMAIN risk : risk[r] \in [severity : Severity, status : RiskStatus]

All(statuses) == [severities |-> {}, statuses |-> statuses, cloud |-> AnyCloud,
                  framework |-> AnyFramework]

\* The findings page, the risks page and the dashboard count the same rows.
TotalsAgree ==
    /\ \A ss \in SUBSET Severity, st \in SUBSET FindingStatus, c \in Cloud \cup {AnyCloud} :
        LET q      == [All(st) EXCEPT !.severities = ss, !.cloud = c]
            groups == Rollup(q)
        IN
        /\ SumOf([k \in DOMAIN groups |-> groups[k].count]) = Total(q)
        /\ \A f \in ListFindings(q) :
            Rank(groups[<<f.domain, f.check>>].severity) <= Rank(row[f].severity)
    /\ \A st \in FindingStatus : ByStatus(st) = Total(All({st}))
    /\ \A s \in Severity : BySeverity(s) = Total([All(Actionable) EXCEPT !.severities = {s}])
    /\ \A c \in Cloud : ByCloud(c) = Total([All(Actionable) EXCEPT !.cloud = c])
    /\ \A s \in Severity :
        /\ SeverityBreakdown(s) = TrustFindings(s)
        /\ QueryFindings(s, "", "") = ListFindings([All({}) EXCEPT !.severities = {s}])
    /\ \A p \in Pages(QueryFindings("", "", ""), BROAD_PAGE) :
        LET a == FindingsAnswer(p) IN
        /\ a.cards \cup a.entries = p
        /\ \A f \in a.sources : row[f].severity = Briefing.top
    /\ Briefing.total = Total(All({}))
    /\ Total(All({})) > 0 => Total([All({}) EXCEPT !.severities = {Briefing.top}]) > 0

\* The dashboard, the chat and the trust page give a framework the same score,
\* and it has a failing control just when the page it links to lists a finding.
ScoresAgree ==
    /\ ChatCompliance = ComplianceSummary /\ TrustCompliance = ComplianceSummary
    /\ \A fw \in DOMAIN ComplianceSummary :
        ComplianceSummary[fw].failing > 0 <=> Total([All({}) EXCEPT !.framework = fw]) > 0

\* The AI page counts, per framework, what the findings page lists under it; a
\* source or a person has no more than there is.
AiAgrees ==
    /\ \A fw \in AiFramework, st \in FindingStatus :
        /\ AiByFramework(fw, st) = Total([All({st}) EXCEPT !.framework = fw])
        /\ AiByFramework(fw, st) <= AiScore(st)
    /\ SumOf([src \in Cloud \cup {"code"} |-> AiBySource(src)])
        = SumOf([st \in FindingStatus |-> AiScore(st)])
    /\ \A st \in Actionable :
        SumOf([p \in DOMAIN AiPeople |-> AiPeople[p][st]]) <= AiScore(st)

\* A graph that is not cut off shows an entity's every relationship, none
\* without both its ends, and the repository's entities; each of its nodes opens.
GraphAgrees ==
    \A root \in Known : \A g \in Graphs(root) :
        /\ \A e \in g.edges : {e[1], e[2]} \subseteq g.nodes
        /\ \A x \in g.nodes : GetEntity(x) = {x} /\ ChatEntity(x) = {x}
        /\ ~g.truncated =>
            /\ Relationships(root) \subseteq g.edges
            /\ ListEntities("", "", root) \subseteq g.nodes

\* The chat's answer is the page's first one; and where no two entities were
\* last seen together, whoever follows next_page sees each of them once.
EntitiesAgree ==
    \A d \in {e.domain : e \in Entity} \cup {""}, k \in {e.kind : e \in Entity} \cup {""} :
        LET found == ListEntities(d, k, NoRepo) IN
        /\ QueryEntities(d, k) = EntityPages(found, 1)
        /\ (\A a, b \in Known : Together(a, b) => a = b) =>
            \A e \in found :
                Cardinality({n \in PageNumbers(found) :
                                \E p \in EntityPages(found, n) : e \in p}) = 1

\* The chat lists the risks the register lists, a worst one first.
RisksAgree ==
    \A st \in RiskStatus \cup {"any"}, s \in Severity \cup {"any"} :
        /\ ChatRisks(st, s) = ListRisks(st, s)
        /\ \A t \in Severity : (ListRisks(st, t) # {} /\ s = "any") =>
            \A r \in FirstCards(RiskCards(ChatRisks(st, s))) : Rank(risk[r].severity) <= Rank(t)

\* Asked for an open finding, the agent shows that one.
AskedIsShown ==
    Cardinality(QueryFindings("", "", "")) <= BROAD_PAGE =>
        \A f \in QueryFindings("", "", "") : GetFinding(f) = {f}

\* Whoever compares two views of the same rows finds them agree (the copies of
\* one aggregate in findings_list, findings_rollup, findings_summary,
\* compliance_summary, ai_summary, tools_dispatch, trust and entities_api).
ViewsAgree ==
    /\ Rows # {} => TotalsAgree /\ ScoresAgree /\ AiAgrees /\ AskedIsShown
    /\ Known # {} => GraphAgrees /\ EntitiesAgree
    /\ DOMAIN risk # {} => RisksAgree
=============================================================================
