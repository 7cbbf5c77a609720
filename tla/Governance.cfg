SPECIFICATION Spec
CONSTANTS
    Tab = {t1, t2}
    Payload = {"as_proposed", "edited"}
    Proposed = "as_proposed"
    MAX_CLICKS = 2
    MAX_PATCHES = 2
    Batch = {b1}
    Template = {k1}
    Editor = {e1, e2}
    MAX_VERSION = 3
    Item = {i1, i2}
    Worker = {w1, w2}
    MAX_COUNT = 1
    MAX_EDITS = 1
    Tenant = {"acme", "globex"}
    Slug = {s1, s2}
    a1 = a1
    a2 = a2
    a3 = a3
    Admin = {a1, a2, a3}
    TenantOf <- MCTenantOf
    Identity = {google, microsoft}
    Trigger = {g1, g2, g3}
    Click = {c1, c2, c3}
    IN_APP = 1
    Finding <- MCFinding
    Entity <- MCEntity
    NoRepo = NoRepo
    Risk = {r1, r2}
    Framework = {"soc2", "nist_ai_rmf"}
    AiFramework = {"nist_ai_rmf"}
    Control = {"CC6.1", "MAP-1", "MAP-2"}
    Person = {"ada"}
    NoConn = "none"
    NoPerson = "nobody"
    AnyCloud = "any"
    AnyFramework = "any"
    PAGE = 1
    BROAD_PAGE = 3
    GRAPH_DEPTH = 2
    GRAPH_MAX_NODES = 2
    MAX_EDGES = 4
    ENTITY_PAGE = 1
    Request = {q1, q2}
    Alert = {m1}
    Workspace = {ws1, ws2}
    Nowhere = Nowhere
    MAX_POSTS = 2
INVARIANTS DecisionsStand OneAdmin ApprovedHasRow RowStands RegistersTrue ViewsAgree WordStands
CHECK_DEADLOCK FALSE
