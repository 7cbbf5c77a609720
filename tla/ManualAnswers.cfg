SPECIFICATION RegisterSpec
CONSTANTS
    Batch = {b1}
    Template = {k1}
    Editor = {e1}
    MAX_VERSION = 2
    Item = {i1, i2}
    Worker = {w1, w2}
    MAX_COUNT = 1
    MAX_EDITS = 1
    Tenant = {"acme"}
    Slug = {s1}
    Admin = {a1}
    TenantOf <- MCTenantOf
INVARIANT ManualAnswersKept
CHECK_DEADLOCK FALSE
