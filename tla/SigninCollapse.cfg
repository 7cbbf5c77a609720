SPECIFICATION Spec
CONSTANTS
    c1 = c1
    c2 = c2
    s1 = s1
    s2 = s2
    Completion = {c1, c2}
    Sub = {s1, s2}
    Reported <- MCReported
    Patch = {p1}
    Delete = {d1}
    Rescan = {rescan1}
    None = None
    Region = {r1, r2}
    DegradedDefault = {r1}
    Collector = {sqs}
    RegionalModule = {kms}
    GlobalModule = {iam}
    MAX_FAULTS = 1
    Flow = {f1, f2}
    Call = {q1, q2}
    Disconnect = {x1}
    MAX_PAIRS = 3
    Nobody = Nobody
    k1 = k1
    k2 = k2
    repo1 = repo1
    repo2 = repo2
    model = model
    bucket = bucket
    AiScanId = {k1, k2}
    Key = {repo1, repo2, model, bucket}
    Writes <- MCWrites
    Vulnerable = {k1}
    MAX_RECEIVES = 2
    Attempt = {e1, e2}
    User = {ada, bob}
    App = {"ChatGPT Enterprise", "ChatGPT", "Excel"}
    Catalog <- MCCatalog
    NoRow = NoRow
INVARIANT EverySigninHasFinding
CHECK_DEADLOCK FALSE
