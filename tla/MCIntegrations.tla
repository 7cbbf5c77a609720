--------------------------- MODULE MCIntegrations ---------------------------
(* Two reports that overlap, and two repositories that share a model and a  *)
(* bucket: each scan meets them in its own order, and the first only points *)
(* at the bucket the second describes.  Three of the applications: one the  *)
(* catalog takes for a company's, one whose tier it leaves open, another.   *)
EXTENDS Integrations

CONSTANTS c1, c2, s1, s2, k1, k2, repo1, repo2, model, bucket

MCReported == [c \in Completion |-> IF c = c1 THEN {s1} ELSE {s1, s2}]

Described(e) == [key |-> e, stub |-> FALSE]
Pointed(e)   == [key |-> e, stub |-> TRUE]
MCWrites == [k \in AiScanId |->
    IF k = k1 THEN <<Described(repo1), Described(model), Pointed(bucket)>>
    ELSE <<Described(repo2), Described(bucket), Described(model)>>]

MCCatalog == [x \in App |-> CASE x = "ChatGPT Enterprise" -> "corp"
                            [] x = "ChatGPT"            -> "unknown"
                            [] OTHER                    -> "none"]
=============================================================================
