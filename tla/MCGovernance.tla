---------------------------- MODULE MCGovernance ----------------------------
(* Two tenants; the first has two admins.  Two findings of one check in two  *)
(* clouds, and one of code that concerns AI.                                 *)
EXTENDS Governance

CONSTANTS a1, a2, a3

MCTenantOf == [a \in Admin |-> IF a = a3 THEN "globex" ELSE "acme"]

Bucket(cloud, resource) ==
    [check |-> "bucket_public", domain |-> "storage", resource |-> resource, conn |-> cloud,
     tags |-> {<<"soc2", "CC6.1">>}, aiSubject |-> FALSE, person |-> NoPerson]

MCFinding ==
    {Bucket("aws", "b1"), Bucket("gcp", "b2"),
     [check |-> "guardrail", domain |-> "ai", resource |-> "app.py", conn |-> NoConn,
      tags |-> {<<"soc2", "CC6.1">>, <<"nist_ai_rmf", "MAP-1">>, <<"nist_ai_rmf", "MAP-2">>},
      aiSubject |-> TRUE, person |-> "ada"]}

MCEntity ==
    {[kind |-> "github_repo", domain |-> "code", key |-> "acme/app"],
     [kind |-> "ai_model", domain |-> "ai", key |-> "gpt"],
     [kind |-> "ai_agent", domain |-> "ai", key |-> "helper"]}
=============================================================================
