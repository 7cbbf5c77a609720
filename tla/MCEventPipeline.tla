--------------------------- MODULE MCEventPipeline ---------------------------
(* The scenarios of the run events: which events the account emits.         *)
EXTENDS EventPipeline

CONSTANTS e1, e2

Drifting == [detail |-> "cloudtrail", action |-> "RunInstances", world |-> FALSE,
             db_port |-> FALSE, score |-> 0, id |-> TRUE, principal |-> "app", copies |-> 1]
OpenDb   == [Drifting EXCEPT !.action = "AuthorizeSecurityGroupIngress",
                             !.world = TRUE, !.db_port = TRUE, !.copies = 2]
Config   == [Drifting EXCEPT !.detail = "config", !.id = FALSE]
Alert    == [Drifting EXCEPT !.detail = "guardduty", !.score = 7, !.copies = 2]
Nothing  == [Drifting EXCEPT !.copies = 0]
Guest    == [Drifting EXCEPT !.detail = "bedrock", !.principal = "guest", !.copies = 2]
App      == [Drifting EXCEPT !.detail = "bedrock"]

Pair(a, b) == [e \in {e1, e2} |-> IF e = e1 THEN a ELSE b]
Once(s) == [s EXCEPT !.copies = 1]
MCShapes ==
    {Pair(Drifting, Config), Pair(Alert, Once(Alert)), Pair(OpenDb, Nothing),
     Pair(Guest, App), Pair(Guest, Once(Guest))}
=============================================================================
