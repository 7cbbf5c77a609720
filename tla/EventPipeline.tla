---------------------------- MODULE EventPipeline ----------------------------
(***************************************************************************)
(* A customer account's events: the router (event_router) stores, pushes   *)
(* and queues them; the enrichment Lambda (soc_enrichment) explains the    *)
(* configuration drift among them within daily budgets; Bedrock calls take *)
(* a branch of their own into the entity graph.                            *)
(*                                                                         *)
(* EventBridge delivers an event at least once.  A delivery is a process,  *)
(* and the row it inserts carries its name (the invocation draws           *)
(* event_id).  Each step is one call to a service: a call that fails       *)
(* raises, and a Lambda may die between two calls.                         *)
(***************************************************************************)
EXTENDS Naturals, FiniteSets

CONSTANTS
    Event,            \* what happens in the customer's account
    Shapes,           \* what the events may be: functions from Event to Shape
    COPIES,           \* bound: deliveries of one event
    Worker,           \* concurrent invocations of the enrichment Lambda
    DEVICES,          \* device tokens of the tenant
    PUSH_RATE_LIMIT_HOUR,
    BATCH_SIZE, MAX_RECEIVE,
    DAILY_CAP_CENTS, MAX_COST,    \* the LLM's cap, the dearest call
    GREYNOISE_CAP,
    Allowed,          \* bedrock_allowed_principals; Principal when not configured
    HIGH_VOLUME,      \* calls a day above which a principal is reported
    MAX_HOUR          \* bound: hours that pass

Principal == {"app", "guest"}
Shape == [detail : {"guardduty", "cloudtrail", "config", "bedrock"},
          action : {"AuthorizeSecurityGroupIngress", "CreateAccessKey", "RunInstances"},
          world : BOOLEAN, db_port : BOOLEAN,   \* what an ingress rule opens
          score : 0..10,                        \* GuardDuty's severity
          id : BOOLEAN,                         \* a source_event_id exists
          principal : Principal,
          copies : 0..COPIES]                   \* how often it is delivered

ASSUME EventAssumption ==
    /\ Shapes \subseteq [Event -> Shape]
    /\ {DEVICES, PUSH_RATE_LIMIT_HOUR, MAX_RECEIVE, MAX_COST, HIGH_VOLUME, MAX_HOUR}
         \subseteq Nat
    /\ {COPIES, BATCH_SIZE, DAILY_CAP_CENTS, GREYNOISE_CAP} \subseteq Nat \ {0}
    /\ IsFiniteSet(Event) /\ IsFiniteSet(Worker)
    /\ Allowed \subseteq Principal

Delivery == Event \X (1..COPIES)

VARIABLES
    shape, connected, hour,       \* the events, the account's connection, the clock
    pc, archive, sent, silenced,  \* each delivery: its next call, its S3 object, the
                                  \* devices it notified, the hour it kept quiet in
    row, push_count,              \* the events table, the hourly counter
    msg, receives,                \* the enrichment queue
    wpc, todo, batch, outcome,    \* each enrichment invocation
    spend, lookups,               \* the daily counters
    entities, calls, findings,    \* what the Bedrock branch writes
    rollup                        \* the rows the daily rollup still has to look at

env     == <<shape, connected, hour>>
soc     == <<archive, sent, silenced, row, push_count, msg>>
invoked == <<wpc, todo, batch, outcome>>
enrich  == <<receives, invoked, spend, lookups>>
bedrock == <<entities, calls, findings, rollup>>
vars    == <<env, pc, soc, enrich, bedrock>>

NoRow == [stored |-> FALSE, drift |-> FALSE, push_sent |-> FALSE, ai |-> "none"]
Mark  == {"text", "unavailable", "cap_reached"}
Row   == [stored : BOOLEAN, drift : BOOLEAN, push_sent : BOOLEAN, ai : Mark \cup {"none"}]
Check == {"unsanctioned", "inventory", "high_volume"}
Never == MAX_HOUR + 1             \* silenced[d] when d was not kept quiet

InTry     == {"resolve", "insert", "drift"}
InPushTry == {"count", "send", "increment", "mark"}
InBedrock == {"b_resolve", "b_model", "b_count", "b_principal", "b_edge",
              "b_allowed", "b_inventory"}
Running   == InTry \cup InPushTry \cup {"enqueue"} \cup InBedrock
Over      == {"dropped", "deduped", "returned", "dead"}

Init ==
    /\ shape \in Shapes /\ connected = TRUE /\ hour = 0
    /\ pc = [d \in Delivery |-> "pending"]
    /\ archive = [d \in Delivery |-> "none"]
    /\ sent = [d \in Delivery |-> 0] /\ silenced = [d \in Delivery |-> Never]
    /\ row = [d \in Delivery |-> NoRow] /\ push_count = [h \in 0..MAX_HOUR |-> 0]
    /\ msg = [d \in Delivery |-> "none"] /\ receives = [d \in Delivery |-> 0]
    /\ wpc = [w \in Worker |-> "idle"] /\ outcome = [w \in Worker |-> "none"]
    /\ todo = [w \in Worker |-> {}] /\ batch = [w \in Worker |-> {}]
    /\ spend = 0 /\ lookups = 0
    /\ entities = {} /\ calls = [p \in Principal |-> 0]
    /\ findings = [c \in Check |-> "absent"] /\ rollup = {}

\* The hour turns; the connection is revoked in the app.
NextHour ==
    /\ hour < MAX_HOUR /\ hour' = hour + 1
    /\ UNCHANGED <<shape, connected, pc, soc, enrich, bedrock>>
Disconnect ==
    /\ connected /\ connected' = FALSE
    /\ UNCHANGED <<shape, hour, pc, soc, enrich, bedrock>>

-----------------------------------------------------------------------------
(* What the router reads off an event.                                     *)

IsBedrock(s)    == s.detail = "bedrock"
ClassifyKind(s) == IF s.detail \in {"cloudtrail", "config"} THEN "drift" ELSE "alert"

\* The first matching rule of the action; "medium" when it has rules and none
\* matches, "low" when it has none (as a Config item's resource type).
DriftSeverity(s) ==
    CASE s.detail = "config" \/ s.action = "RunInstances" -> "low"
      [] s.action = "CreateAccessKey" -> "high"
      [] OTHER -> CASE s.world /\ s.db_port -> "critical"
                    [] s.world /\ ~s.db_port -> "high"
                    [] ~s.world -> "medium"

Severity(s) ==
    IF ClassifyKind(s) = "drift" THEN DriftSeverity(s)
    ELSE CASE s.score >= 8 -> "critical"
           [] s.score = 7 -> "high"
           [] s.score \in 4..6 -> "medium"
           [] s.score \in 1..3 -> "low"
           [] s.score = 0 -> "info"

ShouldPush(severity, n) ==
    severity = "critical" \/ (severity = "high" /\ n < PUSH_RATE_LIMIT_HOUR)

ShapeOf(d) == shape[d[1]]
Drift(d)   == ClassifyKind(ShapeOf(d)) = "drift"

\* A row with the delivery's (tenant, source, source_event_id) is there.
Duplicate(d) == ShapeOf(d).id /\ \E n \in 1..COPIES : row[<<d[1], n>>].stored

-----------------------------------------------------------------------------
(* The router.                                                             *)

Go(d, l) == pc' = [pc EXCEPT ![d] = l]
InRouter == UNCHANGED <<env, enrich, bedrock>>

\* The copies of an event are delivered in order and may run side by side.
Deliver(d) ==
    /\ pc[d] = "pending" /\ d[2] <= ShapeOf(d).copies
    /\ \A n \in 1..(d[2] - 1) : pc[<<d[1], n>>] # "pending"
    /\ Go(d, IF IsBedrock(ShapeOf(d)) THEN "b_resolve" ELSE "resolve")
    /\ InRouter /\ UNCHANGED soc

\* _find_connection_by_account and the prefix the raw event is archived under.
Resolve(d) ==
    /\ pc[d] = "resolve"
    /\ archive' = [archive EXCEPT ![d] = IF connected THEN "raw" ELSE "stranded"]
    /\ Go(d, IF connected THEN "insert" ELSE "dropped")
    /\ InRouter /\ UNCHANGED <<sent, silenced, row, push_count, msg>>

AfterInsert(d) == IF Drift(d) THEN "drift" ELSE "count"
AfterPush(d)   == IF Drift(d) THEN "enqueue" ELSE "returned"

\* Mutant: no unique index, every delivery inserts.
InsertAlways(d) ==
    /\ pc[d] = "insert"
    /\ row' = [row EXCEPT ![d].stored = TRUE] /\ Go(d, AfterInsert(d))
    /\ InRouter /\ UNCHANGED <<archive, sent, silenced, push_count, msg>>

\* INSERT ... ON CONFLICT DO NOTHING RETURNING: no row back is a duplicate.
InsertEvent(d) ==
    /\ pc[d] = "insert"
    /\ IF Duplicate(d)
       THEN Go(d, "deduped") /\ UNCHANGED row
       ELSE row' = [row EXCEPT ![d].stored = TRUE] /\ Go(d, AfterInsert(d))
    /\ InRouter /\ UNCHANGED <<archive, sent, silenced, push_count, msg>>

InsertDrift(d) ==
    /\ pc[d] = "drift"
    /\ row' = [row EXCEPT ![d].drift = TRUE]
    /\ Go(d, "count")
    /\ InRouter /\ UNCHANGED <<archive, sent, silenced, push_count, msg>>

\* push_count_current, should_push and the device tokens.
ReadPushCount(d) ==
    LET severity == Severity(ShapeOf(d))
        push     == ShouldPush(severity, push_count[hour])
    IN  /\ pc[d] = "count"
        /\ silenced' = IF severity = "high" /\ ~push
                       THEN [silenced EXCEPT ![d] = hour] ELSE silenced
        /\ Go(d, IF push /\ DEVICES > 0 THEN "send" ELSE AfterPush(d))
        /\ InRouter /\ UNCHANGED <<archive, sent, row, push_count, msg>>

\* Mutant: the push is counted before it is sent.
IncrementFirst(d) ==
    /\ pc[d] = "send"
    /\ push_count' = [push_count EXCEPT ![hour] = @ + 1]
    /\ \E n \in 0..DEVICES : sent' = [sent EXCEPT ![d] = n]
    /\ Go(d, "mark")
    /\ InRouter /\ UNCHANGED <<archive, silenced, row, msg>>

\* send_push, device after device: a publish that raises ends the loop, its
\* own notification out or not, and the counter is skipped.
SendPush(d) ==
    /\ pc[d] = "send"
    /\ \E n \in 0..DEVICES, raised \in BOOLEAN :
        /\ n < DEVICES => raised
        /\ sent' = [sent EXCEPT ![d] = n]
        /\ Go(d, IF raised THEN AfterPush(d) ELSE "increment")
    /\ InRouter /\ UNCHANGED <<archive, silenced, row, push_count, msg>>

\* The counter of the hour of this call; it may go up although the call raises.
IncrementPushCount(d) ==
    /\ pc[d] = "increment"
    /\ push_count' = [push_count EXCEPT ![hour] = @ + 1]
    /\ \E raised \in BOOLEAN : Go(d, IF raised THEN AfterPush(d) ELSE "mark")
    /\ InRouter /\ UNCHANGED <<archive, sent, silenced, row, msg>>

MarkPushSent(d) ==
    /\ pc[d] = "mark"
    /\ row' = [row EXCEPT ![d].push_sent = TRUE]
    /\ Go(d, AfterPush(d))
    /\ InRouter /\ UNCHANGED <<archive, sent, silenced, push_count, msg>>

\* A failed send_message is logged and swallowed.
Enqueue(d) ==
    /\ pc[d] = "enqueue"
    /\ \E ok \in BOOLEAN : msg' = IF ok THEN [msg EXCEPT ![d] = "queued"] ELSE msg
    /\ Go(d, "returned")
    /\ InRouter /\ UNCHANGED <<archive, sent, silenced, row, push_count>>

\* A statement raises, and may have landed.  The outer except clause answers
\* {"ok": False}, so nobody retries; the push has an except clause of its own.
RouterCallFails(d) ==
    /\ pc[d] \in InTry \cup {"count", "mark"}
    /\ Go(d, IF pc[d] \in InTry THEN "dropped" ELSE AfterPush(d))
    /\ \/ UNCHANGED row
       \/ pc[d] = "insert" /\ ~Duplicate(d) /\ row' = [row EXCEPT ![d].stored = TRUE]
       \/ pc[d] = "drift" /\ row' = [row EXCEPT ![d].drift = TRUE]
       \/ pc[d] = "mark" /\ row' = [row EXCEPT ![d].push_sent = TRUE]
    /\ InRouter /\ UNCHANGED <<archive, sent, silenced, push_count, msg>>

\* The Lambda dies or times out; the next copy is EventBridge's retry.
RouterDies(d) ==
    /\ pc[d] \in Running /\ Go(d, "dead")
    /\ InRouter /\ UNCHANGED soc

-----------------------------------------------------------------------------
(* The Bedrock branch has no except clause: a failing call ends the        *)
(* invocation (RouterDies), and a retry starts over.                       *)

PrincipalOf(d) == ShapeOf(d).principal
InBranch == UNCHANGED <<env, soc, enrich>>

BedrockResolve(d) ==
    /\ pc[d] = "b_resolve"
    /\ Go(d, IF connected THEN "b_model" ELSE "dropped")
    /\ InBranch /\ UNCHANGED bedrock

\* The upserts of the model, of the principal and of the edge between them.
UpsertEntity(d) ==
    /\ \/ /\ pc[d] = "b_model" /\ Go(d, "b_count")
          /\ entities' = entities \cup {<<"model", "any">>}
       \/ /\ pc[d] = "b_principal" /\ Go(d, "b_edge")
          /\ entities' = entities \cup {<<"principal", PrincipalOf(d)>>}
       \/ /\ pc[d] = "b_edge" /\ Go(d, "b_allowed")
          /\ entities' = entities \cup {<<"uses", PrincipalOf(d)>>}
    /\ InBranch /\ UNCHANGED <<calls, findings, rollup>>

\* Mutant: a conflict overwrites the rollup's attributes, as it does for the
\* other entities.
RollupOverwritten(d) ==
    /\ pc[d] = "b_count" /\ Go(d, "b_principal")
    /\ calls' = [calls EXCEPT ![PrincipalOf(d)] = 1]
    /\ InBranch /\ UNCHANGED <<entities, findings, rollup>>

\* One atomic increment of the (principal, model, day) row; a retry of the
\* same call counts it once more.
UpsertInvocationRollup(d) ==
    /\ pc[d] = "b_count" /\ Go(d, "b_principal")
    /\ calls' = [calls EXCEPT ![PrincipalOf(d)] = @ + 1]
    /\ InBranch /\ UNCHANGED <<entities, findings, rollup>>

\* _emit_bedrock_finding: the natural key holds the check and the model, not
\* the principal, which is evidence and overwritten.
Emit(c, p) == findings' = [findings EXCEPT ![c] = p]

Detect(d) ==
    /\ \/ /\ pc[d] = "b_allowed" /\ Go(d, "b_inventory")
          /\ IF PrincipalOf(d) \in Allowed THEN UNCHANGED findings
             ELSE Emit("unsanctioned", PrincipalOf(d))
       \/ pc[d] = "b_inventory" /\ Go(d, "returned") /\ Emit("inventory", PrincipalOf(d))
    /\ InBranch /\ UNCHANGED <<entities, calls, rollup>>

\* The daily rollup reads the day's rows once and reports them one by one; it
\* finds no active connection after a disconnect, and may die on the way.
RollupRead ==
    /\ rollup = {} /\ rollup' = {p \in Principal : calls[p] > HIGH_VOLUME}
    /\ UNCHANGED <<env, pc, soc, enrich, entities, calls, findings>>
RollupEmit(p) ==
    /\ p \in rollup /\ rollup' = rollup \ {p}
    /\ IF connected THEN Emit("high_volume", p) ELSE UNCHANGED findings
    /\ UNCHANGED <<env, pc, soc, enrich, entities, calls>>
RollupDies ==
    /\ rollup # {} /\ rollup' = {}
    /\ UNCHANGED <<env, pc, soc, enrich, entities, calls, findings>>

-----------------------------------------------------------------------------
(* The enrichment Lambda.  The visibility timeout is longer than its time  *)
(* limit, so no message is in two invocations.                             *)

Working == {"lookup", "count", "ask", "charge", "update"}
InWorker == UNCHANGED <<env, pc, archive, sent, silenced, push_count, bedrock>>
To(w, l) == wpc' = [wpc EXCEPT ![w] = l]
Result(w, r) == outcome' = [outcome EXCEPT ![w] = r] /\ To(w, "update")

\* Mutant: a delivery is not counted, so no message reaches the DLQ.
TakeUncounted(w) ==
    /\ wpc[w] = "idle"
    /\ \E b \in SUBSET {d \in Delivery : msg[d] = "queued"} :
        /\ b # {} /\ Cardinality(b) <= BATCH_SIZE
        /\ msg' = [d \in Delivery |-> IF d \in b THEN "taken" ELSE msg[d]]
        /\ batch' = [batch EXCEPT ![w] = b] /\ todo' = [todo EXCEPT ![w] = b]
    /\ To(w, "lookup")
    /\ InWorker /\ UNCHANGED <<row, receives, outcome, spend, lookups>>

TakeBatch(w) ==
    /\ wpc[w] = "idle"
    /\ \E b \in SUBSET {d \in Delivery : msg[d] = "queued" /\ receives[d] < MAX_RECEIVE} :
        /\ b # {} /\ Cardinality(b) <= BATCH_SIZE
        /\ msg' = [d \in Delivery |-> IF d \in b THEN "taken" ELSE msg[d]]
        /\ receives' = [d \in Delivery |-> IF d \in b THEN receives[d] + 1 ELSE receives[d]]
        /\ batch' = [batch EXCEPT ![w] = b] /\ todo' = [todo EXCEPT ![w] = b]
    /\ To(w, "lookup")
    /\ InWorker /\ UNCHANGED <<row, outcome, spend, lookups>>

DeadLetter(d) ==
    /\ msg[d] = "queued" /\ receives[d] = MAX_RECEIVE
    /\ msg' = [msg EXCEPT ![d] = "dlq"]
    /\ InWorker /\ UNCHANGED <<row, enrich>>

\* The event's row (every row of the queue exists), then compute_features: its
\* queries, and GreyNoise for an address no feed knows.  An exception in it, or
\* in call_llm, marks the event "unavailable".
UnderCap(w) ==
    /\ wpc[w] = "lookup"
    /\ \E asked \in BOOLEAN :
        To(w, IF asked /\ lookups < GREYNOISE_CAP THEN "count" ELSE "ask")
    /\ InWorker /\ UNCHANGED <<row, msg, receives, todo, batch, outcome, spend, lookups>>

CountLookup(w) ==
    /\ wpc[w] = "count"
    /\ lookups' = lookups + 1 /\ To(w, "ask")
    /\ InWorker /\ UNCHANGED <<row, msg, receives, todo, batch, outcome, spend>>

\* Mutant: nobody looks at the cap.
AskAlways(w) ==
    /\ wpc[w] = "ask" /\ To(w, "charge")
    /\ InWorker /\ UNCHANGED <<row, msg, receives, todo, batch, outcome, spend, lookups>>

AskSpend(w) ==
    /\ wpc[w] = "ask"
    /\ IF spend >= DAILY_CAP_CENTS THEN Result(w, "cap_reached")
       ELSE To(w, "charge") /\ UNCHANGED outcome
    /\ InWorker /\ UNCHANGED <<row, msg, receives, todo, batch, spend, lookups>>

\* The model has answered: _estimate_cents rounds down twice, so the call may
\* cost nothing.
Charge(w) ==
    /\ wpc[w] = "charge"
    /\ \E cents \in 0..MAX_COST : spend' = spend + cents
    /\ Result(w, "text")
    /\ InWorker /\ UNCHANGED <<row, msg, receives, todo, batch, lookups>>

\* An answer that does not parse raises after the call and before the charge.
EnrichmentFails(w) ==
    /\ wpc[w] \in {"lookup", "count", "ask", "charge"}
    /\ Result(w, "unavailable")
    /\ InWorker /\ UNCHANGED <<row, msg, receives, todo, batch, spend, lookups>>

Release(w, s) ==
    /\ msg' = [d \in Delivery |-> IF d \in batch[w] THEN s ELSE msg[d]]
    /\ batch' = [batch EXCEPT ![w] = {}] /\ todo' = [todo EXCEPT ![w] = {}]
    /\ outcome' = [outcome EXCEPT ![w] = "none"] /\ To(w, "idle")

\* _update_event_ai overwrites whatever an earlier delivery wrote.  After the
\* last record the Lambda returns and SQS deletes the batch.
UpdateEventAi(w) ==
    /\ wpc[w] = "update"
    /\ \E d \in todo[w] :
        /\ row' = [row EXCEPT ![d].ai = outcome[w]]
        /\ IF todo[w] = {d} THEN Release(w, "done")
           ELSE /\ todo' = [todo EXCEPT ![w] = @ \ {d}]
                /\ outcome' = [outcome EXCEPT ![w] = "none"] /\ To(w, "lookup")
                /\ UNCHANGED <<msg, batch>>
    /\ InWorker /\ UNCHANGED <<receives, spend, lookups>>

\* The row cannot be read or written, or the Lambda times out: the whole batch
\* is delivered again, the records already written with it.
WorkerDies(w) ==
    /\ wpc[w] \in Working
    /\ Release(w, "queued")
    /\ InWorker /\ UNCHANGED <<row, receives, spend, lookups>>

-----------------------------------------------------------------------------
RouterStep(d) ==
    \/ Resolve(d) \/ InsertEvent(d) \/ InsertDrift(d) \/ ReadPushCount(d) \/ SendPush(d)
    \/ IncrementPushCount(d) \/ MarkPushSent(d) \/ Enqueue(d) \/ RouterCallFails(d)
    \/ RouterDies(d) \/ BedrockResolve(d) \/ UpsertEntity(d) \/ UpsertInvocationRollup(d)
    \/ Detect(d)
WorkerStep(w) ==
    \/ TakeBatch(w) \/ UnderCap(w) \/ CountLookup(w) \/ AskSpend(w)
    \/ Charge(w) \/ EnrichmentFails(w) \/ UpdateEventAi(w) \/ WorkerDies(w)

Next ==
    \/ NextHour \/ Disconnect \/ RollupRead \/ RollupDies
    \/ \E p \in Principal : RollupEmit(p)
    \/ \E d \in Delivery : Deliver(d) \/ RouterStep(d) \/ DeadLetter(d)
    \/ \E w \in Worker : WorkerStep(w)

\* A running invocation goes on or dies; SQS delivers what is in the queue.
\* Nothing says that EventBridge delivers once more, or that an hour passes.
Fairness ==
    /\ WF_vars(\E d \in Delivery : RouterStep(d) \/ DeadLetter(d))
    /\ WF_vars(\E w \in Worker : WorkerStep(w))

Spec == Init /\ [][Next]_vars
FairSpec == Spec /\ Fairness
-----------------------------------------------------------------------------
\* Type invariant of the router, its tables, the queue and the counters.
TypeOK ==
    /\ shape \in Shapes /\ connected \in BOOLEAN /\ hour \in 0..MAX_HOUR
    /\ pc \in [Delivery -> Running \cup Over \cup {"pending"}]
    /\ archive \in [Delivery -> {"none", "raw", "stranded"}]
    /\ sent \in [Delivery -> 0..DEVICES] /\ silenced \in [Delivery -> 0..Never]
    /\ row \in [Delivery -> Row] /\ push_count \in [0..MAX_HOUR -> Nat]
    /\ msg \in [Delivery -> {"none", "queued", "taken", "done", "dlq"}]
    /\ receives \in [Delivery -> 0..MAX_RECEIVE]
    /\ wpc \in [Worker -> Working \cup {"idle"}]
    /\ outcome \in [Worker -> Mark \cup {"none"}]
    /\ todo \in [Worker -> SUBSET Delivery] /\ batch \in [Worker -> SUBSET Delivery]
    /\ spend \in Nat /\ lookups \in Nat
    /\ calls \in [Principal -> Nat]
    /\ findings \in [Check -> Principal \cup {"absent"}] /\ rollup \subseteq Principal

\* However often EventBridge delivers an event that has an id, and wherever
\* the deliveries die, at most one of them notifies the tenant's devices and
\* at most one of them is queued for enrichment.
AlertedOnce ==
    \A e \in Event : shape[e].id =>
        \A m, n \in 1..COPIES :
            /\ sent[<<e, m>>] > 0 /\ sent[<<e, n>>] > 0 => m = n
            /\ msg[<<e, m>>] # "none" /\ msg[<<e, n>>] # "none" => m = n

\* A high event is kept quiet only when the tenant really got that many
\* pushes: failed pushes do not use up the hour's limit.  A push near the end
\* of an hour may be counted in the next one.
SilencedOnlyAtLimit ==
    \A d \in Delivery : silenced[d] # Never =>
        Cardinality({x \in Delivery : sent[x] = DEVICES}) >= PUSH_RATE_LIMIT_HOUR

\* Checked before the call and charged after it, the spend passes its cap by
\* at most one call of each concurrent invocation.
SpendNearCap ==
    spend <= DAILY_CAP_CENTS - 1 + Cardinality(Worker) * MAX_COST

\* Each Bedrock call whose handling returned is counted for its principal, no
\* delivery is counted twice, and the graph and the findings tell of it; a
\* principal named for its volume did make that many calls.
BedrockAccounted ==
    \A p \in Principal :
        LET Ours     == {d \in Delivery : IsBedrock(ShapeOf(d)) /\ PrincipalOf(d) = p}
            returned == {d \in Ours : pc[d] = "returned"}
        IN  /\ Cardinality(returned) <= calls[p]
            /\ calls[p] <= Cardinality({d \in Ours : pc[d] # "pending"})
            /\ returned # {} =>
                /\ {<<"model", "any">>, <<"principal", p>>, <<"uses", p>>} \subseteq entities
                /\ findings["inventory"] # "absent"
                /\ p \notin Allowed => findings["unsanctioned"] # "absent"
            /\ findings["high_volume"] = p => calls[p] > HIGH_VOLUME

\* Once the account is quiet, every queued event is set aside or has its mark,
\* a narrative or the reason why there is none ("a row is never left
\* un-marked"): none stays in the queue, comes back for ever or is lost in a batch.
QueueDrains ==
    <>[](\A d \in Delivery :
            msg[d] \in {"none", "dlq"} \/ (msg[d] = "done" /\ row[d].ai # "none"))
=============================================================================
