------------------------- MODULE EventPipelineProofs -------------------------
(***************************************************************************)
(* What holds of a customer account's events for every list of events,     *)
(* every number of copies, of invocations and of devices, and every cap:   *)
(* one alert per event, quiet only at the hour's limit, the daily spend    *)
(* near its cap, and the Bedrock calls accounted for.                      *)
(***************************************************************************)
EXTENDS EventPipeline, FiniteSetTheorems, TLAPS

\* Everything but the types of what is written down is in the numbers of the bounds.
LEMMA Bounds ==
  /\ {COPIES, DEVICES, PUSH_RATE_LIMIT_HOUR, BATCH_SIZE, MAX_RECEIVE, DAILY_CAP_CENTS, MAX_COST,
      GREYNOISE_CAP, HIGH_VOLUME, MAX_HOUR} \subseteq Nat
  /\ DAILY_CAP_CENTS >= 1 /\ Never \in Nat /\ Never > MAX_HOUR
  BY EventAssumption DEF EventAssumption, Never

-----------------------------------------------------------------------------
(* Types.                                                                  *)

\* Nothing is delivered, inserted, queued or spent.
LEMMA TypeInit == Init => TypeOK
<1> SUFFICES ASSUME Init PROVE TypeOK
  OBVIOUS
<1>1. MAX_HOUR \in Nat /\ DEVICES \in Nat /\ MAX_RECEIVE \in Nat
  BY Bounds
<1>2. Never \in 0..Never /\ 0 \in 0..MAX_HOUR /\ 0 \in 0..DEVICES /\ 0 \in 0..MAX_RECEIVE
  BY Bounds
<1>3. NoRow \in Row
  BY DEF NoRow, Row, Mark
<1>4. /\ pc \in [Delivery -> Running \cup Over \cup {"pending"}]
      /\ wpc \in [Worker -> Working \cup {"idle"}] /\ outcome \in [Worker -> Mark \cup {"none"}]
  BY DEF Init
<1> QED
  BY <1>1, <1>2, <1>3, <1>4 DEF Init, TypeOK

\* The clock, the connection and the daily rollup.
LEMMA TypeEnv ==
  ASSUME TypeOK,
         \/ NextHour
         \/ Disconnect
         \/ RollupRead
         \/ RollupDies
         \/ \E p \in Principal : RollupEmit(p)
  PROVE  TypeOK'
<1> USE DEF TypeOK, env, soc, enrich, invoked, bedrock
<1>1. CASE NextHour
  <2>1. hour' \in 0..MAX_HOUR
    BY <1>1, Bounds DEF NextHour
  <2> QED
    BY <1>1, <2>1 DEF NextHour
<1>2. CASE Disconnect
  BY <1>2 DEF Disconnect
<1>3. CASE RollupRead
  BY <1>3 DEF RollupRead
<1>4. CASE RollupDies
  BY <1>4 DEF RollupDies
<1>5. ASSUME NEW p \in Principal, RollupEmit(p) PROVE TypeOK'
  BY <1>5 DEF RollupEmit, Emit, Check
<1> QED
  BY <1>1, <1>2, <1>3, <1>4, <1>5

\* The router.
LEMMA TypeRouter ==
  ASSUME TypeOK, NEW d \in Delivery,
         \/ Deliver(d)
         \/ Resolve(d)
         \/ InsertEvent(d)
         \/ InsertDrift(d)
         \/ ReadPushCount(d)
         \/ SendPush(d)
         \/ IncrementPushCount(d)
         \/ MarkPushSent(d)
         \/ Enqueue(d)
         \/ RouterCallFails(d)
         \/ RouterDies(d)
  PROVE  TypeOK'
<1> USE DEF TypeOK, soc
<1>1. UNCHANGED <<env, enrich, bedrock>>
  BY DEF Deliver, Resolve, InsertEvent, InsertDrift, ReadPushCount, SendPush, IncrementPushCount,
         MarkPushSent, Enqueue, RouterCallFails, RouterDies, InRouter
<1>2. pc' \in [Delivery -> Running \cup Over \cup {"pending"}]
  <2>1. {"b_resolve", "resolve", "insert", "dropped", "deduped", "drift", "count", "enqueue",
         "returned", "send", "increment", "mark", "dead"} \subseteq Running \cup Over \cup {"pending"}
    BY DEF Running, Over, InTry, InPushTry, InBedrock
  <2>2. \E l \in {"b_resolve", "resolve", "insert", "dropped", "deduped", "drift", "count",
                  "enqueue", "returned", "send", "increment", "mark", "dead"} : Go(d, l)
    BY DEF Deliver, Resolve, InsertEvent, InsertDrift, ReadPushCount, SendPush,
           IncrementPushCount, MarkPushSent, Enqueue, RouterCallFails, RouterDies,
           AfterInsert, AfterPush
  <2> QED
    BY <2>1, <2>2 DEF Go
<1>3. archive' \in [Delivery -> {"none", "raw", "stranded"}]
  BY DEF Deliver, Resolve, InsertEvent, InsertDrift, ReadPushCount, SendPush, IncrementPushCount,
         MarkPushSent, Enqueue, RouterCallFails, RouterDies
<1>4. sent' \in [Delivery -> 0..DEVICES]
  BY DEF Deliver, Resolve, InsertEvent, InsertDrift, ReadPushCount, SendPush, IncrementPushCount,
         MarkPushSent, Enqueue, RouterCallFails, RouterDies
<1>5. silenced' \in [Delivery -> 0..Never]
  <2>1. hour \in 0..Never
    BY Bounds
  <2> QED
    BY <2>1 DEF Deliver, Resolve, InsertEvent, InsertDrift, ReadPushCount, SendPush,
           IncrementPushCount, MarkPushSent, Enqueue, RouterCallFails, RouterDies
<1>6. row' \in [Delivery -> Row]
  <2>1. \A r \in Row : /\ [r EXCEPT !.stored = TRUE] \in Row /\ [r EXCEPT !.drift = TRUE] \in Row
                       /\ [r EXCEPT !.push_sent = TRUE] \in Row
    BY DEF Row
  <2>2. \/ UNCHANGED row
        \/ row' = [row EXCEPT ![d].stored = TRUE]
        \/ row' = [row EXCEPT ![d].drift = TRUE]
        \/ row' = [row EXCEPT ![d].push_sent = TRUE]
    BY DEF Deliver, Resolve, InsertEvent, InsertDrift, ReadPushCount, SendPush,
           IncrementPushCount, MarkPushSent, Enqueue, RouterCallFails, RouterDies
  <2>3. row \in [Delivery -> Row]
    OBVIOUS
  <2> HIDE DEF TypeOK
  <2>4. \E r \in Row : row' = [row EXCEPT ![d] = r]
    BY <2>1, <2>2, <2>3
  <2> QED
    BY <2>3, <2>4
<1>7. push_count' \in [0..MAX_HOUR -> Nat]
  <2>1. push_count' \in {push_count, [push_count EXCEPT ![hour] = @ + 1]}
    BY DEF Deliver, Resolve, InsertEvent, InsertDrift, ReadPushCount, SendPush,
           IncrementPushCount, MarkPushSent, Enqueue, RouterCallFails, RouterDies
  <2>2. push_count \in [0..MAX_HOUR -> Nat] /\ hour \in 0..MAX_HOUR
    OBVIOUS
  <2> HIDE DEF TypeOK
  <2> QED
    BY <2>1, <2>2
<1>8. msg' \in [Delivery -> {"none", "queued", "taken", "done", "dlq"}]
  BY DEF Deliver, Resolve, InsertEvent, InsertDrift, ReadPushCount, SendPush, IncrementPushCount,
         MarkPushSent, Enqueue, RouterCallFails, RouterDies
<1> QED
  BY <1>1, <1>2, <1>3, <1>4, <1>5, <1>6, <1>7, <1>8 DEF env, enrich, invoked, bedrock

\* The Bedrock branch.
LEMMA TypeBranch ==
  ASSUME TypeOK, NEW d \in Delivery,
         \/ BedrockResolve(d)
         \/ UpsertEntity(d)
         \/ UpsertInvocationRollup(d)
         \/ Detect(d)
  PROVE  TypeOK'
<1> USE DEF TypeOK
<1>0. PrincipalOf(d) \in Principal
  <2>1. shape[d[1]] \in Shape
    BY EventAssumption DEF EventAssumption, Delivery
  <2> QED
    BY <2>1 DEF PrincipalOf, ShapeOf, Shape
<1>1. UNCHANGED <<env, soc, enrich, rollup>>
  BY DEF BedrockResolve, UpsertEntity, UpsertInvocationRollup, Detect, InBranch, bedrock
<1>2. pc' \in [Delivery -> Running \cup Over \cup {"pending"}]
  <2>1. {"b_model", "b_count", "b_principal", "b_edge", "b_allowed", "b_inventory", "returned",
         "dropped"} \subseteq Running \cup Over \cup {"pending"}
    BY DEF Running, Over, InTry, InPushTry, InBedrock
  <2>2. \E l \in {"b_model", "b_count", "b_principal", "b_edge", "b_allowed", "b_inventory",
                  "returned", "dropped"} : Go(d, l)
    BY DEF BedrockResolve, UpsertEntity, UpsertInvocationRollup, Detect
  <2> QED
    BY <2>1, <2>2 DEF Go
<1>3. calls' \in [Principal -> Nat]
  BY <1>0 DEF BedrockResolve, UpsertEntity, UpsertInvocationRollup, Detect, bedrock
<1>4. findings' \in [Check -> Principal \cup {"absent"}]
  BY <1>0 DEF BedrockResolve, UpsertEntity, UpsertInvocationRollup, Detect, Emit, Check, bedrock
<1> QED
  BY <1>1, <1>2, <1>3, <1>4 DEF env, soc, enrich, invoked

\* The enrichment.
LEMMA TypeWorker ==
  ASSUME TypeOK,
         \/ \E d \in Delivery : DeadLetter(d)
         \/ \E w \in Worker : WorkerStep(w)
  PROVE  TypeOK'
<1> USE DEF TypeOK
<1>0. UNCHANGED <<env, pc, archive, sent, silenced, push_count, bedrock>>
  BY DEF DeadLetter, WorkerStep, TakeBatch, UnderCap, CountLookup, AskSpend, Charge,
         EnrichmentFails, UpdateEventAi, WorkerDies, InWorker
<1>1. ASSUME NEW d \in Delivery, DeadLetter(d) PROVE TypeOK'
  <2>1. msg' \in [Delivery -> {"none", "queued", "taken", "done", "dlq"}] /\ UNCHANGED <<row, enrich>>
    BY <1>1 DEF DeadLetter
  <2> QED
    BY <1>0, <2>1 DEF env, enrich, invoked, bedrock
<1>2. ASSUME NEW w \in Worker, WorkerStep(w) PROVE TypeOK'
  <2>1. CASE TakeBatch(w)
    <3>1. PICK b \in SUBSET {d \in Delivery : msg[d] = "queued" /\ receives[d] < MAX_RECEIVE} :
            /\ msg' = [d \in Delivery |-> IF d \in b THEN "taken" ELSE msg[d]]
            /\ receives' = [d \in Delivery |-> IF d \in b THEN receives[d] + 1 ELSE receives[d]]
            /\ batch' = [batch EXCEPT ![w] = b] /\ todo' = [todo EXCEPT ![w] = b]
            /\ To(w, "lookup") /\ UNCHANGED <<row, outcome, spend, lookups>>
      BY <2>1 DEF TakeBatch
    <3>2. receives' \in [Delivery -> 0..MAX_RECEIVE]
      <4>1. receives \in [Delivery -> 0..MAX_RECEIVE] /\ MAX_RECEIVE \in Nat
        BY Bounds
      <4> HIDE DEF TypeOK
      <4>2. \A d \in b : receives[d] + 1 \in 0..MAX_RECEIVE
        BY <4>1
      <4> QED
        BY <3>1, <4>1, <4>2
    <3>3. msg' \in [Delivery -> {"none", "queued", "taken", "done", "dlq"}]
      BY <3>1
    <3>4. batch' \in [Worker -> SUBSET Delivery] /\ todo' \in [Worker -> SUBSET Delivery]
      BY <3>1
    <3>5. wpc' \in [Worker -> Working \cup {"idle"}]
      BY <3>1 DEF To, Working
    <3> QED
      BY <1>0, <3>1, <3>2, <3>3, <3>4, <3>5 DEF env, bedrock
  <2>2. CASE UnderCap(w) \/ CountLookup(w) \/ AskSpend(w) \/ Charge(w) \/ EnrichmentFails(w)
    <3>1. UNCHANGED <<row, msg, receives, todo, batch>>
      BY <2>2 DEF UnderCap, CountLookup, AskSpend, Charge, EnrichmentFails
    <3>2. \E l \in {"count", "ask", "charge", "update"} : To(w, l)
      BY <2>2 DEF UnderCap, CountLookup, AskSpend, Charge, EnrichmentFails, Result
    <3>3. outcome' \in [Worker -> Mark \cup {"none"}]
      BY <2>2 DEF UnderCap, CountLookup, AskSpend, Charge, EnrichmentFails, Result, Mark
    <3>4. spend' \in Nat /\ lookups' \in Nat
      <4>1. spend' = spend \/ \E cents \in 0..MAX_COST : spend' = spend + cents
        BY <2>2 DEF UnderCap, CountLookup, AskSpend, Charge, EnrichmentFails
      <4>2. lookups' = lookups \/ lookups' = lookups + 1
        BY <2>2 DEF UnderCap, CountLookup, AskSpend, Charge, EnrichmentFails
      <4>3. spend \in Nat /\ lookups \in Nat /\ MAX_COST \in Nat
        BY Bounds
      <4> HIDE DEF TypeOK
      <4> QED
        BY <4>1, <4>2, <4>3
    <3>5. wpc' \in [Worker -> Working \cup {"idle"}]
      BY <3>2 DEF To, Working
    <3> QED
      BY <1>0, <3>1, <3>3, <3>4, <3>5 DEF env, bedrock
  <2>3. CASE UpdateEventAi(w) \/ WorkerDies(w)
    <3>1. msg' \in [Delivery -> {"none", "queued", "taken", "done", "dlq"}]
      BY <2>3 DEF UpdateEventAi, WorkerDies, Release
    <3>2. batch' \in [Worker -> SUBSET Delivery] /\ todo' \in [Worker -> SUBSET Delivery]
      <4>1. \E b \in SUBSET batch[w] : batch' = [batch EXCEPT ![w] = b]
        BY <2>3 DEF UpdateEventAi, WorkerDies, Release
      <4>2. \E b \in SUBSET todo[w] : todo' = [todo EXCEPT ![w] = b]
        BY <2>3 DEF UpdateEventAi, WorkerDies, Release
      <4>3. batch \in [Worker -> SUBSET Delivery] /\ todo \in [Worker -> SUBSET Delivery]
        OBVIOUS
      <4> HIDE DEF TypeOK
      <4> QED
        BY <4>1, <4>2, <4>3
    <3>3. outcome' \in [Worker -> Mark \cup {"none"}] /\ wpc' \in [Worker -> Working \cup {"idle"}]
      <4>1. outcome' = [outcome EXCEPT ![w] = "none"]
        BY <2>3 DEF UpdateEventAi, WorkerDies, Release
      <4>2. \E l \in {"idle", "lookup"} : wpc' = [wpc EXCEPT ![w] = l]
        BY <2>3 DEF UpdateEventAi, WorkerDies, Release, To
      <4> QED
        BY <4>1, <4>2 DEF Working
    <3>4. row' \in [Delivery -> Row]
      <4>1. \A r \in Row : \A a \in Mark \cup {"none"} : [r EXCEPT !.ai = a] \in Row
        BY DEF Row
      <4>2. row' = row \/ \E d \in Delivery : row' = [row EXCEPT ![d].ai = outcome[w]]
        BY <2>3 DEF UpdateEventAi, WorkerDies
      <4>3. row \in [Delivery -> Row] /\ outcome[w] \in Mark \cup {"none"}
        OBVIOUS
      <4> HIDE DEF TypeOK
      <4>4. row' = row \/ \E d \in Delivery : \E r \in Row : row' = [row EXCEPT ![d] = r]
        BY <4>1, <4>2, <4>3
      <4> QED
        BY <4>3, <4>4
    <3>5. UNCHANGED <<receives, spend, lookups>>
      BY <2>3 DEF UpdateEventAi, WorkerDies
    <3> QED
      BY <1>0, <3>1, <3>2, <3>3, <3>4, <3>5 DEF env, bedrock
  <2> QED
    BY <1>2, <2>1, <2>2, <2>3 DEF WorkerStep
<1> QED
  BY <1>1, <1>2

\* Every step keeps the types.
LEMMA TypeNext == TypeOK /\ [Next]_vars => TypeOK'
<1> SUFFICES ASSUME TypeOK, [Next]_vars PROVE TypeOK'
  OBVIOUS
<1>1. CASE UNCHANGED vars
  BY <1>1 DEF vars, env, soc, enrich, invoked, bedrock, TypeOK
<1>2. CASE Next
  BY <1>2, TypeEnv, TypeRouter, TypeBranch, TypeWorker DEF Next, RouterStep
<1> QED
  BY <1>1, <1>2

\* The router, its tables, the queue and the counters keep their types.
THEOREM EventTypeCorrect == Spec => []TypeOK
<1> QED
  BY TypeInit, TypeNext, PTL DEF Spec

-----------------------------------------------------------------------------
(* One alert.                                                              *)

OwnsRow(d) ==
    \/ pc[d] \in {"drift", "count", "send", "increment", "mark", "enqueue"}
    \/ sent[d] > 0
    \/ msg[d] # "none"

\* A delivery that has got past its insert, notified anyone or queued anything owns
\* a row; an event with an id has one; what an invocation holds was queued.
AlertInv ==
    /\ \A d \in Delivery : OwnsRow(d) => row[d].stored
    /\ \A e \in Event : shape[e].id =>
         \A m, n \in 1..COPIES : row[<<e, m>>].stored /\ row[<<e, n>>].stored => m = n
    /\ \A w \in Worker : \A d \in batch[w] : msg[d] # "none"

\* Nothing has happened.
LEMMA AlertInit == Init => AlertInv
<1> SUFFICES ASSUME Init PROVE AlertInv
  OBVIOUS
<1>1. \A d \in Delivery : row[d].stored = FALSE /\ ~OwnsRow(d)
  BY DEF Init, OwnsRow, NoRow
<1>2. \A e \in Event : \A m \in 1..COPIES : <<e, m>> \in Delivery
  BY DEF Delivery
<1> QED
  BY <1>1, <1>2 DEF Init, AlertInv

\* What a step of the router does for its delivery: nothing to the others; a row
\* when there is none; and it goes past the insert with one.
RowFirst(d) ==
    /\ \A x \in Delivery \ {d} : /\ pc'[x] = pc[x] /\ sent'[x] = sent[x] /\ msg'[x] = msg[x]
                                 /\ row'[x].stored = row[x].stored
    /\ row[d].stored => row'[d].stored
    /\ row'[d].stored => row[d].stored \/ ~Duplicate(d)
    /\ OwnsRow(d)' => row'[d].stored

\* Each of the router's steps is such a step.
LEMMA RouterRowFirst ==
  ASSUME TypeOK, NEW d \in Delivery, OwnsRow(d) => row[d].stored, RouterStep(d) \/ Deliver(d)
  PROVE  RowFirst(d)
<1> USE DEF TypeOK, RowFirst, OwnsRow, Go
<1>0. row[d] \in Row /\ \A r \in Row : /\ [r EXCEPT !.stored = TRUE].stored
                                       /\ [r EXCEPT !.drift = TRUE].stored = r.stored
                                       /\ [r EXCEPT !.push_sent = TRUE].stored = r.stored
  BY DEF Row
<1>1. CASE Deliver(d) BY <1>1 DEF Deliver, soc
<1>2. CASE Resolve(d) BY <1>2 DEF Resolve
<1>3. CASE InsertEvent(d)
  <2>1. CASE Duplicate(d)
    BY <1>3, <2>1 DEF InsertEvent
  <2>2. CASE ~Duplicate(d)
    <3>1. row' = [row EXCEPT ![d].stored = TRUE] /\ UNCHANGED <<sent, msg>>
          /\ \E l : pc' = [pc EXCEPT ![d] = l]
      BY <1>3, <2>2 DEF InsertEvent
    <3>2. row'[d].stored
      BY <1>0, <3>1
    <3> QED
      BY <2>2, <3>1, <3>2
  <2> QED
    BY <2>1, <2>2
<1>4. CASE InsertDrift(d) BY <1>0, <1>4 DEF InsertDrift
<1>5. CASE ReadPushCount(d) BY <1>5 DEF ReadPushCount, AfterPush
<1>6. CASE SendPush(d) BY <1>6 DEF SendPush, AfterPush
<1>7. CASE IncrementPushCount(d) BY <1>7 DEF IncrementPushCount, AfterPush
<1>8. CASE MarkPushSent(d) BY <1>0, <1>8 DEF MarkPushSent, AfterPush
<1>9. CASE Enqueue(d) BY <1>9 DEF Enqueue
<1>10. CASE RouterCallFails(d)
  <2>1. /\ pc' = [pc EXCEPT ![d] = IF pc[d] \in InTry THEN "dropped" ELSE AfterPush(d)]
        /\ pc[d] \in InTry \cup {"count", "mark"} /\ UNCHANGED <<sent, msg>>
    BY <1>10 DEF RouterCallFails
  <2>2. \/ UNCHANGED row
        \/ ~Duplicate(d) /\ row' = [row EXCEPT ![d].stored = TRUE]
        \/ row' = [row EXCEPT ![d].drift = TRUE]
        \/ row' = [row EXCEPT ![d].push_sent = TRUE]
    BY <1>10 DEF RouterCallFails
  <2>3. pc'[d] \in {"dropped", "enqueue", "returned"} /\ (pc'[d] # "dropped" => row[d].stored)
    BY <2>1 DEF InTry, AfterPush
  <2>4. row[d].stored => row'[d].stored
    <3>1. row'[d] \in {row[d], [row[d] EXCEPT !.stored = TRUE], [row[d] EXCEPT !.drift = TRUE],
                      [row[d] EXCEPT !.push_sent = TRUE]}
      BY <2>2
    <3>2. [row[d] EXCEPT !.stored = TRUE].stored /\ [row[d] EXCEPT !.drift = TRUE].stored = row[d].stored
          /\ [row[d] EXCEPT !.push_sent = TRUE].stored = row[d].stored
      BY <1>0
    <3> QED
      BY <3>1, <3>2
  <2>5. \A x \in Delivery \ {d} : pc'[x] = pc[x] /\ row'[x].stored = row[x].stored
    BY <2>1, <2>2
  <2>6. row'[d].stored => row[d].stored \/ ~Duplicate(d)
    BY <1>0, <2>2
  <2> QED
    BY <2>1, <2>3, <2>4, <2>5, <2>6
<1>11. CASE RouterDies(d) BY <1>11 DEF RouterDies, soc
<1>12. CASE BedrockResolve(d) BY <1>12 DEF BedrockResolve, InBranch, soc
<1>13. CASE UpsertEntity(d) BY <1>13 DEF UpsertEntity, InBranch, soc
<1>14. CASE UpsertInvocationRollup(d) BY <1>14 DEF UpsertInvocationRollup, InBranch, soc
<1>15. CASE Detect(d) BY <1>15 DEF Detect, InBranch, soc
<1> QED
  BY <1>1, <1>2, <1>3, <1>4, <1>5, <1>6, <1>7, <1>8, <1>9, <1>10, <1>11, <1>12, <1>13, <1>14,
     <1>15 DEF RouterStep

\* A row is inserted where the event has none.
LEMMA AlertRouter ==
  ASSUME TypeOK, AlertInv, NEW d \in Delivery, RouterStep(d) \/ Deliver(d)
  PROVE  AlertInv'
<1>1. UNCHANGED <<shape, batch>>
  BY DEF Deliver, RouterStep, Resolve, InsertEvent, InsertDrift, ReadPushCount, SendPush,
         IncrementPushCount, MarkPushSent, Enqueue, RouterCallFails, RouterDies, InRouter,
         BedrockResolve, UpsertEntity, UpsertInvocationRollup, Detect, InBranch, env, enrich,
         invoked
<1>2. RowFirst(d)
  BY RouterRowFirst DEF AlertInv
<1>3. \A x \in Delivery : OwnsRow(x)' => row'[x].stored
  BY <1>2 DEF AlertInv, RowFirst, OwnsRow
<1>4. ASSUME NEW e \in Event, shape'[e].id, NEW m \in 1..COPIES, NEW n \in 1..COPIES,
             row'[<<e, m>>].stored, row'[<<e, n>>].stored
      PROVE  m = n
  <2>1. <<e, m>> \in Delivery /\ <<e, n>> \in Delivery
    BY DEF Delivery
  <2>2. CASE row[<<e, m>>].stored /\ row[<<e, n>>].stored
    BY <1>1, <1>4, <2>2 DEF AlertInv
  <2>3. CASE ~row[<<e, m>>].stored \/ ~row[<<e, n>>].stored
    <3>1. PICK k \in 1..COPIES : k \in {m, n} /\ d = <<e, k>> /\ ~row[d].stored /\ row'[d].stored
      BY <1>2, <1>4, <2>1, <2>3 DEF RowFirst
    <3>2. ~Duplicate(d)
      BY <1>2, <3>1 DEF RowFirst
    <3>3. \A j \in 1..COPIES : ~row[<<e, j>>].stored
      BY <1>1, <1>4, <3>1, <3>2 DEF Duplicate, ShapeOf
    <3>4. <<e, m>> = d /\ <<e, n>> = d
      BY <1>2, <1>4, <2>1, <3>3 DEF RowFirst
    <3> QED
      BY <3>4
  <2> QED
    BY <2>2, <2>3
<1>5. \A w \in Worker : \A x \in batch'[w] : msg'[x] # "none"
  <2>1. msg[d] # "none" => msg'[d] # "none"
    BY DEF Deliver, RouterStep, Resolve, InsertEvent, InsertDrift, ReadPushCount, SendPush,
         IncrementPushCount, MarkPushSent, Enqueue, RouterCallFails, RouterDies,
         BedrockResolve, UpsertEntity, UpsertInvocationRollup, Detect, InBranch, soc, TypeOK
  <2>2. \A w \in Worker : batch[w] \subseteq Delivery
    BY DEF TypeOK
  <2> QED
    BY <1>1, <1>2, <2>1, <2>2 DEF AlertInv, RowFirst
<1> QED
  BY <1>3, <1>4, <1>5 DEF AlertInv

\* The enrichment lets no row go, and puts nothing back where nothing was.
LEMMA AlertWorker ==
  ASSUME TypeOK, AlertInv,
         \/ \E d \in Delivery : DeadLetter(d)
         \/ \E w \in Worker : WorkerStep(w)
  PROVE  AlertInv'
<1>1. UNCHANGED <<shape, pc, sent>>
  BY DEF DeadLetter, WorkerStep, TakeBatch, UnderCap, CountLookup, AskSpend, Charge,
         EnrichmentFails, UpdateEventAi, WorkerDies, InWorker, env
<1>2. \A x \in Delivery : msg'[x] # "none" <=> msg[x] # "none"
  <2> USE DEF TypeOK
  <2>1. ASSUME NEW d \in Delivery, DeadLetter(d)
        PROVE  \A x \in Delivery : msg'[x] # "none" <=> msg[x] # "none"
    BY <2>1 DEF DeadLetter
  <2>2. ASSUME NEW w \in Worker, NEW s \in {"done", "queued"}, Release(w, s)
        PROVE  \A x \in Delivery : msg'[x] # "none" <=> msg[x] # "none"
    BY <2>2 DEF Release, AlertInv
  <2>3. ASSUME NEW w \in Worker, TakeBatch(w)
        PROVE  \A x \in Delivery : msg'[x] # "none" <=> msg[x] # "none"
    <3>1. \E b \in SUBSET {d \in Delivery : msg[d] = "queued" /\ receives[d] < MAX_RECEIVE} :
            msg' = [d \in Delivery |-> IF d \in b THEN "taken" ELSE msg[d]]
      BY <2>3 DEF TakeBatch
    <3> QED
      BY <3>1
  <2>4. ASSUME NEW w \in Worker, WorkerStep(w), ~TakeBatch(w), msg' # msg
        PROVE  Release(w, "done") \/ Release(w, "queued")
    BY <2>4 DEF WorkerStep, UnderCap, CountLookup, AskSpend, Charge,
         EnrichmentFails, UpdateEventAi, WorkerDies
  <2> QED
    BY <2>1, <2>2, <2>3, <2>4
<1>3. \A x \in Delivery : row'[x].stored = row[x].stored
  <2>1. row' = row \/ \E w \in Worker, d \in Delivery : row' = [row EXCEPT ![d].ai = outcome[w]]
    BY DEF DeadLetter, WorkerStep, TakeBatch, UnderCap, CountLookup, AskSpend, Charge,
         EnrichmentFails, UpdateEventAi, WorkerDies, TypeOK
  <2>2. row \in [Delivery -> Row]
    BY DEF TypeOK
  <2>3. ASSUME NEW w \in Worker, NEW d \in Delivery, row' = [row EXCEPT ![d].ai = outcome[w]]
        PROVE  \A x \in Delivery : row'[x].stored = row[x].stored
    <3>1. row'[d] = [row[d] EXCEPT !.ai = outcome[w]] /\ row[d] \in Row
      BY <2>2, <2>3
    <3>2. row'[d].stored = row[d].stored
      BY <3>1 DEF Row
    <3> QED
      BY <2>2, <2>3, <3>2
  <2> QED
    BY <2>1, <2>3
<1>4. \A w \in Worker : \A x \in batch'[w] : x \in Delivery /\ msg[x] # "none"
  <2> USE DEF TypeOK
  <2>1. ASSUME NEW w \in Worker, TakeBatch(w)
        PROVE  \A v \in Worker : \A x \in batch'[v] : x \in Delivery /\ msg[x] # "none"
    <3>1. \E b \in SUBSET {d \in Delivery : msg[d] = "queued" /\ receives[d] < MAX_RECEIVE} :
            batch' = [batch EXCEPT ![w] = b]
      BY <2>1 DEF TakeBatch
    <3> QED
      BY <3>1 DEF AlertInv
  <2>2. ASSUME NEW w \in Worker, WorkerStep(w), ~TakeBatch(w)
        PROVE  batch' = batch \/ batch' = [batch EXCEPT ![w] = {}]
    BY <2>2 DEF WorkerStep, UnderCap, CountLookup, AskSpend, Charge,
         EnrichmentFails, UpdateEventAi, WorkerDies, Release
  <2>3. ASSUME NEW d \in Delivery, DeadLetter(d) PROVE batch' = batch
    BY <2>3 DEF DeadLetter, enrich, invoked
  <2> QED
    BY <2>1, <2>2, <2>3 DEF AlertInv
<1> QED
  <2>1. \A x \in Delivery : OwnsRow(x)' => row'[x].stored
    BY <1>1, <1>2, <1>3 DEF OwnsRow, AlertInv
  <2>2. \A e \in Event : \A m \in 1..COPIES : <<e, m>> \in Delivery
    BY DEF Delivery
  <2> QED
    BY <1>1, <1>2, <1>3, <1>4, <2>1, <2>2 DEF AlertInv

\* However often an event with an id is delivered, and wherever the deliveries die,
\* one of them at most notifies anyone and one at most is queued: the unique index
\* event_router's insert relies on.
THEOREM AlertedOnceAlways == Spec => []AlertedOnce
<1>1. TypeOK /\ AlertInv /\ [Next]_vars => AlertInv'
  <2> SUFFICES ASSUME TypeOK, AlertInv, [Next]_vars PROVE AlertInv'
    OBVIOUS
  <2>1. CASE UNCHANGED <<shape, pc, soc, enrich>>
    BY <2>1 DEF AlertInv, OwnsRow, soc, enrich, invoked
  <2>2. CASE \E d \in Delivery : Deliver(d) \/ RouterStep(d)
    BY <2>2, AlertRouter
  <2>3. CASE (\E d \in Delivery : DeadLetter(d)) \/ (\E w \in Worker : WorkerStep(w))
    BY <2>3, AlertWorker
  <2>4. CASE \/ NextHour
             \/ Disconnect
             \/ RollupRead
             \/ RollupDies
             \/ \E p \in Principal : RollupEmit(p)
             \/ UNCHANGED vars
    BY <2>1, <2>4 DEF NextHour, Disconnect, RollupRead, RollupDies, RollupEmit, vars, env
  <2> QED
    BY <2>2, <2>3, <2>4 DEF Next
<1>2. TypeOK /\ AlertInv => AlertedOnce
  <2>1. \A e \in Event : \A m \in 1..COPIES : <<e, m>> \in Delivery
    BY DEF Delivery
  <2> QED
    BY <2>1 DEF AlertInv, OwnsRow, AlertedOnce
<1> QED
  BY <1>1, <1>2, AlertInit, EventTypeCorrect, PTL DEF Spec

-----------------------------------------------------------------------------
(* The spend.                                                              *)

Charging == {w \in Worker : wpc[w] = "charge"}

\* What is spent and what the running calls may still cost.
SpendInv ==
    spend + Cardinality(Charging) * MAX_COST <= DAILY_CAP_CENTS - 1 + Cardinality(Worker) * MAX_COST

\* Products of what the lemmas below count.
LEMMA Times ==
  ASSUME NEW m \in Nat, NEW a \in Nat, NEW b \in Nat
  PROVE  /\ a * m \in Nat
         /\ a <= b => a * m <= b * m
         /\ b = a + 1 => b * m = a * m + m
<1>1. a * m \in Nat
  OBVIOUS
<1>2. ASSUME a <= b PROVE a * m <= b * m
  <2>1. PICK k \in Nat : b = a + k
    <3>1. b - a \in Nat /\ b = a + (b - a)
      BY <1>2
    <3> QED
      BY <3>1
  <2>2. b * m = a * m + k * m /\ k * m \in Nat
    BY <2>1
  <2> QED
    BY <1>1, <2>2
<1>3. ASSUME b = a + 1 PROVE b * m = a * m + m
  BY <1>3
<1> QED
  BY <1>1, <1>2, <1>3

\* One invocation starts a call, and only below the cap; one ends it and pays.
LEMMA ChargingSteps ==
  ASSUME TypeOK, [Next]_vars
  PROVE  \/ Charging' \subseteq Charging /\ spend' = spend
         \/ spend' = spend /\ spend < DAILY_CAP_CENTS
         \/ \E w \in Charging : /\ Charging' = Charging \ {w}
                                /\ \E cents \in 0..MAX_COST : spend' = spend + cents
<1> USE DEF Charging, TypeOK
<1>1. CASE UNCHANGED <<wpc, spend>>
  BY <1>1
<1>2. ASSUME NEW w \in Worker, WorkerStep(w)
      PROVE  \/ Charging' \subseteq Charging /\ spend' = spend
             \/ spend' = spend /\ spend < DAILY_CAP_CENTS
             \/ \E v \in Charging : /\ Charging' = Charging \ {v}
                                    /\ \E cents \in 0..MAX_COST : spend' = spend + cents
  <2>1. CASE Charge(w)
    <3>1. w \in Charging /\ wpc' = [wpc EXCEPT ![w] = "update"]
          /\ \E cents \in 0..MAX_COST : spend' = spend + cents
      BY <2>1 DEF Charge, Result, To
    <3>2. Charging' = Charging \ {w}
      BY <3>1
    <3> QED
      BY <3>1, <3>2
  <2>2. CASE AskSpend(w)
    <3>1. spend' = spend
      BY <2>2 DEF AskSpend
    <3>2. CASE spend < DAILY_CAP_CENTS
      BY <3>1, <3>2
    <3>3. CASE ~(spend < DAILY_CAP_CENTS)
      <4>1. wpc' = [wpc EXCEPT ![w] = "update"]
        BY <2>2, <3>3, Bounds DEF AskSpend, Result, To
      <4> QED
        BY <3>1, <4>1
    <3> QED
      BY <3>2, <3>3
  <2>3. CASE \/ TakeBatch(w) \/ UnderCap(w) \/ CountLookup(w) \/ EnrichmentFails(w)
             \/ UpdateEventAi(w) \/ WorkerDies(w)
    <3>1. spend' = spend
      BY <2>3 DEF TakeBatch, UnderCap, CountLookup, EnrichmentFails, UpdateEventAi, WorkerDies
    <3>2. wpc' = wpc \/ \E l \in {"idle", "lookup", "count", "ask", "update"} : To(w, l)
      BY <2>3 DEF TakeBatch, UnderCap, CountLookup, EnrichmentFails, UpdateEventAi, WorkerDies,
                  Release, Result
    <3> QED
      BY <3>1, <3>2 DEF To
  <2> QED
    BY <1>2, <2>1, <2>2, <2>3 DEF WorkerStep
<1>3. CASE \E d \in Delivery : Deliver(d) \/ RouterStep(d) \/ DeadLetter(d)
  <2>1. UNCHANGED <<wpc, spend>>
    BY <1>3 DEF Deliver, RouterStep, Resolve, InsertEvent, InsertDrift, ReadPushCount, SendPush,
         IncrementPushCount, MarkPushSent, Enqueue, RouterCallFails, RouterDies, InRouter,
         BedrockResolve, UpsertEntity, UpsertInvocationRollup, Detect, InBranch, DeadLetter,
         enrich, invoked
  <2> QED
    BY <1>1, <2>1
<1>4. CASE \/ NextHour \/ Disconnect \/ RollupRead \/ RollupDies \/ UNCHANGED vars
           \/ \E p \in Principal : RollupEmit(p)
  <2>1. UNCHANGED <<wpc, spend>>
    BY <1>4 DEF NextHour, Disconnect, RollupRead, RollupDies, RollupEmit, vars, enrich, invoked
  <2> QED
    BY <1>1, <2>1
<1> QED
  BY <1>2, <1>3, <1>4 DEF Next

\* The cap is read before the call and the charge comes after it, so what is spent
\* passes the cap by the calls in flight, each invocation's one, and no more.
THEOREM SpendNearCapAlways == Spec => []SpendNearCap
<1>0. IsFiniteSet(Worker) /\ Cardinality(Worker) \in Nat
  BY EventAssumption, FS_CardinalityType DEF EventAssumption
<1>1. ASSUME NEW S \in SUBSET Worker, NEW T \in SUBSET S
      PROVE  /\ IsFiniteSet(S) /\ Cardinality(S) \in Nat /\ Cardinality(T) \in Nat
             /\ Cardinality(T) * MAX_COST <= Cardinality(S) * MAX_COST
             /\ Cardinality(S) * MAX_COST \in Nat /\ Cardinality(T) * MAX_COST \in Nat
  <2>1. IsFiniteSet(S)
    BY <1>0, FS_Subset
  <2>2. IsFiniteSet(T) /\ Cardinality(T) <= Cardinality(S)
    BY <2>1, FS_Subset
  <2>3. Cardinality(S) \in Nat /\ Cardinality(T) \in Nat
    BY <2>1, <2>2, FS_CardinalityType
  <2> QED
    BY <2>1, <2>2, <2>3, Times, Bounds
<1>2. Init => SpendInv
  <2> SUFFICES ASSUME Init PROVE SpendInv
    OBVIOUS
  <2>1. Charging = {}
    BY DEF Init, Charging
  <2>2. Cardinality(Charging) = 0
    BY <2>1, FS_EmptySet
  <2>3. 0 * MAX_COST = 0 /\ Cardinality(Worker) * MAX_COST \in Nat
    BY <1>0, Times, Bounds
  <2> QED
    BY <2>2, <2>3, Bounds DEF SpendInv, Init
<1>3. TypeOK /\ SpendInv /\ [Next]_vars => SpendInv'
  <2> SUFFICES ASSUME TypeOK, SpendInv, [Next]_vars PROVE SpendInv'
    OBVIOUS
  <2> DEFINE n == Cardinality(Worker) * MAX_COST
             c == Cardinality(Charging) * MAX_COST
             k == Cardinality(Charging') * MAX_COST
  <2>1. Charging \subseteq Worker /\ Charging' \subseteq Worker
    BY DEF Charging
  <2>2. n \in Nat /\ c \in Nat /\ k \in Nat /\ k <= n /\ spend \in Nat /\ MAX_COST \in Nat
        /\ DAILY_CAP_CENTS \in Nat
    BY <1>1, <2>1, Bounds DEF TypeOK
  <2>3. spend + c <= DAILY_CAP_CENTS - 1 + n
    BY DEF SpendInv
  <2>4. SpendInv' <=> spend' + k <= DAILY_CAP_CENTS - 1 + n
    BY DEF SpendInv
  <2>5. CASE Charging' \subseteq Charging /\ spend' = spend
    <3>1. k <= c
      BY <1>1, <2>1, <2>5
    <3> HIDE DEF n, c, k
    <3> QED
      BY <2>2, <2>3, <2>4, <2>5, <3>1
  <2>6. CASE spend' = spend /\ spend < DAILY_CAP_CENTS
    <3> HIDE DEF n, c, k
    <3> QED
      BY <2>2, <2>4, <2>6
  <2>7. ASSUME NEW w \in Charging, Charging' = Charging \ {w},
               NEW cents \in 0..MAX_COST, spend' = spend + cents
        PROVE  SpendInv'
    <3>1. IsFiniteSet(Charging) /\ Cardinality(Charging) \in Nat /\ Cardinality(Charging') \in Nat
      BY <1>1, <2>1
    <3>2. Cardinality(Charging') = Cardinality(Charging) - 1
      BY <2>7, <3>1, FS_RemoveElement
    <3>3. c = k + MAX_COST
      BY <2>2, <3>1, <3>2, Times
    <3> HIDE DEF n, c, k
    <3> QED
      BY <2>2, <2>3, <2>4, <2>7, <3>3
  <2> QED
    BY <2>5, <2>6, <2>7, ChargingSteps
<1>4. TypeOK /\ SpendInv => SpendNearCap
  <2> SUFFICES ASSUME TypeOK, SpendInv PROVE SpendNearCap
    OBVIOUS
  <2> DEFINE n == Cardinality(Worker) * MAX_COST
             c == Cardinality(Charging) * MAX_COST
  <2>1. n \in Nat /\ c \in Nat /\ spend \in Nat /\ DAILY_CAP_CENTS \in Nat
    BY <1>1, Bounds DEF TypeOK, Charging
  <2>2. spend + c <= DAILY_CAP_CENTS - 1 + n
    BY DEF SpendInv
  <2>3. SpendNearCap <=> spend <= DAILY_CAP_CENTS - 1 + n
    BY DEF SpendNearCap
  <2> HIDE DEF n, c
  <2> QED
    BY <2>1, <2>2, <2>3
<1> QED
  BY <1>2, <1>3, <1>4, EventTypeCorrect, PTL DEF Spec

-----------------------------------------------------------------------------
(* The hour's limit.                                                       *)

\* The deliveries whose devices all have the push; and those of them that have been
\* counted, or never will be.
AllSent  == {x \in Delivery : sent[x] = DEVICES}
Notified == {x \in AllSent : pc[x] # "increment"}

PushInv ==
    /\ \A d \in Delivery :
         /\ pc[d] \in {"pending", "resolve", "insert", "drift", "count", "send"} => sent[d] = 0
         /\ pc[d] = "send" => DEVICES > 0
         /\ pc[d] = "increment" => sent[d] = DEVICES
    /\ \A h \in 0..MAX_HOUR : push_count[h] <= Cardinality(Notified)
    /\ SilencedOnlyAtLimit

\* A finite event list, each delivered a bounded number of times.
LEMMA DeliveryFinite == IsFiniteSet(Delivery)
<1>1. IsFiniteSet(Event) /\ COPIES \in Nat
  BY EventAssumption DEF EventAssumption
<1>2. IsFiniteSet(1..COPIES)
  BY <1>1, FS_Interval
<1> QED
  BY <1>1, <1>2, FS_Product DEF Delivery

\* Nobody has been notified or kept quiet.
LEMMA PushInit == Init => PushInv
<1> SUFFICES ASSUME Init PROVE PushInv
  OBVIOUS
<1>1. IsFiniteSet(Notified)
  BY DeliveryFinite, FS_Subset DEF Notified, AllSent
<1>2. Cardinality(Notified) \in Nat
  BY <1>1, FS_CardinalityType
<1> QED
  BY <1>2 DEF Init, PushInv, SilencedOnlyAtLimit

\* What a step of the router does to the counts: whoever has the push keeps it, the
\* counter follows one that went to every device, and the quiet ones saw the limit.
PushStep(d) ==
    /\ \A x \in Delivery :
         /\ pc'[x] \in {"pending", "resolve", "insert", "drift", "count", "send"} => sent'[x] = 0
         /\ pc'[x] = "send" => DEVICES > 0
         /\ pc'[x] = "increment" => sent'[x] = DEVICES
    /\ AllSent \subseteq AllSent' /\ Notified \subseteq Notified'
    /\ \/ push_count' = push_count
       \/ /\ push_count' = [push_count EXCEPT ![hour] = @ + 1]
          /\ d \notin Notified /\ d \in Notified'
    /\ \A x \in Delivery : silenced'[x] # Never =>
         silenced[x] # Never \/ push_count[hour] >= PUSH_RATE_LIMIT_HOUR

\* Each of the router's steps is such a step.
LEMMA PushRouter ==
  ASSUME TypeOK, PushInv, NEW d \in Delivery, RouterStep(d) \/ Deliver(d)
  PROVE  PushStep(d)
<1> DEFINE quiet == {"pending", "resolve", "insert", "drift", "count", "send"}
<1>0. /\ pc \in [Delivery -> Running \cup Over \cup {"pending"}]
      /\ sent \in [Delivery -> 0..DEVICES] /\ silenced \in [Delivery -> 0..Never]
      /\ push_count \in [0..MAX_HOUR -> Nat] /\ hour \in 0..MAX_HOUR
      /\ \A x \in Delivery : /\ pc[x] \in quiet => sent[x] = 0
                             /\ pc[x] = "send" => DEVICES > 0
                             /\ pc[x] = "increment" => sent[x] = DEVICES
  BY DEF TypeOK, PushInv
<1> USE DEF PushStep, Notified, AllSent, Go
\* The steps that send nothing and count nothing.
<1>1. ASSUME NEW l, pc' = [pc EXCEPT ![d] = l], UNCHANGED <<sent, push_count>>,
             l # "increment", l \in quiet => sent[d] = 0, l = "send" => DEVICES > 0,
             \A x \in Delivery : silenced'[x] # Never =>
               silenced[x] # Never \/ push_count[hour] >= PUSH_RATE_LIMIT_HOUR
      PROVE  PushStep(d)
  BY <1>0, <1>1
<1>2. CASE \/ Deliver(d) \/ Resolve(d) \/ InsertEvent(d) \/ InsertDrift(d) \/ MarkPushSent(d)
           \/ Enqueue(d) \/ RouterCallFails(d) \/ RouterDies(d) \/ BedrockResolve(d)
           \/ UpsertEntity(d) \/ UpsertInvocationRollup(d) \/ Detect(d)
  <2>1. UNCHANGED <<sent, push_count, silenced>>
    BY <1>2 DEF Deliver, Resolve, InsertEvent, InsertDrift, MarkPushSent, Enqueue,
       RouterCallFails, RouterDies, BedrockResolve, UpsertEntity, UpsertInvocationRollup,
       Detect, InBranch, soc
  <2>2. CASE Deliver(d) \/ Resolve(d) \/ InsertEvent(d) \/ InsertDrift(d)
    <3>1. pc[d] \in quiet
      BY <2>2 DEF Deliver, Resolve, InsertEvent, InsertDrift
    <3>2. \E l : pc' = [pc EXCEPT ![d] = l] /\ l # "increment" /\ l # "send"
      BY <2>2 DEF Deliver, Resolve, InsertEvent, InsertDrift, AfterInsert
    <3> QED
      BY <1>0, <1>1, <2>1, <3>1, <3>2
  <2>3. CASE MarkPushSent(d) \/ Enqueue(d) \/ RouterCallFails(d) \/ RouterDies(d)
    <3>1. \E l \in {"enqueue", "returned", "dropped", "dead"} : pc' = [pc EXCEPT ![d] = l]
      BY <2>3 DEF MarkPushSent, Enqueue, RouterCallFails, RouterDies, AfterPush
    <3> QED
      BY <1>1, <2>1, <3>1
  <2>4. CASE BedrockResolve(d) \/ UpsertEntity(d) \/ UpsertInvocationRollup(d) \/ Detect(d)
    <3>1. \E l \in {"b_model", "dropped", "b_count", "b_edge", "b_allowed", "b_principal",
                    "b_inventory", "returned"} : pc' = [pc EXCEPT ![d] = l]
      BY <2>4 DEF BedrockResolve, UpsertEntity, UpsertInvocationRollup, Detect
    <3> QED
      BY <1>1, <2>1, <3>1
  <2> QED
    BY <1>2, <2>2, <2>3, <2>4
<1>3. CASE ReadPushCount(d)
  <2>1. UNCHANGED <<sent, push_count>> /\ pc[d] = "count"
    BY <1>3 DEF ReadPushCount
  <2>2. \E l \in {"send", "enqueue", "returned"} : /\ pc' = [pc EXCEPT ![d] = l]
                                                   /\ l = "send" => DEVICES > 0
    BY <1>3 DEF ReadPushCount, AfterPush
  <2>3. \/ silenced' = silenced
        \/ /\ silenced' = [silenced EXCEPT ![d] = hour]
           /\ ~ShouldPush("high", push_count[hour])
    BY <1>3 DEF ReadPushCount
  <2>4. ~ShouldPush("high", push_count[hour]) => push_count[hour] >= PUSH_RATE_LIMIT_HOUR
    BY <1>0, Bounds DEF ShouldPush
  <2> QED
    BY <1>0, <1>1, <2>1, <2>2, <2>3, <2>4
<1>4. CASE SendPush(d)
  <2>1. UNCHANGED <<silenced, push_count>> /\ pc[d] = "send"
    BY <1>4 DEF SendPush
  <2>2. PICK n \in 0..DEVICES, l \in {"enqueue", "returned", "increment"} :
          /\ sent' = [sent EXCEPT ![d] = n] /\ pc' = [pc EXCEPT ![d] = l]
          /\ l = "increment" => n = DEVICES
    <3>1. PICK n \in 0..DEVICES, raised \in BOOLEAN :
            /\ n < DEVICES => raised
            /\ sent' = [sent EXCEPT ![d] = n]
            /\ pc' = [pc EXCEPT ![d] = IF raised THEN AfterPush(d) ELSE "increment"]
      BY <1>4 DEF SendPush
    <3>2. ~raised => n = DEVICES
      BY <3>1, Bounds
    <3>3. CASE raised
      BY <3>1, <3>3 DEF AfterPush
    <3>4. CASE ~raised
      BY <3>1, <3>2, <3>4
    <3> QED
      BY <3>3, <3>4
  <2>3. d \notin AllSent
    BY <1>0, <2>1
  <2> QED
    BY <1>0, <2>1, <2>2, <2>3
<1>5. CASE IncrementPushCount(d)
  <2>1. UNCHANGED <<silenced, sent>> /\ pc[d] = "increment"
        /\ push_count' = [push_count EXCEPT ![hour] = @ + 1]
    BY <1>5 DEF IncrementPushCount
  <2>2. \E l \in {"enqueue", "returned", "mark"} : pc' = [pc EXCEPT ![d] = l]
    BY <1>5 DEF IncrementPushCount, AfterPush
  <2> QED
    BY <1>0, <2>1, <2>2
<1> QED
  BY <1>2, <1>3, <1>4, <1>5 DEF RouterStep

\* A high event is kept quiet only after that many pushes have really reached every
\* device: the counter never runs ahead of the pushes.
THEOREM SilencedOnlyAtLimitAlways == Spec => []SilencedOnlyAtLimit
<1>0. ASSUME NEW S \in SUBSET Delivery, NEW T \in SUBSET S
      PROVE  /\ IsFiniteSet(T) /\ Cardinality(S) \in Nat /\ Cardinality(T) \in Nat
             /\ Cardinality(T) <= Cardinality(S)
  <2>1. IsFiniteSet(S)
    BY DeliveryFinite, FS_Subset
  <2>2. IsFiniteSet(T) /\ Cardinality(T) <= Cardinality(S)
    BY <2>1, FS_Subset
  <2> QED
    BY <2>1, <2>2, FS_CardinalityType
<1>1. TypeOK /\ PushInv /\ [Next]_vars => PushInv'
  <2> SUFFICES ASSUME TypeOK, PushInv, [Next]_vars PROVE PushInv'
    OBVIOUS
  <2>1. CASE UNCHANGED <<pc, sent, silenced, push_count>>
    BY <2>1 DEF PushInv, SilencedOnlyAtLimit, Notified, AllSent
  <2>2. ASSUME NEW d \in Delivery, Deliver(d) \/ RouterStep(d) PROVE PushInv'
    <3>1. PushStep(d)
      BY <2>2, PushRouter
    <3> DEFINE s == Cardinality(AllSent)
               t == Cardinality(AllSent')
               m == Cardinality(Notified)
               n == Cardinality(Notified')
    <3>2. Notified \subseteq AllSent /\ AllSent' \in SUBSET Delivery /\ Notified' \subseteq Delivery
          /\ AllSent \subseteq AllSent' /\ Notified \subseteq Notified' /\ AllSent \subseteq Delivery
      BY <3>1 DEF PushStep, Notified, AllSent
    <3>3. m \in Nat /\ n \in Nat /\ s \in Nat /\ t \in Nat /\ m <= n /\ m <= s /\ s <= t
      BY <1>0, <3>2
    <3>4. \A h \in 0..MAX_HOUR : push_count[h] \in Nat /\ push_count[h] <= m
      BY DEF TypeOK, PushInv
    <3>5. push_count \in [0..MAX_HOUR -> Nat] /\ hour \in 0..MAX_HOUR
      BY DEF TypeOK
    <3>6. \A h \in 0..MAX_HOUR : push_count'[h] <= n
      <4>1. CASE push_count' = push_count
        <5> HIDE DEF m, n
        <5> QED
          BY <3>3, <3>4, <4>1
      <4>2. CASE /\ push_count' = [push_count EXCEPT ![hour] = @ + 1]
                 /\ d \notin Notified /\ d \in Notified'
        <5>1. n >= m + 1
          <6>1. Notified \cup {d} \subseteq Notified' /\ IsFiniteSet(Notified)
            BY <1>0, <3>2, <4>2
          <6>2. Cardinality(Notified \cup {d}) = m + 1
            BY <4>2, <6>1, FS_AddElement
          <6>3. Cardinality(Notified \cup {d}) <= n
            BY <1>0, <3>2, <6>1
          <6> QED
            BY <3>3, <6>2, <6>3
        <5> HIDE DEF m, n
        <5> QED
          BY <3>3, <3>4, <3>5, <4>2, <5>1
      <4> QED
        BY <3>1, <4>1, <4>2 DEF PushStep
    <3>7. SilencedOnlyAtLimit'
      <4>1. SilencedOnlyAtLimit' <=>
              \A x \in Delivery : silenced'[x] # Never => t >= PUSH_RATE_LIMIT_HOUR
        BY DEF SilencedOnlyAtLimit, AllSent
      <4>2. \A x \in Delivery : silenced[x] # Never => s >= PUSH_RATE_LIMIT_HOUR
        BY DEF PushInv, SilencedOnlyAtLimit, AllSent
      <4>3. push_count[hour] >= PUSH_RATE_LIMIT_HOUR => s >= PUSH_RATE_LIMIT_HOUR
        <5> HIDE DEF m, s
        <5> QED
          BY <3>3, <3>4, <3>5, Bounds
      <4>4. s >= PUSH_RATE_LIMIT_HOUR => t >= PUSH_RATE_LIMIT_HOUR
        <5> HIDE DEF s, t
        <5> QED
          BY <3>3, Bounds
      <4> QED
        BY <3>1, <4>1, <4>2, <4>3, <4>4 DEF PushStep
    <3> QED
      BY <3>1, <3>6, <3>7 DEF PushInv, PushStep
  <2>3. CASE \/ NextHour \/ Disconnect \/ RollupRead \/ RollupDies \/ UNCHANGED vars
             \/ \E p \in Principal : RollupEmit(p)
             \/ \E d \in Delivery : DeadLetter(d)
             \/ \E w \in Worker : WorkerStep(w)
    BY <2>1, <2>3 DEF NextHour, Disconnect, RollupRead, RollupDies, RollupEmit, vars, soc,
       DeadLetter, WorkerStep, TakeBatch, UnderCap, CountLookup, AskSpend, Charge,
       EnrichmentFails, UpdateEventAi, WorkerDies, InWorker
  <2> QED
    BY <2>2, <2>3 DEF Next
<1>2. PushInv => SilencedOnlyAtLimit
  BY DEF PushInv
<1> QED
  BY <1>1, <1>2, PushInit, EventTypeCorrect, PTL DEF Spec

-----------------------------------------------------------------------------
(* The Bedrock calls.                                                      *)

Bedrock(d) == IsBedrock(ShapeOf(d))
OursOf(p)  == {d \in Delivery : Bedrock(d) /\ PrincipalOf(d) = p}

\* The deliveries whose call is counted, and those whose call may be.
Past     == {"b_principal", "b_edge", "b_allowed", "b_inventory", "returned"}
Counted(p) == {d \in OursOf(p) : pc[d] \in Past}
Reached(p) == {d \in OursOf(p) : pc[d] \in Past \cup {"dead"}}

\* The branch is the branch: nothing else of the router runs for a Bedrock call.
InBranchOnly(d) ==
    /\ pc[d] \in InBedrock => Bedrock(d)
    /\ pc[d] \in InTry \cup InPushTry \cup {"enqueue", "deduped"} => ~Bedrock(d)

\* What the graph and the findings say of a call, by how far its delivery has come.
Told(d) ==
    Bedrock(d) =>
      /\ pc[d] \in Past \cup {"b_count"} => <<"model", "any">> \in entities
      /\ pc[d] \in {"b_edge", "b_allowed", "b_inventory", "returned"} =>
           <<"principal", PrincipalOf(d)>> \in entities
      /\ pc[d] \in {"b_allowed", "b_inventory", "returned"} =>
           <<"uses", PrincipalOf(d)>> \in entities
      /\ pc[d] \in {"b_inventory", "returned"} /\ PrincipalOf(d) \notin Allowed =>
           findings["unsanctioned"] # "absent"
      /\ pc[d] = "returned" => findings["inventory"] # "absent"

CountInv == \A p \in Principal : /\ Cardinality(Counted(p)) <= calls[p]
                                 /\ calls[p] <= Cardinality(Reached(p))
TellInv  == \A d \in Delivery : InBranchOnly(d) /\ Told(d)
VolumeInv == \A p \in Principal : p \in rollup \/ findings["high_volume"] = p => calls[p] > HIGH_VOLUME
AccountInv == CountInv /\ TellInv /\ VolumeInv

\* Sets of deliveries have numbers, and subsets have smaller ones.
LEMMA DeliverySets ==
  ASSUME NEW S \in SUBSET Delivery, NEW T \in SUBSET S
  PROVE  /\ IsFiniteSet(S) /\ IsFiniteSet(T)
         /\ Cardinality(S) \in Nat /\ Cardinality(T) \in Nat
         /\ Cardinality(T) <= Cardinality(S)
<1>1. IsFiniteSet(S)
  BY DeliveryFinite, FS_Subset
<1>2. IsFiniteSet(T) /\ Cardinality(T) <= Cardinality(S)
  BY <1>1, FS_Subset
<1> QED
  BY <1>1, <1>2, FS_CardinalityType

\* Every delivery's event has a principal.
LEMMA PrincipalsAre == ASSUME TypeOK, NEW d \in Delivery PROVE PrincipalOf(d) \in Principal
<1>1. shape[d[1]] \in Shape
  BY EventAssumption DEF TypeOK, EventAssumption, Delivery
<1> QED
  BY <1>1 DEF PrincipalOf, ShapeOf, Shape

\* No call yet.
LEMMA AccountInit == Init => AccountInv
<1> SUFFICES ASSUME Init PROVE AccountInv
  OBVIOUS
<1>1. \A d \in Delivery : pc[d] = "pending"
  BY DEF Init
<1>2. \A p \in Principal : Counted(p) = {} /\ Reached(p) = {} /\ calls[p] = 0
  BY <1>1 DEF Counted, Reached, OursOf, Past, Init
<1>3. CountInv
  BY <1>2, FS_EmptySet DEF CountInv
<1>4. TellInv
  BY <1>1 DEF TellInv, InBranchOnly, Told, InBedrock, InTry, InPushTry, Past
<1>5. VolumeInv
  BY DEF VolumeInv, Init, Check, Principal
<1> QED
  BY <1>3, <1>4, <1>5 DEF AccountInv

\* A call may leave the counted ones, and no call leaves the reached ones.
LEMMA CountKept ==
  ASSUME TypeOK, CountInv, UNCHANGED <<shape, calls>>, NEW d \in Delivery, NEW l,
         pc' = [pc EXCEPT ![d] = l],
         Bedrock(d) => /\ l \in Past => pc[d] \in Past
                       /\ pc[d] \in Past \cup {"dead"} => l \in Past \cup {"dead"}
  PROVE  CountInv'
<1> SUFFICES ASSUME NEW p \in Principal
             PROVE  Cardinality(Counted(p)') <= calls[p] /\ calls[p] <= Cardinality(Reached(p)')
  BY DEF CountInv
<1>1. pc \in [Delivery -> Running \cup Over \cup {"pending"}] /\ calls[p] \in Nat
  BY DEF TypeOK
<1>2. Counted(p)' \subseteq Counted(p) /\ Reached(p) \subseteq Reached(p)'
  BY <1>1 DEF Counted, Reached, OursOf, Bedrock, ShapeOf, PrincipalOf
<1>3. Counted(p) \in SUBSET Delivery /\ Reached(p)' \in SUBSET Delivery
  BY DEF Counted, Reached, OursOf
<1>4. /\ Cardinality(Counted(p)') \in Nat /\ Cardinality(Counted(p)) \in Nat
      /\ Cardinality(Counted(p)') <= Cardinality(Counted(p))
      /\ Cardinality(Reached(p)') \in Nat /\ Cardinality(Reached(p)) \in Nat
      /\ Cardinality(Reached(p)) <= Cardinality(Reached(p)')
  BY <1>2, <1>3, DeliverySets
<1>5. Cardinality(Counted(p)) <= calls[p] /\ calls[p] <= Cardinality(Reached(p))
  BY DEF CountInv
<1> QED
  BY <1>1, <1>4, <1>5

\* The increment is one more call and one more delivery that has made one.
LEMMA CountOne ==
  ASSUME TypeOK, CountInv, NEW d \in Delivery, Bedrock(d), UpsertInvocationRollup(d)
  PROVE  CountInv'
<1> SUFFICES ASSUME NEW p \in Principal
             PROVE  Cardinality(Counted(p)') <= calls'[p] /\ calls'[p] <= Cardinality(Reached(p)')
  BY DEF CountInv
<1>1. /\ pc \in [Delivery -> Running \cup Over \cup {"pending"}] /\ calls \in [Principal -> Nat]
      /\ PrincipalOf(d) \in Principal
  BY PrincipalsAre DEF TypeOK
<1>2. /\ pc[d] = "b_count" /\ pc' = [pc EXCEPT ![d] = "b_principal"] /\ shape' = shape
      /\ calls' = [calls EXCEPT ![PrincipalOf(d)] = @ + 1]
  BY DEF UpsertInvocationRollup, Go, InBranch, env
<1>3. /\ Cardinality(Counted(p)) <= calls[p] /\ calls[p] <= Cardinality(Reached(p))
      /\ Cardinality(Counted(p)) \in Nat /\ Cardinality(Reached(p)) \in Nat
      /\ IsFiniteSet(Counted(p)) /\ IsFiniteSet(Reached(p)) /\ calls[p] \in Nat
  BY <1>1, DeliverySets DEF CountInv, Counted, Reached, OursOf
<1>4. CASE p = PrincipalOf(d)
  <2>1. Counted(p)' = Counted(p) \cup {d} /\ d \notin Counted(p)
    BY <1>1, <1>2, <1>4 DEF Counted, OursOf, Bedrock, ShapeOf, PrincipalOf, Past
  <2>2. Reached(p)' = Reached(p) \cup {d} /\ d \notin Reached(p)
    BY <1>1, <1>2, <1>4 DEF Reached, OursOf, Bedrock, ShapeOf, PrincipalOf, Past
  <2>3. Cardinality(Counted(p)') = Cardinality(Counted(p)) + 1
        /\ Cardinality(Reached(p)') = Cardinality(Reached(p)) + 1
    BY <1>3, <2>1, <2>2, FS_AddElement
  <2>4. calls'[p] = calls[p] + 1
    BY <1>1, <1>2, <1>4
  <2> QED
    BY <1>3, <2>3, <2>4
<1>5. CASE p # PrincipalOf(d)
  <2>1. Counted(p)' = Counted(p)
    BY <1>1, <1>2, <1>5 DEF Counted, OursOf, Bedrock, ShapeOf, PrincipalOf, Past
  <2>2. Reached(p)' = Reached(p)
    BY <1>1, <1>2, <1>5 DEF Reached, OursOf, Bedrock, ShapeOf, PrincipalOf, Past
  <2>3. calls'[p] = calls[p]
    BY <1>1, <1>2, <1>5
  <2> QED
    BY <1>3, <2>1, <2>2, <2>3
<1> QED
  BY <1>4, <1>5

\* What is told stays told, and a delivery's own step tells what it must.
LEMMA TellKept ==
  ASSUME TypeOK, TellInv, shape' = shape, NEW d \in Delivery, NEW l,
         pc' = [pc EXCEPT ![d] = l], entities \subseteq entities',
         \A c \in Check : findings[c] # "absent" => findings'[c] # "absent",
         InBranchOnly(d)', Told(d)'
  PROVE  TellInv'
<1> SUFFICES ASSUME NEW x \in Delivery PROVE InBranchOnly(x)' /\ Told(x)'
  BY DEF TellInv
<1>1. CASE x = d
  BY <1>1
<1>2. CASE x # d
  <2>1. pc'[x] = pc[x] /\ Bedrock(x)' = Bedrock(x) /\ PrincipalOf(x)' = PrincipalOf(x)
    BY <1>2 DEF TypeOK, Bedrock, ShapeOf, PrincipalOf
  <2>2. InBranchOnly(x) /\ Told(x)
    BY DEF TellInv
  <2>3. InBranchOnly(x)'
    BY <2>1, <2>2 DEF InBranchOnly
  <2>4. Told(x)'
    BY <2>1, <2>2 DEF Told, Check
  <2> QED
    BY <2>3, <2>4
<1> QED
  BY <1>1, <1>2

\* The router's steps outside the branch.
LEMMA AccountRouter ==
  ASSUME TypeOK, AccountInv, NEW d \in Delivery,
         \/ Deliver(d) \/ Resolve(d) \/ InsertEvent(d) \/ InsertDrift(d) \/ ReadPushCount(d)
         \/ SendPush(d) \/ IncrementPushCount(d) \/ MarkPushSent(d) \/ Enqueue(d)
         \/ RouterCallFails(d) \/ RouterDies(d) \/ BedrockResolve(d)
  PROVE  AccountInv'
<1>1. UNCHANGED <<shape, entities, calls, findings, rollup>>
  BY DEF Deliver, Resolve, InsertEvent, InsertDrift, ReadPushCount, SendPush, IncrementPushCount,
     MarkPushSent, Enqueue, RouterCallFails, RouterDies, BedrockResolve, InRouter, InBranch, env,
     bedrock
<1>2. InBranchOnly(d) /\ Told(d) /\ pc \in [Delivery -> Running \cup Over \cup {"pending"}]
  BY DEF AccountInv, TellInv, TypeOK
<1>3. Bedrock(d)' = Bedrock(d) /\ PrincipalOf(d)' = PrincipalOf(d)
  BY <1>1 DEF Bedrock, ShapeOf, PrincipalOf
\* The router proper, for what is no Bedrock call; the branch's first calls; and a death.
<1>4. \E l : /\ pc' = [pc EXCEPT ![d] = l]
             /\ \/ /\ ~Bedrock(d)
                   /\ l \in InTry \cup InPushTry \cup {"enqueue", "deduped", "returned", "dropped"}
                \/ /\ Bedrock(d) /\ l \in {"b_resolve", "b_model", "dropped"}
                   /\ pc[d] \in {"pending", "b_resolve"}
                \/ l = "dead"
  <2>1. CASE Deliver(d)
    BY <2>1 DEF Deliver, Go, Bedrock, InTry
  <2>2. CASE \/ Resolve(d) \/ InsertEvent(d) \/ InsertDrift(d) \/ ReadPushCount(d) \/ SendPush(d)
             \/ IncrementPushCount(d) \/ MarkPushSent(d) \/ Enqueue(d) \/ RouterCallFails(d)
    <3>1. pc[d] \in InTry \cup InPushTry \cup {"enqueue"}
      BY <2>2 DEF Resolve, InsertEvent, InsertDrift, ReadPushCount, SendPush,
         IncrementPushCount, MarkPushSent, Enqueue, RouterCallFails, InTry, InPushTry
    <3>2. \E l \in {"insert", "drift", "count", "send", "increment", "mark", "enqueue", "deduped",
                    "returned", "dropped"} : Go(d, l)
      BY <2>2 DEF Resolve, InsertEvent, InsertDrift, ReadPushCount, SendPush,
         IncrementPushCount, MarkPushSent, Enqueue, RouterCallFails, AfterInsert, AfterPush
    <3> QED
      BY <1>2, <3>1, <3>2 DEF InBranchOnly, Go, InTry, InPushTry
  <2>3. CASE RouterDies(d)
    BY <2>3 DEF RouterDies, Go
  <2>4. CASE BedrockResolve(d)
    BY <1>2, <2>4 DEF BedrockResolve, Go, InBranchOnly, InBedrock
  <2> QED
    BY <2>1, <2>2, <2>3, <2>4
<1>5. PICK l : /\ pc' = [pc EXCEPT ![d] = l]
               /\ \/ /\ ~Bedrock(d)
                     /\ l \in InTry \cup InPushTry \cup {"enqueue", "deduped", "returned", "dropped"}
                  \/ /\ Bedrock(d) /\ l \in {"b_resolve", "b_model", "dropped"}
                     /\ pc[d] \in {"pending", "b_resolve"}
                  \/ l = "dead"
  BY <1>4
<1>6. pc'[d] = l
  BY <1>2, <1>5
<1>7. CountInv'
  <2>1. Bedrock(d) => /\ l \in Past => pc[d] \in Past
                      /\ pc[d] \in Past \cup {"dead"} => l \in Past \cup {"dead"}
    BY <1>5 DEF Past
  <2> QED
    BY <1>1, <1>5, <2>1, CountKept DEF AccountInv
<1>8. TellInv'
  <2>1. InBranchOnly(d)'
    BY <1>3, <1>5, <1>6 DEF InBranchOnly, InTry, InPushTry, InBedrock
  <2>2. Told(d)'
    BY <1>3, <1>5, <1>6 DEF Told, Past
  <2> QED
    BY <1>1, <1>5, <2>1, <2>2, TellKept DEF AccountInv
<1> QED
  BY <1>1, <1>7, <1>8 DEF AccountInv, VolumeInv

\* The branch's own steps.
LEMMA AccountBranch ==
  ASSUME TypeOK, AccountInv, NEW d \in Delivery,
         UpsertEntity(d) \/ UpsertInvocationRollup(d) \/ Detect(d)
  PROVE  AccountInv'
<1>1. UNCHANGED <<shape, rollup>>
  BY DEF UpsertEntity, UpsertInvocationRollup, Detect, InBranch, env
<1>2. /\ pc[d] \in InBedrock /\ InBranchOnly(d) /\ Told(d) /\ Bedrock(d)
      /\ pc \in [Delivery -> Running \cup Over \cup {"pending"}]
      /\ findings \in [Check -> Principal \cup {"absent"}]
      /\ PrincipalOf(d) \in Principal /\ calls \in [Principal -> Nat]
  <2>1. pc[d] \in InBedrock
    BY DEF UpsertEntity, UpsertInvocationRollup, Detect, InBedrock
  <2> QED
    BY <2>1, PrincipalsAre DEF AccountInv, TellInv, TypeOK, InBranchOnly
<1>3. Bedrock(d)' = Bedrock(d) /\ PrincipalOf(d)' = PrincipalOf(d)
  BY <1>1 DEF Bedrock, ShapeOf, PrincipalOf
<1>4. PrincipalOf(d) # "absent"
  BY <1>2 DEF Principal
<1>5. CASE UpsertEntity(d)
  <2>1. UNCHANGED <<calls, findings>> /\ entities \subseteq entities'
    BY <1>5 DEF UpsertEntity
  <2>2. \/ /\ pc[d] = "b_model" /\ Go(d, "b_count") /\ <<"model", "any">> \in entities'
        \/ /\ pc[d] = "b_principal" /\ Go(d, "b_edge")
           /\ <<"principal", PrincipalOf(d)>> \in entities'
        \/ /\ pc[d] = "b_edge" /\ Go(d, "b_allowed")
           /\ <<"uses", PrincipalOf(d)>> \in entities'
    BY <1>5 DEF UpsertEntity
  <2>3. PICK l \in {"b_count", "b_edge", "b_allowed"} :
          /\ pc' = [pc EXCEPT ![d] = l] /\ pc'[d] = l
          /\ l \in Past <=> pc[d] \in Past
          /\ pc[d] # "dead"
    BY <1>2, <2>2 DEF Go, Past
  <2>4. CountInv'
    BY <1>1, <2>1, <2>3, CountKept DEF AccountInv
  <2>5. Told(d)' /\ InBranchOnly(d)'
    <3>1. CASE pc[d] = "b_model"
      BY <1>2, <1>3, <2>1, <2>2, <3>1 DEF Told, InBranchOnly, Go, Past, InTry, InPushTry, InBedrock
    <3>2. CASE pc[d] = "b_principal"
      BY <1>2, <1>3, <2>1, <2>2, <3>2 DEF Told, InBranchOnly, Go, Past, InTry, InPushTry, InBedrock
    <3>3. CASE pc[d] = "b_edge"
      BY <1>2, <1>3, <2>1, <2>2, <3>3 DEF Told, InBranchOnly, Go, Past, InTry, InPushTry, InBedrock
    <3> QED
      BY <2>2, <3>1, <3>2, <3>3
  <2>6. TellInv'
    BY <1>1, <2>1, <2>3, <2>5, TellKept DEF AccountInv
  <2> QED
    BY <1>1, <2>1, <2>4, <2>6 DEF AccountInv, VolumeInv
<1>6. CASE UpsertInvocationRollup(d)
  <2>1. /\ UNCHANGED <<entities, findings>> /\ pc[d] = "b_count"
        /\ pc' = [pc EXCEPT ![d] = "b_principal"] /\ pc'[d] = "b_principal"
        /\ calls' = [calls EXCEPT ![PrincipalOf(d)] = @ + 1]
    BY <1>2, <1>6 DEF UpsertInvocationRollup, Go
  <2>2. CountInv'
    BY <1>2, <1>6, CountOne DEF AccountInv
  <2>3. Told(d)' /\ InBranchOnly(d)'
    BY <1>2, <1>3, <2>1 DEF Told, InBranchOnly, Past, InTry, InPushTry, InBedrock
  <2>4. TellInv'
    BY <1>1, <2>1, <2>3, TellKept DEF AccountInv
  <2>5. VolumeInv'
    BY <1>1, <1>2, <2>1, Bounds DEF AccountInv, VolumeInv
  <2> QED
    BY <2>2, <2>4, <2>5 DEF AccountInv
<1>7. CASE Detect(d)
  <2>1. UNCHANGED <<calls, entities>>
    BY <1>7 DEF Detect
  <2>2. \/ /\ pc[d] = "b_allowed" /\ pc' = [pc EXCEPT ![d] = "b_inventory"]
           /\ \/ PrincipalOf(d) \in Allowed /\ findings' = findings
              \/ findings' = [findings EXCEPT !["unsanctioned"] = PrincipalOf(d)]
        \/ /\ pc[d] = "b_inventory" /\ pc' = [pc EXCEPT ![d] = "returned"]
           /\ findings' = [findings EXCEPT !["inventory"] = PrincipalOf(d)]
    BY <1>7 DEF Detect, Go, Emit
  <2>3. /\ \A c \in Check : findings[c] # "absent" => findings'[c] # "absent"
        /\ findings'["high_volume"] = findings["high_volume"]
    BY <1>2, <1>4, <2>2 DEF Check
  <2>4. PICK l \in {"b_inventory", "returned"} :
          pc' = [pc EXCEPT ![d] = l] /\ l \in Past /\ pc[d] \in Past
    BY <2>2 DEF Past
  <2>5. CountInv'
    BY <1>1, <2>1, <2>4, CountKept DEF AccountInv
  <2>6. Told(d)' /\ InBranchOnly(d)'
    <3>1. CASE pc[d] = "b_allowed"
      <4>1. /\ pc'[d] = "b_inventory"
            /\ PrincipalOf(d) \notin Allowed => findings'["unsanctioned"] # "absent"
        BY <1>2, <1>4, <2>2, <3>1 DEF Check
      <4> QED
        BY <1>2, <1>3, <2>1, <3>1, <4>1 DEF Told, InBranchOnly, Past, InTry, InPushTry, InBedrock
    <3>2. CASE pc[d] = "b_inventory"
      <4>1. /\ pc'[d] = "returned" /\ findings'["inventory"] # "absent"
            /\ findings'["unsanctioned"] = findings["unsanctioned"]
        BY <1>2, <1>4, <2>2, <3>2 DEF Check
      <4> QED
        BY <1>2, <1>3, <2>1, <3>2, <4>1 DEF Told, InBranchOnly, Past, InTry, InPushTry, InBedrock
    <3> QED
      BY <2>2, <3>1, <3>2
  <2>7. TellInv'
    BY <1>1, <2>1, <2>3, <2>4, <2>6, TellKept DEF AccountInv
  <2> QED
    BY <1>1, <2>1, <2>3, <2>5, <2>7 DEF AccountInv, VolumeInv
<1> QED
  BY <1>5, <1>6, <1>7

\* The daily rollup.
LEMMA AccountRollup ==
  ASSUME TypeOK, AccountInv,
         RollupRead \/ RollupDies \/ \E p \in Principal : RollupEmit(p)
  PROVE  AccountInv'
<1>1. UNCHANGED <<shape, pc, entities, calls>>
  BY DEF RollupRead, RollupDies, RollupEmit, env
<1>2. findings \in [Check -> Principal \cup {"absent"}]
  BY DEF TypeOK
<1>3. /\ \A c \in Check \ {"high_volume"} : findings'[c] = findings[c]
      /\ VolumeInv'
  <2>1. CASE RollupRead \/ RollupDies
    BY <2>1 DEF RollupRead, RollupDies, AccountInv, VolumeInv
  <2>2. ASSUME NEW p \in Principal, RollupEmit(p)
        PROVE  /\ \A c \in Check \ {"high_volume"} : findings'[c] = findings[c]
               /\ VolumeInv'
    <3>1. p \in rollup /\ rollup' = rollup \ {p} /\ calls[p] > HIGH_VOLUME
      BY <2>2 DEF RollupEmit, AccountInv, VolumeInv
    <3>2. findings' \in {findings, [findings EXCEPT !["high_volume"] = p]}
      BY <2>2 DEF RollupEmit, Emit
    <3> QED
      BY <1>1, <1>2, <3>1, <3>2 DEF AccountInv, VolumeInv, Check
  <2> QED
    BY <2>1, <2>2
<1>4. CountInv'
  BY <1>1 DEF AccountInv, CountInv, Counted, Reached, OursOf, Bedrock, ShapeOf, PrincipalOf
<1>5. TellInv'
  BY <1>1, <1>3 DEF AccountInv, TellInv, InBranchOnly, Told, Bedrock, ShapeOf, PrincipalOf, Check
<1> QED
  BY <1>3, <1>4, <1>5 DEF AccountInv

\* Every Bedrock call that was handled is counted for its principal, none twice, and
\* the graph and the findings know it; who is named for the volume made that many.
THEOREM BedrockAccountedAlways == Spec => []BedrockAccounted
<1>1. TypeOK /\ AccountInv /\ [Next]_vars => AccountInv'
  <2> SUFFICES ASSUME TypeOK, AccountInv, [Next]_vars PROVE AccountInv'
    OBVIOUS
  <2>1. CASE UNCHANGED <<shape, pc, bedrock>>
    BY <2>1 DEF AccountInv, CountInv, TellInv, VolumeInv, Counted, Reached, OursOf, Bedrock,
       ShapeOf, PrincipalOf, InBranchOnly, Told, bedrock
  <2>2. CASE \E d \in Delivery : Deliver(d) \/ RouterStep(d)
    BY <2>2, AccountRouter, AccountBranch DEF RouterStep
  <2>3. CASE RollupRead \/ RollupDies \/ \E p \in Principal : RollupEmit(p)
    BY <2>3, AccountRollup
  <2>4. CASE \/ NextHour \/ Disconnect \/ UNCHANGED vars
             \/ \E d \in Delivery : DeadLetter(d)
             \/ \E w \in Worker : WorkerStep(w)
    BY <2>1, <2>4 DEF NextHour, Disconnect, vars, env, DeadLetter, WorkerStep, TakeBatch, UnderCap,
       CountLookup, AskSpend, Charge, EnrichmentFails, UpdateEventAi, WorkerDies, InWorker
  <2> QED
    BY <2>2, <2>3, <2>4 DEF Next
<1>2. TypeOK /\ AccountInv => BedrockAccounted
  <2> SUFFICES ASSUME TypeOK, AccountInv PROVE BedrockAccounted
    OBVIOUS
  <2>1. ASSUME NEW p \in Principal
        PROVE  /\ Cardinality({d \in OursOf(p) : pc[d] = "returned"}) <= calls[p]
               /\ calls[p] <= Cardinality({d \in OursOf(p) : pc[d] # "pending"})
    <3> DEFINE back == {d \in OursOf(p) : pc[d] = "returned"}
               some == {d \in OursOf(p) : pc[d] # "pending"}
    <3>1. /\ back \subseteq Counted(p) /\ Counted(p) \subseteq Delivery
          /\ Reached(p) \subseteq some /\ some \subseteq Delivery
      BY DEF Counted, Reached, OursOf, Past
    <3> HIDE DEF back, some
    <3>2. /\ Cardinality(back) <= Cardinality(Counted(p)) /\ Cardinality(back) \in Nat
          /\ Cardinality(Counted(p)) \in Nat /\ Cardinality(Reached(p)) \in Nat
          /\ Cardinality(Reached(p)) <= Cardinality(some) /\ Cardinality(some) \in Nat
      BY <3>1, DeliverySets
    <3>3. Cardinality(Counted(p)) <= calls[p] /\ calls[p] <= Cardinality(Reached(p)) /\ calls[p] \in Nat
      BY DEF AccountInv, CountInv, TypeOK
    <3>4. Cardinality(back) <= calls[p] /\ calls[p] <= Cardinality(some)
      BY <3>2, <3>3
    <3> QED
      BY <3>4 DEF back, some
  <2>2. ASSUME NEW p \in Principal, {d \in OursOf(p) : pc[d] = "returned"} # {}
        PROVE  /\ {<<"model", "any">>, <<"principal", p>>, <<"uses", p>>} \subseteq entities
               /\ findings["inventory"] # "absent"
               /\ p \notin Allowed => findings["unsanctioned"] # "absent"
    <3>1. PICK d \in Delivery : Bedrock(d) /\ PrincipalOf(d) = p /\ pc[d] = "returned"
      BY <2>2 DEF OursOf
    <3> QED
      BY <3>1 DEF AccountInv, TellInv, Told, Past
  <2> QED
    BY <2>1, <2>2 DEF AccountInv, VolumeInv, BedrockAccounted, OursOf, Bedrock
<1> QED
  BY <1>1, <1>2, AccountInit, EventTypeCorrect, PTL DEF Spec
=============================================================================
