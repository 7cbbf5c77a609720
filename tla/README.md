# CISO Copilot: TLA+ models and proofs

This directory holds TLA+ modules that model the stateful, concurrent parts of
CISO Copilot, TLC configurations that check them on small instances, and TLAPS
proofs of their main properties for every size of the instance.  Everything is
translated from the code under `platform/` and `web/`; `PROJECT.json` lists,
for every definition that models code, the file and the lines it models.  Paths
below are relative to the repository, and `L/` stands for `platform/lambda/`.

## 1. The system

CISO Copilot is a multi-tenant service on AWS: about fifty Lambdas and three
Fargate tasks around one PostgreSQL database (through the RDS Data API), SQS
queues, EventBridge schedules, a web client and an iOS client.  Nearly every SQL
statement commits by itself, and nearly every program runs in several copies at
once, so most of the system's state is rows that several programs write without
seeing each other.

| Part | State | Operations | Works with | Hard behaviour | What makes it correct |
|---|---|---|---|---|---|
| **Scan lifecycle** (`L/connections_list`, `L/shasta_runner*`, `L/scanner_core/scan_state.py`, `L/scan_reaper`) | a row of `scans` | rescan (INSERT, then RunTask or async invoke); the runners' UPDATEs; the reaper's sweep | ECS, Lambda's asynchronous retries, EventBridge, the pollers | a launch whose answer is lost; a runner that dies anywhere; a reaper that reads tasks, then rows, then writes; UPDATEs that do not look at what they overwrite | no live task is reaped; a closed row stays closed; the status tells what was committed; every row is closed in the end |
| **Scan pipeline** (`L/scanner_core/scan_pipeline.py`, `L/shasta_runner_azure`, `L/shasta_runner_gcp`) | probe results, thread pool, per-service slots, accumulators, coverage map | probe, build units, run them, collect, absorb, commit, close | cloud APIs, `commit_scan` | units that raise or outlive the deadline; slots held by threads; two phases | "completed" hides no gap; no slot is lost; late results are not merged |
| **AWS account scan** (`L/shasta_runner/app`: regions, policy, units, coverage, AI pass) | region states, plan, graph, coverage map | list and classify regions, plan by tier, enumerate, convert, commit | pool, graph writer | probes and region lists that fail; units that swallow errors | nothing that should have been seen is missed by a scan called completed |
| **Connections and onboarding** (`L/onboarding_*`, `L/connections_list`) | `cloud_connections` row, secret, bus grants | initiate, complete, PATCH scope, DELETE, rescan | cloud consent pages, runners | check in one statement, write in another; a task under way while its connection is edited | a completed scan covered what it was to cover |
| **Sign-in pass** (`L/shasta_runner_entra/app`) | shadow-AI findings, the licence banner, pushes | fetch, match, write, flag, push | Graph, APNs | overlapping and repeated invocations, a licence that comes and goes | the banner follows the latest evidence |
| **AI code scans** (`L/ai_github`, `L/ai_scanner`, `L/ai_supply_chain_matcher`) | repositories, `ai_scans`, messages, shared entities, locks | install, request, clone, commit, match, push | SQS, entity graph | lock cycles between transactions, aborts, redelivery, failures after the commit | success means the graph and the findings are there; every scan ends |
| **MCP connectors** (`L/_shared/mcp_oauth`, `L/connectors`) | token pair, PKCE verifiers, advisory lock | install, callback, refresh, disconnect | OAuth vendors, tools | rotation inside a transaction that may fail or wait | the stored refresh token is good; a disconnected connector stays so |
| **Slack bot** (`L/connectors/handlers_*slack*`, `L/findings_subscriber`) | `tenant_bot_connectors` row, global switch and its cache | install, pick a channel, switch the rule, revoke; gate, read token, post | Slack | the row is read twice per message while admins write it | no card against the admins' last word |
| **Broadcast** (`L/ai_scanner/unified_writer.py`, `L/_shared/broadcast_fanout.py`, `L/findings_subscriber`) | committed findings, SQS messages, the seen table | commit, publish, receive, check, post, mark | SQS with its dead-letter queue, Slack | redelivery, concurrent messages of one finding, a post whose answer is lost | a published finding is visible; no card is swallowed; every message settles |
| **Action tools** (`L/tools`, `L/forensic_callback`) | nothing of their own: branches, grants, messages, one-time rules elsewhere | pull request, revocation, message, forensic scan and its ping | GitHub, Google, Slack, EventBridge | sequences of requests without transaction; lost answers; repeated calls | nothing of other people's work undone; what is said to be done is done |
| **Event pipeline** (`L/event_router`, `L/soc_enrichment`, `L/_shared/greynoise.py`) | events, drift rows, hourly and daily counters, queue, Bedrock rollups | store, push, queue, enrich, roll up, detect | EventBridge, SQS, APNs, LLM | repeated events, dying Lambdas, read-then-write counters | one alert per event; limits and caps hold; the queue drains |
| **Workspace approval** (`L/post_confirmation`, `L/admin_decision`, `L/admin_tenants`) | `tenants` row with used nonces, `users` rows | sign-up trigger, decision links, decisions in the app | Cognito's repeated triggers, identity providers, mail | check and use in separate statements; a trigger that fails half-way | the row shows the latest decision; one administrator, never demoted |
| **Approval cards** (`web/src/chat/artifacts/ApprovalCard.tsx`, `L/risks`, `L/policies`) | the card in each tab, the stored message, the register's row | approve, edit, save, cancel, retry, PATCH | chat messages, risks, policies | lost answers, two tabs, PATCHes out of order | what is shown approved is registered, once |
| **Registers** (`L/policies`, `L/questionnaires`, `L/trust` and their pages) | documents with versions, answers with their source, slugs | generate, enrich, edit; auto-fill, suggest, pick; save | LLM, findings | a model's answer that is written over what changed meanwhile | version, label and address tell the truth |
| **Read models** (`findings_list`, `findings_rollup`, `findings_summary`, `compliance_summary`, `ai_summary`, `entities_api`, `risks`, `trust`, `chat_session/tools_dispatch.py`) | none: nine copies of the same aggregates | list, count, group, score, walk | the web pages, the chat agent | each has its own SQL, cut-offs and defaults | the views of the same rows agree |
| **Voice turn queue** (`web/src/chat/turnQueue.ts`, `L/chat_session/main.py`, `messages.py`) | queue, flushing flag, timers, attempt; `conversation_messages` | enqueue, flush, retry, drain and destroy, flush on unload; append | the voice client, API Gateway | POSTs that outlive their fetch; retries; callbacks between two awaits | first in, first out; no turn lost in silence; none stuck |
| **Voice session** (`web/src/chat/voiceClient.ts`, `L/chat_session/voice.py`) | response guard, tool results of the turn | Realtime events, tool calls, sealing, teardown | OpenAI Realtime, the turn queue | both ends act on what they have not seen yet; a tool returns at any time | each tool result is in one sealed turn |
| **Text turn** (`L/chat_session/app.py`, `agent.py`) | the messages of a conversation | question, rounds, tool calls, cards, reply | the model's stream, the tools | turns beside each other; a stream, a tool or an append that fails anywhere | a reload shows what was streamed; a turn ends |
| **Status poller** (`web/src/scan/useScanStatus.ts`, `L/scans_status`) | last row read, error count | poll, stop | the `scans` row | it stops at the first closed status it reads | a closed status stays |
| TI feeds, detectors, web pages, iOS app, CDK stacks | rows of one owner, or none | upsert; pure analysis | - | single statements or sequential code | not modelled, see section 8 |

## 2. Modules

Components that share no state are checked together: a composing module extends
them, and its variable `scenario` says which of them a behaviour is about.

| Module | Models | Part of |
|---|---|---|
| `ScanLifecycle` | one `scans` row per scan: rescan request, Fargate and Entra handlers, the reaper, and the clock their limits refer to | - |
| `ScanStatus` | the abstract specification: what a client polling `GET /scans/{id}` may see | `ScanLifecycle` through `INSTANCE ScanStatus WITH contested <- Contested` |
| `Connections` | a cloud connection from its onboarding to its deletion, and what a scan of it covers | `Integrations` |
| `AwsScan` | what a scan of an AWS account sees, by tier and region | `Integrations` |
| `McpConnector` | a user's OAuth grant: flow, refresh, disconnection | `Integrations` |
| `AiScan` | AI scans of repositories, the shared graph, the matcher | `Integrations` |
| `EntraSignins` | the AI sign-in pass of a directory | `Integrations` |
| `ScanPipeline` | discovery, units, pool, slots, merging and closing of an Azure or GCP scan | `Outbound` |
| `FindingBroadcast` | `commit_scan`'s transaction boundary and fan-out, the queue, the subscriber | `Outbound` |
| `ActionTools` | the assistant's tools that change something elsewhere | `Outbound` |
| `EventPipeline` | router, push limit, enrichment queue, Bedrock branch and rollup | - |
| `TenantApproval` | the sign-up trigger, the decision links, the administrators' list | `Governance` |
| `Posture` | what nine readers show of findings, entities and risks | `Governance` |
| `ApprovalCard` | a proposal from its card to its row | `Governance` |
| `Registers` | policies, questionnaires, the trust page | `Governance` |
| `WorkspaceBot` | the Slack bot's row, its writers and its reader | `Governance` |
| `TurnQueue` | the browser's queue and the handler that stores its POSTs | `Conversation` |
| `Transcript` | the abstract specification: which rows a voice session may leave, in which order | `TurnQueue` through `INSTANCE Transcript WITH next <- sealed - Len(queue) + 1, ...` |
| `VoiceSession` | the voice client's response lifecycle against the Realtime service | `Conversation` |
| `ChatTurn` | text turns that run beside each other | `Conversation` |

`MCEventPipeline`, `MCGovernance`, `MCRegisters` and `MCIntegrations` give the constants that are
functions or sets of records.  Theorems are in `ScanLifecycleProofs`,
`OutboundProofs`, `EventPipelineProofs`, `PostureProofs`, `GovernanceProofs`,
`IntegrationsProofs`, `TurnQueueProofs` and `ConversationProofs`; a module that is
named after a composition has the proofs of its parts, but for those of `Posture`
and `TurnQueue`, which are long and stand by themselves.

Definitions marked "Mutant" are not part of any specification.  Each is a
variant of the definition right below it with a mistake one could make in the
code, and for every checked property `PROJECT.json` names one that breaks it.

### ScanLifecycle

One step is one SQL statement, or one `commit_scan` transaction, with the
control flow up to the next one, because that is what the Data API makes atomic.
`InsertScan`, `RunTask`/`InvokeAsync`, `MarkLaunchFailed` and `ApiKilled` are
`_rescan`; `Announce`, `RunUnits`, `FinishFargate` are the handlers of the three
Fargate images, which have the same skeleton (`tier` chooses between the
two-stage quick scan and the one-stage medium scan); `BeginEntra`, `RunChecks`,
`RunSignin`, `SwallowFailure`, `FinishEntra` are the Entra handler, and `Stop` is
what Lambda does with an asynchronous event whose attempt ended badly; `Raise`,
`ReportFailure` and `Die` are every way to stop; `ReaperList`, `ReaperSelect`,
`Reap` and `ReaperExit` are the reaper, whose two reads and whose UPDATEs are
separate steps.  Every UPDATE may land and still raise.  `UpdateScan` overwrites
whatever status is there, as `update_scan` does.  `landed` and `gap` abstract the
findings and the coverage map to two parts of a scan.

The Python detail that matters is in `bound`: the Entra handler contains
`import traceback` in one of its blocks, so the name is local to the whole
function and unbound in the earlier `except` clauses.

The clock counts coarse units.  `Tick` cannot pass the time limit of a Lambda
that is running, which is how the limits of the CDK stacks enter the model.

`ScanStatus` promises that a row goes from queued to running to a closed status
and that a closed row changes only to `failed`, unless the scan is *contested*:
given up by its launcher without knowing whether a task was started, or run by
asynchronous attempts that Lambda may repeat.

### Connections, AwsScan

`Connections` follows one `cloud_connections` row.  `CheckPending`,
`StoreCredentials` and `Activate` are the three statements of a completion
report, `ReadScope` and `WriteScope` those of a PATCH, `ReadStatus`, `Revoke`,
`DeleteSecret` and `DeleteRow` those of a DELETE; several of each run at once.
A task reads the row (`ReadConn`), chooses its targets (`Chosen`), probes them
and ends; `Classify` distinguishes "answered: nothing there" from "did not
answer", which is what coverage rests on.

`AwsScan` is one scan of one account.  `Discovery` says how the list of regions
came about (the enabled ones, or the degraded default when the call failed);
`ProbeRegion` is the probe with its partial answers, `BuildScanPlan` the plan by
tier and region state, and the `Enumerate...` operators what each kind of unit
names in the graph.  `Faults` are the failures a unit may swallow.  `Absorb`
merges a stage and `Finish` derives the closing status from what was recorded,
not from what happened; `NothingMissed` compares it with the latter.

### McpConnector, AiScan, EntraSignins

`McpConnector` numbers token pairs as the vendor hands them out: using a refresh
token spends it and brings the next pair.  `LookUp`, `LockAndReread`, `Rotate`,
`StorePair` are a tool call; the lock belongs to the transaction, so it goes with
a commit, a rollback, a dying Lambda (`CallDies`, after `TxnExpires`) or
`LockTimesOut`.  A rotation may be served and its answer lost.

`AiScan` has scans that write the entities of `Writes` in their order, each
write taking the row's lock (`Wants`, `Free`); a cycle is broken by the database
(`DeadlockDetected`), and the message comes back up to `MAX_RECEIVES` times.
`Upserted` is the conflict clause, stubs included.  The matcher is part of it:
`FindMatches`, `EmitFinding`, `FirePush`.  `keys` says whether the foreign keys of
`findings` are enforced.

`EntraSignins` has overlapping invocations of one connection.  `ahead` records,
for each, which were over when it began; it is history, for `BannerFollows`.

### ScanPipeline, FindingBroadcast, ActionTools

`actual` is what a subscription or project holds, `states` what its probe said.
`Take`, `Acquire`, `Finish` are a pool thread: it holds its thread while it waits
for its service's slot.  `Collect` is the return of `wait()`, at the deadline if
there is one (`BATCH_TIMEOUT`; `run_units` offers it, the callers pass none
today); `Joined` is the end of the `with` block, which waits for threads
that were past cancelling, followed by `_absorb` and `commit_scan`.

In `FindingBroadcast` a scan commits all it has accumulated, once per stage, and
publishes after each commit.  Each message goes through the subscriber's calls
(receive, check, gates, post, mark) as separate steps, and its invocation may die
between any two; SQS then shows the message again until `MAX_RECEIVE`.  `muted`
records which messages were acknowledged because broadcasting was off.

In `ActionTools` a call is a sequence of requests to somebody else's service,
each of which may be served, refused, or served with its answer lost (`Raises`).
`ReadManifest`, `ReadBase`, `CreateBranch`, `CommitBump` and `OpenPr` are the pull
request, while `Push` moves the default branch and `DecidePr` merges or closes;
`FindGrant` and `DeleteGrant` are the revocation, `Resolve` and `Send` the message
or ticket, `PutRule` and `PutTargets` the forensic scan, whose one-time rule fires
with `Tick` and runs `Callback` up to `MAX_ATTEMPTS` times.

### EventPipeline

A delivery of an event is a process: `Resolve`, `InsertEvent`, `InsertDrift`,
`ReadPushCount`, `SendPush`, `IncrementPushCount`, `MarkPushSent`, `Enqueue` are
the router's calls, any of which may fail or be the last.  `TakeBatch`,
`CountLookup`, `AskSpend`, `Charge`, `UpdateEventAi` are the enrichment Lambda;
a record that raises brings the whole batch back, and `DeadLetter` sets aside what
came back too often.  `UpsertEntity`, `UpsertInvocationRollup` and `Detect` are
the Bedrock branch, `RollupRead` and `RollupEmit` the daily rollup.

### Posture

A view is one statement, so each is an operator on the tables, and the actions
only change the tables (`UpsertFinding`, `UpsertEntities`, `UpsertEdge`,
`CreateRisk`, `UpdateRisk`).  What matters is not the interleaving but that nine
modules wrote the same filter, group, rank and cut-off nine times.  `ViewsAgree`
is the conjunction of what they promise each other: totals, scores, AI counts,
graph, entity pages, risks, and that what a tool was asked about is what it shows.
`seen` is `last_seen_at`: for each entity, those that were last seen when it was, or
later.  That is all an ORDER BY can tell, and where two rows are equal under it, any
order is an answer.  Totals of groups are sizes of disjoint unions (`SumOf`), pages
sets of rows (`Leading`, `PagesAfter`), the graph a set of walks (`Walks`): nothing
is computed by recursion, so that the prover can reason about it.

### ApprovalCard, Registers, WorkspaceBot, TenantApproval

`ApprovalCard`: a card in several tabs, each with its own copy of the message,
the idempotent create (`CreateOnce`, by approval id), the PATCH that
replaces the whole message and may arrive late, and the team's later edits of the
row (`UpdateRow`), which write the status and the fields that came with the card
(owner, due date and notes of a risk; text and title of a policy, also by the AI
rewrite): a payload stands for all of them.  `team` is history, the row as the team
last left it.

`Registers`: `EnrichRead` and `EnrichWrite` enclose the model's call, in which
editors save (`SavePolicy`) and batches run (`GenerateAll`, `EnrichOne`);
`Autofill`, `PatchItem`, `AskSuggestion` and `SuggestItem`, and the workers of
"Suggest all" compete for the answers of a questionnaire (`byHand` is history, the
answer a person picked last); `CheckSlug` and
`UpsertPage` are the two statements of the trust page's PUT.

`WorkspaceBot`: `InitiateBot`, `FetchVerifier`, `CallbackBot`, `CheckChannel`,
`SetChannel`, `ToggleRule`, `RevokeAtSlack` and `RevokeRow` are the admins'
requests; `Gate`, `ReadToken` and `PostCard` the subscriber.  `off` and `gone`
are the admins' last words, kept as history.  `ToggleRule` is answered at any time,
but writes to an active row only, and `off` is what was written, not what was
answered.

`TenantApproval`: the rows of one e-mail address.  `FindTenant`, `CreateTenant`,
`UpsertUser`, `SendApprovalEmail` are the statements of the trigger and
`TriggerFails` its end at any of them; `GetTenant` and `UpdateTenantDecision` are
the two statements behind a link; `DecideInApp` is the administrators' list.

### TurnQueue, VoiceSession, ChatTurn

A JavaScript callback runs to its next `await`, so a step of `TurnQueue` is a
callback.  A POST in `net` is decided by the server at any later time, also after
the browser has given up on it: API Gateway answers 504 while the Lambda goes on.
`log` is `conversation_messages`, each row with the POST it came from.  Attempt 0
is the `keepalive` copy that `flushHeadOnUnload` sends.

`Transcript` promises, without network or queue, that the turns of a session are
stored or given up one after the other, that a late attempt may store a turn again
but no attempt does so twice, and that the user is warned of no turn whose
predecessors are unsettled.  In the mapping the session owes the turn after those
that have left the queue, and is dropped when the queue is destroyed.

`VoiceSession` has two FIFO channels between the client and the service.  The
service's actions are external: they are what the client's handlers and the
session settings of `voice.py` (server VAD, `interrupt_response` off) expect of it.

`ChatTurn`: `FetchConversation` reads the history, `StoreQuestion` appends the
question, then rounds of `TextDelta` and `ToolUse`, with `RunTool`, `StoreCard`,
and `StoreReply` or `StorePlaceholder` at the end; `StreamBreaks`, `StoreFails` and
`Stopped` are the ways it may be cut short.  `screen` is what the browser saw.  What
the model is given of the past (`Replayed`) and a turn's cards, answers and tool
events are sets of positions in the messages and on the screen, and two of them
correspond when they have the same `Rank` in their sets.

## 3. Runs

| Run | Instance | Shows |
|---|---|---|
| `scan` | 1 Fargate and 1 Entra scan of which one is requested, GRACE 2, limits 1, clock to 4, 3 attempts | `ReaperSparesLiveTasks`, `ReapedIsFinal`, `ResultsMatchStatus`, `FinishedIsFinal`, the refinement `ImplementsScanStatus`, and `EveryScanSettles` |
| `integrations` | five scenarios, see below | `CompletedCovers` (clouds), `NothingMissed` (account), `ConnectorLives` and `RevokedStands` (vendors), `SuccessHasGraph` and `ActiveIsPushed` (repositories), `BannerFollows` (directory), and `WorkEnds` |
| `outbound` | units: 2 places, 1 module per phase, 2 threads, 1 slot; cards: 1 scan of 2 commits, 1 finding, 3 deliveries; tools: 2 calls at once, 2 grants, 2 pushes | `CompletedSawEverything`, `ScanEnds`; `NoCardSwallowed`, `EveryMessageSettles`; `NothingUndone`, `SaidIsDone`, `PingComes` |
| `events` | five pairs of events, up to 2 deliveries, 2 enrichment Lambdas with batches of 2, 2 receives, caps of 1 | `AlertedOnce`, `SilencedOnlyAtLimit`, `SpendNearCap`, `BedrockAccounted`, `QueueDrains` |
| `governance` | nine scenarios, see below | `DecisionsStand`, `OneAdmin` (signup), `ViewsAgree` (findings, graph, risks), `ApprovedHasRow`, `RowStands` (card), `RegistersTrue` (policies, questionnaire, trust), `WordStands` (bot) |
| `conversation` | 3 turns of 2 attempts; 3 calls, 3 utterances; 2 text turns of 2 rounds with 1 tool | `OrderKept`, the refinement `ImplementsTranscript`, and `EveryTurnSettles`; `ToolResultsKept`; `ReloadShowsTurn`, `HistoryIsWhole`, `TurnEnds` |
| `entra_signin_failure` (violation) | 1 Entra scan | a failing sign-in pass fails the scan |
| `silent_collector` (violation) | one account scan | a collector that fails leaves no trace |
| `stub_overwrite` (violation) | 2 AI scans | a stub wipes what another scan described |
| `signin_collapse` (violation) | 2 users | sign-ins of one tier share one finding |
| `approved_payload` (violation) | 1 tab, 2 clicks | the row keeps another payload than the card |
| `manual_answers` (violation) | 2 questions, 1 pick | a suggestion replaces an answer a person picked |

Why these bounds are enough.

- *Scans* meet only in the reaper, which treats each by itself (`live` and `todo`
  are sets it filters row by row); the proofs cover any number.  Its race needs a
  launch between its two reads and a grace period that runs out before its
  UPDATE: GRACE = API_TIMEOUT + REAPER_TIMEOUT is the tightest case the
  assumption allows (the deployed 20 min, 15 s and 2 min leave more room).
  Requests at 0 and 1 and a clock to 4 put a scan on either side of every limit.
- *Connection*: two reports that overlap in what they report, one PATCH, one
  DELETE and one rescan give every pair of its writers, and the selection can
  become stale in either direction.  *Account*: two regions of which one is in
  the degraded default, all tiers and states, one failure anywhere.
- *Connector*: two flows, two calls and a disconnection; three pairs allow two
  rotations, so one may start from the result of another.
- *AI scans*: two, which meet two shared entities in opposite orders (a lock
  cycle), one as a stub; two receives let each abort once and be given up.
- *Directory*: two overlapping invocations; the three kinds of applications the
  catalog knows.
- *Pipeline*: two units per service and one slot make a unit wait while another
  raises; two phases are all the handlers have.
- *Cards*: the two commits give two messages with one seen key, which is the
  only way two messages meet; three deliveries exceed what a post that raises
  after delivering, followed by a lost mark, needs.
- *Tools*: two calls and two pushes put a push before, between and after the
  reads of a call that repeats a half-finished one; a minute of two ticks has a
  begin and an end, and the clock passes three of them.
- *Events*: the pairs are a drift event beside one that has no id, an alert
  beside another (the push limit), an open database (the two other drift rules)
  delivered twice, and Bedrock calls of an allowed and another principal, or of
  the same; caps of 1 are reached at once, two workers pass them together.
- *Sign-up*: a race of two triggers and a late repetition, with two identities;
  two clicks on one link and one on the other, around a decision in the app.
- *Posture*: two findings of one check in two clouds and one of code that
  concerns AI, in every combination of severity and status: filters, groups and
  ranks differ from each other on two or three rows.  Pages of one row make every
  list continue; graphs of four edges over three entities have cycles and pass
  the limits of depth and nodes; two risks in every severity and status.
- *Cards and registers*: two tabs, two clicks and two PATCHes; two editors and a
  batch on one document of three versions; two questions and two workers; three
  admins of two tenants with two addresses.
- *Bot*: two requests at once, two workspaces, a message delivered twice.
- *Turns*: an order violation needs a turn, one overtaking it, and one queued
  behind; two attempts give a retry and a last failure.  *Calls and utterances*:
  three of each let one tool return during its own response, one during the next,
  and one after the last.  *Text turns*: two, since a history is disturbed by one
  other turn; two rounds, since the second sees the first one's tools.

`CHECK_DEADLOCK FALSE` is set where the program really stops: all turns settled
and the page left, all messages settled, all triggers and clicks done, the
channel closed, the scans closed.  In `ScanLifecycle` the reaper comes back
forever and deadlock is checked.

## 4. Fairness

- `ScanLifecycle`: weak fairness for the clock, for requests and for runners: a
  request or an attempt is cut off by its Lambda's limit, and a Fargate task's
  cloud calls have time-outs (`SCAN_BOTO_CONFIG`) or the task dies, which is a
  step as well.  Strong fairness for `ReaperSelect` and `Reap`, because EventBridge
  starts the reaper every ten minutes and one invocation after the other being
  cut off before the very same statement is what the schedule rules out.
- `Integrations`: a call that holds or waits for the refresh lock, and a scanner
  that has a message, take a step (the vendor, the database and git answer or
  time out, the transaction of a dead Lambda expires).  Nothing makes reports,
  deletions, scans of accounts or sign-in passes go on, and nothing is claimed of
  their end.
- `Outbound`: threads are scheduled and a probe or unit returns or raises; SQS
  keeps delivering and an invocation ends, one way or another; the clock runs,
  and a callback that raised is invoked again.  Nothing is assumed of anyone's
  success.
- `EventPipeline`: router and workers end their invocations and SQS sets aside or
  delivers; nothing is assumed of the LLM.
- `Conversation`: timers fire, every `await` ends with whatever outcome, and a
  model's stream ends or breaks; the server is not assumed to answer.  The voice
  session is free to be silent.
- `Governance` states no liveness: nobody has to click.

## 5. Proofs

TLAPS checks these for every value of the constants that satisfies the named
assumption of the module.  Each is about the component's own specification;
where components are checked inside a composing module, a last theorem
(`GovernanceKeepsItsWord`, `IntegrationsKeepTheirWord`, `OutboundKeepsItsWord`,
`ConversationKeepsItsWord`) says that they hold side by side as the run has them:
a step of the composition is, for each part, a step of that part or a stutter.
Every safety property of a passing run, invariant, action property or refinement,
is stated by a theorem; the bounds of section 3 matter only for what is not safety.

**ScanLifecycleProofs** (`ScanAssumption`: the two kinds of scans are disjoint,
the limits are natural numbers, API_TIMEOUT + REAPER_TIMEOUT <= GRACE).
`TypeCorrect`; `SparesLiveTasks`; `ReapedForGood`; `ResultsCorrect`.
`ReaperSparesLiveTasks` is not inductive: the reaper's snapshot is old when it
decides.  The argument, `ReaperInv`, follows the order of the reads.  No clock has
passed a limit (`WithinLimits`).  A scan that runs or may yet be launched without
being in the snapshot was requested at most API_TIMEOUT before the snapshot
(`SnapshotCovers`), since its launch came after the snapshot.  So at the decision,
at most REAPER_TIMEOUT later, it is not older than GRACE, and what *is* chosen can
neither run nor be launched any more (`DecidedAreDead`), which then holds until
the UPDATE and forever after.  `ResultsMatchStatus` follows from
`RunnerCommitted`: where the runner is tells what it has committed and whether
`gap` is set.  The refinement is `ImplementsStatus` (initial states map to
initial states, every step to a step or a stutter of `ScanStatus`); with
`FinishedForGood` it needs `RowFollows`, which ties the row's status to the request
and the runner.

**OutboundProofs**, the units (`PipelineAssumption`: threads and slots are positive,
the modules of the two phases are disjoint, units are finitely many):
`PipelineTypeCorrect`, `CompletedIsWhole`, `MergedRight`, `SlotsKept`.  `PoolHolds`
says where a unit of the running phase can be, so that `Collect` gives each of them
an outcome; `Reported` ties outcomes to what is merged; `Accounted` says that a
finished phase's units are committed or in the errors, and `ProbesTell` that a place
left out is really empty.  `SlotsKept` counts with the cardinality theorems of the
library and needs that no unit waits and runs at once.
The cards (`BroadcastAssumption`): `VisibleWhenPublished`,
`NoneSwallowed`.  `NoCardSwallowed` needs that a posted message has a card, that a
pair in the seen table has one, and that a pending broadcast's finding is
visible; marking comes after posting, and that order is the whole argument.  The
type invariant bounds cards by deliveries, which takes `CardsCounted`.
The tools (`ToolsAssumption`: bounds are positive, the run has time for three
minutes, the missing manifest is no manifest): `SaidIsDoneAlways`,
`NothingUndoneAlways`.  A call that has not ended has done nothing yet
(`AnswersOnce`), and where a call is tells whether the bump's branch and its fork
exist (`BranchThere`), also when it goes on from what an earlier call left.

**EventPipelineProofs** (`EventAssumption`: events and workers are finitely many,
the limits natural numbers).  `AlertedOnceAlways`: whatever notifies or queues
stands behind a stored row, and of the copies of an event that has an id one
stores a row (`AlertInv`).  `SpendNearCapAlways`: a worker past its check of the
cap holds at most one call's cost not yet charged, and no sum of spend and such
holds passes the bound (`SpendInv`); the bound itself is not inductive.
`SilencedOnlyAtLimitAlways`: each increment of an hour's counter belongs to
another notified delivery, so the counter never exceeds their number (`PushInv`).
`BedrockAccountedAlways`: a principal's counter lies between its deliveries past
the count and those that reached it (`CountInv`), a delivery past a statement of
its branch has left there what the statement writes (`TellInv`), and who is named
for volume has that many calls (`VolumeInv`).

**PostureProofs** (`PostureAssumption`: findings say what the tables may hold, there
are finitely many controls, pages and limits are positive): `PostureTypeCorrect`,
`ViewsAgreeAlways`.  The views are functions of the tables, so what is inductive is
about the tables alone (`PostureInv`): rows and entities are finitely many and the
ends of an edge are known (`TablesFilled`), and `seen` is a total preorder
(`SeenInOrder`).  The rest is arithmetic over sets of any size.  Groups and cards add
up to the rows they are made of because their counts are sizes of disjoint parts
(`GroupsAddUp`, `PartOfSize`).  The worst severity shown is one that some row has
(`BriefingCounts`).  In a graph that is not cut off whatever a
walk reaches is kept with its edges (`GraphAgreesNow`).  Where no two entities were
last seen together, their places number them from 0 on (`Places`), the pages are the
stretches between multiples of the page's size (`Stretch`, `OnPage`), and so each
entity is on one page (`SeenOnce`).  With ties that is false: whether an entity is
shown is then the database's choice, see section 6.

**GovernanceProofs.**  Workspace: `DecisionsStandAlways`, `OneAdminAlways`,
`CreatorStays`, `UsedLinks`.  `OneAdmin` needs `OneCreator`: at most one trigger is
between its two INSERTs, and while one is, there is no administrator yet.
Slack bot (`BotAssumption`): `WordStandsAlways`.  The words are history and the row
is what the subscriber reads, so the invariant ties them: the row's rule is off
exactly when the last switching that found an active row was to off, an active row
was not revoked (`RowInv`), and a message past one of the two reads was allowed when
it made it (`AlertInv`).  The theorem is silent on switchings that found no active
row; of those see section 6.
Approval cards (`CardAssumption`): `ApprovedHasRowAlways`, `RowStandsAlways`: once
the team has worked on the row no POST undoes it, because a create that meets a row
writes nothing, whatever the row has become.  A tab is approved by an answer, an answer came after its row
(`AnswerHasRow`), and a form is open only on a pending card that waits for no
answer (`FormIsPending`), so that no edit starts from an approved one.
Registers (`RegisterAssumption`): `RegistersTrueAlways` (and `RegisterTypeCorrect`,
where there is a document at all: an editor must have one to point at).  Every
editor holds a version that is not ahead of the document's, and a document some batch has still
to insert has none (`VersionsAhead`); only answers that are there are asked about
or written (`ItemsThere`).  `RegistersTrue` promises less than that edits survive: a
text or an answer may be replaced by the model's at any time, and what holds is that
the version, or the label, then tells.

**IntegrationsProofs.**  Clouds (`ConnectionAssumption`): `CompletedCoversAlways`;
a scan past its start has targets (`TargetsKnown`), since an active connection was
activated by a report (`ActiveHasAccount`).  Account (`AwsAssumption`):
`NothingMissedAlways`.  What was there when the scan began is there still
(`OnlyGrows`), the regions left out have nothing (`ScopeFound`), a stage tells
which units are accounted for (`PhasesRan`), and what a unit that ran should have
seen has been emitted (`Seen`).  Vendors (`ConnectorAssumption`):
`ConnectorLivesAlways`, `RevokedStandsAlways`; one call is inside the lock's
transaction (`LockHeld`), pairs handed out, granted and spent are told apart
(`PairsKnown`), and the call inside holds the newest one (`TxnPairs`).
Repositories (`AiScanAssumption`): `SuccessHasGraphAlways`, `ActiveIsPushedAlways`;
a critical finding not yet pushed is carried by a message that will be delivered
again, was set aside, or is being worked on (`FoundIsCarried`), and messages are
handled in the order of `MessagesInOrder`.  Directory: `BannerFollowsAlways`.
`BannerFollows` compares the banner with verdicts of invocations that may be long
over, and is not inductive: `SigninInv`, on top of `SigninTypeCorrect`, adds that the verdict is known before
anything is written, that only an invocation past its writing has noted its
verdict, and that those in `ahead[k]` are over for good.

**TurnQueueProofs** (`QueueAssumption`: at least one attempt): `RemovesItsOwn`,
`StoredInOrder`, `NoneLost`.  `OrderKept` speaks of the log, but what keeps it is on
the browser's side of the network.  The queue is a suffix of the sealed turns
(`QueueIsSuffix`), so the turns before its head are exactly those that have left
it; a turn leaves it stored or warned about, and a turn is posted only as the
head.  Hence every POST under way, however old, is of a turn whose predecessors
are all settled (`EarlierSettled`), and the server may store it at any time.
`NoneLostSilently` is the same invariant read backwards.  `ImplementsTranscriptAlways`
is the refinement: `Receive` is a `Store`, whatever leaves the queue a `Settle`, and
the rest stutters.  Its hard case is that no POST makes two rows, although the server
may take it after the browser has given it up.  By `SentBefore`, while the page is
up a POST that was ever sent is of a turn before the head's or of an earlier attempt
at it, so the next one is new; and what is still in the network is not in the log.

**ConversationProofs.**  Voice (`VoiceAssumption`: a call is none of the other
things the channel carries): `ToolResultsKeptAlways`.  `CallsKept` says that a call
that was made is in one place, the channel, the tool, the accumulator or a sealed
turn, and in that place once.  Text turns (`ChatAssumption`: at least one round and
one use): `ReloadShowsTurnAlways` and `HistoryIsWholeAlways` share `ChatInv`.  For
each request on its own, `TurnInv` follows what it has shown and stored between
two steps: as many cards as tool events, one less while a card is being stored
(`Level`) and then the event is the last one shown (`CardNext`), so that the new
card is the event's in rank (`CardsMatch`); the text shown is the text said
(`AllTold`); "done" is shown exactly before the reply is stored (`DoneTold`); and
no answer is stored before the end (`Open`).  A step of one request writes only in
its own name (`Touches`), which is why turns beside each other leave this alone
(`OtherTurns`).  An answer that is stored is therefore its request's only one and
its last word, and a history that was read stays past (`Final`, `PastIn`).

Proved but in no run, because the run's other properties imply the interesting
part: `UsedStaysUsed`, `CreatorStaysAdmin`, `HeadIsOurs`, `NoneLostSilently`,
`PublishedIsVisible`, `MergedAsReported`, `SlotsConserved`, and the type invariants,
also side by side in the compositions (`GovernanceTypeCorrect`, `IntegrationsTypeCorrect`,
`OutboundTypeCorrect`).

Model-checked only: the liveness properties (`EveryScanSettles`, `WorkEnds`,
`ScanEnds`, `EveryMessageSettles`, `PingComes`, `QueueDrains`, `EveryTurnSettles`,
`TurnEnds`), because liveness, and the ENABLED that fairness stands for, are out
of the prover's reach; and, of course, the properties that fail (section 6).

## 6. Where code and documentation disagree

Six violation runs, each with a quoted source line in `PROJECT.json`:

1. `entra_signin_failure`.  `L/shasta_runner_entra/app/main.py:77-81`: a failing
   sign-in pass is meant to be swallowed.  The function-local `import traceback`
   leaves the name unbound in the `except` clauses, so they raise, and so does the
   outer one before it reports the failure.
2. `silent_collector`.  The design has a failing collector marked `not_assessed`
   in the scan's stats; `run_coverage_for_region` prints it and goes on, and no
   record of it is left.
3. `stub_overwrite`.  `L/ai_scanner/unified_writer.py:14-16` has stubs made for
   entities not yet in the table; `_resolve_or_stub` upserts one over an entity
   that is, and empties its attributes.
4. `signin_collapse`.  The plan of the sign-in pass has one finding per sign-in;
   the key it gives them holds neither user nor application.
5. `approved_payload`.  Only the final approved payload is to be written; after a
   lost answer and an edit, the row holds the first.
6. `manual_answers`.  The comment above the suggestion's UPDATE has "don't overwrite
   manual answers" (`L/questionnaires/main.py:175`); the UPDATE overwrites answer and
   notes whoever wrote them, and "Suggest all" takes the manual ones on purpose.

The models also reach states that no run names as a violation, since no document
speaks of them or one line of the code suffices to see them.

*Scans.*  The reaper fails an Entra scan whose retried attempt is under way, and
that attempt reopens the row: Lambda's retries outlast the one ceiling the
reaper counts on (`L/scan_reaper/main.py:15-17`).

*Connections.*  A completion that was checked while the connection was pending
reactivates one that was revoked meanwhile; a DELETE between the statements of a
completion removes an active row or its secret; two completions may leave the
account of one, the secret of the other.  A PATCH writes a whole scope back that
it read earlier, so it undoes what a task or the sign-in banner wrote.  Two
rescans may run at once; an UPDATE of a row that is gone answers 200; the grants
on the event bus are never removed; the GCP branch of `_update_scope` cannot be
reached (`L/connections_list/main.py:439-448`); an Entra invocation that fails
to start leaves its scan queued for the reaper.

*AWS account.*  Collectors, the AI regions and checks that are not assessed fail
in silence and the scan is completed.  A region that holds only what no probe
looks for (queues, keys, tables) is classified empty.  When the list of regions
fails, a default set is scanned and only the recorded method tells.  `deep` is
`medium`: `run_capabilities` has no reader.  Pool results are merged in the order
of a set, so the attributes of an entity that several units emit are not
determined.  Instance roles are stubbed under the key of the instance profile.

*Repositories.*  `findings` refers to `cloud_connections` and `scans`
(`002_phase_a.sql:53-54`), so where those keys are enforced a scan of code with
findings fails; a clone that fails is not recorded; a matcher that cannot be
enqueued turns a committed scan into a failed one; the matcher looks for
earlier findings by a check id without the suffix it writes, and for the
connection in `scans` instead of `ai_scans`; two packages with one CVE share a
finding; requesting a scan wipes the repository's attributes.

*Connectors.*  Disconnecting does not stop a refresh that waits for the lock
(comment at `session.py:256-261`); it revokes the access token it read, not
the one a refresh put in its place.  A rotation whose commit fails loses the
pair: the connector stays active and every later call fails.  Connecting again does
not update the vendor's workspace and user (`:152-162`), and a refresh that commits
afterwards overwrites the new grant.

*Events.*  A router that fails after the event's row never makes up for it: the
retry takes the row for a duplicate, so the drift row, the push or the
enrichment is missing (contrary to `docs/codebase/06-soc-ti.md:70`); an enqueue
that fails is left to a backfill (`main.py:204`) that does not exist.  Features
count the event's own row (`features.py:30-71`).  A redelivered batch may overwrite
a narrative by none; an answer that cannot be parsed is billed and not charged,
and a small call costs zero cents.  The daily findings' key lacks the principal,
and Bedrock events that come after the rollup at 00:05 are missed.

*Sign-up.*  One link can decide twice, around another decision: the nonce is
checked in one statement and recorded in another (`L/admin_decision/main.py:58-66`).
A trigger that fails between its INSERTs leaves, when repeated, a tenant without
an administrator.

*Registers.*  Nothing is locked while the model is at work: an edit of a policy saved
meanwhile is overwritten by the rewrite (`L/policies/main.py:173`), and an editor
that was open overwrites the rewrite in turn.  The version goes up each time and no
earlier text is kept; no document promises that one survives.

*Cards and bot.*  Two messages of one finding can both post before either marks the
pair, and every scan broadcasts an old finding again because the key holds the
scan.  A reinstall in another workspace keeps the old channel and rule (comment at
`handlers_admin_slack_channels.py:95-97`), so Slack refuses every card until one
is picked.  The tenant's toggle is "the authoritative kill"
(`L/findings_subscriber/kill_switch.py:4-6`), but its UPDATE is of an active row and
nobody looks whether there was one: while an install is under way, or after a
revocation, an admin is answered that the rule is off, nothing is written, and the
install brings the row back with the rule it had, or a new one with the default, on,
and cards are posted.  `WordStands` is therefore about what was written, not about
what was answered.  Picking a channel answers 200 also when the row was revoked since the
check; the callback of an older authorization reactivates a bot revoked
meanwhile; `get_admin_session` has no caller.

*Tools.*  A pull-request call repeated after its commit or its last request failed
never succeeds (it sends the sha of the default branch's file for the
bump's branch); a forensic rule set up after its minute has begun never fires;
revoking removes the first grant only; a Slack name is looked up on five pages;
a request that was served and whose answer was lost is an error to the
assistant, whose repetition does it twice.

*Reads.*  `L/chat_session/tools_dispatch.py:128` "replicates" the dashboard's
severity counts, but leaves out the partial findings they include; `ViewsAgree`
compares it with the trust page's, which do too.  Pages of lists have no tiebreaker, and one commit gives all its entities
one time; a page and its total are two statements; `query_findings` counts its
page; the dashboard's donut counts partial findings and links to a page that
leaves them out; `/ai/summary` has no entry for GCP; a truncated graph may lack
its root; the chat answers another finding of a check when the one asked about is
not open, and shows an unassessed framework as 0 %.

*Conversations.*  The handler reads `role` and `content`
(`L/chat_session/main.py:67`) where the queue posts `user` and `assistant`, so a
stored voice turn is empty.  `sealTurn` clears the pending flag the next lines
look at (`voiceClient.ts:439-447`), so a waiting response.create is dropped;
two tools that return before `response.created` both send one.
`drainAndDestroy` does not stop the retry loop of the turn under way.  A text
turn stores its reply only after `done`, so one cut short there loses it
(comments at `app.py:21-22` and `232-233`); a stream that ends without
`message_stop` counts as complete; rounds that run out without text leave no
reply; turns of one conversation interleave; appending does not look at
`deleted_at`.

*Sign-ins.*  The shipped catalog gives no application the tier "personal", so the
pushes never fire; only the first page of the log is read; a push goes out at
every scan, not only for what is new.

## 7. Plan

Done: the scan life cycle with its abstract specification, and the five
compositions of section 2 with the properties of section 3; the proofs of
section 5.

Next, most important first:

1. `Connections` with `ScanLifecycle`: one connection, its rescans and their rows
   together, so that what a task writes back meets the launcher's and the
   reaper's statements in one behaviour.
2. The poller's loop (`useScanStatus.ts`), composed with `ScanStatus`: it stops at
   the first closed status, and its error count ends it.
3. The conversations API (list, rename, delete) beside `ChatTurn`, and the readers
   of events and of the AI bill of materials beside `Posture`.
4. Proofs: an abstract specification of an approval (proposed, then registered once)
   and one of a finding's announcement (committed, then posted or set aside), each
   shown to be implemented as `ScanStatus` and `Transcript` are.

## 8. Not modelled, and why

- Threat-intelligence feeds: scheduled downloads, upserted row by row.
- Detectors, checks, framework mapping: pure functions from inventory to
  findings; the models abstract a unit to what it names or whether it raised.
- The scan status poller, web routes and components, and the iOS app: clients of
  the same APIs.  The two pages that keep state across requests (the approval
  card and "Suggest all") are in `ApprovalCard` and `Registers`.
- The CDK stacks: declarations; the limits they set are constants here.
- Inside the modelled parts: token signatures, encryption, mail and card layout,
  transcripts and audio, WebRTC set-up, prompts, template texts, workbooks,
  the evidence of findings, titles and wording; what a tool that only reads logs
  or lists answers.
