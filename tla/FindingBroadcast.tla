-------------------------- MODULE FindingBroadcast --------------------------
(***************************************************************************)
(* From a scan's transaction to a Slack card: commit_scan writes findings  *)
(* and, after its commit, publishes one message per critical failing       *)
(* finding (ai_scanner/unified_writer.py, _shared/broadcast_fanout.py);    *)
(* the subscriber (findings_subscriber) posts the card, with a table of    *)
(* what it has posted against repetitions.                                 *)
(*                                                                         *)
(* A scan commits up to COMMITS times, each time all it has found so far   *)
(* (a quick scan has two stages).  All findings here are critical and      *)
(* failing.  SQS delivers a message again when its invocation raises or is *)
(* cut off; two messages are handled concurrently, one message is not      *)
(* (its visibility timeout is the time limit of the Lambda).  No finding's *)
(* row is deleted.                                                         *)
(***************************************************************************)
EXTENDS Naturals, FiniteSets

CONSTANTS
    Scan, Finding,
    COMMITS,          \* stages of a scan
    MAX_RECEIVE       \* deliveries before SQS moves a message to the DLQ

ASSUME BroadcastAssumption == {COMMITS, MAX_RECEIVE} \subseteq Nat \ {0}

VARIABLES
    findings,         \* the findings whose rows are committed
    wpc, stage,       \* where each scan is, and in which stage
    found,            \* what the scan has accumulated
    pending,          \* pending_broadcasts still to be published
    state, receives,  \* each message: where it is, how often it was delivered
    cards,            \* how often each message has put a card into the channel
    seen,             \* the seen table: (finding, scan) pairs
    muted             \* messages acknowledged because broadcasting was off

scans    == <<findings, wpc, stage, found, pending>>
delivery == <<receives, cards, seen, muted>>
broadcastVars     == <<scans, state, delivery>>

Message == [finding : Finding, scan : Scan, stage : 1..COMMITS]
InHand  == {"received", "unseen", "ready", "posted"}
State   == InHand \cup {"none", "queued", "acked", "dead"}

BroadcastInit ==
    /\ findings = {}
    /\ wpc = [s \in Scan |-> "scanning"] /\ stage = [s \in Scan |-> 1]
    /\ found = [s \in Scan |-> {}] /\ pending = [s \in Scan |-> {}]
    /\ state = [m \in Message |-> "none"]
    /\ receives = [m \in Message |-> 0] /\ cards = [m \in Message |-> 0]
    /\ seen = {} /\ muted = {}

Key(m) == <<m.finding, m.scan>>
MessageOf(s, f) == [finding |-> f, scan |-> s, stage |-> stage[s]]

-----------------------------------------------------------------------------
(* The scan.                                                               *)

\* The stage's units have run; commit_scan writes inside its transaction,
\* which nobody else sees.
BeginCommit(s) ==
    /\ wpc[s] = "scanning"
    /\ \E new \in SUBSET Finding : found' = [found EXCEPT ![s] = @ \cup new]
    /\ wpc' = [wpc EXCEPT ![s] = "writing"]
    /\ UNCHANGED <<findings, stage, pending, state, delivery>>

\* Mutant: the messages go out before the commit.
CommitAfterPublish(s) ==
    /\ wpc[s] = "writing"
    /\ pending' = [pending EXCEPT ![s] = found[s]]
    /\ wpc' = [wpc EXCEPT ![s] = "publishing"]
    /\ UNCHANGED <<findings, stage, found, state, delivery>>

Commit(s) ==
    /\ wpc[s] = "writing"
    /\ findings' = findings \cup found[s]
    /\ pending' = [pending EXCEPT ![s] = found[s]]
    /\ wpc' = [wpc EXCEPT ![s] = "publishing"]
    /\ UNCHANGED <<stage, found, state, delivery>>

\* The transaction is rolled back, or its answer is lost: then the rows may be
\* there, but commit_scan raises and publishes nothing.
CommitRaises(s) ==
    /\ wpc[s] = "writing"
    /\ \E landed \in BOOLEAN :
        findings' = IF landed THEN findings \cup found[s] ELSE findings
    /\ wpc' = [wpc EXCEPT ![s] = "over"]
    /\ UNCHANGED <<stage, found, pending, state, delivery>>

\* publish_if_critical: a failed send is logged and swallowed.
Publish(s, f) ==
    /\ wpc[s] = "publishing" /\ f \in pending[s]
    /\ pending' = [pending EXCEPT ![s] = @ \ {f}]
    /\ \E sent \in BOOLEAN :
        state' = IF sent THEN [state EXCEPT ![MessageOf(s, f)] = "queued"] ELSE state
    /\ UNCHANGED <<findings, wpc, stage, found, delivery>>

EndStage(s) ==
    /\ wpc[s] = "publishing" /\ pending[s] = {}
    /\ IF stage[s] < COMMITS
       THEN /\ stage' = [stage EXCEPT ![s] = @ + 1]
            /\ wpc' = [wpc EXCEPT ![s] = "scanning"]
       ELSE wpc' = [wpc EXCEPT ![s] = "over"] /\ UNCHANGED stage
    /\ UNCHANGED <<findings, found, pending, state, delivery>>

\* The scanner dies; what it had not published is never published.
ScanDies(s) ==
    /\ wpc[s] # "over"
    /\ wpc' = [wpc EXCEPT ![s] = "over"]
    /\ pending' = [pending EXCEPT ![s] = {}]
    /\ UNCHANGED <<findings, stage, found, state, delivery>>

-----------------------------------------------------------------------------
(* The subscriber.                                                         *)

To(m, l) == state' = [state EXCEPT ![m] = l]

\* Mutant: the message stays in the queue after its last delivery.
ReceiveWithoutDlq(m) ==
    /\ state[m] = "queued" /\ receives[m] < MAX_RECEIVE
    /\ To(m, "received") /\ receives' = [receives EXCEPT ![m] = @ + 1]
    /\ UNCHANGED <<scans, cards, seen, muted>>

Receive(m) ==
    /\ state[m] = "queued"
    /\ IF receives[m] < MAX_RECEIVE
       THEN To(m, "received") /\ receives' = [receives EXCEPT ![m] = @ + 1]
       ELSE To(m, "dead") /\ UNCHANGED receives
    /\ UNCHANGED <<scans, cards, seen, muted>>

CheckSeen(m) ==
    /\ state[m] = "received"
    /\ To(m, IF Key(m) \in seen THEN "acked" ELSE "unseen")
    /\ UNCHANGED <<scans, delivery>>

\* The kill switch, the tenant's bot, rule and channel, and the finding's row:
\* any of them missing acknowledges the message without a word.
CheckGates(m) ==
    /\ state[m] = "unseen"
    /\ \E enabled \in BOOLEAN :
        /\ To(m, IF enabled /\ m.finding \in findings THEN "ready" ELSE "acked")
        /\ muted' = IF enabled THEN muted ELSE muted \cup {m}
    /\ UNCHANGED <<scans, receives, cards, seen>>

\* chat.postMessage; it may raise (a timeout) although the card is there.
Post(m) ==
    /\ state[m] = "ready"
    /\ \E delivered, raised \in BOOLEAN :
        /\ delivered \/ raised
        /\ cards' = IF delivered THEN [cards EXCEPT ![m] = @ + 1] ELSE cards
        /\ To(m, IF raised THEN "queued" ELSE "posted")
    /\ UNCHANGED <<scans, receives, seen, muted>>

\* A failing mark_seen is logged and swallowed.
MarkSeen(m) ==
    /\ state[m] = "posted"
    /\ \E marked \in BOOLEAN : seen' = IF marked THEN seen \cup {Key(m)} ELSE seen
    /\ To(m, "acked")
    /\ UNCHANGED <<scans, receives, cards, muted>>

\* The invocation raises elsewhere or is cut off; SQS shows the message again.
InvocationDies(m) ==
    /\ state[m] \in InHand
    /\ To(m, "queued")
    /\ UNCHANGED <<scans, delivery>>

-----------------------------------------------------------------------------
ScanStep(s) ==
    \/ BeginCommit(s) \/ Commit(s) \/ CommitRaises(s) \/ EndStage(s) \/ ScanDies(s)
    \/ \E f \in Finding : Publish(s, f)
Deliver(m) ==
    \/ Receive(m) \/ CheckSeen(m) \/ CheckGates(m) \/ Post(m) \/ MarkSeen(m)
    \/ InvocationDies(m)

BroadcastNext == (\E s \in Scan : ScanStep(s)) \/ (\E m \in Message : Deliver(m))

\* SQS keeps delivering and an invocation ends, one way or another.
BroadcastFairness == \A m \in Message : WF_broadcastVars(Deliver(m))

BroadcastSpec == BroadcastInit /\ [][BroadcastNext]_broadcastVars
BroadcastFairSpec == BroadcastSpec /\ BroadcastFairness
-----------------------------------------------------------------------------
\* Type invariant of the scans, the messages and the tables.
BroadcastTypeOK ==
    /\ findings \subseteq Finding
    /\ wpc \in [Scan -> {"scanning", "writing", "publishing", "over"}]
    /\ stage \in [Scan -> 1..COMMITS]
    /\ found \in [Scan -> SUBSET Finding] /\ pending \in [Scan -> SUBSET Finding]
    /\ state \in [Message -> State] /\ receives \in [Message -> 0..MAX_RECEIVE]
    /\ cards \in [Message -> 0..MAX_RECEIVE]
    /\ seen \subseteq Finding \X Scan /\ muted \subseteq Message

\* The row of a published finding is visible, whatever its scan does next:
\* unified_writer.py:88, "Post-commit broadcast guarantees the row is
\* visible".  Otherwise the subscriber would drop the card in silence.
PublishedIsVisible ==
    \A m \in Message : state[m] # "none" => m.finding \in findings

\* A message that is done with has left a card in the channel - its own, or
\* that of another message of the same scan - unless broadcasting was off.
NoCardSwallowed ==
    \A m \in Message : state[m] = "acked" =>
        m \in muted \/ \E n \in Message : Key(n) = Key(m) /\ cards[n] > 0

\* Every message is settled: acknowledged, or set aside after MAX_RECEIVE
\* deliveries.
EveryMessageSettles ==
    \A m \in Message : state[m] = "queued" ~> state[m] \in {"acked", "dead"}
=============================================================================
