----------------------------- MODULE TurnQueue -----------------------------
(***************************************************************************)
(* The browser's queue of sealed voice turns (web/src/chat/turnQueue.ts)   *)
(* and the handler that stores what it posts (chat_session/main.py and     *)
(* messages.py).                                                           *)
(*                                                                         *)
(* JavaScript runs to the next await, so a step here is one callback: an   *)
(* enqueue, the continuation of flush/postWithRetry after a token, an      *)
(* answer or a back-off, or a setTimeout.  A POST is decided by the server *)
(* at any time after it was sent, also after the browser has given up on   *)
(* it (a gateway timeout leaves the Lambda running).  Turns are numbered   *)
(* in the order in which they were sealed.                                 *)
(***************************************************************************)
EXTENDS Naturals, Sequences

CONSTANTS
    MAX_ATTEMPTS,     \* POSTs of one turn before it is given up
    TURNS             \* bound: turns a voice session seals

ASSUME QueueAssumption == MAX_ATTEMPTS \in Nat \ {0} /\ TURNS \in Nat

VARIABLES
    queue, flushing, destroyed,  \* the fields of TurnQueue
    timers,                      \* setTimeout(flush) callbacks that wait
    pc, turn, attempt,           \* flush/postWithRetry: where it awaits, and its locals
    sealed,                      \* how many turns the voice client has sealed
    page,                        \* the page is open
    warned,                      \* turns given up with onSyncWarning
    net,                         \* POSTs the server has not decided about
    log                          \* conversation_messages, oldest first

worker == <<flushing, pc, turn, attempt>>
client == <<queue, worker, destroyed, timers, sealed, page, warned>>
vars   == <<client, net, log>>

Turn == 1..TURNS
\* Attempt 0 is the keepalive copy that flushHeadOnUnload sends.
Post == [turn : Turn, attempt : 0..MAX_ATTEMPTS]

Init ==
    /\ queue = <<>> /\ flushing = FALSE /\ destroyed = FALSE
    /\ timers = 0 /\ pc = "idle" /\ turn = 0 /\ attempt = 0
    /\ sealed = 0 /\ page = TRUE /\ warned = {}
    /\ net = {} /\ log = <<>>

Copies(t) == {i \in DOMAIN log : log[i].post.turn = t}
Stored(t) == Copies(t) # {}
Current == [turn |-> turn, attempt |-> attempt]
Inserted(p) == \E i \in DOMAIN log : log[i].post = p

-----------------------------------------------------------------------------
(* The queue.                                                              *)

\* flush() up to its first await, called on the queue q.
Flush(q) ==
    IF ~flushing /\ q # <<>> /\ ~destroyed
    THEN flushing' = TRUE /\ pc' = "token" /\ turn' = Head(q) /\ attempt' = 1
    ELSE UNCHANGED worker

Enqueue ==
    /\ page /\ sealed < TURNS
    /\ sealed' = sealed + 1
    /\ IF destroyed
       THEN UNCHANGED <<queue, worker>>
       ELSE queue' = Append(queue, sealed') /\ Flush(queue')
    /\ UNCHANGED <<destroyed, timers, page, warned, net, log>>

TimerFires ==
    /\ page /\ timers > 0
    /\ timers' = timers - 1
    /\ Flush(queue)
    /\ UNCHANGED <<queue, destroyed, sealed, page, warned, net, log>>

\* Mutant: the next flush is not scheduled.
SettleForLast(posted) ==
    /\ queue' = IF queue = <<>> THEN <<>> ELSE Tail(queue)
    /\ warned' = IF posted THEN warned ELSE warned \cup {turn}
    /\ flushing' = FALSE /\ pc' = "idle"
    /\ UNCHANGED <<timers, turn, attempt>>

\* The rest of flush() once postWithRetry has returned.
Settle(posted) ==
    /\ queue' = IF queue = <<>> THEN <<>> ELSE Tail(queue)
    /\ warned' = IF posted THEN warned ELSE warned \cup {turn}
    /\ flushing' = FALSE /\ pc' = "idle"
    /\ timers' = IF queue' # <<>> /\ ~destroyed THEN timers + 1 ELSE timers
    /\ UNCHANGED <<turn, attempt>>

\* Mutant: the POST is not awaited.
SendUnawaited ==
    /\ page /\ pc = "token"
    /\ net' = net \cup {Current}
    /\ Settle(TRUE)
    /\ UNCHANGED <<destroyed, sealed, page, log>>

Send ==
    /\ page /\ pc = "token"
    /\ net' = net \cup {Current}
    /\ pc' = "posting"
    /\ UNCHANGED <<queue, flushing, turn, attempt, destroyed, timers, sealed, page, warned, log>>

\* validIdToken finds no session: signOut, and the turn is dropped.
NoToken ==
    /\ page /\ pc = "token"
    /\ Settle(FALSE)
    /\ UNCHANGED <<destroyed, sealed, page, net, log>>

\* res.ok: the server has inserted this very attempt.
Confirmed ==
    /\ page /\ pc = "posting" /\ Inserted(Current)
    /\ Settle(TRUE)
    /\ UNCHANGED <<destroyed, sealed, page, net, log>>

\* Mutant: a refused turn counts as posted.
RefusedSilently ==
    /\ page /\ pc = "posting" /\ Current \notin net /\ ~Inserted(Current)
    /\ Settle(TRUE)
    /\ UNCHANGED <<destroyed, sealed, page, net, log>>

\* A 4xx other than 429: the server has decided against it.
Refused ==
    /\ page /\ pc = "posting" /\ Current \notin net /\ ~Inserted(Current)
    /\ Settle(FALSE)
    /\ UNCHANGED <<destroyed, sealed, page, net, log>>

\* A 5xx, a 429, a network or token error.  What became of the POST is
\* unknown: append() may even have inserted before its second statement failed.
Failed ==
    /\ page /\ pc \in {"token", "posting"}
    /\ IF attempt < MAX_ATTEMPTS
       THEN /\ pc' = "sleeping"
            /\ UNCHANGED <<queue, flushing, turn, attempt, timers, warned>>
       ELSE Settle(FALSE)
    /\ UNCHANGED <<destroyed, sealed, page, net, log>>

Wake ==
    /\ page /\ pc = "sleeping"
    /\ pc' = "token" /\ attempt' = attempt + 1
    /\ UNCHANGED <<queue, flushing, turn, destroyed, timers, sealed, page, warned, net, log>>

DrainAndDestroy ==
    /\ page /\ ~destroyed
    /\ destroyed' = TRUE /\ queue' = <<>>
    /\ UNCHANGED <<worker, timers, sealed, page, warned, net, log>>

\* The page goes away; while the voice session is connected its beforeunload
\* handler sends the head turn once more.
Leave ==
    /\ page
    /\ page' = FALSE
    /\ \E connected \in BOOLEAN :
        net' = IF connected /\ queue # <<>>
               THEN net \cup {[turn |-> Head(queue), attempt |-> 0]} ELSE net
    /\ UNCHANGED <<queue, worker, destroyed, timers, sealed, warned, log>>

-----------------------------------------------------------------------------
(* The server: POST /conversations/{id}/messages.                          *)

\* The body of a POST is the sealed turn.
Body(t) == [user |-> <<t>>, assistant |-> <<t>>]
Field(body, f, default) == IF f \in DOMAIN body THEN body[f] ELSE default

\* The handler appends body.get("content", {}) under body.get("role", "user").
Receive ==
    \E p \in net :
        /\ net' = net \ {p}
        /\ log' = Append(log, [post |-> p, content |-> Field(Body(p.turn), "content", <<>>)])
        /\ UNCHANGED client

\* Refused by the authorizer or for a deleted conversation, or never arrived.
Reject ==
    \E p \in net :
        /\ net' = net \ {p}
        /\ UNCHANGED <<client, log>>

-----------------------------------------------------------------------------
WorkerStep == Send \/ NoToken \/ Confirmed \/ Refused \/ Failed \/ Wake

Next ==
    \/ Enqueue \/ TimerFires \/ WorkerStep \/ DrainAndDestroy \/ Leave
    \/ Receive \/ Reject

\* Timers fire and every await ends: a fetch is answered or fails.
Fairness == WF_vars(TimerFires) /\ WF_vars(WorkerStep)

Spec == Init /\ [][Next]_vars
FairSpec == Spec /\ Fairness
-----------------------------------------------------------------------------
\* Type invariant of the queue, its worker and the server.
TypeOK ==
    /\ queue \in Seq(Turn) /\ {flushing, destroyed, page} \subseteq BOOLEAN
    /\ timers \in Nat /\ pc \in {"idle", "token", "posting", "sleeping"}
    /\ turn \in 0..TURNS /\ attempt \in 0..MAX_ATTEMPTS /\ sealed \in 0..TURNS
    /\ warned \subseteq Turn /\ net \subseteq Post
    /\ log \in Seq([post : Post, content : Seq(Turn)])

\* What flush() removes after its await is the turn it has posted: the head of
\* the queue has not changed, whatever was enqueued or scheduled meanwhile.
HeadIsOurs ==
    /\ flushing <=> pc # "idle"
    /\ flushing /\ ~destroyed => queue # <<>> /\ Head(queue) = turn

\* Turns are persisted first in, first out: before a copy of a turn is stored,
\* every earlier turn is stored or the user was warned about it - whatever
\* late or repeated POSTs the server still works on.
OrderKept ==
    \A i \in DOMAIN log : \A t \in 1..(log[i].post.turn - 1) :
        t \in warned \/ \E k \in 1..(i - 1) : log[k].post.turn = t

\* While the page is open and the queue lives, a turn is waiting, stored, or
\* the user was warned: none is lost silently (with ImplementsTranscript, which
\* lets no turn be stepped over).
NoneLostSilently ==
    page /\ ~destroyed => \A t \in 1..sealed :
        \/ \E i \in DOMAIN queue : queue[i] = t
        \/ Stored(t) \/ t \in warned

\* Every sealed turn is stored or warned about, unless the page is left or the
\* queue destroyed: no turn is stuck behind a failing one.
EveryTurnSettles ==
    \A t \in Turn :
        sealed >= t ~> Stored(t) \/ t \in warned \/ ~page \/ destroyed

\* The queue and the handler behave as Transcript promises: every turn in its
\* turn, none stepped over, and each POST stored once at most, whatever is lost,
\* late or repeated (turnQueue.ts:4, messages.py:14).
Rows == [i \in DOMAIN log |-> log[i].post]
Promised == INSTANCE Transcript WITH
    ATTEMPTS <- MAX_ATTEMPTS, next <- sealed - Len(queue) + 1,
    dropped <- destroyed, transcript <- Rows
ImplementsTranscript == Promised!Spec

-----------------------------------------------------------------------------
(* The inductive strengthening behind HeadIsOurs, OrderKept and            *)
(* NoneLostSilently.                                                       *)

Settled(t) == Stored(t) \/ t \in warned

\* The queue holds the latest turns in the order in which they were sealed.
QueueIsSuffix ==
    /\ destroyed => queue = <<>>
    /\ Len(queue) <= sealed
    /\ \A i \in 1..Len(queue) : queue[i] = sealed - Len(queue) + i

\* A turn leaves the queue settled, and is posted only when all earlier ones
\* are: also the POSTs the server has not decided about follow settled turns.
EarlierSettled ==
    /\ ~destroyed => \A t \in 1..(sealed - Len(queue)) : Settled(t)
    /\ pc # "idle" => turn \in Turn /\ \A t \in 1..(turn - 1) : Settled(t)
    /\ \A p \in net : \A t \in 1..(p.turn - 1) : Settled(t)

\* The back-off is left for another attempt only.
RetryLeft == pc = "sleeping" => attempt < MAX_ATTEMPTS
=============================================================================
