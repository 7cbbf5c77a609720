-------------------------- MODULE TurnQueueProofs --------------------------
(***************************************************************************)
(* Proofs about TurnQueue: its type invariant, that turns are stored in    *)
(* the order in which they were sealed and none is lost silently, and that *)
(* the queue implements Transcript, for any number of turns and attempts.  *)
(***************************************************************************)
EXTENDS TurnQueue, TLAPS

\* The inductive invariant.
IInv ==
    /\ TypeOK /\ HeadIsOurs /\ OrderKept
    /\ QueueIsSuffix /\ EarlierSettled /\ RetryLeft

\* What Append does to a sequence.
LEMMA AppendFacts ==
    ASSUME NEW S, NEW s \in Seq(S), NEW e \in S
    PROVE  /\ Append(s, e) \in Seq(S) /\ Len(Append(s, e)) = Len(s) + 1
           /\ Append(s, e)[Len(s) + 1] = e
           /\ \A i \in 1..Len(s) : Append(s, e)[i] = s[i]
           /\ Append(s, e) # <<>>
<1>1. /\ Append(s, e) \in Seq(S) /\ Len(Append(s, e)) = Len(s) + 1
      /\ Append(s, e)[Len(s) + 1] = e
      /\ \A i \in 1..Len(s) : Append(s, e)[i] = s[i]
    OBVIOUS
<1>2. Len(<<>>) = 0 /\ Len(s) + 1 # 0
    OBVIOUS
<1>3. Append(s, e) # <<>>
    BY <1>1, <1>2
<1> QED BY <1>1, <1>3

\* What Head and Tail take from a sequence that is not empty.
LEMMA TailFacts ==
    ASSUME NEW S, NEW s \in Seq(S), s # <<>>
    PROVE  /\ Head(s) = s[1] /\ Head(s) \in S /\ Len(s) \in Nat /\ Len(s) > 0
           /\ Tail(s) \in Seq(S) /\ Len(Tail(s)) = Len(s) - 1
           /\ \A i \in 1..Len(Tail(s)) : Tail(s)[i] = s[i + 1]
    OBVIOUS

\* A turn is stored if some row of the log is a copy of it.
LEMMA StoredFacts ==
    ASSUME TypeOK, NEW t
    PROVE  /\ Len(log) \in Nat /\ DOMAIN log = 1..Len(log)
           /\ Stored(t) <=> \E i \in 1..Len(log) : log[i].post.turn = t
<1>1. log \in Seq([post : Post, content : Seq(Turn)])
    BY DEF TypeOK
<1>2. Len(log) \in Nat /\ DOMAIN log = 1..Len(log)
    BY <1>1
<1> QED BY <1>2 DEF Stored, Copies

\* A turn that is settled stays settled while the log is kept and no warning is
\* taken back.
LEMMA SettledStays ==
    ASSUME NEW t, Settled(t), UNCHANGED log, warned \subseteq warned'
    PROVE  Settled(t)'
<1>1. Stored(t)' <=> Stored(t)
    BY DEF Stored, Copies
<1> QED BY <1>1 DEF Settled

-----------------------------------------------------------------------------
\* flush() up to its first await starts with the head of the queue, or leaves
\* the worker alone.
LEMMA FlushFacts ==
    ASSUME IInv, NEW q \in Seq(Turn), Flush(q)
    PROVE  \/ /\ UNCHANGED worker /\ (flushing \/ q = <<>> \/ destroyed)
           \/ /\ ~flushing /\ ~destroyed /\ q # <<>>
              /\ flushing' = TRUE /\ pc' = "token" /\ turn' = Head(q) /\ attempt' = 1
              /\ Head(q) \in Turn
<1>1. CASE ~flushing /\ q # <<>> /\ ~destroyed
    <2>1. Head(q) \in Turn
        BY <1>1, TailFacts
    <2> QED BY <1>1, <2>1 DEF Flush
<1>2. CASE ~(~flushing /\ q # <<>> /\ ~destroyed)
    BY <1>2 DEF Flush
<1> QED BY <1>1, <1>2

\* The same for the parts of the invariant it disturbs.
LEMMA FlushStep ==
    ASSUME IInv, queue' \in Seq(Turn), Flush(queue'),
           UNCHANGED <<destroyed, net, log>>, warned \subseteq warned',
           sealed' \in 0..TURNS, QueueIsSuffix',
           ~destroyed => sealed' - Len(queue') = sealed - Len(queue),
           flushing /\ ~destroyed => queue' # <<>> /\ Head(queue') = turn
    PROVE  /\ flushing' \in BOOLEAN /\ pc' \in {"idle", "token", "posting", "sleeping"}
           /\ turn' \in 0..TURNS /\ attempt' \in 0..MAX_ATTEMPTS
           /\ HeadIsOurs' /\ EarlierSettled' /\ RetryLeft'
<1> USE QueueAssumption DEF QueueAssumption
<1>1. /\ flushing \in BOOLEAN /\ destroyed' = destroyed /\ queue \in Seq(Turn)
      /\ pc \in {"idle", "token", "posting", "sleeping"}
      /\ turn \in 0..TURNS /\ attempt \in 0..MAX_ATTEMPTS /\ sealed \in 0..TURNS
    BY DEF IInv, TypeOK
<1>2. Len(queue) \in Nat /\ Len(queue') \in Nat
    BY <1>1
<1>3. \A t : Settled(t) => Settled(t)'
    BY SettledStays
<1>4. \A p \in net' : \A t \in 1..(p.turn - 1) : Settled(t)'
    BY <1>3 DEF IInv, EarlierSettled
<1>5. ~destroyed' => \A t \in 1..(sealed' - Len(queue')) : Settled(t)'
    BY <1>1, <1>3 DEF IInv, EarlierSettled
<1>6. CASE UNCHANGED worker /\ (flushing \/ queue' = <<>> \/ destroyed)
    <2>1. HeadIsOurs'
        BY <1>1, <1>6 DEF IInv, HeadIsOurs, worker
    <2>2. pc' # "idle" => turn' \in Turn /\ \A t \in 1..(turn' - 1) : Settled(t)'
        BY <1>3, <1>6 DEF IInv, EarlierSettled, worker
    <2>3. RetryLeft'
        BY <1>6 DEF IInv, RetryLeft, worker
    <2>4. EarlierSettled'
        BY <1>4, <1>5, <2>2 DEF EarlierSettled
    <2> QED BY <1>1, <1>6, <2>1, <2>3, <2>4 DEF worker
<1>7. CASE /\ ~flushing /\ ~destroyed /\ queue' # <<>>
           /\ flushing' = TRUE /\ pc' = "token" /\ turn' = Head(queue') /\ attempt' = 1
           /\ Head(queue') \in Turn
    <2>1. HeadIsOurs'
        BY <1>7 DEF HeadIsOurs
    <2>2. Head(queue') = queue'[1] /\ Len(queue') > 0
        BY <1>7, TailFacts
    <2>3. queue'[1] = sealed' - Len(queue') + 1
        BY <1>2, <2>2 DEF QueueIsSuffix
    <2>4. turn' - 1 = sealed' - Len(queue')
        BY <1>2, <1>7, <2>2, <2>3
    <2>5. \A t \in 1..(turn' - 1) : Settled(t)'
        BY <1>1, <1>5, <1>7, <2>4
    <2>6. EarlierSettled'
        BY <1>4, <1>5, <1>7, <2>5 DEF EarlierSettled
    <2>7. RetryLeft'
        BY <1>7 DEF RetryLeft
    <2>8. turn' \in 0..TURNS /\ attempt' \in 0..MAX_ATTEMPTS
        BY <1>7 DEF Turn
    <2> QED BY <1>7, <2>1, <2>6, <2>7, <2>8
<1> QED BY <1>6, <1>7, FlushFacts

\* enqueue keeps the invariant.
LEMMA EnqueueStep == ASSUME IInv, Enqueue PROVE IInv'
<1> USE QueueAssumption DEF QueueAssumption
<1>1. /\ queue \in Seq(Turn) /\ sealed \in 0..TURNS /\ Len(queue) \in Nat
      /\ sealed' = sealed + 1 /\ sealed' \in Turn /\ sealed' \in 0..TURNS
    <2>1. queue \in Seq(Turn) /\ sealed \in 0..TURNS
        BY DEF IInv, TypeOK
    <2>2. sealed < TURNS /\ sealed' = sealed + 1
        BY DEF Enqueue
    <2> QED BY <2>1, <2>2 DEF Turn
<1>2. UNCHANGED <<destroyed, timers, page, warned, net, log>>
    BY DEF Enqueue
<1>3. OrderKept'
    BY <1>2 DEF IInv, OrderKept
<1>4. CASE destroyed
    <2>1. UNCHANGED <<queue, worker>>
        BY <1>4 DEF Enqueue
    <2>2. QueueIsSuffix'
        <3>1. queue' = <<>>
            BY <1>4, <2>1 DEF IInv, QueueIsSuffix
        <3>2. Len(queue') = 0
            BY <3>1
        <3> QED BY <1>1, <3>1, <3>2 DEF QueueIsSuffix
    <2>3. \A t : Settled(t) => Settled(t)'
        BY <1>2, SettledStays
    <2>4. EarlierSettled'
        BY <1>2, <1>4, <2>1, <2>3 DEF IInv, EarlierSettled, worker
    <2>5. HeadIsOurs' /\ RetryLeft'
        BY <1>2, <1>4, <2>1 DEF IInv, HeadIsOurs, RetryLeft, worker
    <2>6. TypeOK'
        BY <1>1, <1>2, <2>1 DEF IInv, TypeOK, worker
    <2> QED BY <1>3, <2>2, <2>4, <2>5, <2>6 DEF IInv
<1>5. CASE ~destroyed
    <2>1. queue' = Append(queue, sealed') /\ Flush(queue')
        BY <1>5 DEF Enqueue
    <2>2. /\ queue' \in Seq(Turn) /\ Len(queue') = Len(queue) + 1
          /\ queue'[Len(queue) + 1] = sealed'
          /\ \A i \in 1..Len(queue) : queue'[i] = queue[i]
          /\ queue' # <<>>
        BY <1>1, <2>1, AppendFacts
    <2>3. QueueIsSuffix'
        <3>1. Len(queue) <= sealed /\ \A i \in 1..Len(queue) : queue[i] = sealed - Len(queue) + i
            BY DEF IInv, QueueIsSuffix
        <3>2. Len(queue') <= sealed'
            BY <1>1, <2>2, <3>1
        <3>3. ASSUME NEW i \in 1..Len(queue') PROVE queue'[i] = sealed' - Len(queue') + i
            <4>1. CASE i \in 1..Len(queue)
                BY <1>1, <2>2, <3>1, <4>1
            <4>2. CASE i = Len(queue) + 1
                BY <1>1, <2>2, <4>2
            <4> QED BY <1>1, <2>2, <4>1, <4>2
        <3> QED BY <1>2, <1>5, <3>2, <3>3 DEF QueueIsSuffix
    <2>4. sealed' - Len(queue') = sealed - Len(queue)
        BY <1>1, <2>2
    <2>5. flushing /\ ~destroyed => queue' # <<>> /\ Head(queue') = turn
        <3>1. SUFFICES ASSUME flushing PROVE Head(queue') = turn
            BY <2>2
        <3>2. queue # <<>> /\ Head(queue) = turn
            BY <1>5, <3>1 DEF IInv, HeadIsOurs
        <3>3. Head(queue) = queue[1] /\ Len(queue) > 0
            BY <1>1, <3>2, TailFacts
        <3>4. Head(queue') = queue'[1]
            BY <2>2, TailFacts
        <3> QED BY <1>1, <2>2, <3>2, <3>3, <3>4
    <2>6. /\ flushing' \in BOOLEAN /\ pc' \in {"idle", "token", "posting", "sleeping"}
          /\ turn' \in 0..TURNS /\ attempt' \in 0..MAX_ATTEMPTS
          /\ HeadIsOurs' /\ EarlierSettled' /\ RetryLeft'
        BY <1>1, <1>2, <2>1, <2>2, <2>3, <2>4, <2>5, FlushStep
    <2>7. TypeOK'
        BY <1>1, <1>2, <2>2, <2>6 DEF IInv, TypeOK
    <2> QED BY <1>3, <2>3, <2>6, <2>7 DEF IInv
<1> QED BY <1>4, <1>5

\* A timer keeps the invariant.
LEMMA TimerStep == ASSUME IInv, TimerFires PROVE IInv'
<1>1. Flush(queue) /\ UNCHANGED <<queue, destroyed, sealed, page, warned, net, log>>
    BY DEF TimerFires
<1>2. queue' \in Seq(Turn) /\ sealed' \in 0..TURNS /\ Flush(queue')
    BY <1>1 DEF IInv, TypeOK, Flush
<1>3. OrderKept' /\ QueueIsSuffix'
    BY <1>1 DEF IInv, OrderKept, QueueIsSuffix
<1>4. sealed' - Len(queue') = sealed - Len(queue)
    BY <1>1
<1>5. flushing /\ ~destroyed => queue' # <<>> /\ Head(queue') = turn
    BY <1>1 DEF IInv, HeadIsOurs
<1>6. /\ flushing' \in BOOLEAN /\ pc' \in {"idle", "token", "posting", "sleeping"}
      /\ turn' \in 0..TURNS /\ attempt' \in 0..MAX_ATTEMPTS
      /\ HeadIsOurs' /\ EarlierSettled' /\ RetryLeft'
    BY <1>1, <1>2, <1>3, <1>4, <1>5, FlushStep
<1>7. timers' \in Nat
    BY DEF TimerFires, IInv, TypeOK
<1>8. TypeOK'
    BY <1>1, <1>2, <1>6, <1>7 DEF IInv, TypeOK
<1> QED BY <1>3, <1>6, <1>8 DEF IInv

\* The end of flush() keeps the invariant when its turn is stored or the user
\* is warned about it.
LEMMA SettleStep ==
    ASSUME IInv, NEW posted \in BOOLEAN, pc # "idle", posted => Stored(turn),
           Settle(posted), UNCHANGED <<destroyed, sealed, page, net, log>>
    PROVE  IInv'
<1> USE QueueAssumption DEF QueueAssumption
<1>1. /\ queue \in Seq(Turn) /\ sealed \in 0..TURNS /\ Len(queue) \in Nat
      /\ turn \in Turn /\ timers \in Nat /\ warned \subseteq Turn
    BY DEF IInv, TypeOK, EarlierSettled
<1>2. /\ queue' = IF queue = <<>> THEN <<>> ELSE Tail(queue)
      /\ warned' = IF posted THEN warned ELSE warned \cup {turn}
      /\ flushing' = FALSE /\ pc' = "idle"
      /\ timers' = IF queue' # <<>> /\ ~destroyed THEN timers + 1 ELSE timers
      /\ UNCHANGED <<turn, attempt>>
    BY DEF Settle
<1>3. \A t : Settled(t) => Settled(t)'
    BY <1>2, SettledStays
<1>4. \A t : t = turn => Settled(t)'
    <2>1. CASE posted
        BY <1>3, <2>1 DEF Settled
    <2>2. CASE ~posted
        BY <1>2, <2>2 DEF Settled
    <2> QED BY <2>1, <2>2
<1>10. warned' \subseteq Turn /\ timers' \in Nat
    <2>1. warned' = warned \/ warned' = warned \cup {turn}
        BY <1>2
    <2>2. timers' = timers \/ timers' = timers + 1
        BY <1>2
    <2> QED BY <1>1, <2>1, <2>2
<1>5. OrderKept'
    BY <1>2 DEF IInv, OrderKept
<1>6. HeadIsOurs' /\ RetryLeft'
    BY <1>2 DEF HeadIsOurs, RetryLeft
<1>7. \A p \in net' : \A t \in 1..(p.turn - 1) : Settled(t)'
    BY <1>3 DEF IInv, EarlierSettled
<1>8. CASE queue = <<>>
    <2>1. queue' = queue
        BY <1>2, <1>8
    <2>2. QueueIsSuffix'
        BY <2>1 DEF IInv, QueueIsSuffix
    <2>3. EarlierSettled'
        BY <1>2, <1>3, <1>7, <2>1 DEF IInv, EarlierSettled
    <2>4. TypeOK'
        BY <1>2, <1>10, <2>1 DEF IInv, TypeOK
    <2> QED BY <1>5, <1>6, <2>2, <2>3, <2>4 DEF IInv
<1>9. CASE queue # <<>>
    <2>1. /\ Head(queue) = queue[1] /\ Len(queue) > 0
          /\ queue' \in Seq(Turn) /\ Len(queue') = Len(queue) - 1
          /\ \A i \in 1..Len(queue') : queue'[i] = queue[i + 1]
        BY <1>1, <1>2, <1>9, TailFacts
    <2>2. ~destroyed
        BY <1>9 DEF IInv, QueueIsSuffix
    <2>3. Head(queue) = turn
        BY <2>2 DEF IInv, HeadIsOurs
    <2>4. Len(queue) <= sealed /\ \A i \in 1..Len(queue) : queue[i] = sealed - Len(queue) + i
        BY DEF IInv, QueueIsSuffix
    <2>5. QueueIsSuffix'
        <3>1. Len(queue') <= sealed'
            BY <1>1, <2>1, <2>4
        <3>2. ASSUME NEW i \in 1..Len(queue') PROVE queue'[i] = sealed' - Len(queue') + i
            <4>1. i + 1 \in 1..Len(queue) /\ queue'[i] = queue[i + 1]
                BY <1>1, <2>1
            <4> QED BY <1>1, <2>1, <2>4, <4>1
        <3> QED BY <2>2, <3>1, <3>2 DEF QueueIsSuffix
    <2>6. turn = sealed - Len(queue) + 1
        BY <1>1, <2>1, <2>3, <2>4
    <2>7. \A t \in 1..(sealed' - Len(queue')) : Settled(t)'
        <3>1. SUFFICES ASSUME NEW t \in 1..(sealed - Len(queue) + 1) PROVE Settled(t)'
            BY <1>1, <2>1
        <3>2. CASE t = turn
            BY <1>4, <3>2
        <3>3. CASE t \in 1..(sealed - Len(queue))
            BY <1>3, <2>2, <3>3 DEF IInv, EarlierSettled
        <3> QED BY <1>1, <2>6, <3>2, <3>3
    <2>8. EarlierSettled'
        BY <1>2, <1>7, <2>7 DEF EarlierSettled
    <2>9. TypeOK'
        BY <1>2, <1>10, <2>1 DEF IInv, TypeOK
    <2> QED BY <1>5, <1>6, <2>5, <2>8, <2>9 DEF IInv
<1> QED BY <1>8, <1>9

-----------------------------------------------------------------------------
\* A step of the worker keeps the invariant.
LEMMA WorkerStepKeeps == ASSUME IInv, WorkerStep PROVE IInv'
<1> USE QueueAssumption DEF QueueAssumption
<1>1. CASE Send
    <2>1. /\ pc = "token" /\ net' = net \cup {Current} /\ pc' = "posting"
          /\ UNCHANGED <<queue, flushing, turn, attempt, destroyed, timers, sealed, page, warned, log>>
        BY <1>1 DEF Send
    <2>2. Current \in Post /\ Current.turn = turn
        BY <2>1 DEF IInv, TypeOK, EarlierSettled, Current, Post
    <2>3. TypeOK'
        BY <2>1, <2>2 DEF IInv, TypeOK
    <2>4. HeadIsOurs' /\ QueueIsSuffix' /\ OrderKept' /\ RetryLeft'
        BY <2>1 DEF IInv, HeadIsOurs, QueueIsSuffix, OrderKept, RetryLeft
    <2>5. \A t : Settled(t) => Settled(t)'
        BY <2>1, SettledStays
    <2>6. \A t \in 1..(turn - 1) : Settled(t)'
        BY <2>1, <2>5 DEF IInv, EarlierSettled
    <2>7. EarlierSettled'
        BY <2>1, <2>2, <2>5, <2>6 DEF IInv, EarlierSettled
    <2> QED BY <2>3, <2>4, <2>7 DEF IInv
<1>2. CASE NoToken
    BY <1>2, SettleStep DEF NoToken
<1>3. CASE Confirmed
    <2>1. PICK i \in DOMAIN log : log[i].post = Current
        BY <1>3 DEF Confirmed, Inserted
    <2>2. Stored(turn)
        BY <2>1 DEF Stored, Copies, Current
    <2> QED BY <1>3, <2>2, SettleStep DEF Confirmed
<1>4. CASE Refused
    BY <1>4, SettleStep DEF Refused
<1>5. CASE Failed /\ attempt < MAX_ATTEMPTS
    <2>1. /\ pc # "idle" /\ pc' = "sleeping"
          /\ UNCHANGED <<queue, flushing, turn, attempt, timers, warned, destroyed, sealed, page, net, log>>
        BY <1>5 DEF Failed
    <2>2. \A t : Settled(t) => Settled(t)'
        BY <2>1, SettledStays
    <2>3. TypeOK'
        BY <2>1 DEF IInv, TypeOK
    <2>4. HeadIsOurs' /\ QueueIsSuffix' /\ OrderKept' /\ RetryLeft'
        BY <1>5, <2>1 DEF IInv, HeadIsOurs, QueueIsSuffix, OrderKept, RetryLeft
    <2>5. EarlierSettled'
        BY <2>1, <2>2 DEF IInv, EarlierSettled
    <2> QED BY <2>3, <2>4, <2>5 DEF IInv
<1>6. CASE Failed /\ ~(attempt < MAX_ATTEMPTS)
    BY <1>6, SettleStep DEF Failed
<1>7. CASE Wake
    <2>1. /\ pc = "sleeping" /\ pc' = "token" /\ attempt' = attempt + 1
          /\ UNCHANGED <<queue, flushing, turn, destroyed, timers, sealed, page, warned, net, log>>
        BY <1>7 DEF Wake
    <2>2. \A t : Settled(t) => Settled(t)'
        BY <2>1, SettledStays
    <2>3. attempt' \in 0..MAX_ATTEMPTS
        BY <2>1 DEF IInv, TypeOK, RetryLeft
    <2>4. TypeOK'
        BY <2>1, <2>3 DEF IInv, TypeOK
    <2>5. HeadIsOurs' /\ QueueIsSuffix' /\ OrderKept' /\ RetryLeft'
        BY <2>1 DEF IInv, HeadIsOurs, QueueIsSuffix, OrderKept, RetryLeft
    <2>6. EarlierSettled'
        BY <2>1, <2>2 DEF IInv, EarlierSettled
    <2> QED BY <2>4, <2>5, <2>6 DEF IInv
<1> QED BY <1>1, <1>2, <1>3, <1>4, <1>5, <1>6, <1>7 DEF WorkerStep

\* Stopping the queue keeps the invariant.
LEMMA DestroyStep == ASSUME IInv, DrainAndDestroy PROVE IInv'
<1> USE QueueAssumption DEF QueueAssumption
<1>1. destroyed' = TRUE /\ queue' = <<>> /\ UNCHANGED <<worker, timers, sealed, page, warned, net, log>>
    BY DEF DrainAndDestroy
<1>2. Len(queue') = 0 /\ queue' \in Seq(Turn)
    BY <1>1
<1>3. \A t : Settled(t) => Settled(t)'
    BY <1>1, SettledStays
<1>4. TypeOK'
    BY <1>1, <1>2 DEF IInv, TypeOK, worker
<1>5. QueueIsSuffix'
    <2>1. 0 <= sealed'
        BY <1>1 DEF IInv, TypeOK
    <2> QED BY <1>1, <1>2, <2>1 DEF QueueIsSuffix
<1>6. HeadIsOurs' /\ OrderKept' /\ RetryLeft'
    BY <1>1 DEF IInv, HeadIsOurs, OrderKept, RetryLeft, worker
<1>7. EarlierSettled'
    BY <1>1, <1>3 DEF IInv, EarlierSettled, worker
<1> QED BY <1>4, <1>5, <1>6, <1>7 DEF IInv

\* Leaving the page keeps the invariant: the copy it sends is of the first turn
\* that is not settled.
LEMMA LeaveStep == ASSUME IInv, Leave PROVE IInv'
<1> USE QueueAssumption DEF QueueAssumption
<1>1. UNCHANGED <<queue, worker, destroyed, timers, sealed, warned, log>> /\ page' = FALSE
    BY DEF Leave
<1>2. \A t : Settled(t) => Settled(t)'
    BY <1>1, SettledStays
<1>3. \A p \in net' : p \in Post /\ \A t \in 1..(p.turn - 1) : Settled(t)
    <2>1. \A p \in net : p \in Post /\ \A t \in 1..(p.turn - 1) : Settled(t)
        BY DEF IInv, TypeOK, EarlierSettled
    <2>2. ASSUME queue # <<>>
          PROVE  /\ [turn |-> Head(queue), attempt |-> 0] \in Post
                 /\ \A t \in 1..(Head(queue) - 1) : Settled(t)
        <3>1. queue \in Seq(Turn) /\ sealed \in 0..TURNS /\ ~destroyed
            BY <2>2 DEF IInv, TypeOK, QueueIsSuffix
        <3>2. Head(queue) = queue[1] /\ Head(queue) \in Turn /\ Len(queue) \in Nat /\ Len(queue) > 0
            BY <2>2, <3>1, TailFacts
        <3>3. queue[1] = sealed - Len(queue) + 1
            BY <3>2 DEF IInv, QueueIsSuffix
        <3>4. Head(queue) - 1 = sealed - Len(queue)
            BY <3>1, <3>2, <3>3
        <3>5. \A t \in 1..(Head(queue) - 1) : Settled(t)
            BY <3>1, <3>4 DEF IInv, EarlierSettled
        <3> QED BY <3>2, <3>5 DEF Post
    <2>3. \A p \in net' : p \in net \/ (queue # <<>> /\ p = [turn |-> Head(queue), attempt |-> 0])
        <3>1. PICK connected \in BOOLEAN :
                net' = IF connected /\ queue # <<>>
                       THEN net \cup {[turn |-> Head(queue), attempt |-> 0]} ELSE net
            BY DEF Leave
        <3>2. CASE connected /\ queue # <<>>
            BY <3>1, <3>2
        <3>3. CASE ~(connected /\ queue # <<>>)
            BY <3>1, <3>3
        <3> QED BY <3>2, <3>3
    <2> QED BY <2>1, <2>2, <2>3
<1>4. TypeOK'
    BY <1>1, <1>3 DEF IInv, TypeOK, worker
<1>5. HeadIsOurs' /\ QueueIsSuffix' /\ OrderKept' /\ RetryLeft'
    BY <1>1 DEF IInv, HeadIsOurs, QueueIsSuffix, OrderKept, RetryLeft, worker
<1>6. EarlierSettled'
    BY <1>1, <1>2, <1>3 DEF IInv, EarlierSettled, worker
<1> QED BY <1>4, <1>5, <1>6 DEF IInv

\* A POST the server stores keeps the invariant, however late it comes.
LEMMA ReceiveStep == ASSUME IInv, Receive PROVE IInv'
<1> USE QueueAssumption DEF QueueAssumption
<1> DEFINE Row == [post : Post, content : Seq(Turn)]
<1>1. PICK p \in net :
        /\ net' = net \ {p}
        /\ log' = Append(log, [post |-> p, content |-> Field(Body(p.turn), "content", <<>>)])
        /\ UNCHANGED client
    BY DEF Receive
<1> DEFINE r == [post |-> p, content |-> Field(Body(p.turn), "content", <<>>)]
<1>2. p \in Post /\ \A t \in 1..(p.turn - 1) : Settled(t)
    BY DEF IInv, TypeOK, EarlierSettled
<1>3. r \in Row
    <2>1. "content" \notin DOMAIN Body(p.turn)
        BY DEF Body
    <2>2. Field(Body(p.turn), "content", <<>>) = <<>>
        BY <2>1 DEF Field
    <2>3. <<>> \in Seq(Turn)
        OBVIOUS
    <2> QED BY <1>2, <2>2, <2>3
<1>4. /\ log \in Seq(Row) /\ log' \in Seq(Row) /\ Len(log') = Len(log) + 1
      /\ log'[Len(log) + 1] = r /\ \A i \in 1..Len(log) : log'[i] = log[i]
    <2>1. log \in Seq(Row)
        BY DEF IInv, TypeOK
    <2>2. log' = Append(log, r)
        BY <1>1
    <2> HIDE DEF r, Row
    <2> QED BY <1>3, <2>1, <2>2, AppendFacts
<1>5. /\ Len(log) \in Nat /\ DOMAIN log = 1..Len(log) /\ DOMAIN log' = 1..(Len(log) + 1)
    <2> HIDE DEF Row
    <2> QED BY <1>4
<1>6. r.post = p
    OBVIOUS
<1>7. /\ queue' = queue /\ destroyed' = destroyed /\ sealed' = sealed /\ warned' = warned
      /\ flushing' = flushing /\ pc' = pc /\ turn' = turn /\ attempt' = attempt
      /\ timers' = timers /\ page' = page
    BY <1>1 DEF client, worker
<1> HIDE DEF r
<1>8. \A t : Settled(t) => Settled(t)'
    <2>1. ASSUME NEW t, Stored(t) PROVE Stored(t)'
        <3>1. PICK i \in 1..Len(log) : log[i].post.turn = t
            BY <1>5, <2>1 DEF Stored, Copies
        <3>2. i \in DOMAIN log' /\ log'[i].post.turn = t
            BY <1>4, <1>5, <3>1
        <3> QED BY <3>2 DEF Stored, Copies
    <2> QED BY <1>7, <2>1 DEF Settled
<1>9. TypeOK'
    <2>1. log' \in Seq([post : Post, content : Seq(Turn)])
        BY <1>4
    <2> HIDE DEF Row
    <2> QED BY <1>1, <1>7, <2>1 DEF IInv, TypeOK
<1>10. HeadIsOurs' /\ QueueIsSuffix' /\ RetryLeft'
    BY <1>7 DEF IInv, HeadIsOurs, QueueIsSuffix, RetryLeft
<1>11. EarlierSettled'
    BY <1>1, <1>7, <1>8 DEF IInv, EarlierSettled
<1>12. OrderKept'
    <2>1. SUFFICES ASSUME NEW i \in 1..(Len(log) + 1), NEW t \in 1..(log'[i].post.turn - 1)
                   PROVE  t \in warned \/ \E k \in 1..(i - 1) : log'[k].post.turn = t
        BY <1>5, <1>7 DEF OrderKept
    <2>2. CASE i \in 1..Len(log)
        <3>1. t \in warned \/ \E k \in 1..(i - 1) : log[k].post.turn = t
            BY <1>4, <1>5, <2>2 DEF IInv, OrderKept
        <3>2. \A k \in 1..(i - 1) : log'[k] = log[k]
            BY <1>4, <1>5, <2>2
        <3> QED BY <3>1, <3>2
    <2>3. CASE i = Len(log) + 1
        <3>1. Settled(t)
            BY <1>2, <1>4, <1>6, <2>3
        <3>2. t \in warned \/ \E k \in 1..Len(log) : log[k].post.turn = t
            BY <1>5, <3>1 DEF Settled, Stored, Copies
        <3>3. i - 1 = Len(log)
            BY <1>5, <2>3
        <3> QED BY <1>4, <3>2, <3>3
    <2> QED BY <1>5, <2>2, <2>3
<1> QED BY <1>9, <1>10, <1>11, <1>12 DEF IInv

\* So does one it refuses.
LEMMA RejectStep == ASSUME IInv, Reject PROVE IInv'
<1>1. net' \subseteq net /\ UNCHANGED <<client, log>>
    BY DEF Reject
<1>2. \A t : Settled(t) => Settled(t)'
    BY <1>1, SettledStays DEF client
<1>3. TypeOK'
    BY <1>1 DEF IInv, TypeOK, client, worker
<1>4. HeadIsOurs' /\ QueueIsSuffix' /\ OrderKept' /\ RetryLeft'
    BY <1>1 DEF IInv, HeadIsOurs, QueueIsSuffix, OrderKept, RetryLeft, client, worker
<1>5. EarlierSettled'
    BY <1>1, <1>2 DEF IInv, EarlierSettled, client, worker
<1> QED BY <1>3, <1>4, <1>5 DEF IInv

-----------------------------------------------------------------------------
\* The invariant holds initially.
LEMMA InitIInv == Init => IInv
<1> SUFFICES ASSUME Init PROVE IInv
    OBVIOUS
<1> USE QueueAssumption DEF QueueAssumption
<1>1. queue = <<>> /\ log = <<>> /\ net = {} /\ pc = "idle" /\ sealed = 0 /\ destroyed = FALSE
    BY DEF Init
<1>2. Len(queue) = 0 /\ DOMAIN log = {}
    BY <1>1
<1>3. queue \in Seq(Turn) /\ log \in Seq([post : Post, content : Seq(Turn)])
    BY <1>1
<1>4. TypeOK
    <2>1. /\ {flushing, destroyed, page} \subseteq BOOLEAN /\ timers \in Nat
          /\ pc \in {"idle", "token", "posting", "sleeping"}
        BY DEF Init
    <2>2. /\ turn \in 0..TURNS /\ attempt \in 0..MAX_ATTEMPTS /\ sealed \in 0..TURNS
          /\ warned \subseteq Turn /\ net \subseteq Post
        BY DEF Init
    <2> QED BY <1>3, <2>1, <2>2 DEF TypeOK
<1>5. HeadIsOurs /\ OrderKept /\ RetryLeft
    BY <1>1, <1>2 DEF Init, HeadIsOurs, OrderKept, RetryLeft
<1>6. QueueIsSuffix /\ EarlierSettled
    BY <1>1, <1>2 DEF QueueIsSuffix, EarlierSettled
<1> QED BY <1>4, <1>5, <1>6 DEF IInv

\* Every step, or none, keeps it.
LEMMA NextIInv == IInv /\ [Next]_vars => IInv'
<1> SUFFICES ASSUME IInv, [Next]_vars PROVE IInv'
    OBVIOUS
<1>1. CASE UNCHANGED vars
    <2>1. UNCHANGED <<client, net, log>>
        BY <1>1 DEF vars
    <2>2. \A t : Settled(t) => Settled(t)'
        BY <2>1, SettledStays DEF client
    <2>3. TypeOK'
        BY <2>1 DEF IInv, TypeOK, client, worker
    <2>4. HeadIsOurs' /\ QueueIsSuffix' /\ OrderKept' /\ RetryLeft'
        BY <2>1 DEF IInv, HeadIsOurs, QueueIsSuffix, OrderKept, RetryLeft, client, worker
    <2>5. EarlierSettled'
        BY <2>1, <2>2 DEF IInv, EarlierSettled, client, worker
    <2> QED BY <2>3, <2>4, <2>5 DEF IInv
<1> QED BY <1>1, EnqueueStep, TimerStep, WorkerStepKeeps, DestroyStep, LeaveStep,
          ReceiveStep, RejectStep DEF Next

\* The inductive invariant holds in every reachable state of the queue.
THEOREM Inductive == Spec => []IInv
<1> QED BY InitIInv, NextIInv, PTL DEF Spec

\* Every reachable state of the queue, its worker and the server is well typed.
THEOREM TypeCorrect == Spec => []TypeOK
<1>1. IInv => TypeOK
    BY DEF IInv
<1> QED BY <1>1, Inductive, PTL

\* The turn flush() removes after its await is the one it has posted.
THEOREM RemovesItsOwn == Spec => []HeadIsOurs
<1>1. IInv => HeadIsOurs
    BY DEF IInv
<1> QED BY <1>1, Inductive, PTL

\* Turns are stored in the order in which they were sealed, whatever late and
\* repeated POSTs the server works on, for any number of attempts.
THEOREM StoredInOrder == Spec => []OrderKept
<1>1. IInv => OrderKept
    BY DEF IInv
<1> QED BY <1>1, Inductive, PTL

\* A turn of a queue that lives is waiting, stored or warned about.
THEOREM NoneLost == Spec => []NoneLostSilently
<1>1. ASSUME IInv PROVE NoneLostSilently
    <2>1. SUFFICES ASSUME ~destroyed, NEW t \in 1..sealed, ~Settled(t)
                   PROVE  \E i \in DOMAIN queue : queue[i] = t
        BY DEF NoneLostSilently, Settled
    <2>2. queue \in Seq(Turn) /\ sealed \in 0..TURNS /\ QueueIsSuffix
        BY <1>1 DEF IInv, TypeOK
    <2>3. Len(queue) \in Nat /\ DOMAIN queue = 1..Len(queue)
        BY <2>2
    <2>4. t \notin 1..(sealed - Len(queue))
        BY <1>1, <2>1 DEF IInv, EarlierSettled
    <2> DEFINE i == t - (sealed - Len(queue))
    <2>5. i \in 1..Len(queue) /\ sealed - Len(queue) + i = t
        BY <2>2, <2>3, <2>4 DEF QueueIsSuffix
    <2>6. queue[i] = sealed - Len(queue) + i
        BY <2>2, <2>5 DEF QueueIsSuffix
    <2> QED BY <2>3, <2>5, <2>6
<1> QED BY <1>1, Inductive, PTL

-----------------------------------------------------------------------------
(* The queue implements Transcript.                                        *)

\* A POST that is on its way, or was stored.
Sent(p) == p \in net \/ Inserted(p)

\* POSTs are sent in the order of their turns and attempts, each once: only the
\* copy sent as the page goes away is outside that order, and it is the last.
SentBefore ==
    /\ \A p \in net : ~Inserted(p)
    /\ pc # "idle" => turn <= sealed /\ attempt > 0
    /\ \A p \in Post : Sent(p) =>
        /\ p.turn <= sealed /\ p.turn <= sealed - Len(queue) + 1
        /\ page => p.attempt > 0
        /\ page /\ pc = "idle" /\ ~destroyed => p.turn <= sealed - Len(queue)
        /\ page /\ pc # "idle" => \/ p.turn < turn
                                  \/ p.turn = turn /\ p.attempt < attempt
                                  \/ p.turn = turn /\ p.attempt = attempt /\ pc # "token"

SendInv == IInv /\ SentBefore

\* The bounds the arithmetic below needs.
LEMMA Bounds ==
    ASSUME IInv
    PROVE  /\ sealed \in Nat /\ Len(queue) \in Nat /\ turn \in Nat /\ attempt \in Nat
           /\ queue \in Seq(Turn) /\ net \subseteq Post
           /\ \A p \in Post : p.turn \in Nat /\ p.attempt \in Nat
           /\ Current.turn = turn /\ Current.attempt = attempt
           /\ pc # "idle" => Current \in Post
           /\ queue # <<>> => /\ Head(queue) = sealed - Len(queue) + 1 /\ Len(queue) > 0
                              /\ Head(queue) \in Turn /\ ~destroyed
<1>1. /\ queue \in Seq(Turn) /\ sealed \in 0..TURNS /\ turn \in 0..TURNS
      /\ attempt \in 0..MAX_ATTEMPTS /\ net \subseteq Post
    BY DEF IInv, TypeOK
<1>2. \A p \in Post : p.turn \in Nat /\ p.attempt \in Nat
    BY QueueAssumption DEF QueueAssumption, Post, Turn
<1>3. pc # "idle" => Current \in Post
    BY <1>1 DEF IInv, EarlierSettled, Current, Post
<1>4. ASSUME queue # <<>>
      PROVE  /\ Head(queue) = sealed - Len(queue) + 1 /\ Len(queue) > 0
             /\ Head(queue) \in Turn /\ ~destroyed
    <2>1. Head(queue) = queue[1] /\ Len(queue) > 0 /\ Head(queue) \in Turn
        BY <1>1, <1>4, TailFacts
    <2>2. queue[1] = sealed - Len(queue) + 1
        BY <1>1, <2>1 DEF IInv, QueueIsSuffix
    <2> QED BY <1>4, <2>1, <2>2 DEF IInv, QueueIsSuffix
<1> QED BY <1>1, <1>2, <1>3, <1>4, QueueAssumption DEF QueueAssumption, Current

\* What has been sent is the same while network and log are.
LEMMA SentSame ==
    ASSUME UNCHANGED <<net, log>>
    PROVE  \A p : (Sent(p)' <=> Sent(p)) /\ (Inserted(p)' <=> Inserted(p))
BY DEF Sent, Inserted

\* flush() begins with a turn nothing has been sent of.
LEMMA FlushSends ==
    ASSUME SendInv, IInv', page, Flush(queue'), UNCHANGED <<destroyed, page, net, log>>,
           sealed' >= sealed, sealed' - Len(queue') >= sealed - Len(queue)
    PROVE  SentBefore'
<1> DEFINE m == sealed - Len(queue)
<1>1. /\ sealed \in Nat /\ Len(queue) \in Nat /\ turn \in Nat /\ attempt \in Nat
      /\ \A p \in Post : p.turn \in Nat /\ p.attempt \in Nat
    BY Bounds DEF SendInv
<1>2. /\ sealed' \in Nat /\ Len(queue') \in Nat
      /\ queue' # <<>> => Head(queue') = sealed' - Len(queue') + 1 /\ Len(queue') > 0
    <2>1. queue' \in Seq(Turn) /\ sealed' \in 0..TURNS /\ QueueIsSuffix'
        BY DEF IInv, TypeOK
    <2>2. Len(queue') \in Nat /\ sealed' \in Nat
        BY <2>1, QueueAssumption DEF QueueAssumption
    <2>3. ASSUME queue' # <<>> PROVE Head(queue') = queue'[1] /\ Len(queue') > 0
        BY <2>1, <2>3, TailFacts
    <2> QED BY <2>1, <2>2, <2>3 DEF QueueIsSuffix
<1>3. \A p : (Sent(p)' <=> Sent(p)) /\ (Inserted(p)' <=> Inserted(p))
    BY SentSame
<1>4. \A p \in net' : ~Inserted(p)'
    BY <1>3 DEF SendInv, SentBefore
<1>5. \A p \in Post : Sent(p)' => /\ p.turn <= sealed' /\ p.turn <= sealed' - Len(queue') + 1
                                  /\ p.attempt > 0
    BY <1>1, <1>2, <1>3 DEF SendInv, SentBefore
<1>6. CASE UNCHANGED worker
    BY <1>1, <1>2, <1>3, <1>4, <1>5, <1>6 DEF worker, SendInv, SentBefore
<1>7. CASE ~UNCHANGED worker
    <2>1. /\ pc = "idle" /\ ~destroyed /\ queue' # <<>>
          /\ pc' = "token" /\ turn' = Head(queue') /\ attempt' = 1
        BY <1>7 DEF Flush, SendInv, IInv, HeadIsOurs
    <2>2. turn' = sealed' - Len(queue') + 1 /\ turn' <= sealed' /\ attempt' > 0
        BY <1>2, <2>1
    <2>3. \A p \in Post : Sent(p)' => p.turn < turn'
        BY <1>1, <1>2, <1>3, <2>1, <2>2 DEF SendInv, SentBefore
    <2> QED BY <1>4, <1>5, <2>1, <2>2, <2>3 DEF SentBefore
<1> QED BY <1>6, <1>7

\* The end of flush() moves the queue past its turn.
LEMMA SettleSends ==
    ASSUME SendInv, NEW posted \in BOOLEAN, pc # "idle", Settle(posted),
           UNCHANGED <<destroyed, sealed, page, net, log>>
    PROVE  SentBefore'
<1>1. /\ sealed \in Nat /\ Len(queue) \in Nat /\ turn \in Nat
      /\ \A p \in Post : p.turn \in Nat /\ p.attempt \in Nat
    BY Bounds DEF SendInv
<1>2. \A p : (Sent(p)' <=> Sent(p)) /\ (Inserted(p)' <=> Inserted(p))
    BY SentSame
<1>3. /\ pc' = "idle" /\ Len(queue') \in Nat /\ Len(queue') <= Len(queue)
      /\ ~destroyed => Len(queue') = Len(queue) - 1 /\ turn = sealed - Len(queue) + 1
    <2>1. CASE queue = <<>>
        BY <1>1, <2>1 DEF Settle, SendInv, IInv, HeadIsOurs
    <2>2. CASE queue # <<>>
        <3>1. queue \in Seq(Turn) /\ Head(queue) = sealed - Len(queue) + 1 /\ ~destroyed
            BY <2>2, Bounds DEF SendInv
        <3>2. Head(queue) = turn
            BY <3>1 DEF SendInv, IInv, HeadIsOurs
        <3>3. queue' = Tail(queue) /\ Len(Tail(queue)) = Len(queue) - 1 /\ Len(queue) > 0
            BY <2>2, <3>1, TailFacts DEF Settle
        <3> QED BY <1>1, <3>1, <3>2, <3>3 DEF Settle
    <2> QED BY <2>1, <2>2
<1>4. \A p \in net' : ~Inserted(p)'
    BY <1>2 DEF SendInv, SentBefore
<1>5. ASSUME NEW p \in Post, Sent(p)'
      PROVE  /\ p.turn <= sealed' /\ p.turn <= sealed' - Len(queue') + 1
             /\ page' => p.attempt > 0
             /\ page' /\ ~destroyed' => p.turn <= sealed' - Len(queue')
    <2>1. Sent(p)
        BY <1>2, <1>5
    <2>2. p.turn <= sealed /\ p.turn <= sealed - Len(queue) + 1 /\ (page => p.attempt > 0)
        BY <2>1 DEF SendInv, SentBefore
    <2>3. page => p.turn <= turn
        BY <1>1, <2>1 DEF SendInv, SentBefore
    <2> QED BY <1>1, <1>3, <2>2, <2>3
<1> QED BY <1>3, <1>4, <1>5 DEF SentBefore

\* A step of the worker sends at most its next attempt.
LEMMA WorkerSends == ASSUME SendInv, WorkerStep PROVE SentBefore'
<1>1. /\ sealed \in Nat /\ Len(queue) \in Nat /\ turn \in Nat /\ attempt \in Nat
      /\ \A p \in Post : p.turn \in Nat /\ p.attempt \in Nat
      /\ Current.turn = turn /\ Current.attempt = attempt
    BY Bounds DEF SendInv
<1>2. CASE Send
    <2>1. /\ page /\ pc = "token" /\ pc' = "posting" /\ net' = net \cup {Current}
          /\ UNCHANGED <<queue, turn, attempt, destroyed, sealed, page, log>>
        BY <1>2 DEF Send
    <2>2. Current \in Post /\ turn <= sealed /\ attempt > 0
        BY <2>1, Bounds DEF SendInv, SentBefore
    <2>3. ~Sent(Current)
        <3>1. ASSUME Sent(Current) PROVE FALSE
            <4>1. turn < turn \/ attempt < attempt
                BY <1>1, <2>1, <2>2, <3>1 DEF SendInv, SentBefore
            <4> QED BY <1>1, <4>1
        <3> QED BY <3>1
    <2>4. \A p : /\ Inserted(p)' <=> Inserted(p)
                 /\ Sent(p)' <=> Sent(p) \/ p = Current
        BY <2>1 DEF Sent, Inserted
    <2>5. \A p \in net' : ~Inserted(p)'
        BY <2>1, <2>3, <2>4 DEF Sent, SendInv, SentBefore
    <2>6. turn <= sealed - Len(queue) + 1
        <3>1. CASE destroyed
            <4>1. Len(queue) = 0
                BY <3>1 DEF SendInv, IInv, QueueIsSuffix
            <4> QED BY <1>1, <2>2, <4>1
        <3>2. CASE ~destroyed
            <4>1. queue # <<>> /\ Head(queue) = turn
                BY <2>1, <3>2 DEF SendInv, IInv, HeadIsOurs
            <4>2. turn = sealed - Len(queue) + 1
                BY <4>1, Bounds DEF SendInv
            <4> QED BY <1>1, <4>2
        <3> QED BY <3>1, <3>2
    <2>7. ASSUME NEW p \in Post, Sent(p)'
          PROVE  /\ p.turn <= sealed' /\ p.turn <= sealed' - Len(queue') + 1
                 /\ p.attempt > 0
                 /\ \/ p.turn < turn
                    \/ p.turn = turn /\ p.attempt < attempt
                    \/ p.turn = turn /\ p.attempt = attempt
        <3>1. CASE p = Current
            BY <1>1, <2>1, <2>2, <2>6, <3>1
        <3>2. CASE Sent(p)
            BY <1>1, <2>1, <3>2 DEF SendInv, SentBefore
        <3> QED BY <2>4, <2>7, <3>1, <3>2
    <2> QED BY <2>1, <2>2, <2>5, <2>7 DEF SentBefore
<1>3. CASE NoToken \/ Confirmed \/ Refused \/ (Failed /\ ~(attempt < MAX_ATTEMPTS))
    BY <1>3, SettleSends DEF NoToken, Confirmed, Refused, Failed
<1>4. CASE Failed /\ attempt < MAX_ATTEMPTS
    <2>1. /\ pc # "idle" /\ pc' = "sleeping"
          /\ UNCHANGED <<queue, turn, attempt, destroyed, sealed, page, net, log>>
        BY <1>4 DEF Failed
    <2> QED BY <2>1, SentSame DEF SendInv, SentBefore
<1>5. CASE Wake
    <2>1. /\ pc = "sleeping" /\ pc' = "token" /\ attempt' = attempt + 1
          /\ UNCHANGED <<queue, turn, destroyed, sealed, page, net, log>>
        BY <1>5 DEF Wake
    <2>2. \A p : (Sent(p)' <=> Sent(p)) /\ (Inserted(p)' <=> Inserted(p))
        BY <2>1, SentSame
    <2>3. ASSUME NEW p \in Post, Sent(p), page
          PROVE  p.turn < turn \/ (p.turn = turn /\ p.attempt < attempt')
        BY <1>1, <2>1, <2>3 DEF SendInv, SentBefore
    <2>4. attempt' > 0
        BY <1>1, <2>1
    <2> QED BY <2>1, <2>2, <2>3, <2>4 DEF SendInv, SentBefore
<1> QED BY <1>2, <1>3, <1>4, <1>5 DEF WorkerStep

\* Every other step keeps the order in which POSTs are sent.
LEMMA OthersSend ==
    ASSUME SendInv, IInv',
           \/ Enqueue \/ TimerFires \/ DrainAndDestroy \/ Leave \/ Receive \/ Reject
           \/ UNCHANGED vars
    PROVE  SentBefore'
<1>1. /\ sealed \in Nat /\ Len(queue) \in Nat /\ turn \in Nat /\ attempt \in Nat
      /\ \A p \in Post : p.turn \in Nat /\ p.attempt \in Nat
    BY Bounds DEF SendInv
<1>2. CASE Enqueue
    <2>1. page /\ sealed' = sealed + 1 /\ UNCHANGED <<destroyed, page, net, log>>
        BY <1>2 DEF Enqueue
    <2>2. CASE destroyed
        <3>1. UNCHANGED <<queue, worker>>
            BY <1>2, <2>2 DEF Enqueue
        <3>2. \A p : (Sent(p)' <=> Sent(p)) /\ (Inserted(p)' <=> Inserted(p))
            BY <2>1, SentSame
        <3> QED BY <1>1, <2>1, <2>2, <3>1, <3>2 DEF worker, SendInv, SentBefore
    <2>3. CASE ~destroyed
        <3>1. queue' = Append(queue, sealed') /\ Flush(queue')
            BY <1>2, <2>3 DEF Enqueue
        <3>2. queue \in Seq(Turn) /\ sealed' \in Turn
            BY <1>1, <1>2, <2>1, Bounds, QueueAssumption DEF QueueAssumption, SendInv, Enqueue, Turn
        <3>3. Len(queue') = Len(queue) + 1
            BY <3>1, <3>2, AppendFacts
        <3>4. sealed' >= sealed /\ sealed' - Len(queue') >= sealed - Len(queue)
            BY <1>1, <2>1, <3>3
        <3> QED BY <2>1, <3>1, <3>4, FlushSends
    <2> QED BY <2>2, <2>3
<1>3. CASE TimerFires
    <2>1. page /\ Flush(queue') /\ UNCHANGED <<queue, sealed, destroyed, page, net, log>>
        BY <1>3 DEF TimerFires, Flush
    <2>2. sealed' >= sealed /\ sealed' - Len(queue') >= sealed - Len(queue)
        BY <1>1, <2>1
    <2> QED BY <2>1, <2>2, FlushSends
<1>4. CASE DrainAndDestroy
    <2>1. /\ destroyed' = TRUE /\ Len(queue') = 0
          /\ UNCHANGED <<worker, sealed, page, net, log>>
        BY <1>4 DEF DrainAndDestroy
    <2>2. \A p : (Sent(p)' <=> Sent(p)) /\ (Inserted(p)' <=> Inserted(p))
        BY <2>1, SentSame
    <2>3. \A p \in Post : Sent(p) => p.turn <= sealed - 0 + 1
        BY <1>1 DEF SendInv, SentBefore
    <2> QED BY <2>1, <2>2, <2>3 DEF worker, SendInv, SentBefore
<1>5. CASE Leave
    <2>1. ~page' /\ UNCHANGED <<queue, worker, destroyed, sealed, log>>
        BY <1>5 DEF Leave
    <2>2. CASE net' = net
        BY <2>1, <2>2, SentSame DEF worker, SendInv, SentBefore
    <2>3. CASE /\ queue # <<>>
               /\ net' = net \cup {[turn |-> Head(queue), attempt |-> 0]}
        <3> DEFINE copy == [turn |-> Head(queue), attempt |-> 0]
        <3>1. copy.turn = sealed - Len(queue) + 1 /\ copy \in Post /\ copy.attempt = 0
            BY <2>3, Bounds, QueueAssumption DEF SendInv, Post, QueueAssumption
        <3>2. copy.turn <= sealed
            BY <1>1, <2>3, <3>1, Bounds DEF SendInv
        <3>3. ~Sent(copy)
            <4>1. Sent(copy) => 0 > 0
                BY <1>5, <3>1 DEF Leave, SendInv, SentBefore
            <4> QED BY <4>1
        <3>4. \A p : /\ Inserted(p)' <=> Inserted(p)
                     /\ Sent(p)' <=> Sent(p) \/ p = copy
            BY <2>1, <2>3 DEF Sent, Inserted
        <3>5. \A p \in net' : ~Inserted(p)'
            BY <2>3, <3>3, <3>4 DEF Sent, SendInv, SentBefore
        <3>6. ASSUME NEW p \in Post, Sent(p)'
              PROVE  p.turn <= sealed' /\ p.turn <= sealed' - Len(queue') + 1
            <4> HIDE DEF copy
            <4>1. CASE p = copy
                BY <1>1, <2>1, <3>1, <3>2, <4>1
            <4>2. CASE Sent(p)
                BY <2>1, <4>2 DEF SendInv, SentBefore
            <4> QED BY <3>4, <3>6, <4>1, <4>2
        <3> QED BY <2>1, <3>5, <3>6 DEF worker, SendInv, SentBefore
    <2> QED BY <1>5, <2>2, <2>3 DEF Leave
<1>6. CASE Receive
    <2>1. PICK p \in net :
            /\ net' = net \ {p} /\ UNCHANGED client
            /\ \E c : log' = Append(log, [post |-> p, content |-> c])
        BY <1>6 DEF Receive
    <2>2. PICK c : log' = Append(log, [post |-> p, content |-> c])
        BY <2>1
    <2>3. /\ Len(log) \in Nat /\ DOMAIN log = 1..Len(log) /\ DOMAIN log' = 1..(Len(log) + 1)
          /\ log'[Len(log) + 1] = [post |-> p, content |-> c]
          /\ \A i \in 1..Len(log) : log'[i] = log[i]
        BY <2>2, StoredFacts DEF SendInv, IInv, TypeOK
    <2>4. \A q : Inserted(q)' <=> Inserted(q) \/ q = p
        BY <2>3 DEF Inserted
    <2>5. \A q : Sent(q)' <=> Sent(q)
        BY <2>1, <2>4 DEF Sent
    <2>6. \A q \in net' : ~Inserted(q)'
        BY <2>1, <2>4 DEF SendInv, SentBefore
    <2> QED BY <2>1, <2>5, <2>6 DEF client, worker, SendInv, SentBefore
<1>7. CASE Reject
    <2>1. UNCHANGED <<client, log>> /\ net' \subseteq net
        BY <1>7 DEF Reject
    <2>2. \A p : (Sent(p)' => Sent(p)) /\ (Inserted(p)' <=> Inserted(p))
        BY <2>1 DEF Sent, Inserted
    <2> QED BY <2>1, <2>2 DEF client, worker, SendInv, SentBefore
<1>8. CASE UNCHANGED vars
    BY <1>8, SentSame DEF vars, client, worker, SendInv, SentBefore
<1> QED BY <1>2, <1>3, <1>4, <1>5, <1>6, <1>7, <1>8

\* Both invariants hold in every reachable state of the queue.
LEMMA SendInvAlways == Spec => []SendInv
<1>1. Init => SendInv
    <2>1. Init => SentBefore
        <3>1. ASSUME Init PROVE \A p : ~Sent(p)
            BY <3>1 DEF Init, Sent, Inserted
        <3> QED BY <3>1 DEF Init, SentBefore
    <2> QED BY <2>1, InitIInv DEF SendInv
<1>2. SendInv /\ [Next]_vars => SendInv'
    <2>1. ASSUME SendInv, [Next]_vars PROVE IInv' /\ SentBefore'
        <3>1. IInv'
            BY <2>1, NextIInv DEF SendInv
        <3> QED BY <2>1, <3>1, WorkerSends, OthersSend DEF Next
    <2> QED BY <2>1 DEF SendInv
<1> QED BY <1>1, <1>2, PTL DEF Spec

\* A sequence is the function of its elements.
LEMMA SeqFacts ==
    ASSUME NEW S, NEW s \in Seq(S)
    PROVE  s = [i \in 1..Len(s) |-> s[i]] /\ \A i \in 1..Len(s) : s[i] \in S
    OBVIOUS

\* A turn is kept in the promise's words where it is settled in the queue's.
LEMMA KeptIsSettled == ASSUME IInv PROVE \A t : Promised!Kept(t) <=> Settled(t)
<1>1. DOMAIN Rows = DOMAIN log /\ \A i \in DOMAIN log : Rows[i] = log[i].post
    BY DEF Rows
<1> QED BY <1>1 DEF Promised!Kept, Settled, Stored, Copies

\* The end of flush() is the promise's Settle, or a warning after the session.
LEMMA SettleImplements ==
    ASSUME SendInv, NEW posted \in BOOLEAN, pc # "idle", posted => Stored(turn),
           Settle(posted), UNCHANGED <<destroyed, sealed, log>>
    PROVE  [Promised!Next]_(Promised!transcriptVars)
<1>1. /\ sealed \in Nat /\ Len(queue) \in Nat /\ turn \in Nat /\ queue \in Seq(Turn)
      /\ turn \in Turn /\ turn <= sealed
    BY Bounds DEF SendInv, SentBefore, IInv, EarlierSettled
<1>2. /\ warned' = IF posted THEN warned ELSE warned \cup {turn}
      /\ queue' = IF queue = <<>> THEN <<>> ELSE Tail(queue)
      /\ Rows' = Rows
    BY DEF Settle, Rows
<1>3. \A t \in 1..(turn - 1) : Promised!Kept(t)
    BY KeptIsSettled DEF SendInv, IInv, EarlierSettled
<1>4. CASE ~destroyed
    <2>1. queue # <<>> /\ turn = sealed - Len(queue) + 1
        BY <1>4, Bounds DEF SendInv, IInv, HeadIsOurs
    <2>2. Len(queue') = Len(queue) - 1
        BY <1>1, <1>2, <2>1, TailFacts
    <2>3. (sealed - Len(queue) + 1)' = (sealed - Len(queue) + 1) + 1
        BY <1>1, <2>2
    <2>4. posted => Promised!Kept(turn)
        BY KeptIsSettled DEF SendInv, Settled
    <2>5. Promised!Settle
        BY <1>1, <1>2, <1>4, <2>1, <2>3, <2>4 DEF Promised!Settle
    <2> QED BY <2>5 DEF Promised!Next
<1>5. CASE destroyed
    <2>1. queue = <<>> /\ queue' = queue /\ Len(queue) = 0
        BY <1>2, <1>5 DEF SendInv, IInv, QueueIsSuffix
    <2>2. CASE posted
        BY <1>2, <2>1, <2>2 DEF Promised!transcriptVars
    <2>3. CASE ~posted
        <3>1. turn \in 1..sealed /\ turn <= sealed - Len(queue) + 1
            BY <1>1, <2>1 DEF Turn
        <3>2. Promised!Warn(turn)
            BY <1>2, <1>3, <1>5, <2>1, <2>3, <3>1 DEF Promised!Warn, Promised!Due
        <3> QED BY <3>1, <3>2 DEF Promised!Next
    <2> QED BY <2>2, <2>3
<1> QED BY <1>4, <1>5

\* A POST the handler appends is stored in its turn, and for the first time.
LEMMA ReceiveImplements ==
    ASSUME SendInv, Receive
    PROVE  Promised!Next
<1>1. PICK p \in net :
        /\ UNCHANGED client
        /\ \E c : log' = Append(log, [post |-> p, content |-> c])
    BY DEF Receive
<1>2. PICK c : log' = Append(log, [post |-> p, content |-> c])
    BY <1>1
<1>3. /\ Len(log) \in Nat /\ DOMAIN log = 1..Len(log) /\ DOMAIN log' = 1..(Len(log) + 1)
      /\ log'[Len(log) + 1] = [post |-> p, content |-> c]
      /\ \A i \in 1..Len(log) : log'[i] = log[i]
    BY <1>2, StoredFacts DEF SendInv, IInv, TypeOK
<1>4. /\ p \in Post /\ p = [turn |-> p.turn, attempt |-> p.attempt]
      /\ p.turn \in 1..sealed /\ p.attempt \in 0..MAX_ATTEMPTS
      /\ p.turn <= sealed - Len(queue) + 1
    <2>1. p \in Post /\ sealed \in Nat
        BY Bounds DEF SendInv
    <2>2. p.turn <= sealed /\ p.turn <= sealed - Len(queue) + 1
        BY <2>1 DEF Sent, SendInv, SentBefore
    <2> QED BY <2>1, <2>2, QueueAssumption DEF QueueAssumption, Post, Turn
<1>5. Promised!Due(p.turn)
    BY <1>4, KeptIsSettled DEF SendInv, IInv, EarlierSettled, Promised!Due
<1>6. \A i \in DOMAIN Rows : Rows[i] # p
    <2>1. DOMAIN Rows = DOMAIN log /\ \A i \in DOMAIN log : Rows[i] = log[i].post
        BY DEF Rows
    <2> QED BY <2>1 DEF SendInv, SentBefore, Inserted
<1>7. Rows' = Append(Rows, p)
    <2> DEFINE n == Len(log)
    <2>1. Rows \in Seq(Post) /\ Len(Rows) = n
        <3>1. \A i \in 1..n : log[i].post \in Post
            <4>1. log \in Seq([post : Post, content : Seq(Turn)])
                BY DEF SendInv, IInv, TypeOK
            <4>2. \A i \in 1..n : log[i] \in [post : Post, content : Seq(Turn)]
                BY <4>1, SeqFacts
            <4> QED BY <4>2
        <3>2. Rows = [i \in 1..n |-> log[i].post]
            BY <1>3 DEF Rows
        <3> QED BY <1>3, <3>1, <3>2
    <2>2. Append(Rows, p) = [i \in 1..(n + 1) |-> IF i = n + 1 THEN p ELSE Rows[i]]
        <3>1. /\ Append(Rows, p) \in Seq(Post) /\ Len(Append(Rows, p)) = n + 1
              /\ Append(Rows, p)[n + 1] = p
              /\ \A i \in 1..n : Append(Rows, p)[i] = Rows[i]
            BY <1>4, <2>1, AppendFacts
        <3>2. Append(Rows, p) = [i \in 1..(n + 1) |-> Append(Rows, p)[i]]
            BY <3>1, SeqFacts
        <3>3. \A i \in 1..(n + 1) : Append(Rows, p)[i] = IF i = n + 1 THEN p ELSE Rows[i]
            BY <1>3, <3>1
        <3> QED BY <3>2, <3>3
    <2>3. Rows' = [i \in 1..(n + 1) |-> log'[i].post]
        BY <1>3 DEF Rows
    <2>4. \A i \in 1..(n + 1) : log'[i].post = IF i = n + 1 THEN p ELSE Rows[i]
        BY <1>3 DEF Rows
    <2> QED BY <2>2, <2>3, <2>4
<1>8. Promised!Store(p.turn, p.attempt)
    BY <1>1, <1>4, <1>5, <1>6, <1>7 DEF client, worker, Promised!Store
<1> QED BY <1>4, <1>8 DEF Promised!Next

\* Every step of the queue, its worker and the handler is one of the promise, or
\* none of its.
LEMMA StepImplements ==
    ASSUME SendInv, [Next]_vars
    PROVE  [Promised!Next]_(Promised!transcriptVars)
<1> DEFINE next == sealed - Len(queue) + 1
<1>1. sealed \in Nat /\ Len(queue) \in Nat /\ queue \in Seq(Turn)
    BY Bounds DEF SendInv
<1>2. CASE Enqueue
    <2>1. /\ sealed' = sealed + 1 /\ sealed' \in Turn
          /\ UNCHANGED <<destroyed, warned, log>> /\ Rows' = Rows
        BY <1>1, <1>2, QueueAssumption DEF QueueAssumption, Enqueue, Rows, Turn
    <2>2. CASE destroyed
        <3>1. queue' = queue /\ Len(queue) = 0
            BY <1>2, <2>2 DEF Enqueue, SendInv, IInv, QueueIsSuffix
        <3>2. next' = sealed' + 1
            BY <2>1, <3>1
        <3> QED BY <2>1, <2>2, <3>2 DEF Promised!Next, Promised!Seal
    <2>3. CASE ~destroyed
        <3>1. Len(queue') = Len(queue) + 1
            BY <1>1, <1>2, <2>1, <2>3, AppendFacts DEF Enqueue
        <3>2. next' = next
            BY <1>1, <2>1, <3>1
        <3> QED BY <2>1, <2>3, <3>2 DEF Promised!Next, Promised!Seal
    <2> QED BY <2>2, <2>3
<1>3. CASE DrainAndDestroy
    <2>1. /\ ~destroyed /\ destroyed' = TRUE /\ Len(queue') = 0
          /\ UNCHANGED <<sealed, warned, log>> /\ Rows' = Rows
        BY <1>3 DEF DrainAndDestroy, Rows
    <2>2. next' = sealed + 1
        BY <1>1, <2>1
    <2> QED BY <2>1, <2>2 DEF Promised!Next, Promised!Drop
<1>4. CASE NoToken \/ Confirmed \/ Refused \/ (Failed /\ ~(attempt < MAX_ATTEMPTS))
    <2>1. Confirmed => Stored(turn)
        BY DEF Confirmed, Inserted, Stored, Copies, Current
    <2> QED BY <1>4, <2>1, SettleImplements DEF NoToken, Confirmed, Refused, Failed
<1>5. CASE \/ TimerFires \/ Send \/ (Failed /\ attempt < MAX_ATTEMPTS) \/ Wake
           \/ Leave \/ Reject \/ UNCHANGED vars
    <2>1. UNCHANGED <<sealed, queue, warned, destroyed, log>>
        BY <1>5 DEF TimerFires, Send, Failed, Wake, Leave, Reject, vars, client
    <2>2. Rows' = Rows
        BY <2>1 DEF Rows
    <2> QED BY <2>1, <2>2 DEF Promised!transcriptVars
<1> QED BY <1>2, <1>3, <1>4, <1>5, ReceiveImplements DEF Next, WorkerStep

\* The queue implements Transcript, for any number of turns and attempts: turns
\* are stored or given up one after the other, and no POST is stored twice.
THEOREM ImplementsTranscriptAlways == Spec => ImplementsTranscript
<1>1. Init => Promised!Init
    <2>1. ASSUME Init PROVE Rows = <<>> /\ Len(queue) = 0 /\ sealed - Len(queue) + 1 = 1
        BY <2>1 DEF Init, Rows
    <2> QED BY <2>1 DEF Init, Promised!Init
<1>2. SendInv /\ [Next]_vars => [Promised!Next]_(Promised!transcriptVars)
    BY StepImplements
<1> QED BY <1>1, <1>2, SendInvAlways, PTL DEF Spec, ImplementsTranscript, Promised!Spec
=============================================================================
