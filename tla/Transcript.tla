----------------------------- MODULE Transcript -----------------------------
(***************************************************************************)
(* What a voice session promises about the conversation it leaves behind:  *)
(* its turns are stored or given up one after the other, in the order in   *)
(* which they were sealed, and each attempt to store one makes at most one *)
(* row.  Neither the network nor the queue is seen here.  The endpoint has *)
(* no idempotency key, so a turn may well be stored by several attempts;   *)
(* attempt 0 is the copy sent when the page goes away.                     *)
(***************************************************************************)
EXTENDS Naturals, Sequences

CONSTANT ATTEMPTS     \* attempts to store one turn

VARIABLES
    sealed,           \* how many turns have been sealed
    next,             \* the first turn the session still owes the conversation
    warned,           \* turns the user was warned about
    dropped,          \* the session owes nothing any more
    transcript        \* the rows stored: of which turn, by which attempt

transcriptVars == <<sealed, next, warned, dropped, transcript>>

Init ==
    /\ sealed = 0 /\ next = 1 /\ warned = {} /\ dropped = FALSE
    /\ transcript = <<>>

Kept(t) == t \in warned \/ \E i \in DOMAIN transcript : transcript[i].turn = t

\* It is t's turn, or was.
Due(t) == t <= next /\ \A u \in 1..(t - 1) : Kept(u)

Seal ==
    /\ sealed' = sealed + 1
    /\ next' = IF dropped THEN sealed' + 1 ELSE next
    /\ UNCHANGED <<warned, dropped, transcript>>

\* An attempt succeeds, however late.
Store(t, a) ==
    /\ Due(t)
    /\ \A i \in DOMAIN transcript : transcript[i] # [turn |-> t, attempt |-> a]
    /\ transcript' = Append(transcript, [turn |-> t, attempt |-> a])
    /\ UNCHANGED <<sealed, next, warned, dropped>>

\* The session is through with the turn it owes: it is stored, or the user is
\* warned - perhaps for nothing, when an answer was lost.
Settle ==
    /\ ~dropped /\ next <= sealed
    /\ next' = next + 1
    /\ \/ Kept(next) /\ UNCHANGED warned
       \/ warned' = warned \cup {next}
    /\ UNCHANGED <<sealed, dropped, transcript>>

\* The session ends; the attempts under way go on.
Drop ==
    /\ ~dropped /\ dropped' = TRUE
    /\ next' = sealed + 1
    /\ UNCHANGED <<sealed, warned, transcript>>

Warn(t) ==
    /\ dropped /\ Due(t)
    /\ warned' = warned \cup {t}
    /\ UNCHANGED <<sealed, next, dropped, transcript>>

Next ==
    \/ Seal \/ Settle \/ Drop
    \/ \E t \in 1..sealed : Warn(t) \/ \E a \in 0..ATTEMPTS : Store(t, a)

Spec == Init /\ [][Next]_transcriptVars
=============================================================================
