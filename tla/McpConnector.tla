---------------------------- MODULE McpConnector ----------------------------
(***************************************************************************)
(* A user's connector to a vendor's MCP server (Slack): the OAuth flow     *)
(* that stores a grant, the tool calls that refresh it when its access     *)
(* token is about to expire, and the disconnection (_shared/mcp_oauth,     *)
(* connectors/handlers_slack and handlers_common, tools).                  *)
(*                                                                         *)
(* A pair is an access token and its refresh token, numbered as the vendor *)
(* hands them out.  A refresh token is good once: using it spends it and   *)
(* brings the next pair.  The refresh runs in a database transaction that  *)
(* holds an advisory lock; the lock goes with the transaction.             *)
(***************************************************************************)
EXTENDS Naturals

CONSTANTS
    Flow,         \* OAuth flows: each stands for its nonce
    Call,         \* tool calls
    Disconnect,   \* DELETE requests
    MAX_PAIRS,    \* bound: pairs the vendor hands out
    Nobody

ASSUME ConnectorAssumption ==
    /\ MAX_PAIRS \in Nat \ {0}
    /\ Nobody \notin Call

VARIABLES
    connector,    \* the user_connectors row: status and the pair it holds
    minted,       \* pairs handed out
    spent,        \* pairs whose refresh token was used
    reused,       \* pairs whose refresh token was presented again (history)
    lost,         \* spent pairs whose successor was never stored (history)
    expiring,     \* pairs whose access token is about to expire
    flow,         \* each flow
    verifiers,    \* flows whose PKCE verifier is kept
    granted,      \* pairs a callback is about to store
    lock,         \* the call whose transaction holds the advisory lock
    call,         \* each tool call: how far it is, the pair it refreshes, the pair it got
    disconnect    \* each disconnection

mcpVars == <<connector, minted, spent, reused, lost, expiring, flow, verifiers, granted,
             lock, call, disconnect>>
vendorVars == <<minted, spent, reused, lost>>
flowVars   == <<flow, verifiers, granted>>

Pair == 1..MAX_PAIRS
InTxn == {"locked", "rotated", "dead"}
Over  == {"served", "missing", "failed", "crashed"}

McpInit ==
    /\ connector = [status |-> "none", pair |-> 0]
    /\ minted = 0 /\ spent = {} /\ reused = {} /\ lost = {} /\ expiring = {}
    /\ flow = [f \in Flow |-> "idle"] /\ verifiers = {} /\ granted = {}
    /\ lock = Nobody
    /\ call = [c \in Call |-> [pc |-> "idle", old |-> 0, new |-> 0]]
    /\ disconnect = [d \in Disconnect |-> "idle"]

-----------------------------------------------------------------------------
(* The flow.                                                               *)

InitiateSlack(f) ==
    /\ flow[f] = "idle"
    /\ flow' = [flow EXCEPT ![f] = "open"]
    /\ verifiers' = verifiers \cup {f}
    /\ UNCHANGED <<connector, vendorVars, expiring, granted, lock, call, disconnect>>

\* Five minutes: the signed state and the stored verifier are over.
StateExpires(f) ==
    /\ flow[f] = "open"
    /\ flow' = [flow EXCEPT ![f] = "over"]
    /\ verifiers' = verifiers \ {f}
    /\ UNCHANGED <<connector, vendorVars, expiring, granted, lock, call, disconnect>>

\* The callback: whoever deletes the verifier exchanges the code, and the
\* exchange may fail.
CallbackSlack(f) ==
    /\ flow[f] = "open" /\ f \in verifiers
    /\ verifiers' = verifiers \ {f}
    /\ \/ /\ minted < MAX_PAIRS
          /\ minted' = minted + 1 /\ granted' = granted \cup {minted + 1}
       \/ UNCHANGED <<minted, granted>>
    /\ UNCHANGED <<connector, spent, reused, lost, expiring, flow, lock, call, disconnect>>

\* The row is inserted, or takes the new pair and is active again.
UpsertConnector(n) ==
    /\ n \in granted /\ granted' = granted \ {n}
    /\ connector' = [status |-> "active", pair |-> n]
    /\ UNCHANGED <<vendorVars, expiring, flow, verifiers, lock, call, disconnect>>

CallbackDies(n) ==
    /\ n \in granted /\ granted' = granted \ {n}
    /\ UNCHANGED <<connector, vendorVars, expiring, flow, verifiers, lock, call, disconnect>>

-----------------------------------------------------------------------------
(* Tool calls.                                                             *)

Expires(n) ==
    /\ n <= minted /\ expiring' = expiring \cup {n}
    /\ UNCHANGED <<connector, vendorVars, flowVars, lock, call, disconnect>>

Step(c, pc) == call' = [call EXCEPT ![c].pc = pc]

\* lookup_user_connector, and the pair's expiry.
LookUp(c) ==
    /\ call[c].pc = "idle"
    /\ Step(c, IF connector.status # "active" THEN "missing"
               ELSE IF connector.pair \in expiring THEN "waiting" ELSE "served")
    /\ UNCHANGED <<connector, vendorVars, expiring, flowVars, lock, disconnect>>

\* Mutant: the transaction takes no lock.
RereadOnly(c, old) ==
    /\ call[c].pc = "waiting" /\ old = connector.pair
    /\ IF old \in expiring
       THEN lock' = c /\ call' = [call EXCEPT ![c].pc = "locked", ![c].old = old]
       ELSE Step(c, "served") /\ UNCHANGED lock
    /\ UNCHANGED <<connector, vendorVars, expiring, flowVars, disconnect>>

\* The lock, and the row again: someone may have refreshed it meanwhile.  Its
\* status is not looked at.
LockAndReread(c, old) ==
    /\ call[c].pc = "waiting" /\ lock = Nobody /\ old = connector.pair
    /\ IF old \in expiring
       THEN lock' = c /\ call' = [call EXCEPT ![c].pc = "locked", ![c].old = old]
       ELSE Step(c, "served") /\ UNCHANGED lock
    /\ UNCHANGED <<connector, vendorVars, expiring, flowVars, disconnect>>

\* A statement waits for the lock only so long.
LockTimesOut(c) ==
    /\ call[c].pc = "waiting" /\ lock # Nobody
    /\ Step(c, "failed")
    /\ UNCHANGED <<connector, vendorVars, expiring, flowVars, lock, disconnect>>

\* Mutant: a session's lock, which a rollback does not release.
RollbackOnly(c) == Step(c, "failed") /\ UNCHANGED lock

Rollback(c) == Step(c, "failed") /\ lock' = Nobody

\* The refresh token goes to the vendor, which rotates it; or refuses it, as it
\* does any that was used before.  The answer may be lost.
Rotate(c) ==
    /\ call[c].pc = "locked" /\ call[c].old \notin spent /\ minted < MAX_PAIRS
    /\ minted' = minted + 1 /\ spent' = spent \cup {call[c].old}
    /\ call' = [call EXCEPT ![c].pc = "rotated", ![c].new = minted + 1]
    /\ UNCHANGED <<connector, reused, lost, expiring, flowVars, lock, disconnect>>

RotateRefused(c) ==
    /\ call[c].pc = "locked"
    /\ reused' = reused \cup ({call[c].old} \cap spent)
    /\ Rollback(c)
    /\ UNCHANGED <<connector, minted, spent, lost, expiring, flowVars, disconnect>>

RotateAnswerLost(c) ==
    /\ call[c].pc = "rotated"
    /\ lost' = lost \cup {call[c].old}
    /\ Rollback(c)
    /\ UNCHANGED <<connector, minted, spent, reused, expiring, flowVars, disconnect>>

\* Mutant: the refresh writes the status too.
StoreActive(c) ==
    /\ call[c].pc = "rotated"
    /\ connector' = [status |-> "active", pair |-> call[c].new]
    /\ Step(c, "served") /\ lock' = Nobody
    /\ UNCHANGED <<vendorVars, expiring, flowVars, disconnect>>

\* The UPDATE and the commit.
StorePair(c) ==
    /\ call[c].pc = "rotated"
    /\ connector' = [connector EXCEPT !.pair = call[c].new]
    /\ Step(c, "served") /\ lock' = Nobody
    /\ UNCHANGED <<vendorVars, expiring, flowVars, disconnect>>

\* The Lambda dies; its transaction stays open until the database ends it.
CallDies(c) ==
    /\ call[c].pc \in {"locked", "rotated"}
    /\ Step(c, "dead")
    /\ lost' = IF call[c].pc = "rotated" THEN lost \cup {call[c].old} ELSE lost
    /\ UNCHANGED <<connector, minted, spent, reused, expiring, flowVars, lock, disconnect>>

TxnExpires(c) ==
    /\ call[c].pc = "dead"
    /\ Step(c, "crashed") /\ lock' = Nobody
    /\ UNCHANGED <<connector, vendorVars, expiring, flowVars, disconnect>>

-----------------------------------------------------------------------------
(* Disconnecting: the row is read, the vendor asked to revoke (whatever it *)
(* answers), the row marked.                                               *)

ReadConnector(d) ==
    /\ disconnect[d] = "idle" /\ connector.status = "active"
    /\ disconnect' = [disconnect EXCEPT ![d] = "revoking"]
    /\ UNCHANGED <<connector, vendorVars, expiring, flowVars, lock, call>>

MarkRevoked(d) ==
    /\ disconnect[d] = "revoking"
    /\ disconnect' = [disconnect EXCEPT ![d] = "over"]
    /\ connector' = [connector EXCEPT !.status = "revoked"]
    /\ UNCHANGED <<vendorVars, expiring, flowVars, lock, call>>

CallStep ==
    \E c \in Call :
        \/ \E old \in Pair : LockAndReread(c, old)
        \/ Rotate(c) \/ RotateRefused(c) \/ RotateAnswerLost(c) \/ StorePair(c)
        \/ TxnExpires(c)

McpNext ==
    \/ \E f \in Flow : InitiateSlack(f) \/ StateExpires(f) \/ CallbackSlack(f)
    \/ \E n \in Pair : UpsertConnector(n) \/ CallbackDies(n) \/ Expires(n)
    \/ CallStep
    \/ \E c \in Call : LookUp(c) \/ LockTimesOut(c) \/ CallDies(c)
    \/ \E d \in Disconnect : ReadConnector(d) \/ MarkRevoked(d)

McpSpec == McpInit /\ [][McpNext]_mcpVars

-----------------------------------------------------------------------------

McpTypeOK ==
    /\ connector \in [status : {"none", "active", "revoked"}, pair : 0..MAX_PAIRS]
    /\ minted \in 0..MAX_PAIRS
    /\ spent \subseteq Pair /\ reused \subseteq Pair /\ lost \subseteq Pair
    /\ expiring \subseteq Pair /\ granted \subseteq Pair
    /\ flow \in [Flow -> {"idle", "open", "over"}] /\ verifiers \subseteq Flow
    /\ lock \in Call \cup {Nobody}
    /\ call \in [Call -> [pc : {"idle", "waiting"} \cup InTxn \cup Over,
                          old : 0..MAX_PAIRS, new : 0..MAX_PAIRS]]
    /\ disconnect \in [Disconnect -> {"idle", "revoking", "over"}]

\* However many calls find the token about to expire at once, its refresh token
\* goes to the vendor once; it goes a second time only when the pair it brought
\* was never stored (the race the advisory lock is for).
RefreshedOnce == reused \subseteq lost

\* The connector holds a refresh token that is still good, but for the moment of
\* its rotation or when a rotation's result was lost: no other interleaving of
\* calls, reconnections and disconnections leaves a dead connector behind.
StoredIsGood ==
    connector.pair \in spent =>
        \/ connector.pair \in lost
        \/ \E c \in Call : call[c].pc = "rotated" /\ call[c].old = connector.pair

\* Refreshing keeps a connector alive.
ConnectorLives == RefreshedOnce /\ StoredIsGood

\* A connector that was disconnected comes back by a new grant of the user and
\* in no other way, a refresh that is under way included.
RevokedStands ==
    [][connector.status = "revoked" /\ connector'.status # "revoked" =>
        connector'.pair \in granted \ granted']_mcpVars

\* A call that waits for the refresh lock gets on (part of WorkEnds).
RefreshEnds ==
    \A c \in Call : call[c].pc = "waiting" ~> call[c].pc \in Over \cup {"dead"}
=============================================================================
