---------------------------- MODULE WorkspaceBot ----------------------------
(***************************************************************************)
(* The Slack bot of a tenant, whose one row the admins write (connectors:  *)
(* install, pick a channel, switch the rule, revoke) and the subscriber of *)
(* critical findings reads twice per message: once for its gate and once   *)
(* for the token.  A workspace has one channel here, named by it, and one  *)
(* bot token, which Slack keeps until it is revoked there.  What becomes   *)
(* of a message whose card is posted is FindingBroadcast's.                *)
(***************************************************************************)
EXTENDS Naturals, FiniteSets

CONSTANTS
    Request,         \* requests of the tenant's admins under way at once
    Alert, Workspace, Nowhere,
    MAX_POSTS        \* deliveries of an alert's message before it is set aside

ASSUME BotAssumption == MAX_POSTS \in Nat \ {0} /\ Nowhere \notin Workspace

VARIABLES
    bot,             \* the row of tenant_bot_connectors
    live,            \* the workspaces whose bot token Slack accepts
    verifiers,       \* the requests whose PKCE verifier is stored
    job, picked,     \* what each request does next, the channel it sets
    brake, cache,    \* the global switch; what the subscriber remembers of it
    alert, tries,    \* each finding's message, how often it was delivered
    channel, token,  \* what an invocation has read for it
    off, gone,       \* the admins' last word: rule switched off, bot revoked
    allowed          \* no such word stood when the gate and the token were read

install == <<bot, live, verifiers, job, picked, off, gone>>
switch  == <<brake, cache>>
posting == <<alert, tries, channel, token, allowed>>
botVars == <<install, switch, posting>>

BotRow == [status : {"none", "active", "revoked"}, rule : BOOLEAN,
           ws : Workspace \cup {Nowhere}, channel : Workspace \cup {Nowhere}]

BotInit ==
    /\ bot = [status |-> "none", rule |-> TRUE, ws |-> Nowhere, channel |-> Nowhere]
    /\ live = {} /\ verifiers = {}
    /\ job = [q \in Request |-> "none"] /\ picked = [q \in Request |-> Nowhere]
    /\ brake = FALSE /\ cache = "stale"
    /\ alert = [m \in Alert |-> "queued"] /\ tries = [m \in Alert |-> 0]
    /\ channel = [m \in Alert |-> Nowhere] /\ token = [m \in Alert |-> Nowhere]
    /\ off = FALSE /\ gone = FALSE /\ allowed = [m \in Alert |-> FALSE]

Active      == bot.status = "active"
Turn(q, j)  == job' = [job EXCEPT ![q] = j]

-----------------------------------------------------------------------------
(* The admins.                                                             *)

\* A verifier serves one callback: the read deletes it.
StoreVerifier(q) == verifiers' = verifiers \cup {q}
FetchVerifier(q) == q \in verifiers /\ verifiers' = verifiers \ {q}

\* An authorize URL with a signed state.
InitiateBot(q) ==
    /\ job[q] = "none"
    /\ Turn(q, "authorizing") /\ StoreVerifier(q)
    /\ UNCHANGED <<bot, live, picked, off, gone, switch, posting>>

\* Mutant: a new install switches the rule on.
InstallSwitchedOn(w) ==
    [status |-> "active", ws |-> w, rule |-> TRUE, channel |-> bot.channel]

\* The upsert: a row that is there keeps its channel and its rule.
Install(w) ==
    [status |-> "active", ws |-> w, rule |-> bot.rule, channel |-> bot.channel]

\* Slack sends the admin back; the verifier is consumed first, so that a second
\* callback of the same authorization is refused.  The code's exchange makes the
\* token valid at Slack; it may raise, and so may the upsert after it.
CallbackBot(q) ==
    /\ job[q] = "authorizing" /\ FetchVerifier(q)
    /\ \/ UNCHANGED <<bot, live, gone>>
       \/ \E w \in Workspace :
            /\ live' = live \cup {w}
            /\ \/ bot' = Install(w) /\ gone' = FALSE
               \/ UNCHANGED <<bot, gone>>
    /\ UNCHANGED <<job, picked, off, switch, posting>>

\* The verifier and the state expire; a callback would be a 400.
Expires(q) ==
    /\ job[q] = "authorizing"
    /\ Turn(q, "none") /\ verifiers' = verifiers \ {q}
    /\ UNCHANGED <<bot, live, picked, off, gone, switch, posting>>

\* The channels Slack lists to the bot's token: nothing without an active row,
\* and an error when Slack has revoked the token.
Listed == IF Active /\ bot.ws \in live THEN {bot.ws} ELSE {}

\* set_broadcast_channel: the check, and later the write.
CheckChannel(q) ==
    /\ job[q] = "none"
    /\ \E w \in Listed : picked' = [picked EXCEPT ![q] = w] /\ Turn(q, "picked")
    /\ UNCHANGED <<bot, live, verifiers, off, gone, switch, posting>>

SetChannel(q) ==
    /\ job[q] = "picked"
    /\ bot' = IF Active THEN [bot EXCEPT !.channel = picked[q]] ELSE bot
    /\ Turn(q, "none") /\ picked' = [picked EXCEPT ![q] = Nowhere]
    /\ UNCHANGED <<live, verifiers, off, gone, switch, posting>>

\* The UPDATE is of an active row.  The answer is 200 and names the new setting
\* also when there is none, and nothing was written: off stays what it was.
ToggleRule(q, enabled) ==
    /\ job[q] = "none"
    /\ bot' = IF Active THEN [bot EXCEPT !.rule = enabled] ELSE bot
    /\ off' = IF Active THEN ~enabled ELSE off
    /\ UNCHANGED <<live, verifiers, job, picked, gone, switch, posting>>

\* auth.revoke with the token of the active row; it may fail, which is logged.
RevokeAtSlack(q) ==
    /\ job[q] = "none"
    /\ \E served \in BOOLEAN : live' = IF served /\ Active THEN live \ {bot.ws} ELSE live
    /\ Turn(q, "revoking")
    /\ UNCHANGED <<bot, verifiers, picked, off, gone, switch, posting>>

\* Whatever Slack said, the row is revoked, also one installed since.
RevokeRow(q) ==
    /\ job[q] = "revoking" /\ Turn(q, "none")
    /\ bot' = IF bot.status = "none" THEN bot ELSE [bot EXCEPT !.status = "revoked"]
    /\ gone' = TRUE
    /\ UNCHANGED <<live, verifiers, picked, off, switch, posting>>

-----------------------------------------------------------------------------
(* The global switch: an SSM parameter, remembered for a minute.           *)

PullBrake ==
    /\ brake' = ~brake
    /\ UNCHANGED <<install, cache, posting>>

CacheEnds ==
    /\ cache # "stale" /\ cache' = "stale"
    /\ UNCHANGED <<install, brake, posting>>

\* What an invocation may hear, and remembers; a failed read counts as on.
GlobalEnabled(on) ==
    IF cache # "stale" THEN on = (cache = "on") /\ UNCHANGED cache
    ELSE /\ on = ~brake \/ on = TRUE
         /\ cache' = IF on THEN "on" ELSE "off"

-----------------------------------------------------------------------------
(* The subscriber.                                                         *)

Put(m, s) == alert' = [alert EXCEPT ![m] = s]

\* No active row, rule off or no channel: the message is acknowledged unsent.
Gate(m) ==
    /\ alert[m] = "queued" /\ tries[m] < MAX_POSTS
    /\ tries' = [tries EXCEPT ![m] = @ + 1]
    /\ \E on \in BOOLEAN :
        /\ GlobalEnabled(on)
        /\ Put(m, IF on /\ Active /\ bot.rule /\ bot.channel # Nowhere
                  THEN "gated" ELSE "acked")
    /\ channel' = [channel EXCEPT ![m] = bot.channel]
    /\ allowed' = [allowed EXCEPT ![m] = ~off /\ ~gone]
    /\ UNCHANGED <<install, brake, token>>

\* The row is read again, for its token; the channel is the one read before.
ReadToken(m) ==
    /\ alert[m] = "gated"
    /\ Put(m, IF Active THEN "ready" ELSE "acked")
    /\ token' = [token EXCEPT ![m] = bot.ws]
    /\ allowed' = [allowed EXCEPT ![m] = @ /\ ~gone]
    /\ UNCHANGED <<install, switch, tries, channel>>

\* Slack refuses a revoked token and a channel of another workspace.
PostCard(m) ==
    /\ alert[m] = "ready"
    /\ Put(m, IF token[m] \in live /\ channel[m] = token[m] THEN "posted" ELSE "queued")
    /\ UNCHANGED <<install, switch, tries, channel, token, allowed>>

\* The invocation is cut off or its queries raise: the message comes again.
GateDies(m) ==
    /\ alert[m] \in {"gated", "ready"} /\ Put(m, "queued")
    /\ UNCHANGED <<install, switch, tries, channel, token, allowed>>

-----------------------------------------------------------------------------
BotNext ==
    \/ \E q \in Request :
        \/ InitiateBot(q) \/ CallbackBot(q) \/ Expires(q) \/ CheckChannel(q)
        \/ SetChannel(q) \/ RevokeAtSlack(q) \/ RevokeRow(q)
        \/ \E enabled \in BOOLEAN : ToggleRule(q, enabled)
    \/ PullBrake \/ CacheEnds
    \/ \E m \in Alert :
        Gate(m) \/ ReadToken(m) \/ PostCard(m) \/ GateDies(m)

BotSpec == BotInit /\ [][BotNext]_botVars
-----------------------------------------------------------------------------
\* Type invariant of the row, the requests and the messages.
BotTypeOK ==
    /\ bot \in BotRow /\ live \subseteq Workspace /\ verifiers \subseteq Request
    /\ job \in [Request -> {"none", "authorizing", "picked", "revoking"}]
    /\ cache \in {"stale", "on", "off"}
    /\ alert \in [Alert -> {"queued", "gated", "ready", "posted", "acked"}]
    /\ tries \in [Alert -> 0..MAX_POSTS]
    /\ channel \in [Alert -> Workspace \cup {Nowhere}]

\* What the admins had written stands against reinstalls, revocations, other
\* admins' requests and cards under way: none is posted whose gate came after the
\* rule of an active row was switched off, or whose token was read after the bot
\* was revoked, with no switching on or install in between.  It says nothing of a
\* switching off that found no active row: that one is answered in the same way,
\* nothing is written, and the next install has the rule the row had, or the
\* table's default, on (README, section 6).
WordStands == \A m \in Alert : alert[m] = "posted" => allowed[m]
=============================================================================
