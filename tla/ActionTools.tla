---------------------------- MODULE ActionTools ----------------------------
(***************************************************************************)
(* The assistant's action tools (lambda/tools, forensic_callback): a pull  *)
(* request that bumps one pin, the revocation of an OAuth grant, a message *)
(* or ticket, and a forensic scan that "pings when it is done".  A call is *)
(* a sequence of requests to somebody else's service, without a            *)
(* transaction and without a retry: whatever raises becomes an error, also *)
(* when the request has been served and only its answer is lost.  The      *)
(* assistant may call again.                                               *)
(***************************************************************************)
EXTENDS Naturals, FiniteSets

CONSTANTS
    Call, Grant, NoContent,
    MINUTE,          \* ticks of the clock per minute
    MAX_EDITS,       \* bound: pushes to the default branch
    MAX_TIME,        \* bound: the clock
    MAX_ATTEMPTS     \* invocations of the callback: Lambda repeats one that raises

ASSUME ToolsAssumption ==
    /\ {MINUTE, MAX_EDITS, MAX_TIME, MAX_ATTEMPTS} \subseteq Nat \ {0}
    /\ MAX_TIME >= 3 * MINUTE /\ NoContent \notin [edits : 0..MAX_EDITS, bumped : BOOLEAN]

VARIABLES
    scenario,              \* which tool is called
    step, answer,          \* each call: what it does next, what it has answered
    effect,                \* how often what it asks for has been done
    main, branch, fork,    \* the manifest: on the default branch, on the bump's
                           \* branch, and where that was forked
    pr,                    \* a pull request is open for the branch
    manifest, base,        \* per call: the manifest it read, that of the base commit
    grants, target,        \* the user's grants for the app; per call: the one to delete
    clock, began, ended,   \* when a call began and answered
    rule, due,             \* the one-time rule: how far it is set up, and its minute
    fired, attempts, pings

calls    == <<scenario, step, answer, effect>>
repoVars == <<main, branch, fork, pr, manifest, base>>
timeVars == <<clock, began, ended, rule, due, fired, attempts, pings>>
toolVars == <<calls, repoVars, grants, target, timeVars>>

Tools     == {"pr", "grant", "send", "forensic"}
Content   == [edits : 0..MAX_EDITS, bumped : BOOLEAN]

ToolsInit ==
    /\ scenario \in Tools \cup {"units", "cards"}
    /\ step = [c \in Call |-> "idle"] /\ answer = [c \in Call |-> "none"]
    /\ effect = [c \in Call |-> 0]
    /\ main = [edits |-> 0, bumped |-> FALSE] /\ branch = NoContent /\ fork = NoContent
    /\ pr = FALSE
    /\ manifest = [c \in Call |-> main] /\ base = [c \in Call |-> main]
    /\ grants = Grant /\ target = [c \in Call |-> {}]
    /\ clock = 0 /\ began = [c \in Call |-> 0] /\ ended = [c \in Call |-> 0]
    /\ rule = [c \in Call |-> "none"] /\ due = [c \in Call |-> 0]
    /\ fired = {} /\ attempts = [c \in Call |-> 0] /\ pings = [c \in Call |-> 0]

At(c, s)      == step[c] = s
Go(c, s)      == step' = [step EXCEPT ![c] = s] /\ UNCHANGED <<scenario, answer>>
Answer(c, a)  == /\ step' = [step EXCEPT ![c] = "over"]
                 /\ answer' = [answer EXCEPT ![c] = a]
                 /\ UNCHANGED scenario
Done(c)       == effect' = [effect EXCEPT ![c] = @ + 1]

-----------------------------------------------------------------------------
(* The dispatcher.                                                         *)

\* An unknown tool, a bad body or a caller without a subject is refused.
Dispatch(c) ==
    /\ scenario \in Tools /\ At(c, "idle")
    /\ Go(c, "called") \/ Answer(c, "refused")
    /\ UNCHANGED <<effect, repoVars, grants, target, timeVars>>

\* A request raises before it has any effect: the dispatcher answers 500 or 502.
Raises(c) ==
    /\ scenario \in Tools /\ ~At(c, "idle") /\ ~At(c, "over")
    /\ Answer(c, "error")
    /\ UNCHANGED <<effect, repoVars, grants, target, timeVars>>

-----------------------------------------------------------------------------
(* create_pr_with_bump.                                                    *)

InPr == scenario = "pr" /\ UNCHANGED <<grants, target, timeVars>>

ReadManifest(c) ==
    /\ At(c, "called")
    /\ IF main.bumped THEN Answer(c, "refused") ELSE Go(c, "read") \/ Answer(c, "refused")
    /\ manifest' = [manifest EXCEPT ![c] = main]
    /\ InPr /\ UNCHANGED <<effect, main, branch, fork, pr, base>>

ReadBase(c) ==
    /\ At(c, "read")
    /\ Go(c, "based") /\ base' = [base EXCEPT ![c] = main]
    /\ InPr /\ UNCHANGED <<effect, main, branch, fork, pr, manifest>>

\* A branch of that name is taken as it is.
CreateBranch(c) ==
    /\ At(c, "based")
    /\ IF branch = NoContent
       THEN branch' = base[c] /\ fork' = base[c]
       ELSE UNCHANGED <<branch, fork>>
    /\ Go(c, "branched") \/ Answer(c, "error")
    /\ InPr /\ UNCHANGED <<effect, main, pr, manifest, base>>

\* Mutant: the commit names the blob it finds on the branch, not the one it read.
CommitOverBranch(c) ==
    /\ At(c, "branched")
    /\ branch' = [manifest[c] EXCEPT !.bumped = TRUE]
    /\ Go(c, "committed") \/ Answer(c, "error")
    /\ InPr /\ UNCHANGED <<effect, main, fork, pr, manifest, base>>

\* GitHub accepts the file only over the blob that was read (409 otherwise).
CommitBump(c) ==
    /\ At(c, "branched")
    /\ IF branch = manifest[c]
       THEN /\ branch' = [manifest[c] EXCEPT !.bumped = TRUE]
            /\ Go(c, "committed") \/ Answer(c, "error")
       ELSE UNCHANGED branch /\ Answer(c, "error")
    /\ InPr /\ UNCHANGED <<effect, main, fork, pr, manifest, base>>

\* One open pull request per branch (422 otherwise).
OpenPr(c) ==
    /\ At(c, "committed")
    /\ IF pr THEN Answer(c, "error") /\ UNCHANGED <<pr, effect>>
       ELSE /\ pr' = TRUE /\ Done(c)
            /\ Answer(c, "done") \/ Answer(c, "error")
    /\ InPr /\ UNCHANGED <<main, branch, fork, manifest, base>>

\* Developers push other changes of the manifest, merge the request or close it.
Push ==
    /\ main.edits < MAX_EDITS
    /\ main' = [main EXCEPT !.edits = @ + 1]
    /\ InPr /\ UNCHANGED <<calls, branch, fork, pr, manifest, base>>

DecidePr ==
    /\ pr /\ pr' = FALSE
    /\ \/ main' = [main EXCEPT !.bumped = branch.bumped] /\ fork' = branch
       \/ UNCHANGED <<main, fork>>
    /\ InPr /\ UNCHANGED <<calls, branch, manifest, base>>

PrStep(c) ==
    ReadManifest(c) \/ ReadBase(c) \/ CreateBranch(c) \/ CommitBump(c) \/ OpenPr(c)

-----------------------------------------------------------------------------
(* revoke_oauth_grant; a message, a ticket or a connector's tool.           *)

InGrant == scenario = "grant" /\ UNCHANGED <<repoVars, timeVars>>

\* The first grant Graph lists for the user and the app.
FindGrant(c) ==
    /\ At(c, "called")
    /\ \/ grants = {} /\ Answer(c, "refused") /\ UNCHANGED target
       \/ \E g \in grants : Go(c, "found") /\ target' = [target EXCEPT ![c] = {g}]
    /\ InGrant /\ UNCHANGED <<effect, grants>>

\* Mutant: the status of Graph's answer is not looked at.
DeleteUnchecked(c) ==
    /\ At(c, "found")
    /\ \/ grants' = grants \ target[c] /\ Done(c)
       \/ UNCHANGED <<grants, effect>>
    /\ Answer(c, "done")
    /\ InGrant /\ UNCHANGED target

\* Another call may have deleted it: 404, which raises.
DeleteGrant(c) ==
    /\ At(c, "found")
    /\ IF target[c] \subseteq grants
       THEN /\ grants' = grants \ target[c] /\ Done(c)
            /\ Answer(c, "done") \/ Answer(c, "error")
       ELSE UNCHANGED <<grants, effect>> /\ Answer(c, "error")
    /\ InGrant /\ UNCHANGED target

InSend == scenario = "send" /\ UNCHANGED <<repoVars, grants, target, timeVars>>

\* Nobody, or more than one, matches the name: nothing is sent.
Resolve(c) ==
    /\ At(c, "called")
    /\ Go(c, "resolved") \/ Answer(c, "refused")
    /\ InSend /\ UNCHANGED effect

\* The service refuses, or it does what it is asked to.
Send(c) ==
    /\ At(c, "resolved")
    /\ \/ Answer(c, "refused") /\ UNCHANGED effect
       \/ Done(c) /\ (Answer(c, "done") \/ Answer(c, "error"))
    /\ InSend

-----------------------------------------------------------------------------
(* run_forensic_scan and its callback.                                     *)

InForensic == scenario = "forensic" /\ UNCHANGED <<repoVars, grants, target>>

\* Mutant: the rule is for now, not for a minute from now.
DueNow(c) ==
    /\ At(c, "called") /\ clock + 2 * MINUTE <= MAX_TIME
    /\ began' = [began EXCEPT ![c] = clock]
    /\ due' = [due EXCEPT ![c] = clock \div MINUTE]
    /\ Go(c, "dated") \/ Answer(c, "refused")
    /\ InForensic /\ UNCHANGED <<effect, clock, ended, rule, fired, attempts, pings>>

\* A minute from now, to the minute: a cron expression has no seconds.
FireAt(c) ==
    /\ At(c, "called") /\ clock + 2 * MINUTE <= MAX_TIME
    /\ began' = [began EXCEPT ![c] = clock]
    /\ due' = [due EXCEPT ![c] = (clock + MINUTE) \div MINUTE]
    /\ Go(c, "dated") \/ Answer(c, "refused")
    /\ InForensic /\ UNCHANGED <<effect, clock, ended, rule, fired, attempts, pings>>

PutRule(c) ==
    /\ At(c, "dated")
    /\ rule' = [rule EXCEPT ![c] = "enabled"]
    /\ Go(c, "ruled") \/ Answer(c, "error")
    /\ InForensic /\ UNCHANGED <<effect, clock, began, ended, due, fired, attempts, pings>>

PutTargets(c) ==
    /\ At(c, "ruled")
    /\ rule' = [rule EXCEPT ![c] = "armed"] /\ Done(c)
    /\ Answer(c, "done") \/ Answer(c, "error")
    /\ ended' = [ended EXCEPT ![c] = clock]
    /\ InForensic /\ UNCHANGED <<clock, began, due, fired, attempts, pings>>

\* A minute begins: EventBridge fires the rules that are set up for it.
Tick ==
    /\ clock < MAX_TIME /\ clock' = clock + 1
    /\ fired' = fired \cup {c \in Call : /\ clock' % MINUTE = 0 /\ rule[c] = "armed"
                                         /\ due[c] = clock' \div MINUTE}
    /\ InForensic
    /\ UNCHANGED <<calls, began, ended, rule, due, attempts, pings>>

\* The callback raises before its push or is cut off after it and comes again,
\* or it removes the rule, which may fail and leave it.
Callback(c) ==
    /\ c \in fired /\ attempts[c] < MAX_ATTEMPTS
    /\ attempts' = [attempts EXCEPT ![c] = @ + 1]
    /\ \/ UNCHANGED <<fired, rule, pings>>
       \/ pings' = [pings EXCEPT ![c] = @ + 1] /\ UNCHANGED <<fired, rule>>
       \/ /\ pings' = [pings EXCEPT ![c] = @ + 1] /\ fired' = fired \ {c}
          /\ \E r \in {"armed", "enabled", "none"} : rule' = [rule EXCEPT ![c] = r]
    /\ InForensic /\ UNCHANGED <<calls, clock, began, ended, due>>

-----------------------------------------------------------------------------
ToolsNext ==
    \/ \E c \in Call :
        \/ Dispatch(c) \/ Raises(c) \/ PrStep(c)
        \/ FindGrant(c) \/ DeleteGrant(c) \/ Resolve(c) \/ Send(c)
        \/ FireAt(c) \/ PutRule(c) \/ PutTargets(c) \/ Callback(c)
    \/ Push \/ DecidePr \/ Tick

\* Time passes, and Lambda repeats an asynchronous invocation that raised.
ToolsFairness ==
    WF_toolVars(Tick) /\ \A c \in Call : WF_toolVars(Callback(c))

ToolsSpec == ToolsInit /\ [][ToolsNext]_toolVars /\ ToolsFairness
-----------------------------------------------------------------------------
\* Type invariant: calls, the repository, the grants and the rules.
ToolsTypeOK ==
    /\ answer \in [Call -> {"none", "done", "refused", "error"}]
    /\ effect \in [Call -> 0..1]
    /\ main \in Content /\ {branch, fork} \subseteq Content \cup {NoContent}
    /\ manifest \in [Call -> Content] /\ base \in [Call -> Content]
    /\ grants \subseteq Grant /\ clock \in 0..MAX_TIME
    /\ rule \in [Call -> {"none", "enabled", "armed"}] /\ fired \subseteq Call
    /\ \A c \in Call : pings[c] <= attempts[c] /\ attempts[c] <= MAX_ATTEMPTS

\* What the assistant says it did was done, and of what it says it did not do
\* nothing was done; only an error leaves it open (tools/main.py:15).
SaidIsDone ==
    \A c \in Call : /\ answer[c] = "done" => effect[c] > 0
                    /\ answer[c] = "refused" => effect[c] = 0

\* The pull request changes the pin and nothing else, whatever is pushed between
\* the requests of a call and of an earlier one that failed half-way
\* (create_pr_with_bump.py:98, the sha of the blob that was read).
NothingUndone == branch # NoContent => branch.edits = fork.edits

\* "I'll ping you when it's done": who is told so within the minute in which the
\* call began gets the push, unless every attempt at it fails
\* (run_forensic_scan.py:51).
PingComes ==
    \A c \in Call :
        answer[c] = "done" /\ rule[c] = "armed" /\ began[c] \div MINUTE = ended[c] \div MINUTE
            ~> pings[c] > 0 \/ attempts[c] = MAX_ATTEMPTS
=============================================================================
