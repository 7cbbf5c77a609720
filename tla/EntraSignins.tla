---------------------------- MODULE EntraSignins ----------------------------
(***************************************************************************)
(* The AI sign-in pass of the Entra runner (shasta_runner_entra): a page   *)
(* of the directory's audit log, the sign-ins to AI applications among     *)
(* them written as findings, the banner of the connection that says the    *)
(* directory lacks the licence for it, and the pushes.  Invocations of one *)
(* connection may overlap: two scans of it, or the repetition of one.      *)
(***************************************************************************)
EXTENDS Naturals, FiniteSets

CONSTANTS
    Attempt,       \* invocations of the handler
    User, App,
    Catalog,       \* the tier match_app infers for an application, or "none"
    NoRow

SigninTier == {"personal", "corp", "unknown"}

ASSUME SigninAssumption == Catalog \in [App -> SigninTier \cup {"none"}]

VARIABLES
    licensed,      \* the directory has the licence that opens its audit log
    shadow,        \* the findings of the pass: one row per tier
    banner,        \* scope.signin_premium_required of the connection
    at, page,      \* where each invocation is; the sign-ins it has still to write
    matched,       \* the sign-ins it matched
    verdict,       \* what Graph told it about the licence
    noted,         \* it has written its verdict
    ahead,         \* the invocations that were over when it began
    alerts         \* the users of the pushes it has sent

signinVars == <<licensed, shadow, banner, at, page, matched, verdict, noted, ahead, alerts>>

Signin  == User \X App

SigninInit ==
    /\ licensed \in BOOLEAN /\ banner = FALSE
    /\ shadow = [t \in SigninTier |-> NoRow]
    /\ at = [k \in Attempt |-> "idle"]
    /\ page = [k \in Attempt |-> {}] /\ matched = [k \in Attempt |-> {}]
    /\ verdict = [k \in Attempt |-> "none"] /\ noted = {}
    /\ ahead = [k \in Attempt |-> {}] /\ alerts = [k \in Attempt |-> {}]

PassOver   == {k \in Attempt : at[k] = "over"}
Move(k, a) == at' = [at EXCEPT ![k] = a]

-----------------------------------------------------------------------------
\* The tenant buys the licence, or lets it lapse.
Licence ==
    /\ licensed' = ~licensed
    /\ UNCHANGED <<shadow, banner, at, page, matched, verdict, noted, ahead, alerts>>

StartPass(k) ==
    /\ at[k] = "idle" /\ Move(k, "fetching")
    /\ ahead' = [ahead EXCEPT ![k] = PassOver]
    /\ UNCHANGED <<licensed, shadow, banner, page, matched, verdict, noted, alerts>>

\* The sign-ins of a page that the catalog knows.
MatchApp(events) == {e \in events : Catalog[e[2]] # "none"}

\* One page of the log, from its beginning, whatever an earlier scan has read.
\* Only one of Graph's errors speaks of the licence; any other is as good as an
\* empty page.
FetchSignins(k) ==
    /\ at[k] = "fetching" /\ Move(k, "writing")
    /\ \E events \in SUBSET Signin :
        /\ licensed \/ events = {}
        /\ matched' = [matched EXCEPT ![k] = MatchApp(events)]
        /\ page' = [page EXCEPT ![k] = MatchApp(events)]
    /\ \E error \in BOOLEAN :
        verdict' = [verdict EXCEPT ![k] =
            IF ~licensed /\ ~error THEN "required"
            ELSE IF matched'[k] # {} THEN "open" ELSE "unclear"]
    /\ UNCHANGED <<licensed, shadow, banner, noted, ahead, alerts>>

\* The parameters of a sign-in's row.  The key is the tenant, the connection,
\* the check - one per tier -, no resource and the directory.
RowKey(e)    == Catalog[e[2]]
RowOf(e, k)  == [user |-> e[1], app |-> e[2], scan |-> k,
                 status |-> IF RowKey(e) = "corp" THEN "pass" ELSE "fail"]

\* The upsert of one parameter set of a batch.
WriteSignin(k, e) ==
    /\ at[k] = "writing" /\ e \in page[k]
    /\ shadow' = [shadow EXCEPT ![RowKey(e)] = RowOf(e, k)]
    /\ page' = [page EXCEPT ![k] = @ \ {e}]
    /\ UNCHANGED <<licensed, banner, at, matched, verdict, noted, ahead, alerts>>

\* Mutant: without a licensing error the banner goes.
UpdateFlagEachTime(k) ==
    /\ at[k] = "writing" /\ page[k] = {} /\ Move(k, "pushing")
    /\ \/ UNCHANGED <<banner, noted>>
       \/ banner' = (verdict[k] = "required") /\ noted' = noted \cup {k}
    /\ UNCHANGED <<licensed, shadow, page, matched, verdict, ahead, alerts>>

\* Set by a licensing error, cleared by sign-ins, and else left as it is; a
\* failing UPDATE is logged and swallowed.
UpdateFlag(k) ==
    /\ at[k] = "writing" /\ page[k] = {} /\ Move(k, "pushing")
    /\ \/ UNCHANGED <<banner, noted>>
       \/ /\ banner' = CASE verdict[k] = "required" -> TRUE
                         [] verdict[k] = "open"     -> FALSE
                         [] OTHER                   -> banner
          /\ noted' = noted \cup {k}
    /\ UNCHANGED <<licensed, shadow, page, matched, verdict, ahead, alerts>>

\* One push for the personal-tier row if it is this scan's; a failure is
\* swallowed.  The catalog that is shipped infers no personal tier.
FirePushes(k) ==
    /\ at[k] = "pushing" /\ Move(k, "over")
    /\ LET mine == {shadow[t] : t \in {p \in {"personal"} : shadow[p] # NoRow}}
       IN \E sent \in SUBSET {r.user : r \in {q \in mine : q.scan = k}} :
            alerts' = [alerts EXCEPT ![k] = sent]
    /\ UNCHANGED <<licensed, shadow, banner, page, matched, verdict, noted, ahead>>

\* A statement raises or the Lambda is cut off: the rows so far stay.
PassDies(k) ==
    /\ at[k] \in {"fetching", "writing", "pushing"} /\ Move(k, "over")
    /\ UNCHANGED <<licensed, shadow, banner, page, matched, verdict, noted, ahead, alerts>>

-----------------------------------------------------------------------------
SigninNext ==
    \/ Licence
    \/ \E k \in Attempt :
        \/ StartPass(k) \/ FetchSignins(k) \/ UpdateFlag(k) \/ FirePushes(k) \/ PassDies(k)
        \/ \E e \in Signin : WriteSignin(k, e)

SigninSpec == SigninInit /\ [][SigninNext]_signinVars
-----------------------------------------------------------------------------
\* Type invariant of the rows, the banner and the invocations.
SigninTypeOK ==
    /\ licensed \in BOOLEAN /\ banner \in BOOLEAN
    /\ at \in [Attempt -> {"idle", "fetching", "writing", "pushing", "over"}]
    /\ \A k \in Attempt : page[k] \subseteq matched[k] /\ matched[k] \subseteq Signin
    /\ verdict \in [Attempt -> {"none", "required", "open", "unclear"}]
    /\ noted \subseteq Attempt

\* The banner follows the evidence.  What a scan has learnt about the licence
\* stands until a scan that was not over before it learns the opposite: a scan
\* that learns nothing, or is repeated or overtaken, does not change it
\* (main.py:315, "We don't want to clear a sticky flag without positive evidence").
BannerFollows ==
    \A k \in noted : verdict[k] # "unclear" /\ banner # (verdict[k] = "required") =>
        \E j \in noted \ ahead[k] : verdict[j] \notin {"unclear", verdict[k]}

\* What the plan and the per-person view count on: every sign-in a scan has
\* matched and written has its finding (or that of a later sign-in of the same
\* user).
EverySigninHasFinding ==
    \A k \in Attempt : at[k] = "pushing" =>
        \A e \in matched[k] : \E t \in SigninTier : shadow[t] # NoRow /\ shadow[t].user = e[1]
=============================================================================
