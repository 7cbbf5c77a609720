-------------------------- MODULE GovernanceProofs --------------------------
(***************************************************************************)
(* Proofs about a tenant's workspace, for any number of the people, tabs,  *)
(* documents, items, pages, workspaces and messages involved: how it is    *)
(* decided (TenantApproval), its Slack bot (WorkspaceBot), its action      *)
(* cards (ApprovalCard) and its registers (Registers), each by itself and  *)
(* then side by side with what it is shown (PostureProofs), as Governance  *)
(* has them.                                                               *)
(***************************************************************************)
EXTENDS Governance, PostureProofs

-----------------------------------------------------------------------------
(* The workspace: triggers, the decision page and the administrators' list. *)

\* What a decision does to the history of decisions.
LEMMA AppendDecision ==
    ASSUME NEW s \in Seq(Decision), NEW d \in Decision
    PROVE  /\ Append(s, d) \in Seq(Decision)
           /\ Append(s, d) # <<>>
           /\ Append(s, d)[Len(Append(s, d))] = d
           /\ (\E i \in DOMAIN Append(s, d) : Append(s, d)[i] = "approve")
                <=> (\E i \in DOMAIN s : s[i] = "approve") \/ d = "approve"
<1>1. /\ Append(s, d) \in Seq(Decision) /\ Len(Append(s, d)) = Len(s) + 1
      /\ Append(s, d)[Len(s) + 1] = d
      /\ \A i \in 1..Len(s) : Append(s, d)[i] = s[i]
    OBVIOUS
<1>2. DOMAIN s = 1..Len(s) /\ DOMAIN Append(s, d) = 1..(Len(s) + 1) /\ Len(s) \in Nat
    BY <1>1
<1>3. (\E i \in DOMAIN Append(s, d) : Append(s, d)[i] = "approve")
        => (\E i \in DOMAIN s : s[i] = "approve") \/ d = "approve"
    <2>1. SUFFICES ASSUME NEW i \in 1..(Len(s) + 1), Append(s, d)[i] = "approve"
                   PROVE  (\E j \in DOMAIN s : s[j] = "approve") \/ d = "approve"
        BY <1>2
    <2>2. i = Len(s) + 1 \/ i \in 1..Len(s)
        BY <1>2
    <2> QED BY <2>1, <2>2, <1>1, <1>2
<1>4. (\E i \in DOMAIN s : s[i] = "approve") \/ d = "approve"
        => \E i \in DOMAIN Append(s, d) : Append(s, d)[i] = "approve"
    <2>1. 1..Len(s) \subseteq 1..(Len(s) + 1) /\ Len(s) + 1 \in 1..(Len(s) + 1)
        BY <1>2
    <2> QED BY <2>1, <1>1, <1>2
<1>5. Append(s, d) # <<>>
    <2>1. Len(<<>>) = 0
        OBVIOUS
    <2>2. Len(s) + 1 # 0
        BY <1>2
    <2> QED BY <2>1, <2>2, <1>1
<1>6. Append(s, d)[Len(Append(s, d))] = d
    BY <1>1
<1>7. (\E i \in DOMAIN Append(s, d) : Append(s, d)[i] = "approve")
        <=> (\E i \in DOMAIN s : s[i] = "approve") \/ d = "approve"
    BY <1>3, <1>4
<1> QED BY <1>1, <1>5, <1>6, <1>7

-----------------------------------------------------------------------------
\* ApprovalInit gives every variable its type.
LEMMA ApprovalInitType == ApprovalInit => ApprovalTypeOK
<1>1. <<>> \in Seq(Decision)
    OBVIOUS
<1>2. 0 \in 0..IN_APP
    BY ApprovalAssumption DEF ApprovalAssumption
<1> QED BY <1>1, <1>2 DEF ApprovalInit, ApprovalTypeOK

\* Every step of a trigger keeps the types.
LEMMA TriggerType ==
    ASSUME ApprovalTypeOK, NEW t \in Trigger,
           \/ FindTenant(t) \/ CreateTenant(t)
           \/ UpsertUser(t, "admin", "admin") \/ UpsertUser(t, "member", "member")
           \/ SendApprovalEmail(t) \/ TriggerFails(t)
    PROVE  ApprovalTypeOK'
<1> USE DEF ApprovalTypeOK, tenant, triggers, clickers, Goto
<1>1. CASE FindTenant(t) BY <1>1 DEF FindTenant
<1>2. CASE CreateTenant(t) BY <1>2 DEF CreateTenant
<1>3. CASE UpsertUser(t, "admin", "admin") BY <1>3 DEF UpsertUser
<1>4. CASE UpsertUser(t, "member", "member") BY <1>4 DEF UpsertUser
<1>5. CASE SendApprovalEmail(t) BY <1>5 DEF SendApprovalEmail
<1>6. CASE TriggerFails(t) BY <1>6 DEF TriggerFails
<1> QED BY <1>1, <1>2, <1>3, <1>4, <1>5, <1>6

\* Every decision keeps the types.
LEMMA DecisionType ==
    ASSUME ApprovalTypeOK,
           \/ \E c \in Click : GetTenant(c) \/ UpdateTenantDecision(c)
           \/ \E d \in Decision : DecideInApp(d)
    PROVE  ApprovalTypeOK'
<1> USE DEF ApprovalTypeOK, tenant, triggers, clickers
<1>1. ASSUME NEW c \in Click, GetTenant(c) PROVE ApprovalTypeOK'
    BY <1>1 DEF GetTenant
<1>2. ASSUME NEW c \in Click, UpdateTenantDecision(c) PROVE ApprovalTypeOK'
    <2>1. link[c] \in Decision OBVIOUS
    <2>2. decided' \in Seq(Decision)
        BY <1>2, <2>1, AppendDecision DEF UpdateTenantDecision, Decide
    <2> QED BY <1>2, <2>1, <2>2 DEF UpdateTenantDecision, Decide, NewStatus
<1>3. ASSUME NEW d \in Decision, DecideInApp(d) PROVE ApprovalTypeOK'
    <2>1. decided' \in Seq(Decision)
        BY <1>3, AppendDecision DEF DecideInApp, Decide
    <2>2. inApp' \in 0..IN_APP
        BY <1>3, ApprovalAssumption DEF DecideInApp, ApprovalAssumption
    <2> QED BY <1>3, <2>1, <2>2 DEF DecideInApp, Decide, NewStatus
<1> QED BY <1>1, <1>2, <1>3

\* So does a step of another part.
LEMMA ApprovalStutterType == ApprovalTypeOK /\ UNCHANGED approvalVars => ApprovalTypeOK'
BY DEF ApprovalTypeOK, approvalVars, tenant, triggers, clickers

\* Every reachable state of the tables, triggers and clickers has its type.
THEOREM ApprovalTypeCorrect == ApprovalSpec => []ApprovalTypeOK
<1>1. ApprovalTypeOK /\ [ApprovalNext]_approvalVars => ApprovalTypeOK'
    BY TriggerType, DecisionType, ApprovalStutterType DEF ApprovalNext
<1> QED BY ApprovalInitType, <1>1, PTL DEF ApprovalSpec

-----------------------------------------------------------------------------
\* A decision makes the row show it.
LEMMA DecideStands ==
    ASSUME ApprovalTypeOK, DecisionsStand, NEW d \in Decision, Decide(d)
    PROVE  DecisionsStand'
<1>1. decided \in Seq(Decision) /\ decided' = Append(decided, d)
    BY DEF ApprovalTypeOK, Decide
<1>2. approvedAt' <=> \E i \in DOMAIN decided' : decided'[i] = "approve"
    <2>1. approvedAt' <=> approvedAt \/ d = "approve"
        BY DEF Decide
    <2>2. approvedAt <=> \E i \in DOMAIN decided : decided[i] = "approve"
        BY DEF DecisionsStand
    <2>3. (\E i \in DOMAIN decided' : decided'[i] = "approve")
            <=> (\E i \in DOMAIN decided : decided[i] = "approve") \/ d = "approve"
        BY <1>1, AppendDecision
    <2> QED BY <2>1, <2>2, <2>3
<1>3. decided' # <<>> /\ decided'[Len(decided')] = d
    BY <1>1, AppendDecision
<1>4. status' = NewStatus(d)
    BY DEF Decide
<1> QED BY <1>2, <1>3, <1>4 DEF DecisionsStand

\* The row shows the latest decision and whether it was ever approved: no late
\* or repeated trigger (CreateTenant) puts a decided tenant back to pending.
THEOREM DecisionsStandAlways == ApprovalSpec => []DecisionsStand
<1>1. ApprovalInit => DecisionsStand
    BY DEF ApprovalInit, DecisionsStand
<1>2. ApprovalTypeOK /\ DecisionsStand /\ [ApprovalNext]_approvalVars => DecisionsStand'
    <2> SUFFICES ASSUME ApprovalTypeOK, DecisionsStand, [ApprovalNext]_approvalVars PROVE DecisionsStand'
        OBVIOUS
    <2>1. ASSUME UNCHANGED <<status, approvedAt, decided>> PROVE DecisionsStand'
        BY <2>1 DEF DecisionsStand
    <2>2. ASSUME NEW t \in Trigger, CreateTenant(t) PROVE DecisionsStand'
        <3>1. CASE status = "absent"
            <4>1. decided = <<>>
                BY <3>1 DEF DecisionsStand, NewStatus
            <4>2. decided' = decided /\ approvedAt' = approvedAt /\ status' = "pending"
                BY <2>2, <3>1 DEF CreateTenant
            <4> QED BY <4>1, <4>2 DEF DecisionsStand
        <3>2. CASE status # "absent"
            BY <2>1, <2>2, <3>2 DEF CreateTenant
        <3> QED BY <3>1, <3>2
    <2>3. ASSUME NEW t \in Trigger,
                 \/ FindTenant(t) \/ UpsertUser(t, "admin", "admin")
                 \/ UpsertUser(t, "member", "member")
                 \/ SendApprovalEmail(t) \/ TriggerFails(t)
          PROVE  DecisionsStand'
        BY <2>1, <2>3
        DEF FindTenant, UpsertUser, SendApprovalEmail, TriggerFails, tenant
    <2>4. ASSUME NEW c \in Click, GetTenant(c) PROVE DecisionsStand'
        BY <2>1, <2>4 DEF GetTenant, tenant
    <2>5. ASSUME NEW c \in Click, UpdateTenantDecision(c) PROVE DecisionsStand'
        BY <2>5, DecideStands DEF UpdateTenantDecision, ApprovalTypeOK
    <2>6. ASSUME NEW d \in Decision, DecideInApp(d) PROVE DecisionsStand'
        BY <2>6, DecideStands DEF DecideInApp
    <2>7. ASSUME UNCHANGED approvalVars PROVE DecisionsStand'
        BY <2>1, <2>7 DEF approvalVars, tenant
    <2> QED BY <2>2, <2>3, <2>4, <2>5, <2>6, <2>7 DEF ApprovalNext
<1> QED BY <1>1, <1>2, ApprovalTypeCorrect, PTL DEF ApprovalSpec

-----------------------------------------------------------------------------
\* OneAdmin is not inductive: it needs that at most one trigger has created the
\* tenant and not yet inserted its user, and that there is no administrator then.
OneCreator ==
    /\ \A t, u \in Trigger : tpc[t] = "admin" /\ tpc[u] = "admin" => t = u
    /\ \A t \in Trigger : tpc[t] = "admin" => \A i \in Identity : role[i] # "admin"
    /\ \A t \in Trigger : tpc[t] \in {"admin", "member"} => status # "absent"

AdminInv == ApprovalTypeOK /\ OneAdmin /\ OneCreator

\* The strengthened invariant survives every step of a trigger.
LEMMA TriggerAdmin ==
    ASSUME AdminInv, NEW t \in Trigger,
           \/ FindTenant(t) \/ CreateTenant(t)
           \/ UpsertUser(t, "admin", "admin") \/ UpsertUser(t, "member", "member")
           \/ SendApprovalEmail(t) \/ TriggerFails(t)
    PROVE  OneAdmin' /\ OneCreator'
<1> USE DEF AdminInv, ApprovalTypeOK, OneAdmin, OneCreator, tenant, Goto
<1>1. CASE FindTenant(t) BY <1>1 DEF FindTenant
<1>2. CASE CreateTenant(t) BY <1>2 DEF CreateTenant
<1>3. CASE UpsertUser(t, "admin", "admin") BY <1>3 DEF UpsertUser
<1>4. CASE UpsertUser(t, "member", "member") BY <1>4 DEF UpsertUser
<1>5. CASE SendApprovalEmail(t) BY <1>5 DEF SendApprovalEmail
<1>6. CASE TriggerFails(t) BY <1>6 DEF TriggerFails
<1> QED BY <1>1, <1>2, <1>3, <1>4, <1>5, <1>6

\* A decision never makes the row absent.
LEMMA DecisionAdmin ==
    ASSUME AdminInv,
           \/ \E c \in Click : GetTenant(c) \/ UpdateTenantDecision(c)
           \/ \E d \in Decision : DecideInApp(d)
           \/ UNCHANGED approvalVars
    PROVE  OneAdmin' /\ OneCreator'
<1>1. role' = role /\ tpc' = tpc /\ (status' = status \/ status' # "absent")
    BY DEF GetTenant, UpdateTenantDecision, DecideInApp, Decide, NewStatus, triggers,
           tenant, approvalVars
<1> QED BY <1>1 DEF AdminInv, OneAdmin, OneCreator

\* Triggers that race for a new tenant, or are repeated (post_confirmation's
\* handler), leave it with at most one administrator.
THEOREM OneAdminAlways == ApprovalSpec => []OneAdmin
<1>1. ApprovalInit => AdminInv
    BY ApprovalInitType DEF ApprovalInit, AdminInv, OneAdmin, OneCreator
<1>2. AdminInv /\ [ApprovalNext]_approvalVars => AdminInv'
    <2>1. ApprovalTypeOK /\ [ApprovalNext]_approvalVars => ApprovalTypeOK'
        BY TriggerType, DecisionType, ApprovalStutterType DEF ApprovalNext
    <2>2. AdminInv /\ [ApprovalNext]_approvalVars => OneAdmin' /\ OneCreator'
        BY TriggerAdmin, DecisionAdmin DEF ApprovalNext
    <2> QED BY <2>1, <2>2 DEF AdminInv
<1>3. AdminInv => OneAdmin
    BY DEF AdminInv
<1> QED BY <1>1, <1>2, <1>3, PTL DEF ApprovalSpec

\* ON CONFLICT keeps the role: no step demotes an administrator.
THEOREM CreatorStays == ApprovalSpec => CreatorStaysAdmin
<1>1. ApprovalTypeOK /\ [ApprovalNext]_approvalVars
        => [\A i \in Identity : role[i] = "admin" => role'[i] = "admin"]_role
    <2> SUFFICES ASSUME ApprovalTypeOK, [ApprovalNext]_approvalVars, NEW i \in Identity, role[i] = "admin"
                 PROVE  role'[i] = "admin"
        OBVIOUS
    <2>1. ASSUME NEW t \in Trigger, NEW l, NEW r, UpsertUser(t, l, r)
          PROVE  role'[i] = "admin"
        BY <2>1 DEF UpsertUser, ApprovalTypeOK
    <2>2. (\E t \in Trigger : UpsertUser(t, "admin", "admin")
                               \/ UpsertUser(t, "member", "member")) \/ role' = role
        BY DEF ApprovalNext, FindTenant, CreateTenant, SendApprovalEmail, TriggerFails, GetTenant,
               UpdateTenantDecision, DecideInApp, approvalVars
    <2> QED BY <2>1, <2>2
<1> QED BY <1>1, ApprovalTypeCorrect, PTL DEF ApprovalSpec, CreatorStaysAdmin

\* A link that has decided is recorded as used, however the clickers interleave
\* (admin_decision's UPDATE appends to the nonces, it replaces none).
THEOREM UsedLinks == ApprovalSpec => []UsedStaysUsed
<1>1. ApprovalInit => UsedStaysUsed
    BY DEF ApprovalInit, UsedStaysUsed
<1>2. ApprovalTypeOK /\ UsedStaysUsed /\ [ApprovalNext]_approvalVars => UsedStaysUsed'
    <2> SUFFICES ASSUME ApprovalTypeOK, UsedStaysUsed, [ApprovalNext]_approvalVars PROVE UsedStaysUsed'
        OBVIOUS
    <2>1. ASSUME NEW c \in Click, GetTenant(c) PROVE UsedStaysUsed'
        BY <2>1 DEF GetTenant, UsedStaysUsed, ApprovalTypeOK, tenant
    <2>2. ASSUME NEW c \in Click, UpdateTenantDecision(c) PROVE UsedStaysUsed'
        BY <2>2 DEF UpdateTenantDecision, UsedStaysUsed, ApprovalTypeOK
    <2>3. (\E c \in Click : GetTenant(c) \/ UpdateTenantDecision(c))
            \/ UNCHANGED <<cpc, link, nonces>>
        BY DEF ApprovalNext, FindTenant, CreateTenant, UpsertUser, SendApprovalEmail, TriggerFails,
               DecideInApp, approvalVars, tenant, clickers
    <2> QED BY <2>1, <2>2, <2>3 DEF UsedStaysUsed
<1> QED BY <1>1, <1>2, ApprovalTypeCorrect, PTL DEF ApprovalSpec

-----------------------------------------------------------------------------
(* The Slack bot.                                                          *)

\* The row says what the admins last had written - its rule is off just when the
\* last switching that found it active was to off, and a revoked bot is not
\* active -, and an invocation that got past a read was allowed to.
BotInv ==
    /\ BotTypeOK
    /\ picked \in [Request -> Workspace \cup {Nowhere}]
    /\ allowed \in [Alert -> BOOLEAN]
    /\ off = ~bot.rule
    /\ Active => ~gone
    /\ \A m \in Alert : alert[m] \in {"gated", "ready", "posted"} => allowed[m]

\* What the invariant says of the row and its writers ...
RowInv ==
    /\ bot \in BotRow /\ live \subseteq Workspace /\ verifiers \subseteq Request
    /\ job \in [Request -> {"none", "authorizing", "picked", "revoking"}]
    /\ picked \in [Request -> Workspace \cup {Nowhere}]
    /\ off = ~bot.rule
    /\ Active => ~gone

\* ... and of the messages.
AlertInv ==
    /\ cache \in {"stale", "on", "off"}
    /\ alert \in [Alert -> {"queued", "gated", "ready", "posted", "acked"}]
    /\ tries \in [Alert -> 0..MAX_POSTS]
    /\ channel \in [Alert -> Workspace \cup {Nowhere}]
    /\ allowed \in [Alert -> BOOLEAN]
    /\ \A m \in Alert : alert[m] \in {"gated", "ready", "posted"} => allowed[m]

\* The two halves are the invariant.
LEMMA Halves == BotInv <=> RowInv /\ AlertInv
  BY DEF BotInv, BotTypeOK, RowInv, AlertInv

\* The invariant holds before anyone installs the bot.
LEMMA BotInvInit == BotInit => BotInv
<1> SUFFICES ASSUME BotInit PROVE RowInv /\ AlertInv
  BY Halves
<1>1. bot \in BotRow /\ off = FALSE /\ bot.rule = TRUE /\ bot.status = "none"
  BY DEF BotInit, BotRow
<1>2. RowInv
  BY <1>1 DEF BotInit, RowInv, Active
<1>3. tries \in [Alert -> 0..MAX_POSTS]
  BY BotAssumption DEF BotInit
<1>4. AlertInv
  BY <1>3 DEF BotInit, AlertInv
<1> QED
  BY <1>2, <1>4

\* No request of an admin makes the row differ from the admins' last word.
LEMMA AdminKeeps ==
  ASSUME NEW q \in Request, RowInv,
         \/ InitiateBot(q) \/ CallbackBot(q) \/ Expires(q) \/ CheckChannel(q)
         \/ SetChannel(q) \/ RevokeAtSlack(q) \/ RevokeRow(q)
         \/ \E enabled \in BOOLEAN : ToggleRule(q, enabled)
  PROVE  RowInv'
<1> USE DEF RowInv, BotRow, Active, Turn
<1>1. CASE InitiateBot(q)
  BY <1>1 DEF InitiateBot, StoreVerifier
<1>2. CASE CallbackBot(q)
  <2>1. UNCHANGED <<job, picked, off>> /\ verifiers' \subseteq Request
    BY <1>2 DEF CallbackBot, FetchVerifier
  <2>2. CASE UNCHANGED <<bot, live, gone>>
    BY <2>1, <2>2
  <2>3. CASE \E w \in Workspace : /\ live' = live \cup {w}
                                  /\ \/ bot' = Install(w) /\ gone' = FALSE
                                     \/ UNCHANGED <<bot, gone>>
    <3>1. PICK w \in Workspace : /\ live' = live \cup {w}
                                 /\ \/ bot' = Install(w) /\ gone' = FALSE
                                    \/ UNCHANGED <<bot, gone>>
      BY <2>3
    <3>2. Install(w) \in BotRow /\ Install(w).rule = bot.rule
      BY DEF Install
    <3>3. CASE bot' = Install(w) /\ gone' = FALSE
      BY <2>1, <3>1, <3>2, <3>3
    <3>4. CASE UNCHANGED <<bot, gone>>
      BY <2>1, <3>1, <3>4
    <3> QED
      BY <3>1, <3>3, <3>4
  <2> QED
    BY <1>2, <2>2, <2>3 DEF CallbackBot
<1>3. CASE Expires(q)
  BY <1>3 DEF Expires
<1>4. CASE CheckChannel(q)
  <2>1. Listed \subseteq Workspace
    BY DEF Listed
  <2> QED
    BY <1>4, <2>1 DEF CheckChannel
<1>5. CASE SetChannel(q)
  BY <1>5 DEF SetChannel
<1>6. CASE \E enabled \in BOOLEAN : ToggleRule(q, enabled)
  <2>1. PICK enabled \in BOOLEAN : ToggleRule(q, enabled)
    BY <1>6
  <2>2. CASE Active
    <3>1. bot' = [bot EXCEPT !.rule = enabled] /\ off' = ~enabled
      BY <2>1, <2>2 DEF ToggleRule
    <3>2. bot' \in BotRow /\ bot'.rule = enabled /\ bot'.status = bot.status
      BY <3>1
    <3>3. off' = ~bot'.rule
      BY <3>1, <3>2
    <3> QED
      BY <2>1, <3>2, <3>3 DEF ToggleRule
  <2>3. CASE ~Active
    BY <2>1, <2>3 DEF ToggleRule
  <2> QED
    BY <2>2, <2>3
<1>7. CASE RevokeAtSlack(q)
  BY <1>7 DEF RevokeAtSlack
<1>8. CASE RevokeRow(q)
  BY <1>8 DEF RevokeRow
<1> QED
  BY <1>1, <1>2, <1>3, <1>4, <1>5, <1>6, <1>7, <1>8

\* A message goes on only where the row read for it allowed it.
LEMMA AlertKeeps ==
  ASSUME NEW m \in Alert, RowInv, AlertInv,
         Gate(m) \/ ReadToken(m) \/ PostCard(m) \/ GateDies(m)
  PROVE  AlertInv'
<1> USE DEF AlertInv, Put
<1>1. CASE Gate(m)
  <2>1. cache' \in {"stale", "on", "off"}
    BY <1>1 DEF Gate, GlobalEnabled
  <2>2. tries[m] < MAX_POSTS /\ tries' = [tries EXCEPT ![m] = @ + 1]
        /\ channel' = [channel EXCEPT ![m] = bot.channel]
        /\ allowed' = [allowed EXCEPT ![m] = ~off /\ ~gone]
    BY <1>1 DEF Gate
  <2>3. tries' \in [Alert -> 0..MAX_POSTS]
    BY <2>2, BotAssumption
  <2>4. channel' \in [Alert -> Workspace \cup {Nowhere}]
    BY <2>2 DEF RowInv, BotRow
  <2>5. \/ alert' = [alert EXCEPT ![m] = "acked"]
        \/ alert' = [alert EXCEPT ![m] = "gated"] /\ ~off /\ ~gone
    BY <1>1 DEF Gate, RowInv
  <2> QED
    BY <2>1, <2>2, <2>3, <2>4, <2>5
<1>2. CASE ReadToken(m)
  <2>1. /\ alert[m] = "gated" /\ allowed[m]
        /\ allowed' = [allowed EXCEPT ![m] = @ /\ ~gone]
        /\ UNCHANGED <<cache, tries, channel>>
    BY <1>2 DEF ReadToken, switch
  <2>2. \/ alert' = [alert EXCEPT ![m] = "acked"]
        \/ alert' = [alert EXCEPT ![m] = "ready"] /\ ~gone
    BY <1>2 DEF ReadToken, RowInv
  <2> QED
    BY <2>1, <2>2
<1>3. CASE PostCard(m)
  BY <1>3 DEF PostCard, switch
<1>4. CASE GateDies(m)
  BY <1>4 DEF GateDies, switch
<1> QED
  BY <1>1, <1>2, <1>3, <1>4

\* The row's half is kept by what does not write it.
LEMMA RowApart == RowInv /\ UNCHANGED install => RowInv'
  BY DEF RowInv, install, Active

\* The subscriber's half, when only its memory of the switch may change.
LEMMA AlertApart ==
  AlertInv /\ UNCHANGED posting /\ cache' \in {"stale", "on", "off"} => AlertInv'
  BY DEF AlertInv, posting

\* Every step keeps the invariant.
LEMMA BotInvNext == BotInv /\ [BotNext]_botVars => BotInv'
<1> SUFFICES ASSUME RowInv, AlertInv, [BotNext]_botVars PROVE RowInv' /\ AlertInv'
  BY Halves DEF BotInv, BotTypeOK, RowInv, AlertInv
<1>1. CASE \E q \in Request :
             \/ InitiateBot(q) \/ CallbackBot(q) \/ Expires(q) \/ CheckChannel(q)
             \/ SetChannel(q) \/ RevokeAtSlack(q) \/ RevokeRow(q)
             \/ \E enabled \in BOOLEAN : ToggleRule(q, enabled)
  <2>1. UNCHANGED <<switch, posting>>
    BY <1>1 DEF InitiateBot, CallbackBot, Expires, CheckChannel, SetChannel, ToggleRule,
                RevokeAtSlack, RevokeRow
  <2>2. AlertInv'
    BY <2>1, AlertApart DEF switch, AlertInv
  <2> QED
    BY <1>1, <2>2, AdminKeeps
<1>2. CASE PullBrake \/ CacheEnds
  <2>1. UNCHANGED <<install, posting>> /\ cache' \in {"stale", "on", "off"}
    BY <1>2 DEF PullBrake, CacheEnds, AlertInv
  <2> QED
    BY <2>1, RowApart, AlertApart
<1>3. CASE \E m \in Alert : Gate(m) \/ ReadToken(m) \/ PostCard(m) \/ GateDies(m)
  <2>1. UNCHANGED install
    BY <1>3 DEF Gate, ReadToken, PostCard, GateDies
  <2> QED
    BY <1>3, <2>1, RowApart, AlertKeeps
<1>4. CASE UNCHANGED botVars
  BY <1>4, RowApart, AlertApart DEF botVars, switch, AlertInv
<1> QED
  BY <1>1, <1>2, <1>3, <1>4 DEF BotNext

\* The invariant holds throughout.
LEMMA BotInvAlways == BotSpec => []BotInv
  BY BotInvInit, BotInvNext, PTL DEF BotSpec

\* The row, the requests and the messages have their types, for any number of
\* them (tenant_bot_connectors, the subscriber's queue).
THEOREM BotTypeCorrect == BotSpec => []BotTypeOK
<1>1. BotInv => BotTypeOK
  BY DEF BotInv
<1> QED
  BY <1>1, BotInvAlways, PTL

\* No card is posted whose gate or token was read against what the admins had last
\* written: a switching of the rule that found an active row, a revocation (handlers_admin_slack_channels, kill_switch, findings_subscriber).
THEOREM WordStandsAlways == BotSpec => []WordStands
<1>1. BotInv => WordStands
  BY DEF BotInv, WordStands
<1> QED
  BY <1>1, BotInvAlways, PTL

-----------------------------------------------------------------------------
(* The action cards of the chat.                                           *)

\* The other half of ApprovedHasRow: an answer on its way, the only thing that
\* makes a tab show the card approved, is the answer of a POST that found or
\* made the row.
AnswerHasRow == answers # {} => rows # <<>>

\* The form is open on a pending card that waits for nothing, so what it saves
\* is a message.
FormIsPending ==
    \A t \in Tab : card[t].editing => card[t].status = "pending" /\ card[t].loading = 0

CardInv == CardTypeOK /\ FormIsPending /\ ApprovedHasRow /\ AnswerHasRow /\ RowStands

\* The card starts with no row and nothing approved.
LEMMA CardInvInit == CardInit => CardInv
<1> SUFFICES ASSUME CardInit PROVE CardInv
  OBVIOUS
<1>1. Proposed \in Payload /\ MAX_CLICKS \in Nat
  BY CardAssumption DEF CardAssumption
<1>2. {rows, team} \subseteq Seq(Row) /\ Len(rows) = 0 /\ team = <<>>
  BY DEF CardInit
<1>3. clicks \in 0..MAX_CLICKS /\ 0 \in 0..MAX_CLICKS
  BY <1>1 DEF CardInit
<1>4. stored \in Message /\ card \in [Tab -> Card]
  BY <1>1, <1>3 DEF CardInit, Message, Card
<1>5. CardTypeOK
  BY <1>2, <1>3, <1>4 DEF CardTypeOK, CardInit
<1>6. FormIsPending /\ ApprovedHasRow /\ AnswerHasRow /\ RowStands
  BY <1>2 DEF CardInit, FormIsPending, ApprovedHasRow, AnswerHasRow, RowStands
<1> QED
  BY <1>5, <1>6 DEF CardInv

\* What a click, an edit or a load does to a card is a card.
LEMMA TabType ==
  ASSUME CardTypeOK, FormIsPending, NEW t \in Tab,
         \/ OpenCard(t) \/ HandleApprove(t) \/ HandleEdit(t) \/ HandleSave(t)
         \/ LeaveForm(t) \/ HandleCancel(t) \/ HandleRetry(t)
         \/ Answered(t) \/ ApproveFails(t)
  PROVE  CardTypeOK'
<1>1. MAX_CLICKS \in Nat /\ 0 \in 0..MAX_CLICKS
  BY CardAssumption DEF CardAssumption
<1> USE DEF CardTypeOK, Card, Message
<1>2. CASE OpenCard(t)
  BY <1>1, <1>2 DEF OpenCard
<1>3. CASE HandleApprove(t)
  <2>1. clicks + 1 \in 1..MAX_CLICKS /\ clicks' = clicks + 1
    BY <1>1, <1>3 DEF HandleApprove
  <2>2. clicks' \in 0..MAX_CLICKS /\ clicks + 1 \in 0..MAX_CLICKS
    BY <1>1, <2>1
  <2>3. [click |-> clicks + 1, payload |-> card[t].payload] \in Post
    BY <2>1 DEF Post
  <2>4. posts' \subseteq Post
    BY <1>3, <2>3 DEF HandleApprove
  <2>5. card' \in [Tab -> Card]
    BY <1>3, <2>2 DEF HandleApprove
  <2> QED
    BY <1>3, <2>2, <2>4, <2>5 DEF HandleApprove
<1>4. CASE HandleEdit(t)
  BY <1>4 DEF HandleEdit
<1>5. CASE HandleSave(t)
  <2>1. PICK p \in Payload :
             /\ card' = [card EXCEPT ![t].payload = p, ![t].editing = FALSE]
             /\ Persist(card[t].status, p)
    BY <1>5 DEF HandleSave
  <2>2. [status |-> card[t].status, payload |-> p] \in Message
    BY <1>5 DEF HandleSave, FormIsPending
  <2>3. card' \in [Tab -> Card]
    BY <2>1
  <2>4. patches' \subseteq Message
    BY <2>1, <2>2 DEF Persist
  <2> QED
    BY <1>5, <2>3, <2>4 DEF HandleSave
<1>6. CASE LeaveForm(t)
  BY <1>6 DEF LeaveForm
<1>7. CASE HandleCancel(t)
  <2>1. [status |-> "cancelled", payload |-> card[t].payload] \in Message
    OBVIOUS
  <2>2. card' \in [Tab -> Card]
    BY <1>7 DEF HandleCancel
  <2>3. patches' \subseteq Message
    BY <1>7, <2>1 DEF HandleCancel, Persist
  <2> QED
    BY <1>7, <2>2, <2>3 DEF HandleCancel
<1>8. CASE HandleRetry(t)
  BY <1>8 DEF HandleRetry
<1>9. CASE Answered(t)
  BY <1>1, <1>9 DEF Answered, Persist
<1>10. CASE ApproveFails(t)
  <2>1. [card[t] EXCEPT !.status = "error", !.loading = 0] \in Card
    BY <1>1
  <2>2. card' = [card EXCEPT ![t] = [card[t] EXCEPT !.status = "error", !.loading = 0]]
    BY <1>10 DEF ApproveFails
  <2>3. card' \in [Tab -> Card]
    BY <2>1, <2>2
  <2> QED
    BY <1>10, <2>3 DEF ApproveFails
<1> QED
  BY <1>2, <1>3, <1>4, <1>5, <1>6, <1>7, <1>8, <1>9, <1>10

\* The API keeps the types: the row it makes is a row of the register.
LEMMA ApiType ==
  ASSUME CardTypeOK, Len(rows) <= 1,
         \/ \E r \in posts : CreateOnce(r)
         \/ UpdateRow
         \/ \E m \in patches : UpdateContent(m)
  PROVE  CardTypeOK' /\ Len(rows') <= 1
<1>1. CASE \E r \in posts : CreateOnce(r)
  <2>1. PICK r \in posts : CreateOnce(r)
    BY <1>1
  <2>2. r \in Post /\ NewRow(r) \in Row
    BY DEF CardTypeOK, Post, NewRow, Row
  <2>3. <<NewRow(r)>> \in Seq(Row) /\ Len(<<NewRow(r)>>) = 1
    BY <2>2
  <2>4. rows' \in Seq(Row) /\ Len(rows') <= 1
    BY <2>1, <2>3 DEF CreateOnce, CardTypeOK
  <2> QED
    BY <2>1, <2>2, <2>4 DEF CreateOnce, CardTypeOK
<1>2. CASE UpdateRow
  <2>1. PICK n \in 1..Len(rows), r \in Row :
             rows' = [rows EXCEPT ![n] = r] /\ team' = [rows EXCEPT ![n] = r]
    BY <1>2 DEF UpdateRow
  <2>2. [rows EXCEPT ![n] = r] \in Seq(Row) /\ Len([rows EXCEPT ![n] = r]) = Len(rows)
    BY DEF CardTypeOK
  <2> QED
    BY <1>2, <2>1, <2>2 DEF UpdateRow, CardTypeOK
<1>3. CASE \E m \in patches : UpdateContent(m)
  BY <1>3 DEF UpdateContent, CardTypeOK
<1> QED
  BY <1>1, <1>2, <1>3

\* What a tab shows approved, and what it sends as approved, it has from the
\* message, from an answer or from its own card.
LEMMA TabMoves ==
  ASSUME CardTypeOK, FormIsPending, NEW t \in Tab,
         \/ OpenCard(t) \/ HandleApprove(t) \/ HandleEdit(t) \/ HandleSave(t)
         \/ LeaveForm(t) \/ HandleCancel(t) \/ HandleRetry(t)
         \/ Answered(t) \/ ApproveFails(t)
  PROVE  /\ \A u \in Tab \ {t} : card'[u] = card[u]
         /\ card'[t].editing => card'[t].status = "pending" /\ card'[t].loading = 0
         /\ card'[t].status = "approved" =>
              card[t].status = "approved" \/ stored.status = "approved" \/ answers # {}
         /\ \A m \in patches' \ patches : m.status = "approved" => answers # {}
<1> USE DEF CardTypeOK, Card, FormIsPending, Clickable, Persist
<1>1. CASE OpenCard(t)
  BY <1>1 DEF OpenCard
<1>2. CASE HandleApprove(t)
  BY <1>2 DEF HandleApprove
<1>3. CASE HandleEdit(t)
  BY <1>3 DEF HandleEdit
<1>4. CASE HandleSave(t)
  <2>1. card[t].editing /\ card[t].status = "pending" /\ card[t].loading = 0
    BY <1>4 DEF HandleSave
  <2>2. PICK p \in Payload :
             /\ card' = [card EXCEPT ![t].payload = p, ![t].editing = FALSE]
             /\ patches' = patches \cup {[status |-> card[t].status, payload |-> p]}
    BY <1>4 DEF HandleSave
  <2>3. \A m \in patches' \ patches : m.status = "pending"
    BY <2>1, <2>2
  <2> QED
    BY <2>1, <2>2, <2>3
<1>5. CASE LeaveForm(t)
  BY <1>5 DEF LeaveForm
<1>6. CASE HandleCancel(t)
  BY <1>6 DEF HandleCancel
<1>7. CASE HandleRetry(t)
  <2>1. ~card[t].editing
    BY <1>7 DEF HandleRetry
  <2> QED
    BY <1>7, <2>1 DEF HandleRetry
<1>8. CASE Answered(t)
  <2>1. ~card[t].editing /\ answers # {}
    BY <1>8 DEF Answered
  <2> QED
    BY <1>8, <2>1 DEF Answered
<1>9. CASE ApproveFails(t)
  <2>1. ~card[t].editing
    BY <1>9 DEF ApproveFails
  <2> QED
    BY <1>9, <2>1 DEF ApproveFails
<1> QED
  BY <1>1, <1>2, <1>3, <1>4, <1>5, <1>6, <1>7, <1>8, <1>9

\* A row once made stays made, and is the team's once the team has worked on it.
LEMMA RowKept ==
  ASSUME CardInv, [CardNext]_cardVars
  PROVE  (rows # <<>> => rows' # <<>>) /\ RowStands'
<1>1. CASE UpdateRow
  <2>1. PICK n \in 1..Len(rows), r \in Row :
             rows' = [rows EXCEPT ![n] = r] /\ team' = [rows EXCEPT ![n] = r]
    BY <1>1 DEF UpdateRow
  <2>2. rows \in Seq(Row)
    BY DEF CardInv, CardTypeOK
  <2>3. rows # <<>> => rows' # <<>>
    BY <2>1, <2>2
  <2> QED
    BY <2>1, <2>3 DEF RowStands
<1>2. CASE \E r \in posts : CreateOnce(r)
  <2>1. team' = team /\ (rows # <<>> => rows' = rows)
    BY <1>2 DEF CreateOnce
  <2> QED
    BY <2>1 DEF CardInv, RowStands
<1>3. CASE UNCHANGED <<rows, team>>
  BY <1>3 DEF CardInv, RowStands
<1>4. UpdateRow \/ (\E r \in posts : CreateOnce(r)) \/ UNCHANGED <<rows, team>>
  BY DEF CardNext, OpenCard, HandleApprove, HandleEdit, HandleSave, LeaveForm, HandleCancel,
         HandleRetry, Answered, ApproveFails, UpdateContent, cardVars
<1> QED
  BY <1>1, <1>2, <1>3, <1>4

\* Every step keeps the invariant: only an answer approves a card, only an
\* approved card sends an approved PATCH, only a PATCH approves the message.
LEMMA CardInvNext == CardInv /\ [CardNext]_cardVars => CardInv'
<1> SUFFICES ASSUME CardInv, [CardNext]_cardVars PROVE CardInv'
  OBVIOUS
<1>0. RowStands'
  BY RowKept
<1>1. CASE \E t \in Tab :
             \/ OpenCard(t) \/ HandleApprove(t) \/ HandleEdit(t) \/ HandleSave(t)
             \/ LeaveForm(t) \/ HandleCancel(t) \/ HandleRetry(t)
             \/ Answered(t) \/ ApproveFails(t)
  <2>1. PICK t \in Tab :
             \/ OpenCard(t) \/ HandleApprove(t) \/ HandleEdit(t) \/ HandleSave(t)
             \/ LeaveForm(t) \/ HandleCancel(t) \/ HandleRetry(t)
             \/ Answered(t) \/ ApproveFails(t)
    BY <1>1
  <2>2. CardTypeOK'
    BY <2>1, TabType DEF CardInv
  <2>3. rows' = rows /\ stored' = stored /\ answers' \subseteq answers
    BY <2>1 DEF OpenCard, HandleApprove, HandleEdit, HandleSave, LeaveForm, HandleCancel,
                HandleRetry, Answered, ApproveFails
  <2>4. /\ \A u \in Tab \ {t} : card'[u] = card[u]
        /\ card'[t].editing => card'[t].status = "pending" /\ card'[t].loading = 0
        /\ card'[t].status = "approved" =>
             card[t].status = "approved" \/ stored.status = "approved" \/ answers # {}
        /\ \A m \in patches' \ patches : m.status = "approved" => answers # {}
    BY <2>1, TabMoves DEF CardInv
  <2>5. FormIsPending'
    BY <2>4 DEF CardInv, FormIsPending
  <2>6. CASE rows # <<>>
    BY <1>0, <2>2, <2>3, <2>5, <2>6 DEF CardInv, ApprovedHasRow, AnswerHasRow
  <2>7. CASE rows = <<>>
    <3>1. answers = {} /\ stored.status # "approved"
          /\ (\A u \in Tab : card[u].status # "approved")
          /\ (\A m \in patches : m.status # "approved")
      BY <2>7 DEF CardInv, ApprovedHasRow, AnswerHasRow
    <3>2. \A u \in Tab : card'[u].status # "approved"
      BY <2>4, <3>1
    <3>3. \A m \in patches' : m.status # "approved"
      BY <2>4, <3>1
    <3> QED
      BY <1>0, <2>2, <2>3, <2>5, <3>1, <3>2, <3>3 DEF CardInv, ApprovedHasRow, AnswerHasRow
  <2> QED
    BY <2>6, <2>7
<1>2. CASE \/ \E r \in posts : CreateOnce(r)
           \/ UpdateRow
           \/ \E m \in patches : UpdateContent(m)
  <2>1. CardTypeOK' /\ Len(rows') <= 1
    BY <1>2, ApiType DEF CardInv, ApprovedHasRow
  <2>2. card' = card
    BY <1>2 DEF CreateOnce, UpdateRow, UpdateContent
  <2>3. FormIsPending'
    BY <2>2 DEF CardInv, FormIsPending
  <2>4. rows # <<>> => rows' # <<>>
    BY RowKept
  <2>5. answers' # {} => rows' # <<>>
    <3>1. ASSUME NEW r \in posts, CreateOnce(r) PROVE rows' # <<>>
      BY <3>1 DEF CreateOnce
    <3>2. answers' = answers \/ rows' # <<>>
      BY <1>2, <3>1 DEF UpdateRow, UpdateContent
    <3> QED
      BY <2>4, <3>2 DEF CardInv, AnswerHasRow
  <2>6. stored' = stored \/ stored' \in patches
    BY <1>2 DEF CreateOnce, UpdateRow, UpdateContent
  <2>7. patches' \subseteq patches
    BY <1>2 DEF CreateOnce, UpdateRow, UpdateContent
  <2> QED
    BY <1>0, <2>1, <2>2, <2>3, <2>4, <2>5, <2>6, <2>7 DEF CardInv, ApprovedHasRow, AnswerHasRow
<1>3. CASE UNCHANGED cardVars
  BY <1>0, <1>3 DEF cardVars, CardInv, CardTypeOK, FormIsPending, ApprovedHasRow, AnswerHasRow
<1> QED
  BY <1>1, <1>2, <1>3 DEF CardNext

\* The cards, the register and what is on its way have their types.
THEOREM CardTypeCorrect == CardSpec => []CardTypeOK
<1>1. CardInv => CardTypeOK
  BY DEF CardInv
<1> QED
  BY <1>1, CardInvInit, CardInvNext, PTL DEF CardSpec

\* One card makes at most one row, and nobody sees it approved without the row,
\* whatever tabs, retries and PATCHes overtake each other (risks' _create, the
\* card's persist).
THEOREM ApprovedHasRowAlways == CardSpec => []ApprovedHasRow
<1>1. CardInv => ApprovedHasRow
  BY DEF CardInv
<1> QED
  BY <1>1, CardInvInit, CardInvNext, PTL DEF CardSpec

\* No POST of the card, however late or often repeated, undoes what the team has
\* done with the row since (risks' and policies' _create: ON CONFLICT DO NOTHING).
THEOREM RowStandsAlways == CardSpec => []RowStands
<1>1. CardInv => RowStands
  BY DEF CardInv
<1> QED
  BY <1>1, CardInvInit, CardInvNext, PTL DEF CardSpec

-----------------------------------------------------------------------------
(* Policies, questionnaires and the trust page.                            *)

\* What the policies' half needs of the types: an editor that is open, or that
\* waits for the model, has a document.
PolicyType ==
    /\ doc \in [Doc -> Policy \cup {NoDoc}]
    /\ batch \in [Batch -> [pc : {"idle", "insert", "rewrite", "over"},
                            insert : SUBSET Template, rewrite : SUBSET Template]]
    /\ editor \in [Editor -> [open : BOOLEAN, doc : {Shut.doc} \cup Doc,
                              loaded : Policy \cup {NoDoc}, body : Text, busy : BOOLEAN,
                              read : Text \cup {"none"}]]
    /\ \A e \in Editor : editor[e].open \/ editor[e].read # "none" => editor[e].doc \in Doc

\* A template still to be inserted has no document (the batch inserts each once),
\* and an editor never holds a version its document has not reached.
VersionsAhead ==
    /\ \A b \in Batch, t \in Template :
         batch[b].pc = "idle" \/ (batch[b].pc = "insert" /\ t \in batch[b].insert)
           => doc[<<b, t>>].version = 0
    /\ \A e \in Editor : editor[e].open \/ editor[e].read # "none" =>
         doc[editor[e].doc].version > 0
    /\ \A e \in Editor : editor[e].open =>
         editor[e].loaded.version > 0 /\ editor[e].loaded.version <= doc[editor[e].doc].version

PolicyInv == PolicyType /\ VersionsAhead /\ VersionNamesText

\* A document as the table holds it: its version is a number, zero while there
\* is none.
LEMMA PolicyFields ==
  \A p \in Policy \cup {NoDoc} :
    /\ p.version \in 0..MAX_VERSION /\ p.version \in Nat /\ p.text \in Text /\ p.status \in Status
    /\ p.version > 0 => p \in Policy
<1>1. MAX_VERSION \in Nat \ {0}
  BY RegisterAssumption DEF RegisterAssumption
<1> QED
  BY <1>1 DEF Policy, NoDoc, Text, Status

\* Nobody has opened or written a document yet.
LEMMA PolicyInvInit == RegisterInit => PolicyInv
<1> SUFFICES ASSUME RegisterInit PROVE PolicyInv
  OBVIOUS
<1>1. PolicyType
  BY DEF RegisterInit, PolicyType, Shut, Text
<1>2. VersionsAhead /\ VersionNamesText
  BY DEF RegisterInit, VersionsAhead, VersionNamesText, Shut, NoDoc, Doc
<1> QED
  BY <1>1, <1>2 DEF PolicyInv

\* Where every document that changes has its version raised, and no editor
\* opens or changes what it loaded, no version gets a second text.
LEMMA RaisedKeeps ==
  ASSUME PolicyInv, PolicyType',
         \A d \in Doc :
            \/ doc'[d] = doc[d]
            \/ doc'[d].version > doc[d].version
            \/ doc'[d].version = doc[d].version /\ doc'[d].text = doc[d].text,
         \A e \in Editor :
            /\ editor'[e].open => /\ editor[e].open /\ editor'[e].doc = editor[e].doc
                                  /\ editor'[e].loaded = editor[e].loaded
            /\ editor'[e].read # "none" => /\ editor[e].open \/ editor[e].read # "none"
                                           /\ editor'[e].doc = editor[e].doc
  PROVE  /\ VersionNamesText'
         /\ \A e \in Editor : editor'[e].open \/ editor'[e].read # "none" =>
              doc'[editor'[e].doc].version > 0
         /\ \A e \in Editor : editor'[e].open =>
              /\ editor'[e].loaded.version > 0
              /\ editor'[e].loaded.version <= doc'[editor'[e].doc].version
<1>1. \A d \in Doc : /\ doc[d].version \in Nat /\ doc'[d].version \in Nat
                     /\ doc'[d].version >= doc[d].version
                     /\ doc'[d].version = doc[d].version => doc'[d].text = doc[d].text
  BY PolicyFields DEF PolicyInv, PolicyType
<1>2. \A e \in Editor : editor[e].loaded.version \in Nat
  BY PolicyFields DEF PolicyInv, PolicyType
<1>3. \A e \in Editor : editor[e].open \/ editor[e].read # "none" =>
         editor[e].doc \in Doc /\ doc[editor[e].doc].version > 0
  BY DEF PolicyInv, PolicyType, VersionsAhead
<1>4. \A e \in Editor : editor[e].open =>
         /\ editor[e].loaded.version > 0
         /\ editor[e].loaded.version <= doc[editor[e].doc].version
  BY DEF PolicyInv, VersionsAhead
<1>5. \A e \in Editor : editor'[e].open \/ editor'[e].read # "none" =>
         doc'[editor'[e].doc].version > 0
  BY <1>1, <1>3
<1>6. ASSUME NEW e \in Editor, editor'[e].open
      PROVE  /\ editor'[e].loaded.version > 0
             /\ editor'[e].loaded.version <= doc'[editor'[e].doc].version
  BY <1>1, <1>2, <1>3, <1>4, <1>6
<1>7. ASSUME NEW e \in Editor, editor'[e].open
      PROVE  editor'[e].loaded.version = doc'[editor'[e].doc].version
               => editor'[e].loaded.text = doc'[editor'[e].doc].text
  <2>1. editor[e].open /\ editor'[e].doc = editor[e].doc /\ editor'[e].loaded = editor[e].loaded
        /\ editor[e].doc \in Doc
    BY <1>3, <1>7
  <2>2. editor[e].loaded.version = doc[editor[e].doc].version
          => editor[e].loaded.text = doc[editor[e].doc].text
    BY <2>1 DEF PolicyInv, VersionNamesText
  <2> QED
    BY <1>1, <1>2, <1>4, <2>1, <2>2
<1>8. ASSUME NEW e \in Editor, NEW f \in Editor, editor'[e].open, editor'[f].open,
             editor'[f].doc = editor'[e].doc,
             editor'[f].loaded.version = editor'[e].loaded.version
      PROVE  editor'[f].loaded.text = editor'[e].loaded.text
  BY <1>8 DEF PolicyInv, VersionNamesText
<1> QED
  BY <1>5, <1>6, <1>7, <1>8 DEF VersionNamesText

\* The text that replaces a document's leaves a document.
LEMMA RewrittenType ==
  ASSUME PolicyType, NEW d \in Doc, NEW s \in Text, HasRoom(d)
  PROVE  Rewritten(d, s) \in [Doc -> Policy \cup {NoDoc}]
<1>1. MAX_VERSION \in Nat \ {0}
  BY RegisterAssumption DEF RegisterAssumption
<1>2. doc[d] \in Policy \cup {NoDoc} /\ doc[d].version \in 0..MAX_VERSION /\ doc[d].status \in Status
  BY PolicyFields DEF PolicyType
<1>3. doc[d].version + 1 \in 1..MAX_VERSION
  BY <1>1, <1>2 DEF HasRoom
<1>4. [doc[d] EXCEPT !.text = s, !.version = @ + 1] \in Policy
  BY <1>2, <1>3 DEF Policy, NoDoc
<1> QED
  BY <1>4 DEF PolicyType, Rewritten

\* It raises the version of that document and leaves the others.
LEMMA RewrittenRaises ==
  ASSUME PolicyType, NEW d \in Doc, NEW s \in Text
  PROVE  /\ Rewritten(d, s)[d].version = doc[d].version + 1
         /\ \A c \in Doc \ {d} : Rewritten(d, s)[c] = doc[c]
<1>1. doc[d] \in [text : Text, version : 0..MAX_VERSION, status : Status]
  BY RegisterAssumption DEF RegisterAssumption, PolicyType, Policy, NoDoc, Text, Status
<1> QED
  BY <1>1 DEF PolicyType, Rewritten

\* The types survive the requests that write documents.
LEMMA BatchType ==
  ASSUME PolicyType, NEW b \in Batch,
         \/ GenerateAll(b) \/ GenerateDies(b)
         \/ \E t \in Template :
              CreateFromTemplate(b, t) \/ RenderAndPersist(b, t) \/ EnrichOne(b, t)
  PROVE  PolicyType' /\ UNCHANGED editor
<1>1. MAX_VERSION \in Nat \ {0}
  BY RegisterAssumption DEF RegisterAssumption
<1>2. [NoDoc EXCEPT !.version = 1] \in Policy
  BY <1>1 DEF NoDoc, Policy, Text, Status
<1> USE DEF PolicyType
<1>4. CASE GenerateAll(b)
  BY <1>4 DEF GenerateAll
<1>5. CASE GenerateDies(b)
  BY <1>5 DEF GenerateDies
<1>6. ASSUME NEW t \in Template, CreateFromTemplate(b, t) PROVE PolicyType' /\ UNCHANGED editor
  <2>1. <<b, t>> \in Doc
    BY DEF Doc
  <2>2. doc' = [doc EXCEPT ![<<b, t>>] = [NoDoc EXCEPT !.version = 1]]
        /\ batch' = [batch EXCEPT ![b].pc = "over"] /\ UNCHANGED editor
    BY <1>6 DEF CreateFromTemplate
  <2>3. doc' \in [Doc -> Policy \cup {NoDoc}]
    BY <1>2, <2>1, <2>2
  <2> QED
    BY <2>2, <2>3
<1>7. ASSUME NEW t \in Template, RenderAndPersist(b, t) PROVE PolicyType' /\ UNCHANGED editor
  <2>1. doc' \in [Doc -> Policy \cup {NoDoc}]
    BY <1>2, <1>7 DEF RenderAndPersist, Doc
  <2>2. PICK ok \in BOOLEAN :
          batch' = [batch EXCEPT ![b] =
             [pc |-> IF @.insert = {t} THEN "rewrite" ELSE "insert",
              insert |-> @.insert \ {t},
              rewrite |-> IF ok THEN @.rewrite \cup {t} ELSE @.rewrite]]
    BY <1>7 DEF RenderAndPersist
  <2>3. batch' \in [Batch -> [pc : {"idle", "insert", "rewrite", "over"},
                             insert : SUBSET Template, rewrite : SUBSET Template]]
    BY <2>2
  <2> QED
    BY <1>7, <2>1, <2>3 DEF RenderAndPersist
<1>8. ASSUME NEW t \in Template, EnrichOne(b, t) PROVE PolicyType' /\ UNCHANGED editor
  <2>1. <<b, t>> \in Doc /\ "ai" \in Text
    BY DEF Doc, Text
  <2>2. doc' = doc \/ doc' = Rewritten(<<b, t>>, "ai")
    BY <1>8 DEF EnrichOne
  <2>3. HasRoom(<<b, t>>)
    BY <1>8 DEF EnrichOne
  <2>4. doc' \in [Doc -> Policy \cup {NoDoc}]
    BY <2>1, <2>2, <2>3, RewrittenType
  <2>5. batch' = [batch EXCEPT ![b].rewrite = @ \ {t}] /\ UNCHANGED editor
    BY <1>8 DEF EnrichOne
  <2> QED
    BY <2>4, <2>5
<1> QED
  BY <1>4, <1>5, <1>6, <1>7, <1>8

\* The types survive what the editors do.
LEMMA EditorType ==
  ASSUME PolicyType, VersionsAhead, NEW e \in Editor,
         \/ TypePolicy(e) \/ SavePolicy(e) \/ CloseEditor(e)
         \/ EnrichRead(e) \/ EnrichWrite(e) \/ EnrichTimesOut(e)
         \/ \E d \in Doc : LoadPolicy(e, d)
  PROVE  PolicyType' /\ UNCHANGED batch
<1>1. Shut \in [open : BOOLEAN, doc : {Shut.doc} \cup Doc, loaded : Policy \cup {NoDoc},
               body : Text, busy : BOOLEAN, read : Text \cup {"none"}]
      /\ Shut.open = FALSE /\ Shut.read = "none"
  BY DEF Shut, Text
<1> DEFINE Editors == [open : BOOLEAN, doc : {Shut.doc} \cup Doc, loaded : Policy \cup {NoDoc},
                       body : Text, busy : BOOLEAN, read : Text \cup {"none"}]
<1>2. editor[e] \in Editors /\ editor[e].loaded.text \in Text
      /\ \A d \in Doc : doc[d].text \in Text
  BY PolicyFields DEF PolicyType
<1>3. ASSUME NEW x \in Editors, x.open \/ x.read # "none" => x.doc \in Doc,
             editor' = [editor EXCEPT ![e] = x], UNCHANGED batch,
             doc' \in [Doc -> Policy \cup {NoDoc}]
      PROVE  PolicyType' /\ UNCHANGED batch
  BY <1>3 DEF PolicyType
<1>4. doc \in [Doc -> Policy \cup {NoDoc}]
  BY DEF PolicyType
<1>5. editor[e].open \/ editor[e].read # "none" => editor[e].doc \in Doc
  BY DEF PolicyType
<1>6. ASSUME NEW d \in Doc, LoadPolicy(e, d) PROVE PolicyType' /\ UNCHANGED batch
  <2> DEFINE x == [open |-> TRUE, doc |-> d, loaded |-> doc[d], body |-> doc[d].text,
                   busy |-> FALSE, read |-> "none"]
  <2>1. x \in Editors
    BY <1>2, <1>4
  <2>2. editor' = [editor EXCEPT ![e] = x] /\ UNCHANGED <<doc, batch>> /\ x.doc \in Doc
    BY <1>6 DEF LoadPolicy
  <2> QED
    BY <1>3, <1>4, <2>1, <2>2
<1>7. CASE TypePolicy(e)
  <2>1. PICK body \in Text : editor' = [editor EXCEPT ![e] = [@ EXCEPT !.body = body]]
    BY <1>2, <1>7 DEF TypePolicy, Text
  <2>2. [editor[e] EXCEPT !.body = body] \in Editors
    BY <1>2
  <2> QED
    BY <1>3, <1>4, <1>5, <1>7, <2>1, <2>2 DEF TypePolicy
<1>8. CASE CloseEditor(e)
  <2>1. CASE editor[e].read = "none"
    BY <1>1, <1>3, <1>4, <1>8, <2>1 DEF CloseEditor
  <2>2. CASE editor[e].read # "none"
    <3>1. [editor[e] EXCEPT !.open = FALSE] \in Editors
      BY <1>2
    <3> QED
      BY <1>3, <1>4, <1>5, <1>8, <2>2, <3>1 DEF CloseEditor
  <2> QED
    BY <2>1, <2>2
<1>9. CASE EnrichRead(e)
  <2>1. [editor[e] EXCEPT !.busy = TRUE, !.read = doc[editor[e].doc].text] \in Editors
        /\ editor[e].doc \in Doc
    BY <1>2, <1>5, <1>9 DEF EnrichRead
  <2>2. [editor EXCEPT ![e].busy = TRUE, ![e].read = doc[editor[e].doc].text]
          = [editor EXCEPT ![e] = [@ EXCEPT !.busy = TRUE, !.read = doc[editor[e].doc].text]]
    BY DEF PolicyType
  <2>3. [editor[e] EXCEPT !.busy = TRUE, !.read = doc[editor[e].doc].text].doc = editor[e].doc
    BY <1>2
  <2> QED
    BY <1>3, <1>4, <1>9, <2>1, <2>2, <2>3 DEF EnrichRead
<1>10. CASE EnrichTimesOut(e)
  <2>1. [editor[e] EXCEPT !.busy = FALSE] \in Editors
    BY <1>2
  <2> QED
    BY <1>3, <1>4, <1>5, <1>10, <2>1 DEF EnrichTimesOut
<1>11. CASE EnrichWrite(e)
  <2>1. editor[e].doc \in Doc /\ HasRoom(editor[e].doc) /\ "ai" \in Text
    BY <1>5, <1>11 DEF EnrichWrite, Text
  <2>2. doc' \in [Doc -> Policy \cup {NoDoc}]
    <3>1. doc' = doc \/ doc' = Rewritten(editor[e].doc, "ai")
      BY <1>11 DEF EnrichWrite
    <3> QED
      BY <1>4, <2>1, <3>1, RewrittenType
  <2>3. CASE ~editor[e].open
    BY <1>1, <1>3, <1>11, <2>2, <2>3 DEF EnrichWrite
  <2>4. CASE editor[e].open
    <3>1. PICK body \in Text : editor' = [editor EXCEPT ![e] =
                 [@ EXCEPT !.read = "none", !.busy = FALSE, !.body = body]]
      <4>1. PICK ok \in BOOLEAN : editor' = [editor EXCEPT ![e] =
                 [@ EXCEPT !.read = "none", !.busy = FALSE,
                           !.body = IF ok /\ editor[e].busy THEN "ai" ELSE editor[e].body]]
        BY <1>11, <2>4 DEF EnrichWrite
      <4>2. (IF ok /\ editor[e].busy THEN "ai" ELSE editor[e].body) \in Text
        BY <1>2, <2>1
      <4> QED
        BY <4>1, <4>2
    <3>2. [editor[e] EXCEPT !.read = "none", !.busy = FALSE, !.body = body] \in Editors
      BY <1>2
    <3> QED
      BY <1>3, <1>11, <2>1, <2>2, <3>1, <3>2 DEF EnrichWrite
  <2> QED
    BY <2>3, <2>4
<1>12. CASE SavePolicy(e)
  <2>1. editor[e].doc \in Doc /\ editor[e].body \in Text
    BY <1>2, <1>5, <1>12 DEF SavePolicy
  <2> DEFINE text == IF editor[e].body = editor[e].loaded.text
                     THEN doc ELSE Rewritten(editor[e].doc, editor[e].body)
  <2>2. text \in [Doc -> Policy \cup {NoDoc}]
    BY <1>4, <1>12, <2>1, RewrittenType DEF SavePolicy
  <2>3. text[editor[e].doc].version > 0
    <3>1. doc[editor[e].doc].version > 0 /\ doc[editor[e].doc].version \in Nat
      BY <1>4, <1>12, <2>1, PolicyFields DEF SavePolicy, VersionsAhead
    <3> QED
      BY <1>4, <2>1, <3>1, PolicyFields DEF Rewritten
  <2>4. ASSUME NEW s \in Status
        PROVE  [text EXCEPT ![editor[e].doc].status = s] \in [Doc -> Policy \cup {NoDoc}]
    <3>1. text[editor[e].doc] \in Policy
      BY <2>1, <2>2, <2>3, PolicyFields
    <3>2. [text[editor[e].doc] EXCEPT !.status = s] \in Policy
      BY <3>1 DEF Policy
    <3> QED
      BY <2>2, <3>2
  <2>5. doc' \in [Doc -> Policy \cup {NoDoc}]
    BY <1>12, <2>2, <2>4 DEF SavePolicy
  <2>6. editor' = [editor EXCEPT ![e] = Shut] /\ UNCHANGED batch
    BY <1>12 DEF SavePolicy
  <2> QED
    BY <1>1, <1>3, <2>5, <2>6
<1> QED
  BY <1>6, <1>7, <1>8, <1>9, <1>10, <1>11, <1>12

\* Every step of a request keeps the invariant: what it inserts was not there,
\* what it rewrites gets the next version.
LEMMA BatchKeeps ==
  ASSUME PolicyInv, NEW b \in Batch,
         \/ GenerateAll(b) \/ GenerateDies(b)
         \/ \E t \in Template :
              CreateFromTemplate(b, t) \/ RenderAndPersist(b, t) \/ EnrichOne(b, t)
  PROVE  PolicyInv'
<1>1. PolicyType' /\ UNCHANGED editor
  BY BatchType DEF PolicyInv
<1>2. \A a \in Batch, t \in Template : <<a, t>> \in Doc /\ doc[<<a, t>>].version \in Nat
  BY PolicyFields DEF PolicyInv, PolicyType, Doc
<1> DEFINE New(c, t) == batch[c].pc = "idle" \/ (batch[c].pc = "insert" /\ t \in batch[c].insert)
<1> DEFINE Fresh == \A c \in Batch, t \in Template : New(c, t) => doc[<<c, t>>].version = 0
           Raises == \A d \in Doc :
              \/ doc'[d] = doc[d]
              \/ doc'[d].version > doc[d].version
              \/ doc'[d].version = doc[d].version /\ doc'[d].text = doc[d].text
<1>3. \A c \in Batch, t \in Template : New(c, t) => doc[<<c, t>>].version = 0
  BY DEF PolicyInv, VersionsAhead
<1>4. ASSUME Raises, Fresh'
      PROVE  PolicyInv'
  <2>1. /\ VersionNamesText'
        /\ \A e \in Editor : editor'[e].open \/ editor'[e].read # "none" =>
             doc'[editor'[e].doc].version > 0
        /\ \A e \in Editor : editor'[e].open =>
             /\ editor'[e].loaded.version > 0
             /\ editor'[e].loaded.version <= doc'[editor'[e].doc].version
    BY <1>1, <1>4, RaisedKeeps
  <2> QED
    BY <1>1, <1>4, <2>1 DEF PolicyInv, VersionsAhead
<1>5. CASE GenerateAll(b)
  BY <1>3, <1>4, <1>5 DEF GenerateAll, PolicyInv, PolicyType
<1>6. CASE GenerateDies(b)
  BY <1>3, <1>4, <1>6 DEF GenerateDies, PolicyInv, PolicyType
<1>7. ASSUME NEW t \in Template, CreateFromTemplate(b, t) PROVE PolicyInv'
  <2>1. doc' = [doc EXCEPT ![<<b, t>>] = [NoDoc EXCEPT !.version = 1]]
        /\ batch' = [batch EXCEPT ![b].pc = "over"] /\ New(b, t)
    BY <1>7 DEF CreateFromTemplate
  <2>2. doc'[<<b, t>>].version = 1 /\ \A d \in Doc \ {<<b, t>>} : doc'[d] = doc[d]
    BY <1>2, <2>1 DEF PolicyInv, PolicyType, NoDoc
  <2>3. \A c \in Batch, u \in Template : New(c, u)' => c # b /\ New(c, u)
    BY <2>1 DEF PolicyInv, PolicyType
  <2>4. Fresh'
    BY <1>2, <1>3, <2>2, <2>3
  <2>5. doc[<<b, t>>].version = 0
    BY <1>3, <2>1
  <2>6. Raises
    BY <2>2, <2>5
  <2> QED
    BY <1>4, <2>4, <2>6
<1>8. ASSUME NEW t \in Template, RenderAndPersist(b, t) PROVE PolicyInv'
  <2>1. PICK ok \in BOOLEAN :
          /\ doc' = IF ok THEN [doc EXCEPT ![<<b, t>>] = [NoDoc EXCEPT !.version = 1]] ELSE doc
          /\ batch' = [batch EXCEPT ![b] =
                 [pc |-> IF @.insert = {t} THEN "rewrite" ELSE "insert",
                  insert |-> @.insert \ {t},
                  rewrite |-> IF ok THEN @.rewrite \cup {t} ELSE @.rewrite]]
          /\ New(b, t)
    BY <1>8 DEF RenderAndPersist
  <2>2. (doc'[<<b, t>>] = doc[<<b, t>>] \/ doc'[<<b, t>>].version = 1)
        /\ \A d \in Doc \ {<<b, t>>} : doc'[d] = doc[d]
    BY <1>2, <2>1 DEF PolicyInv, PolicyType, NoDoc
  <2>3. ASSUME NEW c \in Batch, NEW u \in Template, New(c, u)'
        PROVE  <<c, u>> # <<b, t>> /\ New(c, u)
    <3>1. CASE c = b
      <4>1. batch'[b].insert = batch[b].insert \ {t} /\ batch'[b].pc \in {"rewrite", "insert"}
        BY <2>1 DEF PolicyInv, PolicyType
      <4>2. batch[b].pc = "insert"
        BY <1>8 DEF RenderAndPersist
      <4> QED
        BY <2>3, <3>1, <4>1, <4>2
    <3>2. CASE c # b
      BY <2>1, <2>3, <3>2 DEF PolicyInv, PolicyType
    <3> QED
      BY <3>1, <3>2
  <2>4. Fresh'
    BY <1>2, <1>3, <2>2, <2>3
  <2>5. doc[<<b, t>>].version = 0
    BY <1>3, <2>1
  <2>6. Raises
    BY <2>2, <2>5
  <2> QED
    BY <1>4, <2>4, <2>6
<1>9. ASSUME NEW t \in Template, EnrichOne(b, t) PROVE PolicyInv'
  <2>1. batch[b].pc = "rewrite" /\ batch' = [batch EXCEPT ![b].rewrite = @ \ {t}]
        /\ (doc' = doc \/ doc' = Rewritten(<<b, t>>, "ai"))
    BY <1>9 DEF EnrichOne
  <2>2. (doc'[<<b, t>>] = doc[<<b, t>>] \/ doc'[<<b, t>>].version = doc[<<b, t>>].version + 1)
        /\ \A d \in Doc \ {<<b, t>>} : doc'[d] = doc[d]
    <3>1. <<b, t>> \in Doc /\ "ai" \in Text
      BY <1>2 DEF Text
    <3> QED
      BY <2>1, <3>1, RewrittenRaises DEF PolicyInv
  <2>3. \A c \in Batch, u \in Template : New(c, u)' => c # b /\ New(c, u)
    BY <2>1 DEF PolicyInv, PolicyType
  <2>4. Fresh'
    BY <1>2, <1>3, <2>2, <2>3
  <2>5. Raises
    BY <1>2, <2>2
  <2> QED
    BY <1>4, <2>4, <2>5
<1> QED
  BY <1>5, <1>6, <1>7, <1>8, <1>9

\* Every step of an editor keeps the invariant.
LEMMA EditorKeeps ==
  ASSUME PolicyInv, NEW e \in Editor,
         \/ TypePolicy(e) \/ SavePolicy(e) \/ CloseEditor(e)
         \/ EnrichRead(e) \/ EnrichWrite(e) \/ EnrichTimesOut(e)
         \/ \E d \in Doc : LoadPolicy(e, d)
  PROVE  PolicyInv'
<1>1. PolicyType' /\ UNCHANGED batch
  BY EditorType DEF PolicyInv
<1>2. \A d \in Doc : doc[d].version \in Nat
  BY PolicyFields DEF PolicyInv, PolicyType
<1>3. editor[e].open \/ editor[e].read # "none" =>
        editor[e].doc \in Doc /\ doc[editor[e].doc].version > 0
  BY DEF PolicyInv, PolicyType, VersionsAhead
<1>4. Shut.open = FALSE /\ Shut.read = "none"
  BY DEF Shut
<1> DEFINE Raises == \A d \in Doc :
              \/ doc'[d] = doc[d]
              \/ doc[d].version > 0 /\ doc'[d].version > doc[d].version
              \/ doc'[d].version = doc[d].version /\ doc'[d].text = doc[d].text
           Keeps == \A f \in Editor :
              /\ editor'[f].open => /\ editor[f].open /\ editor'[f].doc = editor[f].doc
                                    /\ editor'[f].loaded = editor[f].loaded
              /\ editor'[f].read # "none" => /\ editor[f].open \/ editor[f].read # "none"
                                             /\ editor'[f].doc = editor[f].doc
<1>5. ASSUME Raises, Keeps PROVE PolicyInv'
  <2>1. /\ VersionNamesText'
        /\ \A f \in Editor : editor'[f].open \/ editor'[f].read # "none" =>
             doc'[editor'[f].doc].version > 0
        /\ \A f \in Editor : editor'[f].open =>
             /\ editor'[f].loaded.version > 0
             /\ editor'[f].loaded.version <= doc'[editor'[f].doc].version
    BY <1>1, <1>5, RaisedKeeps
  <2>2. \A b \in Batch, t \in Template :
         batch[b].pc = "idle" \/ (batch[b].pc = "insert" /\ t \in batch[b].insert)
           => doc'[<<b, t>>].version = 0
    BY <1>2, <1>5 DEF PolicyInv, VersionsAhead, Doc
  <2> QED
    BY <1>1, <2>1, <2>2 DEF PolicyInv, VersionsAhead
<1>6. CASE TypePolicy(e) \/ CloseEditor(e) \/ EnrichRead(e) \/ EnrichTimesOut(e)
  <2>1. doc' = doc
    BY <1>6 DEF TypePolicy, CloseEditor, EnrichRead, EnrichTimesOut
  <2>2. CASE TypePolicy(e)
    BY <1>5, <2>1, <2>2 DEF TypePolicy, PolicyInv, PolicyType
  <2>3. CASE CloseEditor(e)
    BY <1>4, <1>5, <2>1, <2>3 DEF CloseEditor, PolicyInv, PolicyType
  <2>4. CASE EnrichRead(e)
    BY <1>5, <2>1, <2>4 DEF EnrichRead, PolicyInv, PolicyType
  <2>5. CASE EnrichTimesOut(e)
    BY <1>5, <2>1, <2>5 DEF EnrichTimesOut, PolicyInv, PolicyType
  <2> QED
    BY <1>6, <2>2, <2>3, <2>4, <2>5
<1>7. CASE EnrichWrite(e)
  <2>1. doc' = doc \/ doc' = Rewritten(editor[e].doc, "ai")
    BY <1>7 DEF EnrichWrite
  <2>2. Raises
    <3>1. editor[e].doc \in Doc /\ doc[editor[e].doc].version > 0 /\ "ai" \in Text
      BY <1>3, <1>7 DEF EnrichWrite, Text
    <3>2. CASE doc' = doc
      BY <3>2
    <3>3. CASE doc' = Rewritten(editor[e].doc, "ai")
      <4>1. /\ doc'[editor[e].doc].version = doc[editor[e].doc].version + 1
            /\ \A c \in Doc \ {editor[e].doc} : doc'[c] = doc[c]
        BY <3>1, <3>3, RewrittenRaises DEF PolicyInv
      <4>2. doc'[editor[e].doc].version > doc[editor[e].doc].version
        BY <1>2, <3>1, <4>1
      <4>3. ASSUME NEW d \in Doc
            PROVE  \/ doc'[d] = doc[d]
                   \/ doc[d].version > 0 /\ doc'[d].version > doc[d].version
                   \/ doc'[d].version = doc[d].version /\ doc'[d].text = doc[d].text
        <5>1. CASE d = editor[e].doc
          BY <3>1, <4>2, <5>1
        <5>2. CASE d # editor[e].doc
          BY <4>1, <5>2
        <5> QED
          BY <5>1, <5>2
      <4> QED
        BY <4>3
    <3> QED
      BY <2>1, <3>2, <3>3
  <2>3. CASE ~editor[e].open
    BY <1>4, <1>5, <1>7, <2>2, <2>3 DEF EnrichWrite, PolicyInv, PolicyType
  <2>4. CASE editor[e].open
    <3>1. PICK ok \in BOOLEAN : editor' = [editor EXCEPT ![e] =
                 [@ EXCEPT !.read = "none", !.busy = FALSE,
                           !.body = IF ok /\ editor[e].busy THEN "ai" ELSE editor[e].body]]
      BY <1>7, <2>4 DEF EnrichWrite
    <3>2. Keeps
      BY <3>1 DEF PolicyInv, PolicyType
    <3> QED
      BY <1>5, <2>2, <3>2
  <2> QED
    BY <2>3, <2>4
<1>8. CASE SavePolicy(e)
  <2> DEFINE text == IF editor[e].body = editor[e].loaded.text
                     THEN doc ELSE Rewritten(editor[e].doc, editor[e].body)
  <2>1. editor[e].open /\ editor[e].doc \in Doc /\ doc[editor[e].doc].version > 0
    BY <1>3, <1>8 DEF SavePolicy
  <2>2. doc' = text \/ \E s \in Status : doc' = [text EXCEPT ![editor[e].doc].status = s]
    BY <1>8 DEF SavePolicy
  <2>3. /\ DOMAIN text = Doc /\ \A d \in Doc \ {editor[e].doc} : text[d] = doc[d]
        /\ \/ text[editor[e].doc].version = doc[editor[e].doc].version + 1
           \/ text[editor[e].doc] = doc[editor[e].doc]
        /\ text[editor[e].doc] \in Policy \cup {NoDoc}
    <3>1. CASE text = doc
      BY <2>1, <3>1 DEF PolicyInv, PolicyType
    <3>2. CASE text # doc
      <4>1. text = Rewritten(editor[e].doc, editor[e].body) /\ HasRoom(editor[e].doc)
            /\ editor[e].body \in Text
        BY <1>8, <3>2 DEF SavePolicy, PolicyInv, PolicyType
      <4>2. text \in [Doc -> Policy \cup {NoDoc}]
        BY <2>1, <4>1, RewrittenType DEF PolicyInv
      <4> QED
        BY <2>1, <4>1, <4>2, RewrittenRaises DEF PolicyInv
    <3> QED
      BY <3>1, <3>2
  <2>4. \A d \in Doc \ {editor[e].doc} : doc'[d] = doc[d]
    BY <2>2, <2>3
  <2>5. doc'[editor[e].doc].version = text[editor[e].doc].version
        /\ doc'[editor[e].doc].text = text[editor[e].doc].text
    <3>1. ASSUME NEW s \in Status, doc' = [text EXCEPT ![editor[e].doc].status = s]
          PROVE  /\ doc'[editor[e].doc].version = text[editor[e].doc].version
                 /\ doc'[editor[e].doc].text = text[editor[e].doc].text
      BY <2>1, <2>3, <3>1 DEF Policy, NoDoc
    <3> QED
      BY <2>2, <3>1
  <2> HIDE DEF text
  <2>6. Raises
    <3>1. \/ doc'[editor[e].doc].version = doc[editor[e].doc].version + 1
          \/ /\ doc'[editor[e].doc].version = doc[editor[e].doc].version
             /\ doc'[editor[e].doc].text = doc[editor[e].doc].text
      BY <2>3, <2>5
    <3>2. \/ doc'[editor[e].doc].version > doc[editor[e].doc].version
          \/ /\ doc'[editor[e].doc].version = doc[editor[e].doc].version
             /\ doc'[editor[e].doc].text = doc[editor[e].doc].text
      BY <1>2, <2>1, <3>1
    <3>3. ASSUME NEW d \in Doc
          PROVE  \/ doc'[d] = doc[d]
                 \/ doc[d].version > 0 /\ doc'[d].version > doc[d].version
                 \/ doc'[d].version = doc[d].version /\ doc'[d].text = doc[d].text
      <4>1. CASE d = editor[e].doc
        BY <2>1, <3>2, <4>1
      <4>2. CASE d # editor[e].doc
        BY <2>4, <4>2
      <4> QED
        BY <4>1, <4>2
    <3> QED
      BY <3>3
  <2>7. Keeps
    BY <1>4, <1>8 DEF SavePolicy, PolicyInv, PolicyType
  <2> QED
    BY <1>5, <2>6, <2>7
<1>9. ASSUME NEW d \in Doc, LoadPolicy(e, d) PROVE PolicyInv'
  <2>1. /\ doc' = doc /\ doc[d].version > 0
        /\ editor' = [editor EXCEPT ![e] = [open |-> TRUE, doc |-> d, loaded |-> doc[d],
             body |-> doc[d].text, busy |-> FALSE, read |-> "none"]]
    BY <1>9 DEF LoadPolicy, Exists
  <2>2. /\ editor'[e].open /\ editor'[e].doc = d /\ editor'[e].loaded = doc[d]
        /\ \A f \in Editor \ {e} : editor'[f] = editor[f]
    BY <2>1 DEF PolicyInv, PolicyType
  <2>3. \A f \in Editor : editor[f].open /\ editor[f].doc = d
                            /\ editor[f].loaded.version = doc[d].version
          => editor[f].loaded.text = doc[d].text
    BY DEF PolicyInv, VersionNamesText
  <2>4. VersionNamesText'
    BY <2>1, <2>2, <2>3 DEF PolicyInv, VersionNamesText
  <2>5. VersionsAhead'
    BY <1>1, <1>2, <2>1, <2>2 DEF PolicyInv, VersionsAhead
  <2> QED
    BY <1>1, <2>4, <2>5 DEF PolicyInv
<1> QED
  BY <1>6, <1>7, <1>8, <1>9

\* The tables of a questionnaire and of what works on it.
ItemType ==
    /\ item \in [Item -> [there : BOOLEAN, answer : Answer \cup {"none"},
                          confidence : Confidence, pass : 0..MAX_COUNT, fail : 0..MAX_COUNT]]
    /\ byHand \in [Item -> Answer \cup {"none"}]
    /\ edits \in 0..MAX_EDITS /\ asking \subseteq Item /\ shown \subseteq Item
    /\ queue \subseteq Item /\ worker \in [Worker -> Item \cup {"none"}]

\* Whatever a suggestion is asked for, shown, queued or in a worker's hand is an
\* item that is there; one that is not there yet is as an INSERT finds it.
ItemsThere ==
    /\ \A i \in asking \cup shown \cup queue : item[i].there
    /\ \A w \in Worker : worker[w] # "none" => item[worker[w]].there
    /\ \A i \in Item : ~item[i].there =>
         item[i].answer = "none" /\ item[i].confidence = "none" /\ byHand[i] = "none"

ItemInv == ItemType /\ ItemsThere /\ LabelIsTrue

\* What the label of one item says of its answer, and of the one picked by hand.
TrueLabel(x, hand) ==
    /\ x.confidence \in {"auto-high", "auto-medium"} =>
         /\ (x.answer = "no") = (x.pass = 0)
         /\ (x.answer = "yes") = (x.fail = 0)
         /\ x.pass + x.fail > 0
    /\ x.confidence = "ai-suggested" \/ hand \in {"none", x.answer}

\* A questionnaire starts empty.
LEMMA ItemInvInit == RegisterInit => ItemInv
<1> SUFFICES ASSUME RegisterInit PROVE ItemInv
  OBVIOUS
<1>1. 0 \in 0..MAX_COUNT /\ 0 \in 0..MAX_EDITS
  BY RegisterAssumption DEF RegisterAssumption
<1>2. ItemType
  BY <1>1 DEF RegisterInit, ItemType, NoItem, Confidence
<1>3. ItemsThere /\ LabelIsTrue
  BY DEF RegisterInit, ItemsThere, LabelIsTrue, NoItem
<1> QED
  BY <1>2, <1>3 DEF ItemInv

\* A step that rewrites one item that stays or comes there, with a label that is
\* true of it, and lets nothing work on items that are not there.
LEMMA OneItemKeeps ==
  ASSUME ItemInv, NEW i \in Item,
         NEW x \in [there : BOOLEAN, answer : Answer \cup {"none"},
                    confidence : Confidence, pass : 0..MAX_COUNT, fail : 0..MAX_COUNT],
         NEW hand \in Answer \cup {"none"},
         item' = [item EXCEPT ![i] = x], byHand' = [byHand EXCEPT ![i] = hand],
         x.there, TrueLabel(x, hand),
         edits' \in 0..MAX_EDITS, asking' \subseteq asking, UNCHANGED shown,
         queue' \subseteq queue, worker' \in [Worker -> Item \cup {"none"}],
         \A w \in Worker : worker'[w] \in {"none", worker[w]}
  PROVE  ItemInv'
<1>1. ItemType'
  BY DEF ItemInv, ItemType
<1>2. item'[i] = x /\ byHand'[i] = hand
      /\ \A j \in Item \ {i} : item'[j] = item[j] /\ byHand'[j] = byHand[j]
  BY DEF ItemInv, ItemType
<1>3. \A j \in Item : item[j].there => item'[j].there
  BY <1>2
<1>4. ItemsThere'
  <2>1. \A j \in asking' \cup shown' \cup queue' : item'[j].there
    BY <1>3 DEF ItemInv, ItemsThere, ItemType
  <2>2. ASSUME NEW w \in Worker, worker'[w] # "none" PROVE item'[worker'[w]].there
    <3>1. worker'[w] = worker[w] /\ worker[w] \in Item /\ item[worker[w]].there
      BY <2>2 DEF ItemInv, ItemsThere, ItemType
    <3> QED
      BY <1>3, <3>1
  <2>3. \A j \in Item : ~item'[j].there =>
          item'[j].answer = "none" /\ item'[j].confidence = "none" /\ byHand'[j] = "none"
    BY <1>2 DEF ItemInv, ItemsThere
  <2> QED
    BY <2>1, <2>2, <2>3 DEF ItemsThere
<1>5. LabelIsTrue'
  <2>1. TrueLabel(item'[i], byHand'[i])
    BY <1>2
  <2>2. ASSUME NEW j \in Item \ {i} PROVE TrueLabel(item'[j], byHand'[j])
    BY <1>2 DEF ItemInv, LabelIsTrue, TrueLabel
  <2>3. \A j \in Item : TrueLabel(item'[j], byHand'[j])
    BY <2>1, <2>2
  <2> QED
    BY <2>3 DEF LabelIsTrue, TrueLabel
<1> QED
  BY <1>1, <1>4, <1>5 DEF ItemInv

\* What the model answers is labelled as the model's.
LEMMA SuggestedKeeps ==
  ASSUME ItemInv, NEW i \in Item, item[i].there, Suggested(i),
         edits' \in 0..MAX_EDITS, asking' \subseteq asking, UNCHANGED shown,
         queue' \subseteq queue, worker' \in [Worker -> Item \cup {"none"}],
         \A w \in Worker : worker'[w] \in {"none", worker[w]}
  PROVE  ItemInv'
<1>1. item[i] \in [there : BOOLEAN, answer : Answer \cup {"none"},
                  confidence : Confidence, pass : 0..MAX_COUNT, fail : 0..MAX_COUNT]
      /\ byHand[i] \in Answer \cup {"none"}
  BY DEF ItemInv, ItemType
<1>2. byHand' = [byHand EXCEPT ![i] = byHand[i]]
  BY DEF Suggested, ItemInv, ItemType
<1>3. CASE UNCHANGED item
  <2>1. item' = [item EXCEPT ![i] = item[i]]
    BY <1>3 DEF ItemInv, ItemType
  <2>2. TrueLabel(item[i], byHand[i])
    BY DEF ItemInv, LabelIsTrue, TrueLabel
  <2> QED
    BY <1>1, <1>2, <2>1, <2>2, OneItemKeeps
<1>4. CASE \E a \in Answer :
             item' = [item EXCEPT ![i].answer = a, ![i].confidence = "ai-suggested"]
  <2>1. PICK a \in Answer :
             item' = [item EXCEPT ![i].answer = a, ![i].confidence = "ai-suggested"]
    BY <1>4
  <2> DEFINE x == [item[i] EXCEPT !.answer = a, !.confidence = "ai-suggested"]
  <2>2. x \in [there : BOOLEAN, answer : Answer \cup {"none"},
               confidence : Confidence, pass : 0..MAX_COUNT, fail : 0..MAX_COUNT]
        /\ x.there /\ x.confidence = "ai-suggested"
    BY <1>1 DEF Confidence
  <2>3. TrueLabel(x, byHand[i])
    BY <2>2 DEF TrueLabel
  <2>4. item' = [item EXCEPT ![i] = x]
    BY <1>1, <2>1 DEF ItemInv, ItemType
  <2> HIDE DEF x
  <2> QED
    BY <1>1, <1>2, <2>2, <2>3, <2>4, OneItemKeeps
<1> QED
  BY <1>3, <1>4 DEF Suggested

\* The answer a scan fills in is the one its evidence supports.
LEMMA AutofillTrue ==
  ASSUME NEW mapped \in BOOLEAN, NEW pass \in Nat, NEW fail \in Nat
  PROVE  /\ Autofill(mapped, pass, fail).answer \in {"none", "yes", "no", "partial"}
         /\ Autofill(mapped, pass, fail).confidence \in {"manual", "auto-high", "auto-medium"}
         /\ (Autofill(mapped, pass, fail).answer = "none")
              = (Autofill(mapped, pass, fail).confidence = "manual")
         /\ Autofill(mapped, pass, fail).answer # "none" =>
              /\ mapped /\ pass + fail > 0
              /\ (Autofill(mapped, pass, fail).answer = "no") = (pass = 0)
              /\ (Autofill(mapped, pass, fail).answer = "yes") = (fail = 0)
<1>1. CASE ~mapped \/ pass + fail = 0
  <2>1. Autofill(mapped, pass, fail) = [answer |-> "none", confidence |-> "manual"]
    BY <1>1 DEF Autofill
  <2> QED
    BY <2>1
<1>2. CASE mapped /\ pass > 0 /\ fail = 0
  <2>1. Autofill(mapped, pass, fail) = [answer |-> "yes", confidence |-> "auto-high"]
    BY <1>2 DEF Autofill
  <2>2. /\ Autofill(mapped, pass, fail).answer = "yes"
        /\ Autofill(mapped, pass, fail).confidence = "auto-high"
    BY <2>1
  <2>3. mapped /\ pass + fail > 0 /\ pass # 0 /\ fail = 0
    BY <1>2
  <2> QED
    BY <2>2, <2>3
<1>3. CASE mapped /\ pass = 0 /\ fail > 0
  <2>1. Autofill(mapped, pass, fail) = [answer |-> "no", confidence |-> "auto-high"]
    BY <1>3 DEF Autofill
  <2>2. /\ Autofill(mapped, pass, fail).answer = "no"
        /\ Autofill(mapped, pass, fail).confidence = "auto-high"
    BY <2>1
  <2>3. mapped /\ pass + fail > 0 /\ pass = 0 /\ fail # 0
    BY <1>3
  <2> QED
    BY <2>2, <2>3
<1>4. CASE mapped /\ pass > 0 /\ fail > 0
  <2>1. Autofill(mapped, pass, fail) = [answer |-> "partial", confidence |-> "auto-medium"]
    BY <1>4 DEF Autofill
  <2>2. /\ Autofill(mapped, pass, fail).answer = "partial"
        /\ Autofill(mapped, pass, fail).confidence = "auto-medium"
    BY <2>1
  <2>3. mapped /\ pass + fail > 0 /\ pass # 0 /\ fail # 0
    BY <1>4
  <2> QED
    BY <2>2, <2>3
<1>5. pass = 0 \/ pass > 0
  OBVIOUS
<1>6. fail = 0 \/ fail > 0
  OBVIOUS
<1> QED
  BY <1>1, <1>2, <1>3, <1>4, <1>5, <1>6

\* Whoever writes an item keeps its label true.
LEMMA WriterKeeps ==
  ASSUME ItemInv, NEW i \in Item,
         \/ CreateItem(i) \/ FromExcel(i) \/ PatchItem(i) \/ AskSuggestion(i) \/ SuggestItem(i)
  PROVE  ItemInv'
<1>1. 0 \in 0..MAX_COUNT /\ MAX_COUNT \in Nat /\ MAX_EDITS \in Nat
  BY RegisterAssumption DEF RegisterAssumption
<1> DEFINE Items == [there : BOOLEAN, answer : Answer \cup {"none"},
                     confidence : Confidence, pass : 0..MAX_COUNT, fail : 0..MAX_COUNT]
<1>2. item[i] \in Items /\ edits \in 0..MAX_EDITS /\ worker \in [Worker -> Item \cup {"none"}]
      /\ item \in [Item -> Items]
  BY DEF ItemInv, ItemType
<1>3. byHand \in [Item -> Answer \cup {"none"}]
  BY DEF ItemInv, ItemType
<1>4. CASE CreateItem(i)
  <2>1. PICK mapped \in BOOLEAN, pass \in 0..MAX_COUNT, fail \in 0..MAX_COUNT :
          item' = [item EXCEPT ![i] = [there |-> TRUE,
                 answer |-> Autofill(mapped, pass, fail).answer,
                 confidence |-> Autofill(mapped, pass, fail).confidence,
                 pass |-> (IF mapped THEN <<pass, fail>> ELSE <<0, 0>>)[1],
                 fail |-> (IF mapped THEN <<pass, fail>> ELSE <<0, 0>>)[2]]]
    BY <1>4 DEF CreateItem
  <2> DEFINE a == Autofill(mapped, pass, fail)
             x == [there |-> TRUE, answer |-> a.answer, confidence |-> a.confidence,
                   pass |-> IF mapped THEN pass ELSE 0, fail |-> IF mapped THEN fail ELSE 0]
  <2>2. /\ a.answer \in {"none", "yes", "no", "partial"}
        /\ a.confidence \in {"manual", "auto-high", "auto-medium"}
        /\ (a.answer = "none") = (a.confidence = "manual")
        /\ a.answer # "none" =>
             /\ mapped /\ pass + fail > 0
             /\ (a.answer = "no") = (pass = 0)
             /\ (a.answer = "yes") = (fail = 0)
    BY <1>1, AutofillTrue
  <2>3. item' = [item EXCEPT ![i] = x]
    BY <2>1
  <2>4. ~item[i].there /\ UNCHANGED <<byHand, edits, asking, shown, queue, worker>>
    BY <1>4 DEF CreateItem
  <2>5. byHand[i] = "none" /\ byHand' = [byHand EXCEPT ![i] = "none"]
    BY <1>3, <2>4 DEF ItemInv, ItemsThere
  <2>6. x \in Items /\ x.there
    BY <1>1, <2>2 DEF Answer, Confidence
  <2>7. TrueLabel(x, "none")
    <3> HIDE DEF a
    <3>1. CASE a.answer = "none"
      <4>1. x.confidence = "manual"
        BY <2>2, <3>1
      <4> QED
        BY <4>1 DEF TrueLabel
    <3>2. CASE a.answer # "none"
      <4>1. x.answer = a.answer /\ x.pass = pass /\ x.fail = fail
        BY <2>2, <3>2
      <4> QED
        BY <2>2, <3>2, <4>1 DEF TrueLabel
    <3> QED
      BY <3>1, <3>2
  <2> HIDE DEF x
  <2> QED
    BY <1>2, <2>3, <2>4, <2>5, <2>6, <2>7, OneItemKeeps
<1>5. CASE FromExcel(i)
  <2> DEFINE x == [item[i] EXCEPT !.there = TRUE]
  <2>1. item' = [item EXCEPT ![i] = x] /\ ~item[i].there
        /\ UNCHANGED <<byHand, edits, asking, shown, queue, worker>>
    BY <1>5 DEF FromExcel
  <2>2. item[i].answer = "none" /\ item[i].confidence = "none" /\ byHand[i] = "none"
    BY <2>1 DEF ItemInv, ItemsThere
  <2>3. x \in Items /\ x.there /\ x.answer = "none" /\ x.confidence = "none"
    BY <1>2, <2>2
  <2>4. TrueLabel(x, "none")
    BY <2>3 DEF TrueLabel
  <2>5. byHand' = [byHand EXCEPT ![i] = "none"]
    BY <1>3, <2>1, <2>2
  <2> HIDE DEF x
  <2> QED
    BY <1>2, <2>1, <2>3, <2>4, <2>5, OneItemKeeps
<1>6. CASE PatchItem(i)
  <2>1. PICK a \in Answer \cup {"none"} :
          /\ item' = [item EXCEPT ![i].answer = a, ![i].confidence = "manual"]
          /\ byHand' = [byHand EXCEPT ![i] = a]
    BY <1>6 DEF PatchItem
  <2>2. item[i].there /\ edits' \in 0..MAX_EDITS /\ UNCHANGED <<asking, shown, queue, worker>>
    <3>1. edits < MAX_EDITS /\ edits' = edits + 1
      BY <1>6 DEF PatchItem
    <3>2. edits' \in 0..MAX_EDITS
      BY <1>1, <1>2, <3>1
    <3> QED
      BY <1>6, <3>2 DEF PatchItem
  <2> DEFINE x == [item[i] EXCEPT !.answer = a, !.confidence = "manual"]
  <2>3. x \in Items /\ x.there /\ x.answer = a /\ x.confidence = "manual"
    BY <1>2, <2>2 DEF Confidence
  <2>4. TrueLabel(x, a)
    BY <2>3 DEF TrueLabel
  <2>5. item' = [item EXCEPT ![i] = x]
    BY <1>2, <2>1
  <2> HIDE DEF x
  <2> QED
    BY <1>2, <2>1, <2>2, <2>3, <2>4, <2>5, OneItemKeeps
<1>7. CASE AskSuggestion(i)
  <2>1. item[i].there /\ asking' = asking \cup {i}
        /\ UNCHANGED <<item, byHand, edits, shown, queue, worker>>
    BY <1>7 DEF AskSuggestion
  <2>2. ItemType' /\ LabelIsTrue'
    BY <2>1 DEF ItemInv, ItemType, LabelIsTrue
  <2>3. ItemsThere'
    BY <2>1 DEF ItemInv, ItemsThere
  <2> QED
    BY <2>2, <2>3 DEF ItemInv
<1>8. CASE SuggestItem(i)
  <2>1. item[i].there
    BY <1>8 DEF SuggestItem, ItemInv, ItemsThere
  <2>2. Suggested(i) /\ asking' = asking \ {i} /\ UNCHANGED <<edits, shown, queue, worker>>
    BY <1>8 DEF SuggestItem
  <2> QED
    BY <1>2, <2>1, <2>2, SuggestedKeeps
<1> QED
  BY <1>4, <1>5, <1>6, <1>7, <1>8

\* Loading the view, "Suggest all" and its workers only touch items that are there.
LEMMA SuggestAllKeeps ==
  ASSUME ItemInv,
         LoadView \/ SuggestAll \/ \E w \in Worker : TakeItem(w) \/ WorkerDone(w)
  PROVE  ItemInv'
<1>1. CASE LoadView
  BY <1>1 DEF LoadView, ItemInv, ItemType, ItemsThere, LabelIsTrue
<1>2. CASE SuggestAll
  BY <1>2 DEF SuggestAll, ItemInv, ItemType, ItemsThere, LabelIsTrue
<1>3. ASSUME NEW w \in Worker, TakeItem(w) PROVE ItemInv'
  <2>1. PICK i \in queue : worker' = [worker EXCEPT ![w] = i] /\ queue' = queue \ {i}
                           /\ UNCHANGED <<item, byHand, edits, asking, shown>>
    BY <1>3 DEF TakeItem, Ask
  <2>2. i \in Item /\ item[i].there
    BY DEF ItemInv, ItemType, ItemsThere
  <2>3. ItemType' /\ LabelIsTrue'
    BY <2>1, <2>2 DEF ItemInv, ItemType, LabelIsTrue
  <2>4. ItemsThere'
    BY <2>1, <2>2 DEF ItemInv, ItemType, ItemsThere
  <2> QED
    BY <2>3, <2>4 DEF ItemInv
<1>4. ASSUME NEW w \in Worker, WorkerDone(w) PROVE ItemInv'
  <2>1. /\ Suggested(worker[w]) /\ worker[w] # "none"
        /\ worker' = [worker EXCEPT ![w] = "none"]
        /\ UNCHANGED <<edits, asking, shown, queue>>
    BY <1>4 DEF WorkerDone
  <2>2. worker[w] \in Item /\ item[worker[w]].there
    BY <2>1 DEF ItemInv, ItemType, ItemsThere
  <2>3. edits' \in 0..MAX_EDITS /\ worker' \in [Worker -> Item \cup {"none"}]
        /\ \A v \in Worker : worker'[v] \in {"none", worker[v]}
    BY <2>1 DEF ItemInv, ItemType
  <2> QED
    BY <2>1, <2>2, <2>3, SuggestedKeeps
<1> QED
  BY <1>1, <1>2, <1>3, <1>4

-----------------------------------------------------------------------------
\* The pages and what each session is about to write.
TrustType ==
    /\ page \in [Tenant -> [slug : Slug \cup {"none"}, published : BOOLEAN]]
    /\ put \in [Admin -> Slug \cup {"none"}]

TrustInv == TrustType /\ SlugServesOne

\* The unique slug of the table keeps addresses apart, whatever was checked before.
LEMMA TrustKeeps == TrustInv /\ TrustNext => TrustInv'
<1> SUFFICES ASSUME TrustInv, TrustNext PROVE TrustInv'
  OBVIOUS
<1>1. TenantOf \in [Admin -> Tenant]
  BY RegisterAssumption DEF RegisterAssumption
<1>2. ASSUME NEW a \in Admin, NEW s \in Slug, CheckSlug(a, s) PROVE TrustInv'
  BY <1>2 DEF CheckSlug, TrustInv, TrustType, SlugServesOne
<1>3. ASSUME NEW a \in Admin, UpsertPage(a) PROVE TrustInv'
  <2>1. TrustType'
    BY <1>1, <1>3 DEF UpsertPage, TrustInv, TrustType
  <2>2. CASE \E t \in Tenant \ {TenantOf[a]} : page[t].slug = put[a]
    BY <1>3, <2>1, <2>2 DEF UpsertPage, TrustInv, SlugServesOne
  <2>3. CASE ~\E t \in Tenant \ {TenantOf[a]} : page[t].slug = put[a]
    <3>1. PICK published \in BOOLEAN :
            page' = [page EXCEPT ![TenantOf[a]] = [slug |-> put[a], published |-> published]]
      BY <1>3, <2>3 DEF UpsertPage
    <3>2. page'[TenantOf[a]].slug = put[a]
          /\ \A t \in Tenant \ {TenantOf[a]} : page'[t] = page[t] /\ page[t].slug # put[a]
      BY <1>1, <2>3, <3>1 DEF TrustInv, TrustType
    <3>3. SlugServesOne'
      BY <3>2 DEF TrustInv, SlugServesOne
    <3> QED
      BY <2>1, <3>3 DEF TrustInv
  <2> QED
    BY <2>2, <2>3
<1> QED
  BY <1>2, <1>3 DEF TrustNext

\* Each half is kept by the steps of the others.
LEMMA RegistersApart ==
  /\ PolicyInv /\ UNCHANGED policyVars => PolicyInv'
  /\ ItemInv /\ UNCHANGED itemVars => ItemInv'
  /\ TrustInv /\ UNCHANGED trustVars => TrustInv'
<1>1. PolicyInv /\ UNCHANGED policyVars => PolicyInv'
  BY DEF policyVars, PolicyInv, PolicyType, VersionsAhead, VersionNamesText
<1>2. ItemInv /\ UNCHANGED itemVars => ItemInv'
  BY DEF itemVars, ItemInv, ItemType, ItemsThere, LabelIsTrue
<1>3. TrustInv /\ UNCHANGED trustVars => TrustInv'
  BY DEF trustVars, TrustInv, TrustType, SlugServesOne
<1> QED
  BY <1>1, <1>2, <1>3

RegisterInv == scenario \in Scenario /\ PolicyInv /\ ItemInv /\ TrustInv

\* The invariant holds of empty registers.
LEMMA RegisterInvInit == RegisterInit => RegisterInv
<1>1. RegisterInit => TrustInv
  BY DEF RegisterInit, TrustInv, TrustType, SlugServesOne
<1> QED
  BY <1>1, PolicyInvInit, ItemInvInit DEF RegisterInit, RegisterInv

\* Every step of a register keeps it.
LEMMA RegisterInvNext == RegisterInv /\ [RegisterNext]_registerVars => RegisterInv'
<1> SUFFICES ASSUME RegisterInv, [RegisterNext]_registerVars PROVE RegisterInv'
  OBVIOUS
<1>1. CASE PolicyNext
  <2>1. UNCHANGED <<scenario, itemVars, trustVars>>
    BY <1>1 DEF PolicyNext, GenerateAll, GenerateDies, CreateFromTemplate, RenderAndPersist,
         EnrichOne, TypePolicy, SavePolicy, CloseEditor, EnrichRead, EnrichWrite, EnrichTimesOut,
         LoadPolicy, OnPolicies
  <2>2. PolicyInv'
    BY <1>1, BatchKeeps, EditorKeeps DEF PolicyNext, RegisterInv
  <2> QED
    BY <2>1, <2>2, RegistersApart DEF RegisterInv
<1>2. CASE ItemNext
  <2>1. UNCHANGED <<scenario, policyVars, trustVars>>
    BY <1>2 DEF ItemNext, LoadView, SuggestAll, CreateItem, FromExcel, PatchItem, AskSuggestion,
         SuggestItem, TakeItem, WorkerDone, OnItems
  <2>2. ItemInv'
    BY <1>2, WriterKeeps, SuggestAllKeeps DEF ItemNext, RegisterInv
  <2> QED
    BY <2>1, <2>2, RegistersApart DEF RegisterInv
<1>3. CASE TrustNext
  <2>1. UNCHANGED <<scenario, policyVars, itemVars>>
    BY <1>3 DEF TrustNext, CheckSlug, UpsertPage, OnTrust
  <2>2. TrustInv'
    BY <1>3, TrustKeeps DEF RegisterInv
  <2> QED
    BY <2>1, <2>2, RegistersApart DEF RegisterInv
<1>4. CASE UNCHANGED registerVars
  BY <1>4, RegistersApart DEF registerVars, RegisterInv
<1> QED
  BY <1>1, <1>2, <1>3, <1>4 DEF RegisterNext

\* The invariant holds throughout.
LEMMA RegisterInvAlways == RegisterSpec => []RegisterInv
  BY RegisterInvInit, RegisterInvNext, PTL DEF RegisterSpec

\* Where there is a document at all (a closed editor has to name one), the
\* tables, the editors and the workers have their types.
THEOREM RegisterTypeCorrect ==
  ASSUME Doc # {}
  PROVE  RegisterSpec => []RegisterTypeOK
<1>1. Shut.doc \in Doc
  BY DEF Shut
<1>2. RegisterInv => RegisterTypeOK
  BY <1>1 DEF RegisterInv, PolicyInv, PolicyType, ItemInv, ItemType, TrustInv, TrustType,
       RegisterTypeOK
<1> QED
  BY <1>2, RegisterInvAlways, PTL

\* A version of a policy names one text, a label can be relied on, an address
\* shows one company, whoever writes last (policies, questionnaires, trust).
THEOREM RegistersTrueAlways == RegisterSpec => []RegistersTrue
<1>1. RegisterInv => RegistersTrue
  BY DEF RegisterInv, PolicyInv, ItemInv, TrustInv, RegistersTrue
<1> QED
  BY <1>1, RegisterInvAlways, PTL

-----------------------------------------------------------------------------
(* Side by side.                                                           *)

\* A behaviour of the composition is, for each part, a behaviour of that part:
\* the scenarios only let the others stand still.
LEMMA PartsOfGovernance ==
  Spec => ApprovalSpec /\ PostureSpec /\ CardSpec /\ RegisterSpec /\ BotSpec
<1>1. Init => ApprovalInit /\ PostureInit /\ CardInit /\ RegisterInit /\ BotInit
  BY DEF Init
<1>2. [Next]_vars => /\ [ApprovalNext]_approvalVars /\ [CardNext]_cardVars
                     /\ [FindingsNext \/ GraphNext \/ RisksNext]_postureVars
                     /\ [RegisterNext]_registerVars /\ [BotNext]_botVars
  <2>1. CASE OnSignUp BY <2>1 DEF OnSignUp
  <2>2. CASE OnPosture BY <2>2 DEF OnPosture
  <2>3. CASE OnCard BY <2>3 DEF OnCard
  <2>4. CASE OnRegister BY <2>4 DEF OnRegister
  <2>5. CASE OnBot BY <2>5 DEF OnBot
  <2>6. CASE UNCHANGED vars BY <2>6 DEF vars
  <2> QED BY <2>1, <2>2, <2>3, <2>4, <2>5, <2>6 DEF Next
<1> QED BY <1>1, <1>2, PTL DEF Spec, ApprovalSpec, PostureSpec, CardSpec, RegisterSpec, BotSpec

\* Where there is a document at all, the workspace has its types.
THEOREM GovernanceTypeCorrect ==
  ASSUME Doc # {}
  PROVE  Spec => []TypeOK
<1>1. RegisterSpec => []RegisterTypeOK
  BY RegisterTypeCorrect
<1> QED BY <1>1, PartsOfGovernance, ApprovalTypeCorrect, PostureTypeCorrect, CardTypeCorrect,
           BotTypeCorrect, PTL DEF TypeOK

\* What holds of the parts holds of the workspace: the decisions, the one
\* administrator, the views, the cards, the registers and what the admins had
\* written for their bot, as the run checks them together.
THEOREM GovernanceKeepsItsWord ==
  Spec => /\ [](DecisionsStand /\ OneAdmin /\ ViewsAgree)
          /\ [](ApprovedHasRow /\ RowStands /\ RegistersTrue /\ WordStands)
BY PartsOfGovernance, DecisionsStandAlways, OneAdminAlways, ViewsAgreeAlways,
   ApprovedHasRowAlways, RegistersTrueAlways, WordStandsAlways, RowStandsAlways, PTL
=============================================================================
