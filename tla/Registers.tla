----------------------------- MODULE Registers -----------------------------
(***************************************************************************)
(* What a team keeps beside its findings, and the model rewrites for it:   *)
(* policy documents (policies), questionnaires (questionnaires) and the    *)
(* public trust page (trust), with the web routes that drive them.  They   *)
(* share no state: scenario says which of them a behaviour is about (or     *)
(* that it is about something else, see Governance).                       *)
(*                                                                         *)
(* A call to the model lies between two statements on the database, and    *)
(* nothing is locked meanwhile.                                            *)
(***************************************************************************)
EXTENDS Naturals, FiniteSets

CONSTANTS
    Batch,        \* POST /policies/generate-all requests
    Template,     \* policy templates
    Editor,       \* policy editors that are open
    MAX_VERSION,  \* bound: versions of a document
    Item,         \* questions of a questionnaire
    Worker,       \* concurrent calls of "Suggest all" (four in the code)
    MAX_COUNT,    \* bound: passing or failing findings of a question's checks
    MAX_EDITS,    \* bound: answers people pick
    Tenant, Slug,
    Admin,        \* sessions that save a trust page
    TenantOf      \* the tenant of a session

ASSUME RegisterAssumption ==
    /\ {MAX_COUNT, MAX_EDITS} \subseteq Nat /\ MAX_VERSION \in Nat \ {0}
    /\ IsFiniteSet(Worker)
    /\ TenantOf \in [Admin -> Tenant]

VARIABLES
    scenario,
    doc,          \* the policies table
    batch,        \* each request: the templates to insert, those to rewrite, its state
    editor,       \* each editor: what it loaded, what it shows, its call of the model
    item,         \* questionnaire_items
    byHand,       \* the answer a person picked last for each item (history)
    edits,
    asking,       \* items whose suggestion a person asked for, not yet answered
    shown,        \* items the view showed as unanswered or answered by hand
    queue, worker,          \* "Suggest all": items left, each worker's item
    page,         \* trust_pages
    put           \* each session's PUT: its slug once the collision check has passed

policyVars == <<doc, batch, editor>>
itemVars   == <<item, byHand, edits, asking, shown, queue, worker>>
trustVars  == <<page, put>>
registerVars == <<scenario, policyVars, itemVars, trustVars>>

Scenario == {"signup", "findings", "graph", "risks", "card", "policies", "questionnaire", "trust", "bot"}

Doc    == Batch \X Template
Text   == {"rendered", "ai", "typed"}
Status == {"draft", "approved"}    \* "retired" is to the code what "approved" is
Policy == [text : Text, version : 1..MAX_VERSION, status : Status]
NoDoc  == [text |-> "rendered", version |-> 0, status |-> "draft"]
Exists(d) == doc[d].version > 0
Shut   == [open |-> FALSE, doc |-> CHOOSE d \in Doc : TRUE, loaded |-> NoDoc,
           body |-> "rendered", busy |-> FALSE, read |-> "none"]

Answer     == {"yes", "no", "partial", "n/a"}
Confidence == {"none", "manual", "auto-high", "auto-medium", "ai-suggested"}
NoItem     == [there |-> FALSE, answer |-> "none", confidence |-> "none", pass |-> 0, fail |-> 0]

RegisterInit ==
    /\ scenario \in Scenario
    /\ doc = [d \in Doc |-> NoDoc]
    /\ batch = [b \in Batch |-> [pc |-> "idle", insert |-> {}, rewrite |-> {}]]
    /\ editor = [e \in Editor |-> Shut]
    /\ item = [i \in Item |-> NoItem] /\ byHand = [i \in Item |-> "none"]
    /\ edits = 0 /\ asking = {} /\ shown = {}
    /\ queue = {} /\ worker = [w \in Worker |-> "none"]
    /\ page = [t \in Tenant |-> [slug |-> "none", published |-> FALSE]]
    /\ put = [a \in Admin |-> "none"]

-----------------------------------------------------------------------------
(* Policies.                                                               *)

OnPolicies == scenario = "policies" /\ UNCHANGED <<scenario, itemVars, trustVars>>

\* The text is replaced and the version goes up, in one statement.
Rewritten(d, text) == [doc EXCEPT ![d].text = text, ![d].version = @ + 1]
HasRoom(d) == doc[d].version < MAX_VERSION

\* The click, or the next one after the first gave up waiting.
GenerateAll(b) ==
    /\ OnPolicies /\ batch[b].pc = "idle"
    /\ batch' = [batch EXCEPT ![b] = [pc |-> "insert", insert |-> Template, rewrite |-> {}]]
    /\ UNCHANGED <<doc, editor>>

\* The form: one template, as it is rendered.
CreateFromTemplate(b, t) ==
    /\ OnPolicies /\ batch[b].pc = "idle"
    /\ doc' = [doc EXCEPT ![<<b, t>>] = [NoDoc EXCEPT !.version = 1]]
    /\ batch' = [batch EXCEPT ![b].pc = "over"]
    /\ UNCHANGED editor

\* One template after the other; one that fails is left out.
RenderAndPersist(b, t) ==
    /\ OnPolicies /\ batch[b].pc = "insert" /\ t \in batch[b].insert
    /\ \E ok \in BOOLEAN :
        /\ doc' = IF ok THEN [doc EXCEPT ![<<b, t>>] = [NoDoc EXCEPT !.version = 1]] ELSE doc
        /\ batch' = [batch EXCEPT ![b] =
             [pc |-> IF @.insert = {t} THEN "rewrite" ELSE "insert",
              insert |-> @.insert \ {t},
              rewrite |-> IF ok THEN @.rewrite \cup {t} ELSE @.rewrite]]
    /\ UNCHANGED editor

\* Each draft in a thread of its own: the model's text, or the draft stays.
EnrichOne(b, t) ==
    /\ OnPolicies /\ batch[b].pc = "rewrite" /\ t \in batch[b].rewrite
    /\ HasRoom(<<b, t>>)
    /\ doc' \in {doc, Rewritten(<<b, t>>, "ai")}
    /\ batch' = [batch EXCEPT ![b].rewrite = @ \ {t}]
    /\ UNCHANGED editor

\* Five minutes are over before the last draft is rewritten.
GenerateDies(b) ==
    /\ OnPolicies /\ batch[b].pc \in {"insert", "rewrite"}
    /\ batch' = [batch EXCEPT ![b].pc = "over"]
    /\ UNCHANGED <<doc, editor>>

\* The editor shows the document as it is now.
LoadPolicy(e, d) ==
    /\ OnPolicies /\ Exists(d) /\ editor[e] = Shut
    /\ editor' = [editor EXCEPT ![e] =
         [open |-> TRUE, doc |-> d, loaded |-> doc[d], body |-> doc[d].text,
          busy |-> FALSE, read |-> "none"]]
    /\ UNCHANGED <<doc, batch>>

\* Typing goes on while the model is at work.
TypePolicy(e) ==
    /\ OnPolicies /\ editor[e].open
    /\ \E body \in {"typed", editor[e].loaded.text} :
        editor' = [editor EXCEPT ![e].body = body]
    /\ UNCHANGED <<doc, batch>>

\* Mutant: the update forgets the version.
SaveUnversioned(e) ==
    LET ed == editor[e] IN
    /\ OnPolicies /\ ed.open /\ ~ed.busy
    /\ doc' = [doc EXCEPT ![ed.doc].text = IF ed.body = ed.loaded.text THEN @ ELSE ed.body]
    /\ editor' = [editor EXCEPT ![e] = Shut]
    /\ UNCHANGED batch

\* Save sends the text and the status that differ from what was loaded, then closes.
SavePolicy(e) ==
    LET ed   == editor[e]
        text == IF ed.body = ed.loaded.text THEN doc ELSE Rewritten(ed.doc, ed.body)
    IN  /\ OnPolicies /\ ed.open /\ ~ed.busy
        /\ ed.body = ed.loaded.text \/ HasRoom(ed.doc)
        /\ \E status \in Status :
            doc' = IF status = ed.loaded.status THEN text
                   ELSE [text EXCEPT ![ed.doc].status = status]
        /\ editor' = [editor EXCEPT ![e] = Shut]
        /\ UNCHANGED batch

\* The window closes; a call of the model on its way is carried out all the same.
CloseEditor(e) ==
    /\ OnPolicies /\ editor[e].open
    /\ editor' = [editor EXCEPT ![e] =
         IF @.read = "none" THEN Shut ELSE [@ EXCEPT !.open = FALSE]]
    /\ UNCHANGED <<doc, batch>>

\* _enrich reads the text ...
EnrichRead(e) ==
    /\ OnPolicies /\ editor[e].open /\ ~editor[e].busy /\ editor[e].read = "none"
    /\ editor' = [editor EXCEPT ![e].busy = TRUE, ![e].read = doc[editor[e].doc].text]
    /\ UNCHANGED <<doc, batch>>

\* ... and puts the model's in its place, whatever the text has become.  The
\* editor shows it, but goes on comparing with what it loaded.
EnrichWrite(e) ==
    LET ed == editor[e] IN
    /\ OnPolicies /\ ed.read # "none" /\ HasRoom(ed.doc)
    /\ \E ok \in BOOLEAN :
        /\ doc' = IF ok THEN Rewritten(ed.doc, "ai") ELSE doc
        /\ editor' = [editor EXCEPT ![e] =
             IF ~ed.open THEN Shut
             ELSE [@ EXCEPT !.read = "none", !.busy = FALSE,
                            !.body = IF ok /\ ed.busy THEN "ai" ELSE ed.body]]
    /\ UNCHANGED batch

\* The editor gives up waiting; the request goes on.
EnrichTimesOut(e) ==
    /\ OnPolicies /\ editor[e].busy
    /\ editor' = [editor EXCEPT ![e].busy = FALSE]
    /\ UNCHANGED <<doc, batch>>

PolicyNext ==
    \/ \E b \in Batch :
        \/ GenerateAll(b) \/ GenerateDies(b)
        \/ \E t \in Template :
             CreateFromTemplate(b, t) \/ RenderAndPersist(b, t) \/ EnrichOne(b, t)
    \/ \E e \in Editor :
        \/ TypePolicy(e) \/ SavePolicy(e) \/ CloseEditor(e)
        \/ EnrichRead(e) \/ EnrichWrite(e) \/ EnrichTimesOut(e)
        \/ \E d \in Doc : LoadPolicy(e, d)

-----------------------------------------------------------------------------
(* Questionnaires.                                                         *)

OnItems == scenario = "questionnaire" /\ UNCHANGED <<scenario, policyVars, trustVars>>

\* What the findings of a question's checks say.
Autofill(mapped, pass, fail) ==
    CASE ~mapped \/ pass + fail = 0 -> [answer |-> "none", confidence |-> "manual"]
      [] mapped /\ pass > 0 /\ fail = 0 -> [answer |-> "yes", confidence |-> "auto-high"]
      [] mapped /\ pass = 0 /\ fail > 0 -> [answer |-> "no", confidence |-> "auto-high"]
      [] mapped /\ pass > 0 /\ fail > 0 -> [answer |-> "partial", confidence |-> "auto-medium"]

\* One item of a questionnaire made from a question bank; the findings may
\* change from one to the next.
CreateItem(i) ==
    /\ OnItems /\ ~item[i].there
    /\ \E mapped \in BOOLEAN, pass, fail \in 0..MAX_COUNT :
        LET a == Autofill(mapped, pass, fail)
            n == IF mapped THEN <<pass, fail>> ELSE <<0, 0>>
        IN  item' = [item EXCEPT ![i] = [there |-> TRUE, answer |-> a.answer,
                 confidence |-> a.confidence, pass |-> n[1], fail |-> n[2]]]
    /\ UNCHANGED <<byHand, edits, asking, shown, queue, worker>>

\* One row of an uploaded workbook: a question nobody has answered.
FromExcel(i) ==
    /\ OnItems /\ ~item[i].there
    /\ item' = [item EXCEPT ![i].there = TRUE]
    /\ UNCHANGED <<byHand, edits, asking, shown, queue, worker>>

\* A person picks an answer, or takes it away.
PatchItem(i) ==
    /\ OnItems /\ item[i].there /\ edits < MAX_EDITS /\ edits' = edits + 1
    /\ \E a \in Answer \cup {"none"} :
        /\ item' = [item EXCEPT ![i].answer = a, ![i].confidence = "manual"]
        /\ byHand' = [byHand EXCEPT ![i] = a]
    /\ UNCHANGED <<asking, shown, queue, worker>>

AskSuggestion(i) ==
    /\ OnItems /\ item[i].there /\ i \notin asking
    /\ asking' = asking \cup {i}
    /\ UNCHANGED <<item, byHand, edits, shown, queue, worker>>

\* Mutant: the answer is written, its label is not.
SuggestedUnlabelled(i) ==
    /\ \E a \in Answer : item' = [item EXCEPT ![i].answer = a]
    /\ UNCHANGED byHand

\* What _suggest_item does when the model's answer comes: it replaces whatever
\* is there, a person's answer too.  A failing call, or an answer that is none of
\* the four, leaves the item.
Suggested(i) ==
    /\ \/ \E a \in Answer :
            item' = [item EXCEPT ![i].answer = a, ![i].confidence = "ai-suggested"]
       \/ UNCHANGED item
    /\ UNCHANGED byHand

SuggestItem(i) ==
    /\ OnItems /\ i \in asking /\ asking' = asking \ {i}
    /\ Suggested(i)
    /\ UNCHANGED <<edits, shown, queue, worker>>

SuggestingAll == queue # {} \/ \E w \in Worker : worker[w] # "none"

\* The view loads the questionnaire (again).
LoadView ==
    /\ OnItems
    /\ shown' = {i \in Item : item[i].there
                              /\ (item[i].answer = "none" \/ item[i].confidence = "manual")}
    /\ UNCHANGED <<item, byHand, edits, asking, queue, worker>>

\* "Suggest all" takes the items as its view shows them.
SuggestAll ==
    /\ OnItems /\ ~SuggestingAll /\ shown # {}
    /\ queue' = shown
    /\ UNCHANGED <<item, byHand, edits, asking, shown, worker>>

\* What a worker does with an item it has in hand.
Ask(w, i) ==
    /\ worker' = [worker EXCEPT ![w] = i]
    /\ UNCHANGED <<item, byHand, edits, asking, shown>>

TakeItem(w) ==
    /\ OnItems /\ worker[w] = "none"
    /\ \E i \in queue : Ask(w, i) /\ queue' = queue \ {i}

\* A failing call is swallowed and the worker keeps going.
WorkerDone(w) ==
    /\ OnItems /\ worker[w] # "none"
    /\ Suggested(worker[w])
    /\ worker' = [worker EXCEPT ![w] = "none"]
    /\ UNCHANGED <<edits, asking, shown, queue>>

ItemNext ==
    \/ LoadView \/ SuggestAll
    \/ \E i \in Item :
        CreateItem(i) \/ FromExcel(i) \/ PatchItem(i) \/ AskSuggestion(i) \/ SuggestItem(i)
    \/ \E w \in Worker : TakeItem(w) \/ WorkerDone(w)

-----------------------------------------------------------------------------
(* The trust page.                                                         *)

OnTrust == scenario = "trust" /\ UNCHANGED <<scenario, policyVars, itemVars>>

\* The slug is looked for among the other tenants' pages ...
CheckSlug(a, s) ==
    /\ OnTrust /\ put[a] = "none"
    /\ \A t \in Tenant \ {TenantOf[a]} : page[t].slug # s
    /\ put' = [put EXCEPT ![a] = s]
    /\ UNCHANGED page

\* ... and the page upserted: the table's unique slug refuses one taken in
\* between, and the request fails.
UpsertPage(a) ==
    /\ OnTrust /\ put[a] # "none"
    /\ put' = [put EXCEPT ![a] = "none"]
    /\ IF \E t \in Tenant \ {TenantOf[a]} : page[t].slug = put[a]
       THEN UNCHANGED page
       ELSE \E published \in BOOLEAN :
              page' = [page EXCEPT ![TenantOf[a]] = [slug |-> put[a], published |-> published]]

TrustNext == \E a \in Admin : UpsertPage(a) \/ \E s \in Slug : CheckSlug(a, s)

RegisterNext == PolicyNext \/ ItemNext \/ TrustNext

RegisterSpec == RegisterInit /\ [][RegisterNext]_registerVars

-----------------------------------------------------------------------------

RegisterTypeOK ==
    /\ scenario \in Scenario
    /\ doc \in [Doc -> Policy \cup {NoDoc}]
    /\ batch \in [Batch -> [pc : {"idle", "insert", "rewrite", "over"},
                            insert : SUBSET Template, rewrite : SUBSET Template]]
    /\ editor \in [Editor -> [open : BOOLEAN, doc : Doc, loaded : Policy \cup {NoDoc},
                              body : Text, busy : BOOLEAN,
                              read : Text \cup {"none"}]]
    /\ item \in [Item -> [there : BOOLEAN, answer : Answer \cup {"none"},
                          confidence : Confidence, pass : 0..MAX_COUNT, fail : 0..MAX_COUNT]]
    /\ byHand \in [Item -> Answer \cup {"none"}]
    /\ edits \in 0..MAX_EDITS /\ asking \subseteq Item /\ shown \subseteq Item
    /\ queue \subseteq Item /\ worker \in [Worker -> Item \cup {"none"}]
    /\ page \in [Tenant -> [slug : Slug \cup {"none"}, published : BOOLEAN]]
    /\ put \in [Admin -> Slug \cup {"none"}]

\* A version names one text: whoever has the same version of a policy on the
\* screen, or in the table, has the same text, whichever of the batch, the
\* model and the editors wrote it.
VersionNamesText ==
    \A e \in Editor : editor[e].open =>
        /\ editor[e].loaded.version = doc[editor[e].doc].version
             => editor[e].loaded.text = doc[editor[e].doc].text
        /\ \A f \in Editor :
            (/\ editor[f].open /\ editor[f].doc = editor[e].doc
             /\ editor[f].loaded.version = editor[e].loaded.version)
            => editor[f].loaded.text = editor[e].loaded.text

\* Whatever suggestions on their way, "Suggest all" and people picking answers do
\* to one another, the label can be relied on: an answer still labelled as the
\* scan's is the one its evidence supports, and the answer a person picked last is
\* there unless the label says that it was replaced by the model's.
LabelIsTrue ==
    \A i \in Item :
        /\ item[i].confidence \in {"auto-high", "auto-medium"} =>
             /\ (item[i].answer = "no") = (item[i].pass = 0)
             /\ (item[i].answer = "yes") = (item[i].fail = 0)
             /\ item[i].pass + item[i].fail > 0
        /\ item[i].confidence = "ai-suggested" \/ byHand[i] \in {"none", item[i].answer}

\* What the comment above the suggestion's UPDATE says of it: "don't overwrite
\* manual answers" (questionnaires/main.py:175).  The UPDATE does.
ManualAnswersKept == \A i \in Item : byHand[i] \in {"none", item[i].answer}

\* A public address shows one company, whoever saves it at the same time.
SlugServesOne ==
    \A t, u \in Tenant : page[t].slug = page[u].slug /\ page[t].slug # "none" => t = u

\* What the registers say of themselves is so, whoever wrote last (policies,
\* questionnaires and trust: the version, the label, the address).
RegistersTrue == VersionNamesText /\ LabelIsTrue /\ SlugServesOne
=============================================================================
