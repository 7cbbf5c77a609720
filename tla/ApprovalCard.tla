---------------------------- MODULE ApprovalCard ----------------------------
(***************************************************************************)
(* An action the chat agent proposes (a risk to add, a policy to draft) and *)
(* the approval card that carries it out.                                  *)
(*                                                                         *)
(* The card is a message of the conversation; every tab that renders it    *)
(* keeps a copy of its own.  Approving POSTs the payload with the card's   *)
(* approval id; what the card has become is PATCHed back into the message. *)
(* Requests overtake each other, their answers get lost (the request may   *)
(* still be carried out), and a reload forgets everything but the message. *)
(***************************************************************************)
EXTENDS Naturals, Sequences, FiniteSets

CONSTANTS
    Tab,          \* tabs and devices that show the conversation
    Payload,      \* what may be written on the card
    Proposed,     \* what the agent wrote on it
    MAX_CLICKS,   \* bound: clicks on Approve
    MAX_PATCHES   \* bound: PATCHes on their way at a time

ASSUME CardAssumption ==
    /\ Proposed \in Payload
    /\ {MAX_CLICKS, MAX_PATCHES} \subseteq Nat \ {0}

VARIABLES
    rows,         \* the register's rows that hold the approval id
    team,         \* the rows as the team last left them, <<>> before (history)
    stored,       \* the message: what a (re)load shows
    card,         \* the card of each tab; loading is the click it waits for
    clicks,       \* clicks on Approve; each POST has its number
    posts,        \* POSTs that have not been carried out
    answers,      \* POSTs that have, their answers on the way
    patches       \* PATCHes that have not been carried out

cardVars == <<rows, team, stored, card, clicks, posts, answers, patches>>

Row     == [payload : Payload, status : {"open", "closed"}]
Message == [status : {"pending", "approved", "cancelled"}, payload : Payload]
Card    == [status : {"closed", "pending", "approved", "cancelled", "error"},
            payload : Payload, editing : BOOLEAN, loading : 0..MAX_CLICKS]
Post    == [click : 1..MAX_CLICKS, payload : Payload]

CardInit ==
    /\ rows = <<>> /\ team = <<>>
    /\ stored = [status |-> "pending", payload |-> Proposed]
    /\ card = [t \in Tab |-> [status |-> "closed", payload |-> Proposed,
                              editing |-> FALSE, loading |-> 0]]
    /\ clicks = 0
    /\ posts = {} /\ answers = {} /\ patches = {}

\* What persist sends: the card as it is now, with these two fields.
Persist(status, payload) ==
    /\ Cardinality(patches) < MAX_PATCHES
    /\ patches' = patches \cup {[status |-> status, payload |-> payload]}

\* The buttons of a card: they are drawn while it is pending, outside the
\* form, and disabled while an Approve is loading.
Clickable(t) == card[t].status = "pending" /\ ~card[t].editing /\ card[t].loading = 0

\* The tab loads the conversation (again).
OpenCard(t) ==
    /\ card' = [card EXCEPT ![t] = [status |-> stored.status, payload |-> stored.payload,
                                    editing |-> FALSE, loading |-> 0]]
    /\ UNCHANGED <<rows, team, stored, clicks, posts, answers, patches>>

HandleApprove(t) ==
    /\ Clickable(t) /\ clicks < MAX_CLICKS
    /\ clicks' = clicks + 1
    /\ card' = [card EXCEPT ![t].loading = clicks + 1]
    /\ posts' = posts \cup {[click |-> clicks + 1, payload |-> card[t].payload]}
    /\ UNCHANGED <<rows, team, stored, answers, patches>>

HandleEdit(t) ==
    /\ Clickable(t)
    /\ card' = [card EXCEPT ![t].editing = TRUE]
    /\ UNCHANGED <<rows, team, stored, clicks, posts, answers, patches>>

HandleSave(t) ==
    /\ card[t].editing
    /\ \E p \in Payload :
        /\ card' = [card EXCEPT ![t].payload = p, ![t].editing = FALSE]
        /\ Persist(card[t].status, p)
    /\ UNCHANGED <<rows, team, stored, clicks, posts, answers>>

LeaveForm(t) ==
    /\ card[t].editing
    /\ card' = [card EXCEPT ![t].editing = FALSE]
    /\ UNCHANGED <<rows, team, stored, clicks, posts, answers, patches>>

HandleCancel(t) ==
    /\ Clickable(t)
    /\ card' = [card EXCEPT ![t].status = "cancelled"]
    /\ Persist("cancelled", card[t].payload)
    /\ UNCHANGED <<rows, team, stored, clicks, posts, answers>>

HandleRetry(t) ==
    /\ card[t].status = "error"
    /\ card' = [card EXCEPT ![t].status = "pending"]
    /\ UNCHANGED <<rows, team, stored, clicks, posts, answers, patches>>

\* The answer of the click the tab waits for.
Answered(t) ==
    /\ card[t].loading > 0
    /\ \E r \in answers : r.click = card[t].loading /\ answers' = answers \ {r}
    /\ card' = [card EXCEPT ![t].status = "approved", ![t].loading = 0]
    /\ Persist("approved", card[t].payload)
    /\ UNCHANGED <<rows, team, stored, clicks, posts>>

\* The network or the server fails it; a POST on its way may still arrive.
ApproveFails(t) ==
    /\ card[t].loading > 0
    /\ card' = [card EXCEPT ![t].status = "error", ![t].loading = 0]
    /\ UNCHANGED <<rows, team, stored, clicks, posts, answers, patches>>

-----------------------------------------------------------------------------
(* The API.                                                                *)

NewRow(r) == [payload |-> r.payload, status |-> "open"]

\* Mutant: a plain insert.
InsertPlain(r) ==
    /\ r \in posts /\ posts' = posts \ {r}
    /\ rows' = Append(rows, NewRow(r))
    /\ answers' = answers \cup {r}
    /\ UNCHANGED <<team, stored, card, clicks, patches>>

\* Mutant: the row takes the payload of whoever comes later.
InsertOrUpdate(r) ==
    /\ r \in posts /\ posts' = posts \ {r}
    /\ rows' = <<NewRow(r)>>
    /\ answers' = answers \cup {r}
    /\ UNCHANGED <<team, stored, card, clicks, patches>>

\* _create with a source_approval_id: ON CONFLICT DO NOTHING, and the row that
\* is there is the answer.
CreateOnce(r) ==
    /\ r \in posts /\ posts' = posts \ {r}
    /\ rows' = IF rows = <<>> THEN <<NewRow(r)>> ELSE rows
    /\ answers' = answers \cup {r}
    /\ UNCHANGED <<team, stored, card, clicks, patches>>

\* The team works on the row: a risk's owner, due date, notes and status (_update),
\* a policy's text, title and status (_update, _enrich).  Any value follows any.
UpdateRow ==
    /\ \E n \in 1..Len(rows), r \in Row :
        rows' = [rows EXCEPT ![n] = r] /\ team' = [rows EXCEPT ![n] = r]
    /\ UNCHANGED <<stored, card, clicks, posts, answers, patches>>

\* update_content replaces the whole message.
UpdateContent(m) ==
    /\ m \in patches /\ patches' = patches \ {m}
    /\ stored' = m
    /\ UNCHANGED <<rows, team, card, clicks, posts, answers>>

CardNext ==
    \/ \E t \in Tab :
        \/ OpenCard(t) \/ HandleApprove(t) \/ HandleEdit(t) \/ HandleSave(t)
        \/ LeaveForm(t) \/ HandleCancel(t) \/ HandleRetry(t)
        \/ Answered(t) \/ ApproveFails(t)
    \/ \E r \in posts : CreateOnce(r)
    \/ UpdateRow
    \/ \E m \in patches : UpdateContent(m)

CardSpec == CardInit /\ [][CardNext]_cardVars

-----------------------------------------------------------------------------

CardTypeOK ==
    /\ {rows, team} \subseteq Seq(Row) /\ stored \in Message
    /\ card \in [Tab -> Card] /\ clicks \in 0..MAX_CLICKS
    /\ posts \subseteq Post /\ answers \subseteq Post /\ patches \subseteq Message

\* One card makes one row, however many tabs approve it, however often a lost
\* answer is retried, and wherever a late PATCH takes the card back to pending
\* (the idempotency the approval id is for); and whoever sees it approved finds
\* the row: no tab, no stored message and no PATCH on its way claims an approval
\* the register does not hold.
ApprovedHasRow ==
    /\ Len(rows) <= 1
    /\ (\/ stored.status = "approved"
        \/ \E t \in Tab : card[t].status = "approved"
        \/ \E m \in patches : m.status = "approved") => rows # <<>>

\* Once the team has worked on the row it is the team's: no POST of the card, of
\* any tab, retried or long on its way, takes the row back to what the card says,
\* a closed risk to open, an enriched policy to the agent's draft.
RowStands == team # <<>> => rows = team

\* What the design says of multi-turn edits: "only the final approved payload
\* is written".  It is not so when an answer was lost and the card edited before
\* the next try: the row keeps the payload of the first, though nobody has
\* worked on it since.
FinalPayloadWritten ==
    stored.status = "approved" /\ posts = {} /\ patches = {} /\ team = <<>> =>
        Len(rows) = 1 /\ rows[1].payload = stored.payload
=============================================================================
