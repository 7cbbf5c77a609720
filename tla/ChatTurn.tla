------------------------------ MODULE ChatTurn ------------------------------
(***************************************************************************)
(* A text turn of the chat: the request that stores the question, the loop *)
(* of model calls and tools behind it, the events it streams to the browser*)
(* and the messages it leaves in the conversation (chat_session/app.py,    *)
(* anthropic_call.py, conversations.py, messages.py).                      *)
(*                                                                         *)
(* Requests on one conversation run side by side, each in a Lambda of its  *)
(* own.  The model is external: it says something or nothing in a round,   *)
(* asks for tools or not, and its stream may break.  A text is the set of  *)
(* the rounds it was said in.                                              *)
(***************************************************************************)
EXTENDS Naturals, Sequences, FiniteSets, Functions

CONSTANTS
    Ask,               \* POST /conversations/{id}/stream requests
    Tool,              \* tools the model may ask for
    MAX_TOOL_ROUNDS,
    MAX_USES           \* bound: tools asked for in one round

ASSUME ChatAssumption == {MAX_TOOL_ROUNDS, MAX_USES} \subseteq Nat \ {0}

VARIABLES
    messages,      \* conversation_messages in the order of created_at
    at,            \* where each request is
    local,         \* the conversation it has read, its round and what came of it,
                   \* tool_uses, and final_assistant_text
    screen,        \* the events the browser has seen
    cut            \* the Lambda was stopped, or a message could not be stored

chatVars == <<messages, at, local, screen, cut>>

Round   == 1..MAX_TOOL_ROUNDS
Working == {"asking", "round", "tools", "card", "done", "failed"}

Question(a)    == [role |-> "user", by |-> a]
Card(a, t)     == [role |-> "tool", by |-> a, tool |-> t]
Reply(a, text) == [role |-> "assistant", by |-> a, text |-> text]
Placeholder(a) == [role |-> "assistant", by |-> a]

Fresh == [history |-> <<>>, round |-> 1, said |-> FALSE, uses |-> <<>>, spoken |-> {}]

ChatInit ==
    /\ messages = <<>>
    /\ at = [a \in Ask |-> "idle"] /\ local = [a \in Ask |-> Fresh]
    /\ screen = [a \in Ask |-> <<>>] /\ cut = [a \in Ask |-> FALSE]

Goes(a, place) == at' = [at EXCEPT ![a] = place]
Over(a)        == Goes(a, "over") /\ local' = [local EXCEPT ![a] = Fresh]
Streams(a, event) == screen' = [screen EXCEPT ![a] = Append(@, event)]
Stores(m)      == messages' = Append(messages, m)

-----------------------------------------------------------------------------
(* The request.                                                            *)

\* C.get: the messages, or nothing for a deleted conversation.
FetchConversation(a) ==
    /\ at[a] = "idle"
    /\ \/ Goes(a, "over") /\ Streams(a, <<"error">>) /\ UNCHANGED local
       \/ Goes(a, "asking") /\ local' = [local EXCEPT ![a].history = messages] /\ UNCHANGED screen
    /\ UNCHANGED <<messages, cut>>

\* _history_for_anthropic, of what was read: cards are left out.
Replayed(a) == {i \in DOMAIN local[a].history : local[a].history[i].role \in {"user", "assistant"}}

StoreQuestion(a) ==
    /\ at[a] = "asking"
    /\ Stores(Question(a)) /\ Goes(a, "round")
    /\ UNCHANGED <<local, screen, cut>>

-----------------------------------------------------------------------------
(* A round.                                                                *)

TextDelta(a) ==
    /\ at[a] = "round" /\ ~local[a].said
    /\ local' = [local EXCEPT ![a].said = TRUE] /\ Streams(a, <<"text", local[a].round>>)
    /\ UNCHANGED <<messages, at, cut>>

ToolUse(a, t) ==
    /\ at[a] = "round" /\ Len(local[a].uses) < MAX_USES
    /\ local' = [local EXCEPT ![a].uses = Append(@, t)]
    /\ UNCHANGED <<messages, at, screen, cut>>

\* Mutant: the text of the last round replaces what was said before.
LastSpoken(l) == IF l.said THEN {l.round} ELSE {}

Spoken(l) == IF l.said THEN l.spoken \cup {l.round} ELSE l.spoken

EndOfRound(a) ==
    /\ local' = [local EXCEPT ![a].spoken = Spoken(local[a]), ![a].said = FALSE]
    /\ IF local[a].uses = <<>>
       THEN Goes(a, "done") /\ Streams(a, <<"done">>)
       ELSE Goes(a, "tools") /\ UNCHANGED screen

\* Mutant: what a round said is stored at its end.
RoundEndsStoring(a) ==
    /\ at[a] = "round"
    /\ EndOfRound(a)
    /\ IF local[a].said THEN Stores(Reply(a, {local[a].round})) ELSE UNCHANGED messages
    /\ UNCHANGED cut

\* Mutant: a stream that ends before it has brought anything is waited for.
RoundEndsWithContent(a) ==
    /\ at[a] = "round" /\ (local[a].said \/ local[a].uses # <<>>)
    /\ EndOfRound(a)
    /\ UNCHANGED <<messages, cut>>

\* The stream ends, by message_stop or without it: stream_messages says done
\* either way.  Without tools to run the turn is finished.
RoundEnds(a) ==
    /\ at[a] = "round"
    /\ EndOfRound(a)
    /\ UNCHANGED <<messages, cut>>

\* The model refuses the call, or its stream breaks.
StreamBreaks(a) ==
    /\ at[a] = "round"
    /\ Goes(a, "failed") /\ Streams(a, <<"error">>)
    /\ UNCHANGED <<messages, local, cut>>

\* dispatch: an unknown tool or a tool that fails has its error for a result, so
\* that every tool comes to an event.
RunTool(a) ==
    /\ at[a] = "tools"
    /\ Goes(a, "card") /\ Streams(a, <<"tool", Head(local[a].uses)>>)
    /\ UNCHANGED <<messages, local, cut>>

\* After the last tool of a round the model is called again, unless this was the
\* last round.
AfterCard(a) ==
    IF Len(local[a].uses) > 1
    THEN Goes(a, "tools") /\ local' = [local EXCEPT ![a].uses = Tail(@)] /\ UNCHANGED screen
    ELSE IF local[a].round < MAX_TOOL_ROUNDS
    THEN /\ Goes(a, "round")
         /\ local' = [local EXCEPT ![a].uses = <<>>, ![a].round = @ + 1]
         /\ UNCHANGED screen
    ELSE Goes(a, "done") /\ Streams(a, <<"done">>) /\ local' = [local EXCEPT ![a].uses = <<>>]

StoreCard(a) ==
    /\ at[a] = "card"
    /\ Stores(Card(a, Head(local[a].uses)))
    /\ AfterCard(a)
    /\ UNCHANGED cut

-----------------------------------------------------------------------------
(* The end of a turn.                                                      *)

\* The reply is stored after the browser was told that it is done.
StoreReply(a) ==
    /\ at[a] = "done"
    /\ IF local[a].spoken = {} THEN UNCHANGED messages ELSE Stores(Reply(a, local[a].spoken))
    /\ Over(a)
    /\ UNCHANGED <<screen, cut>>

StorePlaceholder(a) ==
    /\ at[a] = "failed"
    /\ Stores(Placeholder(a)) /\ Over(a)
    /\ UNCHANGED <<screen, cut>>

\* What the request is about to store.
Unstored(a) ==
    CASE at[a] = "asking" -> {Question(a)}
      [] at[a] = "card"   -> {Card(a, Head(local[a].uses))}
      [] at[a] = "done"   -> {Reply(a, local[a].spoken) : r \in local[a].spoken}
      [] at[a] = "failed" -> {Placeholder(a)}
      [] OTHER            -> {}

\* append raises; the message may be there if only its second statement failed.
\* Of a card that is an error of the turn; of the question, the reply and the
\* placeholder it ends the request.
StoreFails(a) ==
    \E m \in Unstored(a) :
        /\ UNCHANGED messages \/ Stores(m)
        /\ IF at[a] = "card"
           THEN Goes(a, "failed") /\ Streams(a, <<"error">>) /\ UNCHANGED local
           ELSE Over(a) /\ UNCHANGED screen
        /\ cut' = [cut EXCEPT ![a] = TRUE]

\* The browser goes away, or the Lambda's time is over: the generator is closed
\* where it stands.
Stopped(a) ==
    /\ at[a] \in Working
    /\ Over(a) /\ cut' = [cut EXCEPT ![a] = TRUE]
    /\ UNCHANGED <<messages, screen>>

-----------------------------------------------------------------------------
TurnStep(a) ==
    \/ StoreQuestion(a) \/ RoundEnds(a) \/ RunTool(a) \/ StoreCard(a)
    \/ StoreReply(a) \/ StorePlaceholder(a)

ChatNext ==
    \E a \in Ask :
        \/ FetchConversation(a) \/ TextDelta(a) \/ StreamBreaks(a) \/ TurnStep(a)
        \/ \E t \in Tool : ToolUse(a, t)
        \/ StoreFails(a) \/ Stopped(a)

ChatSpec == ChatInit /\ [][ChatNext]_chatVars

-----------------------------------------------------------------------------
Message ==
    [role : {"user", "assistant"}, by : Ask] \cup [role : {"tool"}, by : Ask, tool : Tool]
      \cup [role : {"assistant"}, by : Ask, text : SUBSET Round]
Local == [history : Seq(Message), round : Round, said : BOOLEAN, uses : Seq(Tool),
          spoken : SUBSET Round]
Streamed == {<<"done">>, <<"error">>} \cup ({"text"} \X Round) \cup ({"tool"} \X Tool)

\* Type invariant of the conversation and its requests.
ChatTypeOK ==
    /\ messages \in Seq(Message)
    /\ at \in [Ask -> {"idle", "over"} \cup Working]
    /\ local \in [Ask -> Local]
    /\ screen \in [Ask -> Seq(Streamed)] /\ cut \in [Ask -> BOOLEAN]

Of(a, role)  == {i \in DOMAIN messages : messages[i].by = a /\ messages[i].role = role}
ToolsSeen(a) == {j \in DOMAIN screen[a] : screen[a][j][1] = "tool"}
TextShown(a) == {r \in Round : <<"text", r>> \in Range(screen[a])}
Rank(S, i)   == Cardinality({j \in S : j <= i})

\* A reload shows what was streamed.  The messages of a turn are its question,
\* the cards, the n-th of them the tool of the n-th event, and one closing message
\* at most: a placeholder when the browser saw an error and all the text it saw when
\* it saw "done", in however many rounds that was said and whatever other turns
\* wrote meanwhile.  Unless the turn was cut short, nothing of it is missing.
ReloadShowsTurn ==
    \A a \in Ask :
        LET cards   == Of(a, "tool")
            closing == Of(a, "assistant")
            done    == <<"done">> \in Range(screen[a])
        IN  /\ \A i \in cards : \E j \in ToolsSeen(a) :
                 /\ Rank(cards, i) = Rank(ToolsSeen(a), j)
                 /\ screen[a][j] = <<"tool", messages[i].tool>>
            /\ \A i, j \in closing : i = j
            /\ \A i \in closing :
                 messages[i] = IF done THEN Reply(a, TextShown(a)) ELSE Placeholder(a)
            /\ at[a] = "over" /\ Of(a, "user") # {} /\ ~cut[a] =>
                 /\ Cardinality(cards) = Cardinality(ToolsSeen(a))
                 /\ closing = {} => done /\ TextShown(a) = {}

\* What the model is given of the past is past: a history never holds a part of
\* an answer that was still going on when it was read.
HistoryIsWhole ==
    \A a \in Ask : \A i \in Replayed(a) :
        LET m == local[a].history[i]
        IN  m.role = "assistant" =>
              /\ at[m.by] = "over"
              /\ \E j \in Of(m.by, "assistant") : messages[j] = m /\ Of(m.by, "assistant") = {j}

\* A turn ends, however often the model asks for tools and whatever becomes of
\* them: the rounds are counted, and no failure leaves it waiting.
TurnEnds == \A a \in Ask : at[a] = "asking" ~> at[a] = "over"
=============================================================================
