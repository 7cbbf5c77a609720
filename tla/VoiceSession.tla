---------------------------- MODULE VoiceSession ----------------------------
(***************************************************************************)
(* The response lifecycle of a voice session (web/src/chat/voiceClient.ts) *)
(* against the Realtime service it talks to over the data channel.         *)
(*                                                                         *)
(* The channel keeps the order of the messages in each direction, but both *)
(* sides act before they have seen what is under way.  A step is one event *)
(* handler, one continuation of handleToolCall, or one step of the service *)
(* (external: modelled from the events the client handles and from the     *)
(* session settings of chat_session/voice.py).  Sealed turns go to a       *)
(* TurnQueue, which is a module of its own.                                *)
(***************************************************************************)
EXTENDS Naturals, Sequences, FiniteSets

CONSTANTS
    Call,         \* function calls the model may make in the session
    UTTERANCES    \* bound: utterances of the user

\* A call is none of the other messages of the channel.
ASSUME VoiceAssumption == UTTERANCES \in Nat /\ Call \cap {"created", "done", "create"} = {}

VARIABLES
    on,                                     \* the data channel is open
    responseActive, pendingResponseCreate,  \* the guard of voiceClient.ts:144-148
    toolCallsThisTurn,                      \* results not yet sealed
    executing,                              \* calls whose tool runs in the browser
    turns,                                  \* the tool results of each sealed turn
    events, requests,                       \* the channel: to the client, to the service
    speaking,                               \* the service has a response in progress
    utterances, made                        \* what the user and the model did so far

guard   == <<responseActive, pendingResponseCreate>>
voiceClientVars  == <<guard, toolCallsThisTurn, executing, turns>>
service == <<speaking, utterances, made>>
voiceVars    == <<on, voiceClientVars, events, requests, service>>

Event == {"created", "done"} \cup Call
Request == {"create"} \cup Call

VoiceInit ==
    /\ on = TRUE
    /\ responseActive = FALSE /\ pendingResponseCreate = FALSE
    /\ toolCallsThisTurn = {} /\ executing = {} /\ turns = <<>>
    /\ events = <<>> /\ requests = <<>>
    /\ speaking = FALSE /\ utterances = 0 /\ made = {}

-----------------------------------------------------------------------------
(* The Realtime service.                                                   *)

StartResponse ==
    /\ speaking' = TRUE
    /\ events' = Append(events, "created")

\* create_response: server VAD answers an utterance by itself.  With
\* interrupt_response off, speech during a response starts nothing.
UserSpeaks ==
    /\ on /\ utterances < UTTERANCES /\ ~speaking
    /\ utterances' = utterances + 1
    /\ StartResponse
    /\ UNCHANGED <<on, voiceClientVars, requests, made>>

CallsFunction(c) ==
    /\ on /\ speaking /\ c \notin made
    /\ made' = made \cup {c}
    /\ events' = Append(events, c)
    /\ UNCHANGED <<on, voiceClientVars, requests, speaking, utterances>>

EndsResponse ==
    /\ on /\ speaking
    /\ speaking' = FALSE
    /\ events' = Append(events, "done")
    /\ UNCHANGED <<on, voiceClientVars, requests, utterances, made>>

\* A function output is kept for the next response; response.create during a
\* response is answered with an error.
ServesRequest ==
    /\ on /\ requests # <<>>
    /\ requests' = Tail(requests)
    /\ IF Head(requests) = "create" /\ ~speaking
       THEN StartResponse
       ELSE UNCHANGED <<speaking, events>>
    /\ UNCHANGED <<on, voiceClientVars, utterances, made>>

-----------------------------------------------------------------------------
(* The client.                                                             *)

Receives(e) == on /\ events # <<>> /\ Head(events) = e /\ events' = Tail(events)

OnCreated ==
    /\ Receives("created")
    /\ responseActive' = TRUE
    /\ UNCHANGED <<on, pendingResponseCreate, toolCallsThisTurn, executing, turns,
                   requests, service>>

\* handleToolCall up to its await of executeTool.
OnFunctionCall(c) ==
    /\ Receives(c)
    /\ executing' = executing \cup {c}
    /\ UNCHANGED <<on, guard, toolCallsThisTurn, turns, requests, service>>

\* The rest of handleToolCall.  On a closed channel the sends do nothing.
ToolReturns(c) ==
    /\ c \in executing
    /\ executing' = executing \ {c}
    /\ toolCallsThisTurn' = toolCallsThisTurn \cup {c}
    /\ pendingResponseCreate' = (pendingResponseCreate \/ responseActive)
    /\ requests' = CASE ~on -> requests
                     [] responseActive -> Append(requests, c)
                     [] OTHER -> requests \o <<c, "create">>
    /\ UNCHANGED <<on, responseActive, turns, events, service>>

\* Mutant: the accumulator of the tool results is not emptied.
SealTurnKeeping ==
    /\ turns' = Append(turns, toolCallsThisTurn)
    /\ responseActive' = FALSE /\ pendingResponseCreate' = FALSE
    /\ UNCHANGED toolCallsThisTurn

\* sealTurn with resetTurnAccumulators, which clears the guard as well.
SealTurn ==
    /\ turns' = Append(turns, toolCallsThisTurn)
    /\ toolCallsThisTurn' = {}
    /\ responseActive' = FALSE /\ pendingResponseCreate' = FALSE

\* response.done: responseActive = false; sealTurn(); then, if a create is
\* still pending, it is sent.
OnDone ==
    /\ Receives("done")
    /\ SealTurn
    /\ requests' = IF pendingResponseCreate' THEN Append(requests, "create") ELSE requests
    /\ UNCHANGED <<on, executing, service>>

\* teardown(): the connection is closed or lost; what was under way is gone.
Teardown ==
    /\ on
    /\ on' = FALSE /\ events' = <<>> /\ requests' = <<>>
    /\ UNCHANGED <<voiceClientVars, service>>

-----------------------------------------------------------------------------
ServiceStep ==
    \/ UserSpeaks \/ EndsResponse \/ ServesRequest
    \/ \E c \in Call : CallsFunction(c)
ClientStep ==
    \/ OnCreated \/ OnDone \/ Teardown
    \/ \E c \in Call : OnFunctionCall(c) \/ ToolReturns(c)

VoiceNext == ServiceStep \/ ClientStep
VoiceSpec == VoiceInit /\ [][VoiceNext]_voiceVars
-----------------------------------------------------------------------------
\* Type invariant of the client, the channel and the service.
VoiceTypeOK ==
    /\ on \in BOOLEAN /\ speaking \in BOOLEAN
    /\ responseActive \in BOOLEAN /\ pendingResponseCreate \in BOOLEAN
    /\ toolCallsThisTurn \subseteq Call /\ executing \subseteq Call
    /\ made \subseteq Call /\ utterances \in 0..UTTERANCES
    /\ turns \in Seq(SUBSET Call)
    /\ events \in Seq(Event) /\ requests \in Seq(Request)

InChannel(e) == \E i \in DOMAIN events : events[i] = e

\* Every tool result is persisted once: a call is still under way, or waits in
\* the accumulator, or is in exactly one sealed turn - although tools return
\* at any time relative to the responses that seal the turns.
ToolResultsKept ==
    on => \A c \in made :
        LET sealedIn == {i \in DOMAIN turns : c \in turns[i]}
            waiting  == InChannel(c) \/ c \in executing \/ c \in toolCallsThisTurn
        IN  Cardinality(sealedIn) <= 1 /\ (waiting <=> sealedIn = {})

=============================================================================
