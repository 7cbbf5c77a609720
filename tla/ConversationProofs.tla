------------------------- MODULE ConversationProofs -------------------------
(***************************************************************************)
(* Proofs about a conversation: that a voice session persists every tool   *)
(* result once, that a text turn reloads as it was streamed and is given a *)
(* past that is past, for any number of calls, utterances, requests, tools *)
(* and rounds, and that with the queue of TurnQueueProofs they hold side   *)
(* by side.                                                                *)
(***************************************************************************)
EXTENDS Conversation, TurnQueueProofs, FiniteSetTheorems

-----------------------------------------------------------------------------
(* The voice session.                                                      *)

\* What Append does to the elements of a sequence.
LEMMA AppendHas ==
    ASSUME NEW S, NEW s \in Seq(S), NEW e \in S
    PROVE  /\ Append(s, e) \in Seq(S) /\ DOMAIN s = 1..Len(s) /\ Len(s) \in Nat
           /\ DOMAIN Append(s, e) = 1..(Len(s) + 1)
           /\ \A i \in 1..Len(s) : Append(s, e)[i] = s[i]
           /\ Append(s, e)[Len(s) + 1] = e
    OBVIOUS

\* What Head and Tail take from a sequence.
LEMMA TailHas ==
    ASSUME NEW S, NEW s \in Seq(S), s # <<>>
    PROVE  /\ Tail(s) \in Seq(S) /\ DOMAIN s = 1..Len(s) /\ Len(s) \in Nat \ {0}
           /\ DOMAIN Tail(s) = 1..(Len(s) - 1)
           /\ \A i \in 1..(Len(s) - 1) : Tail(s)[i] = s[i + 1]
           /\ Head(s) = s[1] /\ Head(s) \in S
    OBVIOUS

\* The client, the channel and the service keep their types.
LEMMA VoiceTypes == VoiceTypeOK /\ [VoiceNext]_voiceVars => VoiceTypeOK'
<1> SUFFICES ASSUME VoiceTypeOK, [VoiceNext]_voiceVars PROVE VoiceTypeOK'
  OBVIOUS
<1> USE DEF VoiceTypeOK
<1>0. Call \subseteq Event /\ Call \subseteq Request /\ {"created", "done"} \subseteq Event
      /\ "create" \in Request
  BY DEF Event, Request
<1>1. CASE UserSpeaks
  <2>1. utterances' \in 0..UTTERANCES
    BY <1>1, VoiceAssumption DEF UserSpeaks
  <2> QED
    BY <1>0, <1>1, <2>1 DEF UserSpeaks, StartResponse, voiceClientVars, guard
<1>2. ASSUME NEW c \in Call, CallsFunction(c) PROVE VoiceTypeOK'
  BY <1>0, <1>2 DEF CallsFunction, voiceClientVars, guard
<1>3. CASE EndsResponse
  <2>1. speaking' \in BOOLEAN
    BY <1>3 DEF EndsResponse
  <2> QED
    BY <1>0, <1>3, <2>1 DEF EndsResponse, voiceClientVars, guard
<1>4. CASE ServesRequest
  <2>1. requests' \in Seq(Request)
    BY <1>4 DEF ServesRequest
  <2>2. \/ speaking' = TRUE /\ events' = Append(events, "created")
        \/ speaking' = speaking /\ events' = events
    BY <1>4 DEF ServesRequest, StartResponse
  <2>3. speaking' \in BOOLEAN
    BY <2>2
  <2>4. events' \in Seq(Event)
    BY <1>0, <2>2
  <2> QED
    BY <1>4, <2>1, <2>3, <2>4 DEF ServesRequest, voiceClientVars, guard
<1>5. CASE OnCreated
  BY <1>5 DEF OnCreated, Receives, service
<1>6. CASE OnDone
  <2>1. turns' \in Seq(SUBSET Call) /\ toolCallsThisTurn' = {} /\ requests' \in Seq(Request)
    BY <1>0, <1>6 DEF OnDone, SealTurn
  <2>2. responseActive' \in BOOLEAN /\ pendingResponseCreate' \in BOOLEAN
    BY <1>6 DEF OnDone, SealTurn
  <2>3. events' \in Seq(Event)
    BY <1>6 DEF OnDone, Receives
  <2> QED
    BY <1>6, <2>1, <2>2, <2>3 DEF OnDone, service
<1>7. CASE Teardown
  <2>1. on' \in BOOLEAN
    BY <1>7 DEF Teardown
  <2>2. events' \in Seq(Event) /\ requests' \in Seq(Request)
    BY <1>7 DEF Teardown
  <2> QED
    BY <1>7, <2>1, <2>2 DEF Teardown, voiceClientVars, guard, service
<1>8. ASSUME NEW c \in Call, OnFunctionCall(c) PROVE VoiceTypeOK'
  BY <1>8 DEF OnFunctionCall, Receives, service, guard
<1>9. ASSUME NEW c \in Call, ToolReturns(c) PROVE VoiceTypeOK'
  <2>1. requests' \in Seq(Request)
    <3>1. requests' \in {requests, Append(requests, c), requests \o <<c, "create">>}
      BY <1>9 DEF ToolReturns
    <3>2. requests \in Seq(Request) /\ c \in Request /\ <<c, "create">> \in Seq(Request)
      BY <1>0
    <3>3. Append(requests, c) \in Seq(Request) /\ requests \o <<c, "create">> \in Seq(Request)
      BY <3>2
    <3> QED
      BY <3>1, <3>2, <3>3
  <2> QED
    BY <1>9, <2>1 DEF ToolReturns, service
<1>10. CASE UNCHANGED voiceVars
  BY <1>10 DEF voiceVars, voiceClientVars, guard, service
<1> QED
  BY <1>1, <1>2, <1>3, <1>4, <1>5, <1>6, <1>7, <1>8, <1>9, <1>10
  DEF VoiceNext, ServiceStep, ClientStep

\* The client, the channel and the service have their types in every state.
THEOREM VoiceTypeCorrect == VoiceSpec => []VoiceTypeOK
<1>1. VoiceInit => VoiceTypeOK
  <2> SUFFICES ASSUME VoiceInit PROVE VoiceTypeOK
    OBVIOUS
  <2>1. on \in BOOLEAN /\ responseActive \in BOOLEAN /\ pendingResponseCreate \in BOOLEAN
        /\ speaking \in BOOLEAN
    BY DEF VoiceInit
  <2>2. turns \in Seq(SUBSET Call) /\ events \in Seq(Event) /\ requests \in Seq(Request)
    BY DEF VoiceInit
  <2>3. /\ toolCallsThisTurn \subseteq Call /\ executing \subseteq Call /\ made \subseteq Call
        /\ utterances \in 0..UTTERANCES
    BY VoiceAssumption DEF VoiceInit
  <2> QED
    BY <2>1, <2>2, <2>3 DEF VoiceTypeOK
<1> QED
  BY <1>1, VoiceTypes, PTL DEF VoiceSpec

-----------------------------------------------------------------------------
(* Where a tool call is.                                                   *)

\* An element is in a sequence, and in one place of it at most.
Has(s, c)    == \E i \in DOMAIN s : s[i] = c
OnceIn(s, c) == \A i, j \in DOMAIN s : s[i] = c /\ s[j] = c => i = j

InTurns(c) == \E i \in DOMAIN turns : c \in turns[i]

\* A call is nowhere before it is made, and in one place after: on its way to the
\* client, under way, in the accumulator, or sealed.
InOnePlace(c) ==
    \/ c \notin made /\ ~Has(events, c) /\ c \notin executing /\ c \notin toolCallsThisTurn /\ ~InTurns(c)
    \/ c \in made /\ Has(events, c) /\ c \notin executing /\ c \notin toolCallsThisTurn /\ ~InTurns(c)
    \/ c \in made /\ ~Has(events, c) /\ c \in executing /\ c \notin toolCallsThisTurn /\ ~InTurns(c)
    \/ c \in made /\ ~Has(events, c) /\ c \notin executing /\ c \in toolCallsThisTurn /\ ~InTurns(c)
    \/ c \in made /\ ~Has(events, c) /\ c \notin executing /\ c \notin toolCallsThisTurn /\ InTurns(c)

\* And there once.
Once(c) ==
    /\ OnceIn(events, c)
    /\ \A i, j \in DOMAIN turns : c \in turns[i] /\ c \in turns[j] => i = j

CallsKept == on => \A c \in Call : InOnePlace(c) /\ Once(c)

\* Another message behind the channel is no call.
LEMMA AppendOther ==
    ASSUME NEW S, NEW s \in Seq(S), NEW e \in S, NEW c, e # c
    PROVE  /\ Has(Append(s, e), c) <=> Has(s, c)
           /\ OnceIn(s, c) => OnceIn(Append(s, e), c)
<1> DEFINE t == Append(s, e)
<1>1. /\ DOMAIN s = 1..Len(s) /\ Len(s) \in Nat /\ DOMAIN t = 1..(Len(s) + 1)
      /\ \A i \in 1..Len(s) : t[i] = s[i]
      /\ t[Len(s) + 1] = e
  BY AppendHas
<1> HIDE DEF t
<1>2. \A i \in DOMAIN t : t[i] = c => i \in DOMAIN s /\ s[i] = c
  BY <1>1
<1>3. \A i \in DOMAIN s : i \in DOMAIN t /\ t[i] = s[i]
  BY <1>1
<1>4. (Has(t, c) <=> Has(s, c)) /\ (OnceIn(s, c) => OnceIn(t, c))
  BY <1>2, <1>3 DEF Has, OnceIn
<1> QED
  BY <1>4 DEF t

\* Nor is another message that is taken off it.
LEMMA TailOther ==
    ASSUME NEW S, NEW s \in Seq(S), s # <<>>, NEW c, Head(s) # c
    PROVE  /\ Has(Tail(s), c) <=> Has(s, c)
           /\ OnceIn(s, c) => OnceIn(Tail(s), c)
<1> DEFINE t == Tail(s)
<1>1. /\ DOMAIN s = 1..Len(s) /\ Len(s) \in Nat \ {0} /\ DOMAIN t = 1..(Len(s) - 1)
      /\ \A i \in 1..(Len(s) - 1) : t[i] = s[i + 1]
      /\ s[1] # c
  BY TailHas
<1> HIDE DEF t
<1>2. \A i \in DOMAIN t : i \in Nat /\ i + 1 \in DOMAIN s /\ t[i] = s[i + 1]
  BY <1>1
<1>3. ASSUME NEW i \in DOMAIN s, s[i] = c PROVE i - 1 \in DOMAIN t /\ t[i - 1] = c
  BY <1>1, <1>3
<1>4. ASSUME OnceIn(s, c), NEW i \in DOMAIN t, NEW j \in DOMAIN t, t[i] = c, t[j] = c
      PROVE  i = j
  <2>1. i + 1 = j + 1
    BY <1>2, <1>4 DEF OnceIn
  <2> QED
    BY <1>2, <2>1
<1>5. Has(t, c) <=> Has(s, c)
  BY <1>2, <1>3 DEF Has
<1>6. OnceIn(s, c) => OnceIn(t, c)
  BY <1>4 DEF OnceIn
<1> QED
  BY <1>5, <1>6 DEF t

\* So a call is in the channel as before.
LEMMA OtherEvents ==
    ASSUME VoiceTypeOK, NEW c \in Call,
           \/ events' = events
           \/ \E e \in Event \ {c} : events' = Append(events, e)
           \/ events # <<>> /\ Head(events) # c /\ events' = Tail(events)
    PROVE  /\ Has(events', c) <=> Has(events, c)
           /\ OnceIn(events, c) => OnceIn(events', c)
<1>0. events \in Seq(Event)
  BY DEF VoiceTypeOK
<1>1. CASE events' = events
  BY <1>1
<1>2. ASSUME NEW e \in Event \ {c}, events' = Append(events, e)
      PROVE  /\ Has(events', c) <=> Has(events, c)
             /\ OnceIn(events, c) => OnceIn(events', c)
  <2>1. /\ Has(Append(events, e), c) <=> Has(events, c)
        /\ OnceIn(events, c) => OnceIn(Append(events, e), c)
    BY <1>0, AppendOther
  <2> QED
    BY <1>2, <2>1
<1>3. CASE events # <<>> /\ Head(events) # c /\ events' = Tail(events)
  <2>1. /\ Has(Tail(events), c) <=> Has(events, c)
        /\ OnceIn(events, c) => OnceIn(Tail(events), c)
    BY <1>0, <1>3, TailOther
  <2> QED
    BY <1>3, <2>1
<1> QED
  BY <1>1, <1>2, <1>3

\* A call that is made goes into the channel.
LEMMA CallEnters ==
    ASSUME VoiceTypeOK, NEW c \in Call, ~Has(events, c), events' = Append(events, c)
    PROVE  /\ Has(events', c)
           /\ OnceIn(events', c)
<1>1. events \in Seq(Event) /\ c \in Event
  BY DEF VoiceTypeOK, Event
<1>2. /\ DOMAIN events = 1..Len(events) /\ Len(events) \in Nat
      /\ DOMAIN events' = 1..(Len(events) + 1)
      /\ \A i \in 1..Len(events) : events'[i] = events[i]
      /\ events'[Len(events) + 1] = c
  BY <1>1, AppendHas
<1>3. \A i \in DOMAIN events : events[i] # c
  BY DEF Has, OnceIn
<1>4. \A i \in DOMAIN events' : events'[i] = c => i = Len(events) + 1
  BY <1>2, <1>3
<1>5. Len(events) + 1 \in DOMAIN events'
  BY <1>2
<1> QED
  BY <1>2, <1>4, <1>5 DEF Has, OnceIn

\* The client takes it off, and it was there once.
LEMMA CallLeaves ==
    ASSUME VoiceTypeOK, NEW c \in Call, Receives(c), OnceIn(events, c)
    PROVE  Has(events, c) /\ ~Has(events', c)
<1>1. events \in Seq(Event) /\ events # <<>> /\ Head(events) = c /\ events' = Tail(events)
  BY DEF VoiceTypeOK, Receives
<1>2. /\ DOMAIN events = 1..Len(events) /\ Len(events) \in Nat \ {0}
      /\ DOMAIN events' = 1..(Len(events) - 1)
      /\ \A i \in 1..(Len(events) - 1) : events'[i] = events[i + 1]
      /\ events[1] = c
  BY <1>1, TailHas
<1>3. 1 \in DOMAIN events
  BY <1>2
<1>4. ASSUME NEW i \in DOMAIN events', events'[i] = c PROVE FALSE
  <2>1. i + 1 \in DOMAIN events /\ events[i + 1] = c /\ i + 1 # 1
    BY <1>2, <1>4
  <2> QED
    BY <1>2, <1>3, <2>1 DEF OnceIn
<1> QED
  BY <1>2, <1>3, <1>4 DEF Has

\* A call stays in its place, or goes on to the next.
LEMMA CallsKeptStep == VoiceTypeOK /\ CallsKept /\ [VoiceNext]_voiceVars => CallsKept'
<1> SUFFICES ASSUME VoiceTypeOK, CallsKept, [VoiceNext]_voiceVars, on', NEW c \in Call
             PROVE  InOnePlace(c)' /\ Once(c)'
  BY DEF CallsKept
<1>0. on /\ InOnePlace(c) /\ Once(c) /\ c \notin {"created", "done", "create"}
  <2>1. on
    BY DEF VoiceNext, ServiceStep, ClientStep, UserSpeaks, CallsFunction, EndsResponse,
       ServesRequest, OnCreated, OnDone, Teardown, OnFunctionCall, ToolReturns, Receives, voiceVars
  <2> QED
    BY <2>1, VoiceAssumption DEF CallsKept
<1> USE DEF InOnePlace, Once
\* A step that is not about this call, and seals nothing.
<1>1. ASSUME /\ turns' = turns
             /\ c \in made' <=> c \in made
             /\ c \in executing' <=> c \in executing
             /\ c \in toolCallsThisTurn' <=> c \in toolCallsThisTurn,
             \/ events' = events
             \/ \E e \in Event \ {c} : events' = Append(events, e)
             \/ events # <<>> /\ Head(events) # c /\ events' = Tail(events)
      PROVE  InOnePlace(c)' /\ Once(c)'
  <2>1. Has(events', c) <=> Has(events, c)
    BY <1>1, OtherEvents
  <2>2. OnceIn(events', c)
    BY <1>0, <1>1, OtherEvents
  <2>3. InTurns(c)' <=> InTurns(c)
    BY <1>1 DEF InTurns
  <2> QED
    BY <1>0, <1>1, <2>1, <2>2, <2>3
<1>2. CASE UserSpeaks \/ EndsResponse \/ ServesRequest
  <2>1. /\ turns' = turns /\ made' = made /\ executing' = executing
        /\ toolCallsThisTurn' = toolCallsThisTurn
        /\ events' = events \/ \E e \in {"created", "done"} : events' = Append(events, e)
    BY <1>2 DEF UserSpeaks, EndsResponse, ServesRequest, StartResponse, voiceClientVars
  <2> QED
    BY <1>0, <1>1, <2>1 DEF Event
<1>3. ASSUME NEW d \in Call, CallsFunction(d) PROVE InOnePlace(c)' /\ Once(c)'
  <2>1. /\ turns' = turns /\ executing' = executing /\ toolCallsThisTurn' = toolCallsThisTurn
        /\ made' = made \cup {d} /\ d \notin made /\ events' = Append(events, d)
    BY <1>3 DEF CallsFunction, voiceClientVars
  <2>2. CASE d = c
    <3>1. ~Has(events, c) /\ c \notin executing /\ c \notin toolCallsThisTurn /\ ~InTurns(c)
      BY <1>0, <2>1, <2>2
    <3>2. /\ Has(events', c)
          /\ OnceIn(events', c)
      BY <2>1, <2>2, <3>1, CallEnters
    <3>3. ~InTurns(c)'
      BY <2>1, <3>1 DEF InTurns
    <3> QED
      BY <1>0, <2>1, <2>2, <3>1, <3>2, <3>3
  <2>3. CASE d # c
    BY <1>1, <2>1, <2>3 DEF Event
  <2> QED
    BY <2>2, <2>3
<1>4. CASE OnCreated
  BY <1>0, <1>1, <1>4 DEF OnCreated, Receives, service
<1>5. ASSUME NEW d \in Call, OnFunctionCall(d) PROVE InOnePlace(c)' /\ Once(c)'
  <2>1. /\ turns' = turns /\ executing' = executing \cup {d}
        /\ toolCallsThisTurn' = toolCallsThisTurn /\ made' = made
        /\ Receives(d) /\ events # <<>> /\ Head(events) = d /\ events' = Tail(events)
    BY <1>5 DEF OnFunctionCall, service, Receives
  <2>2. CASE d = c
    <3>1. Has(events, c) /\ ~Has(events', c)
      BY <1>0, <2>1, <2>2, CallLeaves
    <3>2. OnceIn(events', c)
      BY <3>1 DEF Has, OnceIn
    <3>3. InTurns(c)' <=> InTurns(c)
      BY <2>1 DEF InTurns
    <3> QED
      BY <1>0, <2>1, <2>2, <3>1, <3>2, <3>3
  <2>3. CASE d # c
    BY <1>1, <2>1, <2>3
  <2> QED
    BY <2>2, <2>3
<1>6. ASSUME NEW d \in Call, ToolReturns(d) PROVE InOnePlace(c)' /\ Once(c)'
  <2>1. /\ turns' = turns /\ executing' = executing \ {d} /\ d \in executing
        /\ toolCallsThisTurn' = toolCallsThisTurn \cup {d} /\ made' = made /\ events' = events
    BY <1>6 DEF ToolReturns, service
  <2>2. Has(events', c) <=> Has(events, c)
    BY <2>1 DEF Has, OnceIn
  <2>3. InTurns(c)' <=> InTurns(c)
    BY <2>1 DEF InTurns
  <2> QED
    BY <1>0, <2>1, <2>2, <2>3
<1>7. CASE OnDone
  <2>1. /\ turns' = Append(turns, toolCallsThisTurn) /\ toolCallsThisTurn' = {}
        /\ made' = made /\ executing' = executing
        /\ events # <<>> /\ Head(events) = "done" /\ events' = Tail(events)
    BY <1>7 DEF OnDone, SealTurn, Receives, service
  <2>2. turns \in Seq(SUBSET Call) /\ toolCallsThisTurn \in SUBSET Call
    BY DEF VoiceTypeOK
  <2>3. /\ DOMAIN turns = 1..Len(turns) /\ Len(turns) \in Nat
        /\ DOMAIN turns' = 1..(Len(turns) + 1)
        /\ \A i \in 1..Len(turns) : turns'[i] = turns[i]
        /\ turns'[Len(turns) + 1] = toolCallsThisTurn
    BY <2>1, <2>2, AppendHas
  <2>4. Has(events', c) <=> Has(events, c)
    BY <1>0, <2>1, OtherEvents
  <2>5. OnceIn(events', c)
    BY <1>0, <2>1, OtherEvents
  <2>6. CASE c \in toolCallsThisTurn
    <3>1. ~InTurns(c) /\ ~Has(events, c) /\ c \in made /\ c \notin executing
      BY <1>0, <2>6
    <3>2. \A i \in DOMAIN turns' : c \in turns'[i] <=> i = Len(turns) + 1
      BY <2>3, <2>6, <3>1 DEF InTurns
    <3>3. Len(turns) + 1 \in DOMAIN turns'
      BY <2>3
    <3>4. InTurns(c)'
      BY <3>2, <3>3 DEF InTurns
    <3>5. \A i, j \in DOMAIN turns' : c \in turns'[i] /\ c \in turns'[j] => i = j
      BY <3>2
    <3> QED
      BY <2>1, <2>4, <2>5, <3>1, <3>4, <3>5
  <2>7. CASE c \notin toolCallsThisTurn
    <3>1. \A i \in DOMAIN turns' : c \in turns'[i] <=> i \in DOMAIN turns /\ c \in turns[i]
      BY <2>3, <2>7
    <3>2. InTurns(c)' <=> InTurns(c)
      BY <2>3, <3>1 DEF InTurns
    <3>3. \A i, j \in DOMAIN turns' : c \in turns'[i] /\ c \in turns'[j] => i = j
      BY <1>0, <3>1
    <3> QED
      BY <1>0, <2>1, <2>4, <2>5, <2>7, <3>2, <3>3
  <2> QED
    BY <2>6, <2>7
<1>8. CASE UNCHANGED voiceVars
  BY <1>1, <1>8 DEF voiceVars, voiceClientVars, service
<1>9. ~Teardown
  BY DEF Teardown
<1> QED
  BY <1>2, <1>3, <1>4, <1>5, <1>6, <1>7, <1>8, <1>9 DEF VoiceNext, ServiceStep, ClientStep

\* The sets of turns of the property have one element at most.
LEMMA KeptIsProperty == VoiceTypeOK /\ CallsKept => ToolResultsKept
<1> SUFFICES ASSUME VoiceTypeOK, CallsKept, on, NEW c \in made
             PROVE  LET sealedIn == {i \in DOMAIN turns : c \in turns[i]}
                        waiting  == InChannel(c) \/ c \in executing \/ c \in toolCallsThisTurn
                    IN  Cardinality(sealedIn) <= 1 /\ (waiting <=> sealedIn = {})
  BY DEF ToolResultsKept
<1> DEFINE sealedIn == {i \in DOMAIN turns : c \in turns[i]}
<1>1. InOnePlace(c) /\ Once(c)
  BY DEF VoiceTypeOK, CallsKept
<1>2. sealedIn = {} <=> ~InTurns(c)
  BY DEF InTurns
<1>3. Cardinality(sealedIn) <= 1
  <2>1. CASE sealedIn = {}
    BY <2>1, FS_EmptySet
  <2>2. CASE sealedIn # {}
    <3>1. PICK i : i \in sealedIn
      BY <2>2
    <3>2. sealedIn = {i}
      BY <1>1, <3>1 DEF Once
    <3>3. Cardinality(sealedIn) = 1
      BY <3>2, FS_Singleton
    <3> QED
      BY <3>3
  <2> QED
    BY <2>1, <2>2
<1> QED
  BY <1>1, <1>2, <1>3 DEF InOnePlace, InChannel, Has

\* Every tool result of a voice session is persisted once: the call is still under way
\* or is in one sealed turn, whenever its tool returns and whatever response seals it.
THEOREM ToolResultsKeptAlways == VoiceSpec => []ToolResultsKept
<1>1. VoiceInit => CallsKept
  BY DEF VoiceInit, CallsKept, InOnePlace, Once, Has, OnceIn, InTurns
<1> QED
  BY <1>1, CallsKeptStep, KeptIsProperty, VoiceTypeCorrect, PTL DEF VoiceSpec

-----------------------------------------------------------------------------
(* The text turns: types.                                                  *)

Place == {"idle", "over"} \cup Working

\* What the steps make of a request's locals is locals again.
LEMMA LocalOps ==
    ASSUME NEW l \in Local
    PROVE  /\ Fresh \in Local
           /\ \A h \in Seq(Message) : [l EXCEPT !.history = h] \in Local
           /\ [l EXCEPT !.said = TRUE] \in Local
           /\ \A u \in Seq(Tool) : [l EXCEPT !.uses = u] \in Local
           /\ \A s \in SUBSET Round : [l EXCEPT !.spoken = s, !.said = FALSE] \in Local
           /\ \A u \in Seq(Tool) : \A r \in Round : [l EXCEPT !.uses = u, !.round = r] \in Local
           /\ Spoken(l) \in SUBSET Round
<1>1. 1 \in Round /\ <<>> \in Seq(Message) /\ <<>> \in Seq(Tool)
  BY ChatAssumption DEF ChatAssumption, Round
<1> QED
  BY <1>1 DEF Local, Fresh, Spoken

\* The messages and the events that are written are messages and events.
LEMMA Written ==
    ASSUME NEW a \in Ask
    PROVE  /\ Question(a) \in Message /\ Placeholder(a) \in Message
           /\ \A t \in Tool : Card(a, t) \in Message /\ <<"tool", t>> \in Streamed
           /\ \A x \in SUBSET Round : Reply(a, x) \in Message
           /\ <<"done">> \in Streamed /\ <<"error">> \in Streamed
           /\ \A r \in Round : <<"text", r>> \in Streamed
<1> USE DEF Message, Streamed, Question, Placeholder, Card, Reply
<1>1. Question(a) \in Message /\ Placeholder(a) \in Message
  OBVIOUS
<1>2. \A t \in Tool : Card(a, t) \in Message
  OBVIOUS
<1>3. \A x \in SUBSET Round : Reply(a, x) \in Message
  OBVIOUS
<1>4. \A t \in Tool : <<"tool", t>> \in Streamed
  OBVIOUS
<1>5. <<"done">> \in Streamed /\ <<"error">> \in Streamed /\ \A r \in Round : <<"text", r>> \in Streamed
  OBVIOUS
<1> QED
  BY <1>1, <1>2, <1>3, <1>4, <1>5

\* A request writes in its own name, a card for the tool that just ran, an answer when
\* it is over.
Writes(a, m) ==
    /\ m.by = a /\ messages' = Append(messages, m)
    /\ m.role = "assistant" => at'[a] = "over"
    /\ m.role = "tool" => at[a] = "card" /\ m.tool = Head(local[a].uses)

\* A step is one request's: it moves that request, writes one message at most in its
\* name, and one event at most for its browser.
Touches(a) ==
    /\ at[a] # "over"
    /\ \E p \in Place : at' = [at EXCEPT ![a] = p]
    /\ \E l \in Local : /\ local' = [local EXCEPT ![a] = l]
                        /\ \/ l.history \in {local[a].history, <<>>}
                           \/ l.history = messages /\ messages' = messages
    /\ screen' = screen \/ \E e \in Streamed : screen' = [screen EXCEPT ![a] = Append(screen[a], e)]
    /\ messages' = messages \/ \E m \in Message : Writes(a, m)
    /\ cut' = cut \/ cut' = [cut EXCEPT ![a] = TRUE]

\* A request that is with its tools has tools left to run.
UsesLeft(a) == at[a] \in {"tools", "card"} => local[a].uses # <<>>

\* Every step of a request is such a step.
LEMMA StepTouches ==
    ASSUME ChatTypeOK, NEW a \in Ask, UsesLeft(a),
           \/ FetchConversation(a) \/ TextDelta(a) \/ StreamBreaks(a) \/ TurnStep(a)
           \/ \E t \in Tool : ToolUse(a, t)
           \/ StoreFails(a) \/ Stopped(a)
    PROVE  Touches(a)
<1>0. /\ at \in [Ask -> Place] /\ local \in [Ask -> Local] /\ messages \in Seq(Message)
      /\ screen \in [Ask -> Seq(Streamed)] /\ cut \in [Ask -> BOOLEAN] /\ local[a] \in Local
  BY DEF ChatTypeOK, Place
<1>1. /\ local[a].history \in Seq(Message) /\ local[a].round \in Round /\ local[a].said \in BOOLEAN
      /\ local[a].uses \in Seq(Tool) /\ local[a].spoken \in SUBSET Round
  BY <1>0 DEF Local
<1>2. at' = at => at' = [at EXCEPT ![a] = at[a]] /\ at[a] \in Place
  BY <1>0
<1>3. local' = local => local' = [local EXCEPT ![a] = local[a]]
  BY <1>0
<1>4. Over(a) => /\ at' = [at EXCEPT ![a] = "over"] /\ local' = [local EXCEPT ![a] = Fresh]
                 /\ Fresh \in Local /\ Fresh.history = <<>>
  BY <1>0, LocalOps DEF Over, Goes, Fresh
<1>5. {"over", "asking", "round", "tools", "card", "done", "failed"} \subseteq Place
  BY DEF Place, Working
<1>6. ASSUME NEW p \in Place, at' = [at EXCEPT ![a] = p], at[a] # "over",
             NEW l \in Local, local' = [local EXCEPT ![a] = l], l.history = local[a].history,
             screen' = screen \/ \E e \in Streamed : screen' = [screen EXCEPT ![a] = Append(screen[a], e)],
             UNCHANGED <<messages, cut>>
      PROVE  Touches(a)
  BY <1>6 DEF Touches, Writes
<1>7. CASE FetchConversation(a)
  <2>1. /\ at[a] = "idle" /\ UNCHANGED <<messages, cut>>
        /\ \/ /\ Goes(a, "over") /\ Streams(a, <<"error">>) /\ UNCHANGED local
           \/ /\ Goes(a, "asking") /\ local' = [local EXCEPT ![a].history = messages]
              /\ UNCHANGED screen
    BY <1>7 DEF FetchConversation
  <2>2. CASE Goes(a, "over") /\ Streams(a, <<"error">>) /\ UNCHANGED local
    BY <1>0, <1>3, <1>5, <1>6, <2>1, <2>2, Written DEF Goes, Streams
  <2>3. CASE /\ Goes(a, "asking") /\ local' = [local EXCEPT ![a].history = messages]
             /\ UNCHANGED screen
    <3> DEFINE l == [local[a] EXCEPT !.history = messages]
    <3>1. l \in Local /\ l.history = messages
      BY <1>0, LocalOps DEF Local
    <3>2. local' = [local EXCEPT ![a] = l]
      BY <2>3
    <3> HIDE DEF l
    <3> QED
      BY <1>5, <2>1, <2>3, <3>1, <3>2 DEF Touches, Writes, Goes
  <2> QED
    BY <2>1, <2>2, <2>3
<1>8. CASE TextDelta(a)
  <2> DEFINE l == [local[a] EXCEPT !.said = TRUE]
  <2>1. l \in Local /\ l.history = local[a].history
    BY <1>0, LocalOps DEF Local
  <2>2. local' = [local EXCEPT ![a] = l]
    BY <1>8 DEF TextDelta
  <2>3. \E e \in Streamed : screen' = [screen EXCEPT ![a] = Append(screen[a], e)]
    BY <1>0, <1>1, <1>8, Written DEF TextDelta, Streams
  <2> HIDE DEF l
  <2> QED
    BY <1>2, <1>6, <1>8, <2>1, <2>2, <2>3 DEF TextDelta
<1>9. ASSUME NEW t \in Tool, ToolUse(a, t) PROVE Touches(a)
  <2> DEFINE l == [local[a] EXCEPT !.uses = Append(local[a].uses, t)]
  <2>1. Append(local[a].uses, t) \in Seq(Tool)
    BY <1>1
  <2>2. l \in Local /\ l.history = local[a].history
    BY <1>0, <2>1, LocalOps DEF Local
  <2>3. local' = [local EXCEPT ![a] = l]
    BY <1>9 DEF ToolUse
  <2> HIDE DEF l
  <2> QED
    BY <1>2, <1>6, <1>9, <2>2, <2>3 DEF ToolUse
<1>10. CASE RoundEnds(a)
  <2> DEFINE l == [local[a] EXCEPT !.spoken = Spoken(local[a]), !.said = FALSE]
  <2>1. l \in Local /\ l.history = local[a].history
    BY <1>0, LocalOps DEF Local
  <2>2. local' = [local EXCEPT ![a] = l]
    BY <1>10 DEF RoundEnds, EndOfRound
  <2>3. \/ Goes(a, "done") /\ Streams(a, <<"done">>)
        \/ Goes(a, "tools") /\ UNCHANGED screen
    BY <1>10 DEF RoundEnds, EndOfRound
  <2> HIDE DEF l
  <2> QED
    BY <1>0, <1>5, <1>6, <1>10, <2>1, <2>2, <2>3, Written DEF RoundEnds, Goes, Streams
<1>11. CASE StreamBreaks(a)
  <2>1. \E e \in Streamed : screen' = [screen EXCEPT ![a] = Append(screen[a], e)]
    BY <1>0, <1>11, Written DEF StreamBreaks, Streams
  <2> QED
    BY <1>0, <1>3, <1>5, <1>6, <1>11, <2>1 DEF StreamBreaks, Goes
<1>18. at[a] \in {"tools", "card"} => /\ Head(local[a].uses) \in Tool
                                     /\ Tail(local[a].uses) \in Seq(Tool)
  BY <1>1 DEF UsesLeft
<1>12. CASE RunTool(a)
  <2>1. \E e \in Streamed : screen' = [screen EXCEPT ![a] = Append(screen[a], e)]
    BY <1>0, <1>12, <1>18, Written DEF RunTool, Streams
  <2> QED
    BY <1>0, <1>3, <1>5, <1>6, <1>12, <2>1 DEF RunTool, Goes
<1>13. CASE StoreCard(a)
  <2> DEFINE m == Card(a, Head(local[a].uses))
  <2>1. m \in Message /\ m.by = a /\ m.role # "assistant" /\ m.tool = Head(local[a].uses)
    BY <1>13, <1>18, Written DEF StoreCard, Card
  <2>2. /\ at[a] = "card" /\ messages' = Append(messages, m) /\ cut' = cut /\ AfterCard(a)
    BY <1>13 DEF StoreCard, Stores
  <2>3. \E p \in Place : at' = [at EXCEPT ![a] = p]
    BY <1>5, <2>2 DEF AfterCard, Goes
  <2>4. screen' = screen \/ \E e \in Streamed : screen' = [screen EXCEPT ![a] = Append(screen[a], e)]
    BY <1>0, <2>2, Written DEF AfterCard, Streams
  <2>5. \E l \in Local : local' = [local EXCEPT ![a] = l] /\ l.history = local[a].history
    <3> DEFINE l1 == [local[a] EXCEPT !.uses = Tail(local[a].uses)]
               l2 == [local[a] EXCEPT !.uses = <<>>, !.round = local[a].round + 1]
               l3 == [local[a] EXCEPT !.uses = <<>>]
    <3>1. l1 \in Local /\ l1.history = local[a].history
      BY <1>0, <1>18, <2>2, LocalOps DEF Local
    <3>2. l3 \in Local /\ l3.history = local[a].history
      <4>1. <<>> \in Seq(Tool)
        OBVIOUS
      <4> QED
        BY <1>0, <4>1, LocalOps DEF Local
    <3>3. ASSUME local[a].round < MAX_TOOL_ROUNDS PROVE l2 \in Local /\ l2.history = local[a].history
      <4>1. local[a].round + 1 \in Round /\ <<>> \in Seq(Tool)
        BY <1>1, <3>3, ChatAssumption DEF ChatAssumption, Round
      <4> QED
        BY <1>0, <4>1, LocalOps DEF Local
    <3>4. CASE Len(local[a].uses) > 1
      <4>1. local' = [local EXCEPT ![a] = l1]
        BY <2>2, <3>4 DEF AfterCard
      <4> QED
        BY <3>1, <4>1
    <3>5. CASE ~(Len(local[a].uses) > 1) /\ local[a].round < MAX_TOOL_ROUNDS
      <4>1. local' = [local EXCEPT ![a] = l2]
        BY <2>2, <3>5 DEF AfterCard
      <4> QED
        BY <3>3, <3>5, <4>1
    <3>6. CASE ~(Len(local[a].uses) > 1) /\ ~(local[a].round < MAX_TOOL_ROUNDS)
      <4>1. local' = [local EXCEPT ![a] = l3]
        BY <2>2, <3>6 DEF AfterCard
      <4> QED
        BY <3>2, <4>1
    <3> QED
      BY <3>4, <3>5, <3>6
  <2> HIDE DEF m
  <2>6. Touches(a)
    BY <2>1, <2>2, <2>3, <2>4, <2>5 DEF Touches, Writes
  <2> QED
    BY <2>6
<1>14. CASE StoreQuestion(a)
  <2>1. Question(a) \in Message /\ Question(a).by = a /\ Question(a).role = "user"
    BY Written DEF Question
  <2>2. /\ at[a] = "asking" /\ messages' = Append(messages, Question(a))
        /\ at' = [at EXCEPT ![a] = "round"] /\ UNCHANGED <<local, screen, cut>>
    BY <1>14 DEF StoreQuestion, Stores, Goes
  <2> QED
    BY <1>0, <1>3, <1>5, <2>1, <2>2 DEF Touches, Writes
<1>15. CASE StoreReply(a) \/ StorePlaceholder(a)
  <2>1. \/ messages' = messages
        \/ \E m \in Message : m.by = a /\ m.role = "assistant" /\ messages' = Append(messages, m)
    BY <1>1, <1>15, Written DEF StoreReply, StorePlaceholder, Stores, Reply, Placeholder
  <2>2. at[a] # "over" /\ Over(a) /\ UNCHANGED <<screen, cut>>
    BY <1>15 DEF StoreReply, StorePlaceholder
  <2>3. at'[a] = "over"
    BY <1>0, <1>4, <2>2
  <2> QED
    BY <1>4, <1>5, <2>1, <2>2, <2>3 DEF Touches, Writes
<1>16. CASE StoreFails(a)
  <2>1. PICK m \in Unstored(a) :
          /\ UNCHANGED messages \/ Stores(m)
          /\ IF at[a] = "card"
             THEN Goes(a, "failed") /\ Streams(a, <<"error">>) /\ UNCHANGED local
             ELSE Over(a) /\ UNCHANGED screen
          /\ cut' = [cut EXCEPT ![a] = TRUE]
    BY <1>16 DEF StoreFails
  <2>2. at[a] \in {"asking", "card", "done", "failed"}
    BY <2>1 DEF Unstored
  <2>3. /\ m \in Message /\ m.by = a /\ (at[a] = "card" => m.role # "assistant")
        /\ m.role = "tool" => at[a] = "card" /\ m.tool = Head(local[a].uses)
    <3>1. CASE at[a] = "asking"
      <4>1. m = Question(a)
        BY <2>1, <3>1 DEF Unstored
      <4> QED
        BY <3>1, <4>1, Written DEF Question
    <3>2. CASE at[a] = "card"
      <4>1. m = Card(a, Head(local[a].uses))
        BY <2>1, <3>2 DEF Unstored
      <4> QED
        BY <1>18, <3>2, <4>1, Written DEF Card
    <3>3. CASE at[a] = "done"
      <4>1. m = Reply(a, local[a].spoken)
        BY <2>1, <3>3 DEF Unstored
      <4> QED
        BY <1>1, <3>3, <4>1, Written DEF Reply
    <3>4. CASE at[a] = "failed"
      <4>1. m = Placeholder(a)
        BY <2>1, <3>4 DEF Unstored
      <4> QED
        BY <3>4, <4>1, Written DEF Placeholder
    <3> QED
      BY <2>2, <3>1, <3>2, <3>3, <3>4
  <2>4. CASE at[a] = "card"
    <3>1. screen' = [screen EXCEPT ![a] = Append(screen[a], <<"error">>)]
      BY <2>1, <2>4 DEF Streams
    <3>2. at' = [at EXCEPT ![a] = "failed"] /\ local' = local
      BY <2>1, <2>4 DEF Goes
    <3>3. messages' = messages \/ messages' = Append(messages, m)
      BY <2>1 DEF Stores
    <3> QED
      BY <1>0, <1>3, <1>5, <2>1, <2>3, <2>4, <3>1, <3>2, <3>3, Written DEF Touches, Writes
  <2>5. CASE at[a] # "card"
    <3>1. Over(a) /\ screen' = screen
      BY <2>1, <2>5
    <3>2. at'[a] = "over"
      BY <1>0, <1>4, <3>1
    <3>3. messages' = messages \/ messages' = Append(messages, m)
      BY <2>1 DEF Stores
    <3> QED
      BY <1>4, <1>5, <2>1, <2>2, <2>3, <3>1, <3>2, <3>3 DEF Touches, Writes
  <2> QED
    BY <2>4, <2>5
<1>17. CASE Stopped(a)
  BY <1>4, <1>5, <1>17 DEF Touches, Writes, Stopped, Working
<1> QED
  BY <1>7, <1>8, <1>9, <1>10, <1>11, <1>12, <1>13, <1>14, <1>15, <1>16, <1>17 DEF TurnStep

-----------------------------------------------------------------------------
(* The text turns: what a message and an event change.                     *)

Done(a)  == <<"done">> \in Range(screen[a])
Cards(a) == Cardinality(Of(a, "tool"))
Seen(a)  == Cardinality(ToolsSeen(a))

\* Positions of a sequence that satisfy a condition are finitely many, and one that is
\* not among the positions up to n counts as one more.
LEMMA Positions ==
    ASSUME NEW n \in Nat, NEW S \in SUBSET (1..n)
    PROVE  /\ IsFiniteSet(S) /\ Cardinality(S) \in Nat
           /\ Cardinality(S \cup {n + 1}) = Cardinality(S) + 1
           /\ Rank(S, n) = Cardinality(S)
           /\ Rank(S \cup {n + 1}, n + 1) = Cardinality(S) + 1
           /\ \A i \in 1..n : Rank(S \cup {n + 1}, i) = Rank(S, i)
<1>1. IsFiniteSet(S) /\ Cardinality(S) \in Nat
  <2>1. IsFiniteSet(1..n)
    BY FS_Interval
  <2> QED
    BY <2>1, FS_Subset, FS_CardinalityType
<1>2. n + 1 \notin S
  OBVIOUS
<1>3. Cardinality(S \cup {n + 1}) = Cardinality(S) + 1
  BY <1>1, <1>2, FS_AddElement
<1>4. /\ {j \in S : j <= n} = S
      /\ {j \in S \cup {n + 1} : j <= n + 1} = S \cup {n + 1}
  <2>0. \A j \in S : j <= n /\ j <= n + 1
    OBVIOUS
  <2>1. {j \in S : j <= n} = S
    BY <2>0
  <2>3. \A j \in S \cup {n + 1} : j <= n + 1
    BY <2>0
  <2>2. {j \in S \cup {n + 1} : j <= n + 1} = S \cup {n + 1}
    BY <2>3
  <2> QED
    BY <2>1, <2>2
<1>5. \A i \in 1..n : {j \in S \cup {n + 1} : j <= i} = {j \in S : j <= i}
  OBVIOUS
<1> QED
  BY <1>1, <1>3, <1>4, <1>5 DEF Rank

\* A new message is one more of its author's, in its role, and moves no other.
LEMMA MessageStored ==
    ASSUME messages \in Seq(Message), NEW m \in Message, messages' = Append(messages, m)
    PROVE  /\ messages' \in Seq(Message) /\ Len(messages) \in Nat
           /\ \A i \in 1..Len(messages) : messages'[i] = messages[i]
           /\ messages'[Len(messages) + 1] = m
           /\ \A a \in Ask, role \in {"user", "assistant", "tool"} :
                /\ Of(a, role) \in SUBSET (1..Len(messages))
                /\ m.by = a /\ m.role = role => Of(a, role)' = Of(a, role) \cup {Len(messages) + 1}
                /\ ~(m.by = a /\ m.role = role) => Of(a, role)' = Of(a, role)
<1>1. /\ messages' \in Seq(Message) /\ Len(messages) \in Nat /\ DOMAIN messages = 1..Len(messages)
      /\ DOMAIN messages' = 1..(Len(messages) + 1)
      /\ \A i \in 1..Len(messages) : messages'[i] = messages[i]
      /\ messages'[Len(messages) + 1] = m
  OBVIOUS
<1>2. ASSUME NEW a \in Ask, NEW role \in {"user", "assistant", "tool"}
      PROVE  /\ Of(a, role) \in SUBSET (1..Len(messages))
             /\ m.by = a /\ m.role = role => Of(a, role)' = Of(a, role) \cup {Len(messages) + 1}
             /\ ~(m.by = a /\ m.role = role) => Of(a, role)' = Of(a, role)
  <2>1. Of(a, role)' = {i \in 1..(Len(messages) + 1) : messages'[i].by = a /\ messages'[i].role = role}
    BY <1>1 DEF Of
  <2>2. Of(a, role) = {i \in 1..Len(messages) : messages[i].by = a /\ messages[i].role = role}
    BY <1>1 DEF Of
  <2> QED
    BY <1>1, <2>1, <2>2
<1> QED
  BY <1>1, <1>2

\* A new event shows a tool, the end or a text, and moves no other.
LEMMA EventShown ==
    ASSUME screen \in [Ask -> Seq(Streamed)], NEW a \in Ask, NEW e \in Streamed,
           screen' = [screen EXCEPT ![a] = Append(screen[a], e)]
    PROVE  /\ screen' \in [Ask -> Seq(Streamed)] /\ Len(screen[a]) \in Nat
           /\ ToolsSeen(a) \in SUBSET (1..Len(screen[a]))
           /\ Len(screen'[a]) = Len(screen[a]) + 1
           /\ \A j \in 1..Len(screen[a]) : screen'[a][j] = screen[a][j]
           /\ screen'[a][Len(screen[a]) + 1] = e
           /\ e[1] = "tool" => ToolsSeen(a)' = ToolsSeen(a) \cup {Len(screen[a]) + 1}
           /\ e[1] # "tool" => ToolsSeen(a)' = ToolsSeen(a)
           /\ Done(a)' <=> Done(a) \/ e = <<"done">>
           /\ TextShown(a)' = TextShown(a) \cup {r \in Round : e = <<"text", r>>}
<1> DEFINE s == screen[a]
           t == screen'[a]
<1>1. s \in Seq(Streamed) /\ t = Append(s, e)
  OBVIOUS
<1>2. /\ t \in Seq(Streamed) /\ Len(s) \in Nat /\ DOMAIN s = 1..Len(s) /\ DOMAIN t = 1..(Len(s) + 1)
      /\ \A j \in 1..Len(s) : t[j] = s[j]
      /\ t[Len(s) + 1] = e /\ Len(t) = Len(s) + 1
  BY <1>1
<1>3. screen' \in [Ask -> Seq(Streamed)]
  BY <1>1, <1>2
<1>4. /\ ToolsSeen(a) = {j \in DOMAIN s : s[j][1] = "tool"}
      /\ ToolsSeen(a)' = {j \in DOMAIN t : t[j][1] = "tool"}
  BY DEF ToolsSeen
<1>5. /\ Done(a) <=> <<"done">> \in Range(s)
      /\ Done(a)' <=> <<"done">> \in Range(t)
      /\ TextShown(a) = {r \in Round : <<"text", r>> \in Range(s)}
      /\ TextShown(a)' = {r \in Round : <<"text", r>> \in Range(t)}
  BY DEF Done, TextShown
<1> HIDE DEF s, t
<1>6. ToolsSeen(a) \in SUBSET (1..Len(s))
  BY <1>2, <1>4
<1>7. e[1] = "tool" => ToolsSeen(a)' = ToolsSeen(a) \cup {Len(s) + 1}
  BY <1>2, <1>4
<1>8. e[1] # "tool" => ToolsSeen(a)' = ToolsSeen(a)
  BY <1>2, <1>4
<1>9. \A x : x \in Range(t) <=> x \in Range(s) \/ x = e
  <2>1. \A x : x \in Range(s) <=> \E j \in 1..Len(s) : x = s[j]
    BY <1>2 DEF Range
  <2>2. \A x : x \in Range(t) <=> \E j \in 1..(Len(s) + 1) : x = t[j]
    BY <1>2 DEF Range
  <2>3. \A x : (\E j \in 1..(Len(s) + 1) : x = t[j]) <=> (\E j \in 1..Len(s) : x = s[j]) \/ x = e
    <3>1. \A j \in 1..(Len(s) + 1) : j \in 1..Len(s) \/ j = Len(s) + 1
      BY <1>2
    <3>2. Len(s) + 1 \in 1..(Len(s) + 1) /\ \A j \in 1..Len(s) : j \in 1..(Len(s) + 1)
      BY <1>2
    <3> QED
      BY <1>2, <3>1, <3>2
  <2> QED
    BY <2>1, <2>2, <2>3
<1>10. Done(a)' <=> Done(a) \/ e = <<"done">>
  BY <1>5, <1>9
<1>11. TextShown(a)' = TextShown(a) \cup {r \in Round : e = <<"text", r>>}
  BY <1>5, <1>9
<1> QED
  BY <1>2, <1>3, <1>6, <1>7, <1>8, <1>10, <1>11 DEF s, t

-----------------------------------------------------------------------------
(* The text turns: types, and the requests that do not step.               *)

\* A step leaves the types right.
LEMMA TouchesTypes ==
    ASSUME ChatTypeOK, NEW a \in Ask, Touches(a)
    PROVE  ChatTypeOK'
<1>0. /\ at \in [Ask -> Place] /\ local \in [Ask -> Local] /\ messages \in Seq(Message)
      /\ screen \in [Ask -> Seq(Streamed)] /\ cut \in [Ask -> BOOLEAN]
  BY DEF ChatTypeOK, Place
<1>1. at' \in [Ask -> Place]
  BY <1>0 DEF Touches
<1>2. local' \in [Ask -> Local]
  BY <1>0 DEF Touches
<1>3. messages' \in Seq(Message)
  <2>1. ASSUME NEW m \in Message, messages' = Append(messages, m) PROVE messages' \in Seq(Message)
    BY <1>0, <2>1
  <2> QED
    BY <1>0, <2>1 DEF Touches, Writes
<1>4. screen' \in [Ask -> Seq(Streamed)]
  <2>1. CASE screen' = screen
    BY <1>0, <2>1
  <2>2. ASSUME NEW e \in Streamed, screen' = [screen EXCEPT ![a] = Append(screen[a], e)]
        PROVE  screen' \in [Ask -> Seq(Streamed)]
    BY <1>0, <2>2, EventShown
  <2> QED
    BY <2>1, <2>2 DEF Touches
<1>5. cut' \in [Ask -> BOOLEAN]
  <2>1. TRUE \in BOOLEAN
    OBVIOUS
  <2> QED
    BY <1>0, <2>1 DEF Touches
<1> QED
  BY <1>1, <1>2, <1>3, <1>4, <1>5 DEF ChatTypeOK, Place

\* Between its question and its last message a turn holds: what it is about to show and
\* store follows from what it has shown and stored.  The n-th card answers the n-th
\* event, and the one more event that a card is stored for is the last.
Matched(a, i) ==
    \E j \in ToolsSeen(a) :
        Rank(Of(a, "tool"), i) = Rank(ToolsSeen(a), j) /\ screen[a][j] = <<"tool", messages[i].tool>>
CardsMatch(a) == \A i \in Of(a, "tool") : Matched(a, i)
CutShort(a)   == cut[a] => at[a] \in {"failed", "over"}
Level(a)      == ~cut[a] => Seen(a) = Cards(a) + IF at[a] = "card" THEN 1 ELSE 0
CardNext(a)   ==
    at[a] = "card" => /\ Len(screen[a]) > 0
                      /\ screen[a][Len(screen[a])] = <<"tool", Head(local[a].uses)>>
AllTold(a)    == at[a] \notin {"failed", "over"} => TextShown(a) = Spoken(local[a])
SaidInRound(a) == at[a] \in {"tools", "card", "done"} => ~local[a].said
DoneTold(a)   == at[a] # "over" => (Done(a) <=> at[a] = "done")
Unasked(a)    == at[a] = "idle" => Of(a, "user") = {}
Open(a)       == at[a] # "over" => Of(a, "assistant") = {}
Closed(a)     ==
    /\ \A i, j \in Of(a, "assistant") : i = j
    /\ \A i \in Of(a, "assistant") :
         messages[i] = IF Done(a) THEN Reply(a, TextShown(a)) ELSE Placeholder(a)
    /\ at[a] = "over" /\ Of(a, "user") # {} /\ ~cut[a] /\ Of(a, "assistant") = {}
         => Done(a) /\ TextShown(a) = {}

TurnInv(a) ==
    /\ UsesLeft(a) /\ CardsMatch(a) /\ CutShort(a) /\ Level(a) /\ CardNext(a)
    /\ AllTold(a) /\ SaidInRound(a) /\ DoneTold(a) /\ Unasked(a) /\ Open(a) /\ Closed(a)

\* A step of one request leaves the turn of another as it was.
LEMMA OtherTurns ==
    ASSUME ChatTypeOK, NEW a \in Ask, Touches(a), NEW b \in Ask, b # a, TurnInv(b)
    PROVE  TurnInv(b)'
<1>0. /\ at \in [Ask -> Place] /\ local \in [Ask -> Local] /\ messages \in Seq(Message)
      /\ screen \in [Ask -> Seq(Streamed)] /\ cut \in [Ask -> BOOLEAN]
  BY DEF ChatTypeOK, Place
<1>1. at'[b] = at[b] /\ local'[b] = local[b] /\ screen'[b] = screen[b] /\ cut'[b] = cut[b]
  BY <1>0 DEF Touches
<1>2. /\ \A role \in {"user", "assistant", "tool"} : Of(b, role)' = Of(b, role)
      /\ \A i \in DOMAIN messages : messages'[i] = messages[i]
  <2>1. CASE messages' = messages
    BY <2>1 DEF Of
  <2>2. ASSUME NEW m \in Message, m.by = a, messages' = Append(messages, m)
        PROVE  /\ \A role \in {"user", "assistant", "tool"} : Of(b, role)' = Of(b, role)
               /\ \A i \in DOMAIN messages : messages'[i] = messages[i]
    <3>1. DOMAIN messages = 1..Len(messages)
      BY <1>0
    <3>2. \A role \in {"user", "assistant", "tool"} : Of(b, role)' = Of(b, role)
      BY <1>0, <2>2, MessageStored
    <3>3. \A i \in 1..Len(messages) : messages'[i] = messages[i]
      BY <1>0, <2>2, MessageStored
    <3> QED
      BY <3>1, <3>2, <3>3
  <2> QED
    BY <2>1, <2>2 DEF Touches, Writes
<1>3. /\ \A role \in {"user", "assistant", "tool"} : \A i \in Of(b, role) : messages'[i] = messages[i]
  BY <1>2 DEF Of
<1>4. /\ ToolsSeen(b)' = ToolsSeen(b) /\ TextShown(b)' = TextShown(b)
      /\ Seen(b)' = Seen(b) /\ Cards(b)' = Cards(b)
      /\ Done(b)' <=> Done(b)
  BY <1>1, <1>2 DEF ToolsSeen, TextShown, Done, Seen, Cards
<1>5. UsesLeft(b)' /\ CutShort(b)' /\ Level(b)' /\ CardNext(b)'
  BY <1>1, <1>4 DEF TurnInv, UsesLeft, CutShort, Level, CardNext
<1>6. AllTold(b)' /\ SaidInRound(b)' /\ DoneTold(b)' /\ Unasked(b)' /\ Open(b)'
  BY <1>1, <1>2, <1>4 DEF TurnInv, AllTold, SaidInRound, DoneTold, Unasked, Open, Spoken
<1>7. CardsMatch(b)'
  BY <1>1, <1>2, <1>3, <1>4 DEF TurnInv, CardsMatch, Matched
<1>8. Closed(b)'
  <2>1. /\ Of(b, "assistant")' = Of(b, "assistant") /\ Of(b, "user")' = Of(b, "user")
        /\ \A i \in Of(b, "assistant") : messages'[i] = messages[i]
    BY <1>2, <1>3
  <2> QED
    BY <1>1, <1>4, <2>1 DEF TurnInv, Closed, Reply, Placeholder
<1> QED
  BY <1>5, <1>6, <1>7, <1>8 DEF TurnInv

-----------------------------------------------------------------------------
(* The text turns: what a step does to its own turn.                       *)

\* The cards still answer the events, in their order, and a new card answers the last.
LEMMA CardsStayMatched ==
    ASSUME ChatTypeOK, NEW a \in Ask, TurnInv(a), Touches(a)
    PROVE  CardsMatch(a)'
<1>0. messages \in Seq(Message) /\ screen \in [Ask -> Seq(Streamed)]
  BY DEF ChatTypeOK
<1> DEFINE n == Len(messages)
           l == Len(screen[a])
<1>1. n \in Nat /\ DOMAIN messages = 1..n /\ l \in Nat /\ DOMAIN screen[a] = 1..l
  BY <1>0
<1>2. Of(a, "tool") \in SUBSET (1..n) /\ ToolsSeen(a) \in SUBSET (1..l)
  BY <1>1 DEF Of, ToolsSeen
<1>3. /\ \A j \in ToolsSeen(a) : j \in ToolsSeen(a)' /\ screen'[a][j] = screen[a][j]
      /\ \A j \in ToolsSeen(a) : Rank(ToolsSeen(a)', j) = Rank(ToolsSeen(a), j)
  <2>1. CASE screen' = screen
    BY <2>1 DEF ToolsSeen
  <2>2. ASSUME NEW e \in Streamed, screen' = [screen EXCEPT ![a] = Append(screen[a], e)]
        PROVE  /\ \A j \in ToolsSeen(a) : j \in ToolsSeen(a)' /\ screen'[a][j] = screen[a][j]
               /\ \A j \in ToolsSeen(a) : Rank(ToolsSeen(a)', j) = Rank(ToolsSeen(a), j)
    <3>1. /\ \A j \in 1..l : screen'[a][j] = screen[a][j]
          /\ ToolsSeen(a)' = ToolsSeen(a) \/ ToolsSeen(a)' = ToolsSeen(a) \cup {l + 1}
      BY <1>0, <2>2, EventShown
    <3>2. \A j \in 1..l : Rank(ToolsSeen(a) \cup {l + 1}, j) = Rank(ToolsSeen(a), j)
      BY <1>1, <1>2, Positions
    <3> HIDE DEF l
    <3> QED
      BY <1>2, <3>1, <3>2
  <2> QED
    BY <2>1, <2>2 DEF Touches
<1>4. CASE Of(a, "tool")' = Of(a, "tool") /\ \A i \in 1..n : messages'[i] = messages[i]
  BY <1>2, <1>3, <1>4 DEF TurnInv, CardsMatch, Matched
<1>5. ASSUME NEW m \in Message, messages' = Append(messages, m), m.by = a, m.role = "tool",
             at[a] = "card", m.tool = Head(local[a].uses)
      PROVE  CardsMatch(a)'
  <2>1. /\ Of(a, "tool")' = Of(a, "tool") \cup {n + 1}
        /\ \A i \in 1..n : messages'[i] = messages[i]
        /\ messages'[n + 1] = m
    BY <1>0, <1>5, MessageStored
  <2>2. /\ \A i \in 1..n : Rank(Of(a, "tool")', i) = Rank(Of(a, "tool"), i)
        /\ Rank(Of(a, "tool")', n + 1) = Cards(a) + 1
    <3>1. /\ \A i \in 1..n : Rank(Of(a, "tool") \cup {n + 1}, i) = Rank(Of(a, "tool"), i)
          /\ Rank(Of(a, "tool") \cup {n + 1}, n + 1) = Cardinality(Of(a, "tool")) + 1
      BY <1>1, <1>2, Positions
    <3> QED
      BY <2>1, <3>1 DEF Cards
  <2>3. l \in ToolsSeen(a) /\ Rank(ToolsSeen(a), l) = Cards(a) + 1 /\ screen[a][l] = <<"tool", m.tool>>
    <3>1. l > 0 /\ screen[a][l] = <<"tool", m.tool>>
      BY <1>5 DEF TurnInv, CardNext
    <3>2. l \in ToolsSeen(a)
      BY <1>1, <3>1 DEF ToolsSeen
    <3>3. Rank(ToolsSeen(a), l) = Seen(a)
      BY <1>1, <1>2, Positions DEF Seen
    <3>4. ~cut[a]
      BY <1>5 DEF TurnInv, CutShort
    <3>5. Seen(a) = Cards(a) + 1
      BY <1>5, <3>4 DEF TurnInv, Level
    <3> QED
      BY <3>1, <3>2, <3>3, <3>5
  <2> HIDE DEF n, l
  <2>4. ASSUME NEW i, i = n + 1 PROVE Matched(a, i)'
    <3>1. /\ l \in ToolsSeen(a)' /\ screen'[a][l] = <<"tool", messages'[i].tool>>
          /\ Rank(Of(a, "tool")', i) = Rank(ToolsSeen(a)', l)
      BY <1>3, <2>1, <2>2, <2>3, <2>4
    <3> QED
      BY <3>1 DEF Matched
  <2>5. ASSUME NEW i \in Of(a, "tool") PROVE Matched(a, i)'
    BY <1>2, <1>3, <2>1, <2>2 DEF Matched, TurnInv, CardsMatch
  <2>6. ASSUME NEW i \in Of(a, "tool")' PROVE Matched(a, i)'
    BY <2>1, <2>4, <2>5, <2>6
  <2> QED
    BY <2>6 DEF CardsMatch
<1>6. CASE messages' = messages
  BY <1>4, <1>6 DEF Of
<1>7. ASSUME NEW m \in Message, messages' = Append(messages, m), m.by = a, m.role # "tool"
      PROVE  CardsMatch(a)'
  <2>1. Of(a, "tool")' = Of(a, "tool") /\ \A i \in 1..n : messages'[i] = messages[i]
    BY <1>0, <1>7, MessageStored
  <2> QED
    BY <1>4, <2>1
<1> HIDE DEF n, l
<1>8. \/ messages' = messages
      \/ \E m \in Message : /\ m.by = a /\ messages' = Append(messages, m)
                            /\ m.role = "tool" => at[a] = "card" /\ m.tool = Head(local[a].uses)
  <2>1. messages' = messages \/ \E m \in Message : Writes(a, m)
    BY DEF Touches
  <2> QED
    BY <2>1 DEF Writes
<1> QED
  BY <1>5, <1>6, <1>7, <1>8

\* What does not write leaves the messages of a turn.
LEMMA Unwritten ==
    ASSUME NEW a \in Ask, messages' = messages
    PROVE  /\ \A role \in {"user", "assistant", "tool"} : Of(a, role)' = Of(a, role)
           /\ Cards(a)' = Cards(a)
BY DEF Of, Cards

\* What does not stream leaves its events.
LEMMA Unshown ==
    ASSUME NEW a \in Ask, screen' = screen
    PROVE  /\ Seen(a)' = Seen(a) /\ TextShown(a)' = TextShown(a)
           /\ Done(a)' <=> Done(a)
BY DEF Seen, ToolsSeen, TextShown, Done

\* A message counts as one more of its role.
LEMMA MessageCounts ==
    ASSUME messages \in Seq(Message), NEW a \in Ask, NEW m \in Message, m.by = a,
           messages' = Append(messages, m)
    PROVE  /\ \A role \in {"user", "assistant", "tool"} :
                m.role # role => Of(a, role)' = Of(a, role)
           /\ m.role # "tool" => Cards(a)' = Cards(a)
           /\ m.role = "tool" => Cards(a)' = Cards(a) + 1
           /\ m.role = "assistant" /\ Of(a, "assistant") = {} =>
                /\ Of(a, "assistant")' = {Len(messages) + 1}
                /\ messages'[Len(messages) + 1] = m
<1>1. Of(a, "tool") \in SUBSET (1..Len(messages)) /\ Len(messages) \in Nat
  BY MessageStored
<1>2. \A role \in {"user", "assistant", "tool"} : m.role # role => Of(a, role)' = Of(a, role)
  BY MessageStored
<1>3. m.role = "tool" => Cards(a)' = Cards(a) + 1
  <2>1. m.role = "tool" => Of(a, "tool")' = Of(a, "tool") \cup {Len(messages) + 1}
    BY MessageStored
  <2>2. Cardinality(Of(a, "tool") \cup {Len(messages) + 1}) = Cardinality(Of(a, "tool")) + 1
    BY <1>1, Positions
  <2> QED
    BY <2>1, <2>2 DEF Cards
<1>4. m.role = "assistant" => /\ Of(a, "assistant")' = Of(a, "assistant") \cup {Len(messages) + 1}
                              /\ messages'[Len(messages) + 1] = m
  BY MessageStored
<1> QED
  BY <1>2, <1>3, <1>4 DEF Cards

\* A tool's event counts as one more, and no other event does.
LEMMA EventCounts ==
    ASSUME screen \in [Ask -> Seq(Streamed)], NEW a \in Ask, NEW e \in Streamed,
           Streams(a, e)
    PROVE  /\ e[1] # "tool" => Seen(a)' = Seen(a)
           /\ e[1] = "tool" => Seen(a)' = Seen(a) + 1
           /\ e[1] # "text" => TextShown(a)' = TextShown(a)
           /\ \A r \in Round : e = <<"text", r>> => TextShown(a)' = TextShown(a) \cup {r}
           /\ Done(a)' <=> Done(a) \/ e = <<"done">>
           /\ Len(screen'[a]) > 0 /\ screen'[a][Len(screen'[a])] = e
<1>1. screen' = [screen EXCEPT ![a] = Append(screen[a], e)]
  BY DEF Streams
<1>2. /\ ToolsSeen(a) \in SUBSET (1..Len(screen[a])) /\ Len(screen[a]) \in Nat
      /\ Len(screen'[a]) = Len(screen[a]) + 1
      /\ screen'[a][Len(screen[a]) + 1] = e
  BY <1>1, EventShown
<1>3. e[1] # "tool" => Seen(a)' = Seen(a)
  BY <1>1, EventShown DEF Seen
<1>4. e[1] = "tool" => Seen(a)' = Seen(a) + 1
  <2>1. e[1] = "tool" => ToolsSeen(a)' = ToolsSeen(a) \cup {Len(screen[a]) + 1}
    BY <1>1, EventShown
  <2>2. Cardinality(ToolsSeen(a) \cup {Len(screen[a]) + 1}) = Cardinality(ToolsSeen(a)) + 1
    BY <1>2, Positions
  <2> QED
    BY <2>1, <2>2 DEF Seen
<1>5. TextShown(a)' = TextShown(a) \cup {r \in Round : e = <<"text", r>>}
  BY <1>1, EventShown
<1>6. /\ e[1] # "text" => {r \in Round : e = <<"text", r>>} = {}
      /\ \A r \in Round : e = <<"text", r>> => {x \in Round : e = <<"text", x>>} = {r}
  OBVIOUS
<1>7. Done(a)' <=> Done(a) \/ e = <<"done">>
  BY <1>1, EventShown
<1> QED
  BY <1>2, <1>3, <1>4, <1>5, <1>6, <1>7

\* A step keeps its own turn what it was: one case for each of the request's actions.
LEMMA OwnTurn ==
    ASSUME ChatTypeOK, NEW a \in Ask, TurnInv(a), Touches(a),
           \/ FetchConversation(a) \/ TextDelta(a) \/ StreamBreaks(a) \/ TurnStep(a)
           \/ \E t \in Tool : ToolUse(a, t)
           \/ StoreFails(a) \/ Stopped(a)
    PROVE  TurnInv(a)'
<1>0. /\ at \in [Ask -> Place] /\ local \in [Ask -> Local] /\ messages \in Seq(Message)
      /\ screen \in [Ask -> Seq(Streamed)] /\ cut \in [Ask -> BOOLEAN]
  BY DEF ChatTypeOK, Place
<1>1. /\ local[a].history \in Seq(Message) /\ local[a].round \in Round /\ local[a].said \in BOOLEAN
      /\ local[a].uses \in Seq(Tool) /\ local[a].spoken \in SUBSET Round
  <2>1. local[a] \in Local
    BY <1>0
  <2> QED
    BY <2>1 DEF Local
<1>2. CardsMatch(a)'
  BY CardsStayMatched
<1>3. Seen(a) \in Nat /\ Cards(a) \in Nat
  <2>1. /\ Len(messages) \in Nat /\ DOMAIN messages = 1..Len(messages)
        /\ Len(screen[a]) \in Nat /\ DOMAIN screen[a] = 1..Len(screen[a])
    BY <1>0
  <2>2. Of(a, "tool") \in SUBSET (1..Len(messages)) /\ ToolsSeen(a) \in SUBSET (1..Len(screen[a]))
    BY <2>1 DEF Of, ToolsSeen
  <2> QED
    BY <2>1, <2>2, Positions DEF Seen, Cards
<1>4. ASSUME NEW p, Goes(a, p) PROVE at'[a] = p
  BY <1>0, <1>4 DEF Goes
<1>5. UNCHANGED cut => cut'[a] = cut[a]
  OBVIOUS
<1>6. UNCHANGED local => local'[a] = local[a]
  OBVIOUS
<1>7. Over(a) => at'[a] = "over" /\ local'[a] = Fresh
  BY <1>0, LocalOps DEF Over, Goes
\* What the control of a turn needs to stay right while it is open.
<1>8. ASSUME UsesLeft(a)', CutShort(a)', Level(a)', CardNext(a)', AllTold(a)', SaidInRound(a)',
             DoneTold(a)', Unasked(a)', at'[a] # "over", Of(a, "assistant")' = {}
      PROVE  TurnInv(a)'
  BY <1>2, <1>8 DEF TurnInv, Open, Closed
\* And what it needs at its end.
<1>9. ASSUME at'[a] = "over", Level(a)', Closed(a)'
      PROVE  TurnInv(a)'
  BY <1>2, <1>9 DEF TurnInv, UsesLeft, CutShort, CardNext, AllTold, SaidInRound, DoneTold, Unasked, Open
<1>10. CASE FetchConversation(a)
  <2>1. at[a] = "idle" /\ UNCHANGED <<messages, cut>>
    BY <1>10 DEF FetchConversation
  <2>2. /\ \A role \in {"user", "assistant", "tool"} : Of(a, role)' = Of(a, role)
        /\ Cards(a)' = Cards(a) /\ cut'[a] = cut[a]
    BY <1>5, <2>1, Unwritten
  <2>3. /\ Of(a, "user")' = {} /\ Of(a, "assistant")' = {} /\ ~cut'[a] /\ Seen(a) = Cards(a)'
        /\ TextShown(a) = Spoken(local[a]) /\ ~Done(a)
    BY <1>3, <2>1, <2>2 DEF TurnInv, Unasked, Open, CutShort, Level, AllTold, DoneTold
  <2>4. CASE Goes(a, "over") /\ Streams(a, <<"error">>)
    <3>1. at'[a] = "over" /\ Seen(a)' = Seen(a)
      BY <1>0, <1>4, <2>4, Written, EventCounts
    <3> QED
      BY <1>3, <1>9, <2>3, <3>1 DEF Level, Closed
  <2>5. CASE /\ Goes(a, "asking") /\ local' = [local EXCEPT ![a].history = messages]
             /\ UNCHANGED screen
    <3>1. /\ at'[a] = "asking" /\ local'[a].said = local[a].said
          /\ local'[a].spoken = local[a].spoken /\ local'[a].round = local[a].round
      BY <1>0, <1>4, <2>5 DEF Local
    <3>2. Spoken(local'[a]) = Spoken(local[a])
      BY <3>1 DEF Spoken
    <3>3. /\ Seen(a)' = Seen(a) /\ TextShown(a)' = TextShown(a)
          /\ Done(a)' <=> Done(a)
      BY <2>5, Unshown
    <3>4. AllTold(a)' /\ Level(a)'
      BY <1>3, <2>3, <3>1, <3>2, <3>3 DEF AllTold, Level
    <3> QED
      BY <1>8, <2>3, <3>1, <3>3, <3>4
      DEF UsesLeft, CutShort, CardNext, SaidInRound, DoneTold, Unasked
  <2> QED
    BY <1>10, <2>4, <2>5 DEF FetchConversation
<1>11. CASE StoreQuestion(a)
  <2>1. /\ at[a] = "asking" /\ messages' = Append(messages, Question(a))
        /\ Goes(a, "round") /\ UNCHANGED <<local, screen, cut>>
    BY <1>11 DEF StoreQuestion, Stores
  <2>2. at'[a] = "round" /\ local'[a] = local[a] /\ cut'[a] = cut[a]
    BY <1>4, <2>1
  <2>3. Question(a) \in Message /\ Question(a).by = a /\ Question(a).role = "user"
    BY Written DEF Question
  <2>4. Of(a, "assistant")' = {} /\ Cards(a)' = Cards(a)
    <3>1. Of(a, "assistant")' = Of(a, "assistant") /\ Cards(a)' = Cards(a)
      BY <1>0, <2>1, <2>3, MessageCounts
    <3> QED
      BY <2>1, <3>1 DEF TurnInv, Open
  <2>5. /\ Seen(a)' = Seen(a) /\ TextShown(a)' = TextShown(a)
        /\ Done(a)' <=> Done(a)
    BY <2>1, Unshown
  <2>6. AllTold(a)' /\ Level(a)' /\ DoneTold(a)' /\ CutShort(a)'
    BY <2>1, <2>2, <2>4, <2>5 DEF TurnInv, AllTold, Level, DoneTold, CutShort, Spoken
  <2> QED
    BY <1>8, <2>2, <2>4, <2>6 DEF UsesLeft, CardNext, SaidInRound, Unasked
<1>12. CASE TextDelta(a)
  <2>1. /\ at[a] = "round" /\ ~local[a].said /\ UNCHANGED <<messages, at, cut>>
        /\ local' = [local EXCEPT ![a].said = TRUE] /\ Streams(a, <<"text", local[a].round>>)
    BY <1>12 DEF TextDelta
  <2>2. /\ at'[a] = "round" /\ cut'[a] = cut[a]
        /\ local'[a].said /\ local'[a].spoken = local[a].spoken /\ local'[a].round = local[a].round
    BY <1>0, <2>1 DEF Local
  <2>3. Of(a, "assistant")' = {} /\ Cards(a)' = Cards(a)
    BY <2>1, Unwritten DEF TurnInv, Open
  <2>4. /\ Seen(a)' = Seen(a) /\ TextShown(a)' = TextShown(a) \cup {local[a].round}
        /\ Done(a)' <=> Done(a)
    <3>1. <<"text", local[a].round>> \in Streamed /\ <<"text", local[a].round>> # <<"done">>
      BY <1>1, Written
    <3> QED
      BY <1>0, <1>1, <2>1, <3>1, EventCounts
  <2>5. AllTold(a)'
    BY <2>1, <2>2, <2>4 DEF TurnInv, AllTold, Spoken
  <2>6. Level(a)' /\ DoneTold(a)' /\ CutShort(a)'
    BY <2>1, <2>2, <2>3, <2>4 DEF TurnInv, Level, DoneTold, CutShort
  <2> QED
    BY <1>8, <2>2, <2>3, <2>5, <2>6 DEF UsesLeft, CardNext, SaidInRound, Unasked
<1>13. CASE \E t \in Tool : ToolUse(a, t)
  <2>1. PICK t \in Tool : ToolUse(a, t)
    BY <1>13
  <2>2. /\ at[a] = "round" /\ UNCHANGED <<messages, at, screen, cut>>
        /\ local' = [local EXCEPT ![a].uses = Append(local[a].uses, t)]
    BY <2>1 DEF ToolUse
  <2>3. /\ at'[a] = "round" /\ cut'[a] = cut[a] /\ local'[a].said = local[a].said
        /\ local'[a].spoken = local[a].spoken /\ local'[a].round = local[a].round
    BY <1>0, <2>2 DEF Local
  <2>4. Of(a, "assistant")' = {} /\ Cards(a)' = Cards(a)
    BY <2>2, Unwritten DEF TurnInv, Open
  <2>5. /\ Seen(a)' = Seen(a) /\ TextShown(a)' = TextShown(a)
        /\ Done(a)' <=> Done(a)
    BY <2>2, Unshown
  <2>6. AllTold(a)' /\ Level(a)' /\ DoneTold(a)' /\ CutShort(a)'
    BY <2>2, <2>3, <2>4, <2>5 DEF TurnInv, AllTold, Level, DoneTold, CutShort, Spoken
  <2> QED
    BY <1>8, <2>3, <2>4, <2>6 DEF UsesLeft, CardNext, SaidInRound, Unasked
<1>14. CASE RoundEnds(a)
  <2>1. /\ at[a] = "round" /\ UNCHANGED <<messages, cut>>
        /\ local' = [local EXCEPT ![a].spoken = Spoken(local[a]), ![a].said = FALSE]
        /\ \/ local[a].uses = <<>> /\ Goes(a, "done") /\ Streams(a, <<"done">>)
           \/ local[a].uses # <<>> /\ Goes(a, "tools") /\ UNCHANGED screen
    BY <1>14 DEF RoundEnds, EndOfRound
  <2>2. /\ cut'[a] = cut[a] /\ ~local'[a].said /\ local'[a].uses = local[a].uses
        /\ local'[a].spoken = Spoken(local[a])
    BY <1>0, <2>1 DEF Local
  <2>3. Of(a, "assistant")' = {} /\ Cards(a)' = Cards(a)
    BY <2>1, Unwritten DEF TurnInv, Open
  <2>4. /\ at'[a] \in {"done", "tools"} /\ Seen(a)' = Seen(a) /\ TextShown(a)' = TextShown(a)
        /\ Done(a)' <=> at'[a] = "done"
        /\ at'[a] = "tools" => local[a].uses # <<>>
    <3>1. CASE local[a].uses = <<>> /\ Goes(a, "done") /\ Streams(a, <<"done">>)
      BY <1>0, <1>4, <3>1, Written, EventCounts
    <3>2. CASE local[a].uses # <<>> /\ Goes(a, "tools") /\ UNCHANGED screen
      BY <1>4, <2>1, <3>2, Unshown DEF TurnInv, DoneTold
    <3> QED
      BY <2>1, <3>1, <3>2
  <2>5. AllTold(a)'
    BY <2>1, <2>2, <2>4 DEF TurnInv, AllTold, Spoken
  <2>6. Level(a)' /\ DoneTold(a)' /\ CutShort(a)' /\ UsesLeft(a)'
    BY <2>1, <2>2, <2>3, <2>4 DEF TurnInv, Level, DoneTold, CutShort, UsesLeft
  <2> QED
    BY <1>8, <2>2, <2>3, <2>4, <2>5, <2>6 DEF CardNext, SaidInRound, Unasked
<1>15. CASE StreamBreaks(a)
  <2>1. /\ at[a] = "round" /\ Goes(a, "failed") /\ Streams(a, <<"error">>)
        /\ UNCHANGED <<messages, local, cut>>
    BY <1>15 DEF StreamBreaks
  <2>2. at'[a] = "failed" /\ cut'[a] = cut[a]
    BY <1>4, <2>1
  <2>3. Of(a, "assistant")' = {} /\ Cards(a)' = Cards(a)
    BY <2>1, Unwritten DEF TurnInv, Open
  <2>4. /\ Seen(a)' = Seen(a)
        /\ Done(a)' <=> Done(a)
    BY <1>0, <2>1, Written, EventCounts
  <2>5. Level(a)' /\ DoneTold(a)' /\ CutShort(a)'
    BY <2>1, <2>2, <2>3, <2>4 DEF TurnInv, Level, DoneTold, CutShort
  <2> QED
    BY <1>8, <2>2, <2>3, <2>5 DEF UsesLeft, CardNext, AllTold, SaidInRound, Unasked
<1>16. CASE RunTool(a)
  <2> DEFINE t == Head(local[a].uses)
  <2>1. /\ at[a] = "tools" /\ Goes(a, "card") /\ Streams(a, <<"tool", t>>)
        /\ UNCHANGED <<messages, local, cut>>
    BY <1>16 DEF RunTool
  <2>2. at'[a] = "card" /\ cut'[a] = cut[a] /\ local'[a] = local[a]
    BY <1>4, <2>1
  <2>3. Of(a, "assistant")' = {} /\ Cards(a)' = Cards(a)
    BY <2>1, Unwritten DEF TurnInv, Open
  <2>4. local[a].uses # <<>> /\ t \in Tool
    BY <1>1, <2>1 DEF TurnInv, UsesLeft
  <2>5. /\ Seen(a)' = Seen(a) + 1 /\ TextShown(a)' = TextShown(a)
        /\ Done(a)' <=> Done(a)
        /\ Len(screen'[a]) > 0 /\ screen'[a][Len(screen'[a])] = <<"tool", t>>
    <3>1. <<"tool", t>> \in Streamed /\ <<"tool", t>> # <<"done">> /\ <<"tool", t>>[1] = "tool"
      BY <2>4, Written
    <3> HIDE DEF t
    <3> QED
      BY <1>0, <2>1, <3>1, EventCounts
  <2>6. CardNext(a)'
    BY <2>2, <2>5 DEF CardNext
  <2>7. AllTold(a)' /\ SaidInRound(a)' /\ DoneTold(a)' /\ CutShort(a)' /\ UsesLeft(a)'
    BY <2>1, <2>2, <2>4, <2>5 DEF TurnInv, AllTold, SaidInRound, DoneTold, CutShort, UsesLeft, Spoken
  <2>8. Level(a)'
    BY <1>3, <2>1, <2>2, <2>3, <2>5 DEF TurnInv, Level
  <2> QED
    BY <1>8, <2>2, <2>3, <2>6, <2>7, <2>8 DEF Unasked
<1>17. CASE StoreCard(a)
  <2> DEFINE m == Card(a, Head(local[a].uses))
  <2>1. /\ at[a] = "card" /\ messages' = Append(messages, m) /\ cut' = cut
        /\ \/ /\ Len(local[a].uses) > 1 /\ Goes(a, "tools") /\ UNCHANGED screen
              /\ local' = [local EXCEPT ![a].uses = Tail(local[a].uses)]
           \/ /\ Goes(a, "round") /\ UNCHANGED screen
              /\ local' = [local EXCEPT ![a].uses = <<>>, ![a].round = local[a].round + 1]
           \/ /\ Goes(a, "done") /\ Streams(a, <<"done">>)
              /\ local' = [local EXCEPT ![a].uses = <<>>]
    BY <1>17 DEF StoreCard, AfterCard, Stores
  <2>2. Head(local[a].uses) \in Tool /\ ~local[a].said
    BY <1>1, <2>1 DEF TurnInv, UsesLeft, SaidInRound
  <2>3. m \in Message /\ m.by = a /\ m.role = "tool"
    BY <2>2, Written DEF Card
  <2> HIDE DEF m
  <2>4. Of(a, "assistant")' = {} /\ Cards(a)' = Cards(a) + 1
    <3>1. Of(a, "assistant")' = Of(a, "assistant") /\ Cards(a)' = Cards(a) + 1
      BY <1>0, <2>1, <2>3, MessageCounts
    <3> QED
      BY <2>1, <3>1 DEF TurnInv, Open
  <2>5. cut'[a] = cut[a] /\ ~cut[a] /\ Seen(a) = Cards(a) + 1 /\ TextShown(a) = Spoken(local[a]) /\ ~Done(a)
    BY <2>1 DEF TurnInv, CutShort, Level, AllTold, DoneTold
  <2>6. /\ at'[a] \in {"tools", "round", "done"} /\ local'[a].spoken = local[a].spoken /\ ~local'[a].said
        /\ at'[a] = "tools" => local'[a].uses # <<>>
    <3>1. Len(local[a].uses) > 1 => Tail(local[a].uses) # <<>>
      <4>1. ASSUME Len(local[a].uses) > 1 PROVE Len(Tail(local[a].uses)) > 0
        <5>1. local[a].uses # <<>>
          BY <4>1
        <5>2. Len(Tail(local[a].uses)) = Len(local[a].uses) - 1
          BY <1>1, <5>1
        <5> QED
          BY <1>1, <4>1, <5>2
      <4>2. Len(<<>>) = 0
        OBVIOUS
      <4> QED
        BY <4>1, <4>2
    <3>2. /\ local'[a].spoken = local[a].spoken /\ ~local'[a].said
      BY <1>0, <2>1, <2>2 DEF Local
    <3>3. /\ at'[a] \in {"tools", "round", "done"}
          /\ at'[a] = "tools" => local'[a].uses # <<>>
      BY <1>0, <1>4, <2>1, <3>1 DEF Local
    <3> QED
      BY <3>2, <3>3
  <2>7. /\ Seen(a)' = Seen(a) /\ TextShown(a)' = TextShown(a)
        /\ Done(a)' <=> at'[a] = "done"
    <3>1. CASE Goes(a, "done") /\ Streams(a, <<"done">>)
      BY <1>0, <1>4, <3>1, Written, EventCounts
    <3>2. CASE UNCHANGED screen /\ (Goes(a, "tools") \/ Goes(a, "round"))
      BY <1>4, <2>5, <3>2, Unshown
    <3> QED
      BY <2>1, <3>1, <3>2
  <2>8. Level(a)'
    BY <1>3, <2>4, <2>5, <2>6, <2>7 DEF Level
  <2>9. AllTold(a)'
    BY <2>2, <2>5, <2>6, <2>7 DEF AllTold, Spoken
  <2> QED
    BY <1>8, <2>4, <2>5, <2>6, <2>7, <2>8, <2>9
    DEF UsesLeft, CutShort, CardNext, SaidInRound, DoneTold, Unasked
<1>18. CASE StoreReply(a)
  <2>1. /\ at[a] = "done" /\ Over(a) /\ UNCHANGED <<screen, cut>>
        /\ IF local[a].spoken = {} THEN messages' = messages
           ELSE messages' = Append(messages, Reply(a, local[a].spoken))
    BY <1>18 DEF StoreReply, Stores
  <2>2. /\ at'[a] = "over" /\ cut'[a] = cut[a] /\ ~cut[a] /\ Done(a) /\ Of(a, "assistant") = {}
        /\ TextShown(a) = local[a].spoken /\ Seen(a) = Cards(a)
    BY <1>3, <1>7, <2>1 DEF TurnInv, CutShort, DoneTold, Open, AllTold, SaidInRound, Spoken, Level
  <2>3. /\ Seen(a)' = Seen(a) /\ TextShown(a)' = TextShown(a)
        /\ Done(a)' <=> Done(a)
    BY <2>1, Unshown
  <2>4. CASE local[a].spoken = {}
    <3>1. Of(a, "assistant")' = {} /\ Cards(a)' = Cards(a)
      BY <2>1, <2>2, <2>4, Unwritten
    <3> QED
      BY <1>3, <1>9, <2>2, <2>3, <2>4, <3>1 DEF Level, Closed
  <2>5. CASE local[a].spoken # {}
    <3> DEFINE m == Reply(a, local[a].spoken)
    <3>1. m \in Message /\ m.by = a /\ m.role = "assistant"
      BY <1>1, Written DEF Reply
    <3>2. /\ Of(a, "assistant")' = {Len(messages) + 1} /\ messages'[Len(messages) + 1] = m
          /\ Cards(a)' = Cards(a)
      <4> HIDE DEF m
      <4>1. messages' = Append(messages, m)
        BY <2>1, <2>5 DEF m
      <4> QED
        BY <1>0, <2>2, <3>1, <4>1, MessageCounts
    <3>3. m = Reply(a, TextShown(a)')
      BY <2>2, <2>3
    <3>4. /\ \A i \in Of(a, "assistant")' : i = Len(messages) + 1
          /\ Of(a, "assistant")' # {}
      BY <3>2
    <3>5. Reply(a, TextShown(a))' = Reply(a, TextShown(a)')
      BY DEF Reply
    <3> HIDE DEF m
    <3>6. Closed(a)'
      BY <2>2, <2>3, <3>2, <3>3, <3>4, <3>5 DEF Closed
    <3> QED
      BY <1>3, <1>9, <2>2, <2>3, <3>2, <3>6 DEF Level
  <2> QED
    BY <2>4, <2>5
<1>19. CASE StorePlaceholder(a)
  <2>1. /\ at[a] = "failed" /\ Over(a) /\ UNCHANGED <<screen, cut>>
        /\ messages' = Append(messages, Placeholder(a))
    BY <1>19 DEF StorePlaceholder, Stores
  <2>2. at'[a] = "over" /\ cut'[a] = cut[a] /\ ~Done(a) /\ Of(a, "assistant") = {}
    BY <1>7, <2>1 DEF TurnInv, DoneTold, Open
  <2>3. /\ Seen(a)' = Seen(a)
        /\ Done(a)' <=> Done(a)
    BY <2>1, Unshown
  <2>4. Placeholder(a) \in Message /\ Placeholder(a).by = a /\ Placeholder(a).role = "assistant"
    BY Written DEF Placeholder
  <2>5. /\ Of(a, "assistant")' = {Len(messages) + 1} /\ messages'[Len(messages) + 1] = Placeholder(a)
        /\ Cards(a)' = Cards(a)
    BY <1>0, <2>1, <2>2, <2>4, MessageCounts
  <2>6. Closed(a)'
    BY <2>2, <2>3, <2>5 DEF Closed, Placeholder
  <2>7. Level(a)'
    BY <1>3, <2>1, <2>2, <2>3, <2>5 DEF TurnInv, Level
  <2> QED
    BY <1>9, <2>2, <2>6, <2>7
<1>20. CASE StoreFails(a)
  <2>1. PICK m \in Unstored(a) :
          /\ UNCHANGED messages \/ Stores(m)
          /\ IF at[a] = "card"
             THEN Goes(a, "failed") /\ Streams(a, <<"error">>) /\ UNCHANGED local
             ELSE Over(a) /\ UNCHANGED screen
          /\ cut' = [cut EXCEPT ![a] = TRUE]
    BY <1>20 DEF StoreFails
  <2>2. cut'[a]
    BY <1>0, <2>1
  <2>3. Of(a, "assistant") = {}
    BY <2>1 DEF TurnInv, Open, Unstored
  <2>4. CASE UNCHANGED messages /\ at[a] # "card"
    <3>1. at'[a] = "over" /\ Of(a, "assistant")' = {}
      BY <1>7, <2>1, <2>3, <2>4, Unwritten
    <3> QED
      BY <1>9, <2>2, <3>1 DEF Level, Closed
  <2>5. CASE at[a] = "card"
    <3>1. /\ at'[a] = "failed" /\ Streams(a, <<"error">>)
          /\ m = Card(a, Head(local[a].uses)) /\ local[a].uses # <<>>
      BY <1>4, <2>1, <2>5 DEF Unstored, TurnInv, UsesLeft
    <3>2. m \in Message /\ m.by = a /\ m.role = "tool"
      <4>1. Head(local[a].uses) \in Tool
        BY <1>1, <3>1
      <4> QED
        BY <3>1, <4>1, Written DEF Card
    <3>3. Of(a, "assistant")' = {}
      <4>1. CASE messages' = messages
        BY <2>3, <4>1, Unwritten
      <4>2. CASE messages' = Append(messages, m)
        BY <1>0, <2>3, <3>2, <4>2, MessageCounts
      <4> QED
        BY <2>1, <4>1, <4>2 DEF Stores
    <3>4. Done(a)' <=> Done(a)
      BY <1>0, <3>1, Written, EventCounts
    <3> QED
      BY <1>8, <2>2, <2>5, <3>1, <3>3, <3>4
      DEF TurnInv, UsesLeft, CutShort, Level, CardNext, AllTold, SaidInRound, DoneTold, Unasked
  <2>6. CASE Stores(m) /\ at[a] # "card"
    <3>1. at'[a] = "over" /\ messages' = Append(messages, m) /\ screen' = screen
      BY <1>7, <2>1, <2>6 DEF Stores
    <3>2. /\ TextShown(a)' = TextShown(a)
          /\ Done(a)' <=> Done(a)
      BY <3>1, Unshown
    <3>3. at[a] \in {"asking", "done", "failed"}
      BY <2>1, <2>6 DEF Unstored
    <3>4. CASE at[a] = "asking"
      <4>1. m \in Message /\ m.by = a /\ m.role = "user"
        <5>1. m = Question(a)
          BY <2>1, <3>4 DEF Unstored
        <5> QED
          BY <5>1, Written DEF Question
      <4>2. Of(a, "assistant")' = {}
        BY <1>0, <2>3, <3>1, <4>1, MessageCounts
      <4> QED
        BY <1>9, <2>2, <3>1, <4>2 DEF Level, Closed
    <3>5. CASE at[a] \in {"done", "failed"}
      <4>1. m \in Message /\ m.by = a /\ m.role = "assistant"
        <5>1. m = Reply(a, local[a].spoken) \/ m = Placeholder(a)
          BY <2>1, <3>5 DEF Unstored
        <5>2. Placeholder(a) \in Message /\ Placeholder(a).by = a /\ Placeholder(a).role = "assistant"
          BY Written DEF Placeholder
        <5>3. \A x \in SUBSET Round :
                Reply(a, x) \in Message /\ Reply(a, x).by = a /\ Reply(a, x).role = "assistant"
          BY Written DEF Reply
        <5> QED
          BY <1>1, <5>1, <5>2, <5>3
      <4>2. m = IF Done(a) THEN Reply(a, TextShown(a)) ELSE Placeholder(a)
        <5>1. CASE at[a] = "done"
          <6>1. m = Reply(a, local[a].spoken)
            BY <2>1, <5>1 DEF Unstored
          <6> QED
            BY <5>1, <6>1 DEF TurnInv, DoneTold, AllTold, SaidInRound, Spoken
        <5>2. CASE at[a] = "failed"
          BY <2>1, <5>2 DEF TurnInv, DoneTold, Unstored
        <5> QED
          BY <3>5, <5>1, <5>2
      <4>3. Of(a, "assistant")' = {Len(messages) + 1} /\ messages'[Len(messages) + 1] = m
        BY <1>0, <2>3, <3>1, <4>1, MessageCounts
      <4>4. Closed(a)'
        BY <2>2, <3>2, <4>2, <4>3 DEF Closed, Reply, Placeholder
      <4> QED
        BY <1>9, <2>2, <3>1, <4>4 DEF Level
    <3> QED
      BY <3>3, <3>4, <3>5
  <2> QED
    BY <2>1, <2>4, <2>5, <2>6
<1>21. CASE Stopped(a)
  <2>1. /\ at[a] \in Working /\ Over(a) /\ cut' = [cut EXCEPT ![a] = TRUE]
        /\ UNCHANGED <<messages, screen>>
    BY <1>21 DEF Stopped
  <2>2. at'[a] = "over" /\ cut'[a] /\ Of(a, "assistant")' = {}
    <3>1. at[a] # "over"
      BY <2>1 DEF Working
    <3> QED
      BY <1>0, <1>7, <2>1, <3>1, Unwritten DEF TurnInv, Open
  <2> QED
    BY <1>9, <2>2 DEF Level, Closed
<1> QED
  BY <1>10, <1>11, <1>12, <1>13, <1>14, <1>15, <1>16, <1>17, <1>18, <1>19, <1>20, <1>21 DEF TurnStep

-----------------------------------------------------------------------------
(* The text turns: the histories.                                          *)

\* An answer that is over is its turn's only one.
Final(m) ==
    /\ at[m.by] = "over"
    /\ \E j \in Of(m.by, "assistant") : messages[j] = m /\ Of(m.by, "assistant") = {j}
PastIn(a) ==
    \A i \in DOMAIN local[a].history : local[a].history[i].role = "assistant" => Final(local[a].history[i])

\* A message has an author, and an answer that is stored is its author's last word.
LEMMA StoredIsFinal ==
    ASSUME ChatTypeOK, \A a \in Ask : TurnInv(a), NEW i \in DOMAIN messages,
           messages[i].role = "assistant"
    PROVE  Final(messages[i])
<1> DEFINE b == messages[i].by
<1>1. messages[i] \in Message
  BY DEF ChatTypeOK
<1>2. b \in Ask
  BY <1>1 DEF Message
<1>3. i \in Of(b, "assistant")
  BY DEF Of
<1>4. TurnInv(b)
  BY <1>2
<1> HIDE DEF b
<1>5. at[b] = "over" /\ Of(b, "assistant") = {i}
  BY <1>3, <1>4 DEF TurnInv, Open, Closed
<1> QED
  BY <1>3, <1>5 DEF Final, b

\* What is final stays so: a request that is over does not step.
LEMMA FinalStays ==
    ASSUME ChatTypeOK, NEW a \in Ask, Touches(a), NEW m \in Message, Final(m)
    PROVE  Final(m)'
<1>0. /\ at \in [Ask -> Place] /\ messages \in Seq(Message)
  BY DEF ChatTypeOK, Place
<1>1. m.by \in Ask /\ m.by # a
  BY DEF Final, Touches, Message
<1>2. at'[m.by] = "over"
  BY <1>0, <1>1 DEF Touches, Final
<1>3. PICK j \in Of(m.by, "assistant") : messages[j] = m /\ Of(m.by, "assistant") = {j}
  BY DEF Final
<1>4. Of(m.by, "assistant")' = Of(m.by, "assistant") /\ messages'[j] = messages[j]
  <2>1. CASE messages' = messages
    BY <2>1 DEF Of
  <2>2. ASSUME NEW n \in Message, Writes(a, n)
        PROVE  Of(m.by, "assistant")' = Of(m.by, "assistant") /\ messages'[j] = messages[j]
    <3>1. n.by # m.by /\ messages' = Append(messages, n)
      BY <1>1, <2>2 DEF Writes
    <3>2. j \in 1..Len(messages)
      BY <1>0, <1>3 DEF Of
    <3> QED
      BY <1>0, <1>1, <3>1, <3>2, MessageStored
  <2> QED
    BY <2>1, <2>2 DEF Touches
<1> QED
  BY <1>2, <1>3, <1>4 DEF Final

\* What a request has read is past and stays past.
LEMMA HistoryStep ==
    ASSUME ChatTypeOK, \A b \in Ask : TurnInv(b), \A b \in Ask : PastIn(b),
           NEW a \in Ask, Touches(a), NEW b \in Ask
    PROVE  PastIn(b)'
<1>0. local \in [Ask -> Local] /\ messages \in Seq(Message)
  BY DEF ChatTypeOK
<1>1. \/ local'[b].history \in {local[b].history, <<>>}
      \/ local'[b].history = messages
  BY <1>0 DEF Touches
<1>2. ASSUME NEW m \in Message, Final(m) PROVE Final(m)'
  BY <1>2, FinalStays
<1>3. CASE local'[b].history = <<>>
  BY <1>3 DEF PastIn
<1>4. ASSUME NEW h \in Seq(Message), local'[b].history = h,
             \A i \in DOMAIN h : h[i].role = "assistant" => Final(h[i])
      PROVE  PastIn(b)'
  <2>1. ASSUME NEW i \in DOMAIN h, h[i].role = "assistant" PROVE Final(h[i])'
    <3>1. h[i] \in Message
      BY <1>4
    <3> QED
      BY <1>2, <1>4, <2>1, <3>1
  <2> QED
    BY <1>4, <2>1 DEF PastIn
<1>5. CASE local'[b].history = local[b].history
  <2>1. local[b].history \in Seq(Message)
    BY <1>0 DEF Local
  <2> QED
    BY <1>4, <1>5, <2>1 DEF PastIn
<1>6. CASE local'[b].history = messages
  <2>1. \A i \in DOMAIN messages : messages[i].role = "assistant" => Final(messages[i])
    BY StoredIsFinal
  <2> QED
    BY <1>0, <1>4, <1>6, <2>1
<1> QED
  BY <1>1, <1>3, <1>5, <1>6

-----------------------------------------------------------------------------
(* The text turns: what holds in every state.                              *)

ChatInv == ChatTypeOK /\ (\A a \in Ask : TurnInv(a)) /\ (\A a \in Ask : PastIn(a))

\* Nothing is said, shown or stored at first.
LEMMA ChatStarts == ChatInit => ChatInv
<1> SUFFICES ASSUME ChatInit PROVE ChatInv
  OBVIOUS
<1> USE DEF ChatInit
<1>1. Fresh \in Local
  <2>1. 1 \in Round /\ <<>> \in Seq(Message) /\ <<>> \in Seq(Tool)
    BY ChatAssumption DEF ChatAssumption, Round
  <2> QED
    BY <2>1 DEF Local, Fresh
<1>2. ChatTypeOK
  <2>1. FALSE \in BOOLEAN /\ <<>> \in Seq(Message) /\ <<>> \in Seq(Streamed)
    OBVIOUS
  <2> QED
    BY <1>1, <2>1 DEF ChatTypeOK
<1>3. ASSUME NEW a \in Ask PROVE TurnInv(a) /\ PastIn(a)
  <2>1. \A role \in {"user", "assistant", "tool"} : Of(a, role) = {}
    BY DEF Of
  <2>2. ToolsSeen(a) = {} /\ TextShown(a) = {} /\ ~Done(a)
    <3>1. \A x : x \notin Range(<<>>)
      BY DEF Range
    <3>2. screen[a] = <<>>
      OBVIOUS
    <3> QED
      BY <3>1, <3>2 DEF ToolsSeen, TextShown, Done
  <2>3. Seen(a) = 0 /\ Cards(a) = 0
    BY <2>1, <2>2, FS_EmptySet DEF Seen, Cards
  <2>4. UsesLeft(a) /\ CardsMatch(a) /\ CutShort(a) /\ CardNext(a) /\ SaidInRound(a) /\ DoneTold(a)
    BY <2>1, <2>2 DEF UsesLeft, CardsMatch, CutShort, CardNext, SaidInRound, DoneTold
  <2>5. AllTold(a) /\ Unasked(a) /\ Open(a) /\ Closed(a)
    BY <2>1, <2>2 DEF AllTold, Unasked, Open, Closed, Spoken, Fresh
  <2>6. Level(a)
    BY <2>3 DEF Level
  <2>7. PastIn(a)
    BY DEF PastIn, Fresh
  <2> QED
    BY <2>4, <2>5, <2>6, <2>7 DEF TurnInv
<1> QED
  BY <1>2, <1>3 DEF ChatInv

\* Every step of every request keeps it so.
LEMMA ChatStep == ChatInv /\ [ChatNext]_chatVars => ChatInv'
<1> SUFFICES ASSUME ChatInv, [ChatNext]_chatVars PROVE ChatInv'
  OBVIOUS
<1>1. ChatTypeOK /\ (\A a \in Ask : TurnInv(a)) /\ (\A a \in Ask : PastIn(a))
  BY DEF ChatInv
<1>2. CASE UNCHANGED chatVars
  <2> USE <1>2 DEF chatVars
  <2>1. ChatTypeOK'
    BY <1>1 DEF ChatTypeOK
  <2>2. ASSUME NEW a \in Ask PROVE TurnInv(a)'
    <3>1. /\ \A role \in {"user", "assistant", "tool"} : Of(a, role)' = Of(a, role)
          /\ Cards(a)' = Cards(a) /\ Seen(a)' = Seen(a) /\ ToolsSeen(a)' = ToolsSeen(a)
          /\ TextShown(a)' = TextShown(a)
          /\ Done(a)' <=> Done(a)
      BY Unwritten, Unshown DEF ToolsSeen
    <3>2. CardsMatch(a)' /\ Closed(a)'
      BY <1>1, <3>1 DEF TurnInv, CardsMatch, Matched, Closed, Reply, Placeholder
    <3>3. UsesLeft(a)' /\ CutShort(a)' /\ Level(a)' /\ CardNext(a)' /\ AllTold(a)'
      BY <1>1, <3>1 DEF TurnInv, UsesLeft, CutShort, Level, CardNext, AllTold, Spoken
    <3>4. SaidInRound(a)' /\ DoneTold(a)' /\ Unasked(a)' /\ Open(a)'
      BY <1>1, <3>1 DEF TurnInv, SaidInRound, DoneTold, Unasked, Open
    <3> QED
      BY <3>2, <3>3, <3>4 DEF TurnInv
  <2>3. ASSUME NEW a \in Ask PROVE PastIn(a)'
    BY <1>1 DEF PastIn, Final, Of
  <2> QED
    BY <2>1, <2>2, <2>3 DEF ChatInv
<1>3. CASE ChatNext
  <2>1. PICK a \in Ask :
          \/ FetchConversation(a) \/ TextDelta(a) \/ StreamBreaks(a) \/ TurnStep(a)
          \/ \E t \in Tool : ToolUse(a, t)
          \/ StoreFails(a) \/ Stopped(a)
    BY <1>3 DEF ChatNext
  <2>2. TurnInv(a) /\ UsesLeft(a)
    BY <1>1 DEF TurnInv
  <2>3. Touches(a)
    BY <1>1, <2>1, <2>2, StepTouches
  <2>4. TurnInv(a)'
    BY <1>1, <2>1, <2>2, <2>3, OwnTurn
  <2>5. ASSUME NEW b \in Ask PROVE TurnInv(b)'
    <3>1. CASE b = a
      BY <2>4, <3>1
    <3>2. CASE b # a
      BY <1>1, <2>3, <3>2, OtherTurns
    <3> QED
      BY <3>1, <3>2
  <2>6. ChatTypeOK'
    BY <1>1, <2>3, TouchesTypes
  <2>7. ASSUME NEW b \in Ask PROVE PastIn(b)'
    BY <1>1, <2>3, HistoryStep
  <2> QED
    BY <2>5, <2>6, <2>7 DEF ChatInv
<1> QED
  BY <1>2, <1>3

\* The turns hold in every state: the induction the three theorems below share.
LEMMA ChatHolds == ChatSpec => []ChatInv
BY ChatStarts, ChatStep, PTL DEF ChatSpec

\* The conversation and its requests have their types in every state, for any number of
\* requests, tools and rounds.
THEOREM ChatTypeCorrect == ChatSpec => []ChatTypeOK
<1>1. ChatInv => ChatTypeOK
  BY DEF ChatInv
<1> QED
  BY <1>1, ChatHolds, PTL

\* The history a model call is given holds no part of an answer that was still going on
\* when it was read, however the requests on one conversation are interleaved.
THEOREM HistoryIsWholeAlways == ChatSpec => []HistoryIsWhole
<1>1. ChatInv => HistoryIsWhole
  BY DEF ChatInv, HistoryIsWhole, PastIn, Final, Replayed
<1> QED
  BY <1>1, ChatHolds, PTL

\* A reload of the conversation shows what each turn streamed, the n-th card for the
\* n-th tool event and one closing message, whatever other turns wrote meanwhile.
THEOREM ReloadShowsTurnAlways == ChatSpec => []ReloadShowsTurn
<1>1. ChatInv => ReloadShowsTurn
  <2> SUFFICES ASSUME ChatInv, NEW a \in Ask
               PROVE  LET cards   == Of(a, "tool")
                          closing == Of(a, "assistant")
                          done    == <<"done">> \in Range(screen[a])
                      IN  /\ \A i \in cards : \E j \in ToolsSeen(a) :
                               /\ Rank(cards, i) = Rank(ToolsSeen(a), j)
                               /\ screen[a][j] = <<"tool", messages[i].tool>>
                          /\ \A i, j \in closing : i = j
                          /\ \A i \in closing :
                               messages[i] = IF done THEN Reply(a, TextShown(a)) ELSE Placeholder(a)
                          /\ at[a] = "over" /\ Of(a, "user") # {} /\ ~cut[a] =>
                               /\ Cardinality(cards) = Cardinality(ToolsSeen(a))
                               /\ closing = {} => done /\ TextShown(a) = {}
    BY DEF ReloadShowsTurn
  <2>1. TurnInv(a)
    BY DEF ChatInv
  <2>2. CardsMatch(a) /\ Closed(a) /\ Level(a)
    BY <2>1 DEF TurnInv
  <2>3. \A i \in Of(a, "tool") : \E j \in ToolsSeen(a) :
          /\ Rank(Of(a, "tool"), i) = Rank(ToolsSeen(a), j)
          /\ screen[a][j] = <<"tool", messages[i].tool>>
    BY <2>2 DEF CardsMatch, Matched
  <2>4. at[a] = "over" /\ ~cut[a] => Cardinality(Of(a, "tool")) = Cardinality(ToolsSeen(a))
    <3>1. Cards(a) \in Nat
      <4>1. messages \in Seq(Message)
        BY DEF ChatInv, ChatTypeOK
      <4>2. Len(messages) \in Nat /\ Of(a, "tool") \in SUBSET (1..Len(messages))
        BY <4>1 DEF Of
      <4> QED
        BY <4>2, Positions DEF Cards
    <3> QED
      BY <2>2, <3>1 DEF Level, Seen, Cards
  <2> QED
    BY <2>2, <2>3, <2>4 DEF Closed, Done
<1> QED
  BY <1>1, ChatHolds, PTL

-----------------------------------------------------------------------------
(* Side by side.                                                           *)

\* A behaviour of the composition is, for each part, a behaviour of that part.
LEMMA PartsOfConversation ==
  ConversationSpec => Spec /\ VoiceSpec /\ ChatSpec
<1>1. ConversationInit => Init /\ VoiceInit /\ ChatInit
  BY DEF ConversationInit
<1>2. [ConversationNext]_allVars => [Next]_vars /\ [VoiceNext]_voiceVars /\ [ChatNext]_chatVars
  <2>1. CASE OnQueue(Next)
    BY <2>1 DEF OnQueue
  <2>2. CASE OnVoice
    BY <2>2 DEF OnVoice
  <2>3. CASE OnText(ChatNext)
    BY <2>3 DEF OnText
  <2>4. CASE UNCHANGED allVars
    BY <2>4 DEF allVars
  <2> QED
    BY <2>1, <2>2, <2>3, <2>4 DEF ConversationNext
<1> QED
  BY <1>1, <1>2, PTL DEF ConversationSpec, Spec, VoiceSpec, ChatSpec

\* What holds of the parts holds side by side, as the run checks them: sealed turns are
\* stored in order, as Transcript has it, and none is lost silently, every tool result
\* is in one of them, and a text turn reloads as it was streamed and is given a past
\* that is past.
THEOREM ConversationKeepsItsWord ==
  ConversationSpec => /\ [](/\ OrderKept /\ NoneLostSilently /\ ToolResultsKept
                            /\ HistoryIsWhole /\ ReloadShowsTurn)
                      /\ ImplementsTranscript
BY PartsOfConversation, StoredInOrder, NoneLost, ToolResultsKeptAlways, HistoryIsWholeAlways,
   ReloadShowsTurnAlways, ImplementsTranscriptAlways, PTL
=============================================================================
