---------------------------- MODULE Conversation ----------------------------
(***************************************************************************)
(* A conversation with the assistant, spoken or written: the sealed voice  *)
(* turns on their way to the server (TurnQueue), the session that seals    *)
(* them (VoiceSession) and the text turns (ChatTurn).  scenario says which *)
(* of them a behaviour is about.                                           *)
(***************************************************************************)
EXTENDS TurnQueue, VoiceSession, ChatTurn

VARIABLE scenario

allVars == <<scenario, vars, voiceVars, chatVars>>

ConversationInit ==
    /\ scenario \in {"queue", "voice", "text"}
    /\ Init /\ VoiceInit /\ ChatInit

OnQueue(step) == scenario = "queue" /\ step /\ UNCHANGED <<scenario, voiceVars, chatVars>>
OnVoice       == scenario = "voice" /\ VoiceNext /\ UNCHANGED <<scenario, vars, chatVars>>
OnText(step)  == scenario = "text" /\ step /\ UNCHANGED <<scenario, vars, voiceVars>>

ConversationNext == OnQueue(Next) \/ OnVoice \/ OnText(ChatNext)

ConversationSpec == ConversationInit /\ [][ConversationNext]_allVars

\* Timers fire, every await ends, and a model call ends or times out.
ConversationFairSpec ==
    /\ ConversationSpec
    /\ WF_allVars(OnQueue(TimerFires)) /\ WF_allVars(OnQueue(WorkerStep))
    /\ \A a \in Ask : WF_allVars(OnText(TurnStep(a)))
=============================================================================
