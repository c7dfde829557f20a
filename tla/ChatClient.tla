----------------------------- MODULE ChatClient -----------------------------
(***************************************************************************)
(* The chat request of the keyboard controller (openAI_chat_Stream): the   *)
(* conversation it keeps in RAM and sends whole with every question, the   *)
(* reply it reads piece by piece into the answer box, its deadline, and    *)
(* the watchdog that only runs out while the request is made.              *)
(*                                                                         *)
(* Time passes in ticks.  The chat service and the network are external:   *)
(* the service refuses a request it cannot parse or that is too long, and  *)
(* otherwise answers in pieces or falls silent at any point.               *)
(***************************************************************************)
EXTENDS Naturals, SequencesExt

CONSTANTS
  Prompts,       \* what is asked
  BrokenPrompts, \* those no JSON text survives (the display garbled a character)
  AnswerTexts,   \* what the service answers, each a sequence of pieces
  ModeText,      \* the text of a generative mode in the answer box
  ContextRoom,   \* items of conversation the service accepts in a request
  WaitTime,      \* ticks the client waits for the reply: 30 s
  WatchdogTime,  \* ticks the watchdog waits for a reload: 30 s
  MaxHistory     \* bound: no question is asked when the conversation has more items

ASSUME ChatAssumption ==
  /\ BrokenPrompts \subseteq Prompts
  /\ ContextRoom \in Nat /\ WaitTime \in Nat /\ WatchdogTime \in Nat \ {0}
  /\ MaxHistory \in Nat
ASSUME AnswersAssumption == \A a \in AnswerTexts : a \in Seq({a[i] : i \in DOMAIN a})

VARIABLES
  chatPc,      \* "idle", "connect", "send", "check" (the outer loop) or "read" (the inner)
  historical_messages, \* the conversation, with the separators of its JSON text
  completeAppendedReply, \* the pieces read so far
  box,         \* the answer box of the display
  status,      \* the status line of the display
  waited,      \* ticks since the request was sent
  sinceReload, \* ticks since the watchdog was reloaded
  incoming,    \* pieces received and not yet read
  reply,       \* external: pieces the service has still to send
  given,       \* external: its answer to the last request
  answered,    \* history: every question sent, with the answer given to it
  retry        \* history: the question was asked with "please retry" on display

chatVars == <<chatPc, historical_messages, completeAppendedReply, box, status, waited,
              sinceReload, incoming, reply, given, answered, retry>>
serviceVars == <<reply, given, answered>>
timers == <<waited, sinceReload>>

SEPARATOR    == [role |-> "separator", text |-> << >>]
User(p)      == [role |-> "user", text |-> <<p>>]
Assistant(t) == [role |-> "assistant", text |-> t]
system_content == [role |-> "system", text |-> << >>]

Piece(c)   == [kind |-> "content", text |-> <<c>>]
BAD_REQUEST == [kind |-> "Bad Request", text |-> << >>]
DONE        == [kind |-> "[DONE]", text |-> << >>]
Text(pieces) == FlattenSeq([i \in DOMAIN pieces |-> pieces[i].text])

\* Messages and separators alternate, and every message is a JSON text.
WellFormed(request) ==
  /\ Len(request) % 2 = 1
  /\ \A i \in DOMAIN request :
       /\ (request[i] = SEPARATOR) <=> (i % 2 = 0)
       /\ \A p \in BrokenPrompts : request[i] # User(p)

ChatInit ==
  /\ chatPc = "idle"
  /\ historical_messages = <<system_content>>
  /\ completeAppendedReply = << >> /\ box = << >> /\ status = "mode"
  /\ waited = 0 /\ sinceReload = 0
  /\ incoming = << >> /\ reply = << >> /\ given = << >>
  /\ answered = {} /\ retry = FALSE

-----------------------------------------------------------------------------
(* The request *)

\* Enter in query mode: the question joins the conversation before there is a connection.
Ask(p) ==
  /\ chatPc = "idle" /\ Len(historical_messages) <= MaxHistory
  /\ historical_messages' = historical_messages \o <<SEPARATOR, User(p)>>
  /\ chatPc' = "connect"
  /\ sinceReload' = 0
  /\ retry' = (status = "Bad Request Please retry" /\ p \notin BrokenPrompts)
  /\ UNCHANGED <<completeAppendedReply, box, status, waited, incoming, serviceVars>>

\* Whether it succeeds or fails, a new connection closes the one that a request without
\* reply has left open.
ConnectFails ==
  /\ chatPc = "connect"
  /\ chatPc' = "idle"
  /\ status' = "Can't connect to openai"
  /\ incoming' = << >> /\ reply' = << >>
  /\ UNCHANGED <<historical_messages, completeAppendedReply, box, timers, given, answered,
                 retry>>

\* (Mutant: the last answer stays in the box.)
clearTextLCDForgotten == UNCHANGED box
clearTextLCD == box' = << >>

Connected ==
  /\ chatPc = "connect"
  /\ chatPc' = "send"
  /\ sinceReload' = 0
  /\ status' = "GENERATING ANSWERS"
  /\ clearTextLCD
  /\ incoming' = << >> /\ reply' = << >>
  /\ UNCHANGED <<historical_messages, completeAppendedReply, waited, given, answered, retry>>

\* External: what the service does with a request.
ServiceTakes(request) ==
  IF WellFormed(request) /\ Len(request) <= ContextRoom
  THEN \/ \E a \in AnswerTexts :
            /\ given' = a
            /\ reply' = Append([i \in DOMAIN a |-> Piece(a[i])], DONE)
       \/ given' = << >> /\ reply' = << >>
  ELSE given' = << >> /\ reply' = <<BAD_REQUEST>>

RequestSent ==
  /\ chatPc = "send"
  /\ chatPc' = "check"
  /\ waited' = 0
  /\ completeAppendedReply' = << >>
  /\ ServiceTakes(historical_messages)
  /\ answered' = answered \cup {<<Last(historical_messages), given'>>}
  /\ UNCHANGED <<historical_messages, box, status, sinceReload, incoming, retry>>

-----------------------------------------------------------------------------
(* The reply *)

\* (Mutant: what has been read is kept as an answer.)
AfterTimeoutPartial ==
  historical_messages \o <<SEPARATOR, Assistant(completeAppendedReply)>>
AfterTimeout == historical_messages

\* The deadline is looked at only when everything received has been read.
TimedOut ==
  /\ chatPc = "check" /\ waited >= WaitTime
  /\ chatPc' = "idle"
  /\ historical_messages' = AfterTimeout
  /\ UNCHANGED <<completeAppendedReply, box, status, timers, incoming, serviceVars, retry>>

\* A turn of the loop leaves both timers running.  (Mutant: it restarts them.)
TurnRestartsTimers == waited' = 0 /\ sinceReload' = 0
Turn == UNCHANGED timers

StillWaiting ==
  /\ chatPc = "check" /\ waited < WaitTime
  /\ chatPc' = "read"
  /\ Turn
  /\ UNCHANGED <<historical_messages, completeAppendedReply, box, status, incoming,
                 serviceVars, retry>>

AllRead ==
  /\ chatPc = "read" /\ incoming = << >>
  /\ chatPc' = "check"
  /\ UNCHANGED <<historical_messages, completeAppendedReply, box, status, timers, incoming,
                 serviceVars, retry>>

ReadPiece ==
  /\ chatPc = "read" /\ incoming # << >> /\ Head(incoming).kind = "content"
  /\ incoming' = Tail(incoming)
  /\ box' = box \o Head(incoming).text
  /\ completeAppendedReply' = completeAppendedReply \o Head(incoming).text
  /\ UNCHANGED <<chatPc, historical_messages, status, timers, serviceVars, retry>>

\* The whole conversation is dropped, with its head.
ReadBadRequest ==
  /\ chatPc = "read" /\ incoming # << >> /\ Head(incoming) = BAD_REQUEST
  /\ incoming' = Tail(incoming)
  /\ historical_messages' = << >>
  /\ status' = "Bad Request Please retry"
  /\ chatPc' = "idle"
  /\ UNCHANGED <<completeAppendedReply, box, timers, serviceVars, retry>>

ReadDone ==
  /\ chatPc = "read" /\ incoming # << >> /\ Head(incoming) = DONE
  /\ incoming' = Tail(incoming)
  /\ historical_messages' =
       historical_messages \o <<SEPARATOR, Assistant(completeAppendedReply)>>
  /\ status' = "press ESCape to stream"
  /\ chatPc' = "idle"
  /\ UNCHANGED <<completeAppendedReply, box, timers, serviceVars, retry>>

Client ==
  \/ ConnectFails \/ Connected \/ RequestSent \/ TimedOut \/ StillWaiting \/ AllRead
  \/ ReadPiece \/ ReadBadRequest \/ ReadDone

-----------------------------------------------------------------------------
(* Time, the watchdog, the other uses of the box, the service *)

Tick ==
  /\ chatPc # "idle" /\ sinceReload < WatchdogTime
  /\ sinceReload' = sinceReload + 1
  /\ waited' = IF waited < WaitTime THEN waited + 1 ELSE waited
  /\ UNCHANGED <<chatPc, historical_messages, completeAppendedReply, box, status, incoming,
                 serviceVars, retry>>

\* The controller restarts: its RAM is lost, the display keeps the box.
Watchdog ==
  /\ chatPc # "idle" /\ sinceReload = WatchdogTime
  /\ chatPc' = "idle"
  /\ historical_messages' = <<system_content>>
  /\ completeAppendedReply' = << >> /\ incoming' = << >> /\ reply' = << >>
  /\ status' = "mode"
  /\ waited' = 0 /\ sinceReload' = 0
  /\ retry' = FALSE
  /\ UNCHANGED <<box, given, answered>>

\* monitorGenerativeModeSelection puts its own text into the box.
SelectMode ==
  /\ chatPc = "idle"
  /\ box' = ModeText
  /\ UNCHANGED <<chatPc, historical_messages, completeAppendedReply, status, timers,
                 incoming, serviceVars, retry>>

\* Query mode is left and entered again.
SwitchMode ==
  /\ chatPc = "idle"
  /\ box' = << >> /\ status' = "mode"
  /\ UNCHANGED <<chatPc, historical_messages, completeAppendedReply, timers, incoming,
                 serviceVars, retry>>

ServiceSends ==
  /\ reply # << >>
  /\ incoming' = Append(incoming, Head(reply)) /\ reply' = Tail(reply)
  /\ UNCHANGED <<chatPc, historical_messages, completeAppendedReply, box, status, timers,
                 given, answered, retry>>

ServiceStops ==
  /\ reply # << >>
  /\ reply' = << >>
  /\ UNCHANGED <<chatPc, historical_messages, completeAppendedReply, box, status, timers,
                 incoming, given, answered, retry>>

ChatNext ==
  \/ \E p \in Prompts : Ask(p)
  \/ Client \/ Tick \/ Watchdog \/ SelectMode \/ SwitchMode
  \/ ServiceSends \/ ServiceStops

ChatSpec == ChatInit /\ [][ChatNext]_chatVars

\* The client runs, time passes and the watchdog acts; the service owes nothing.
ChatFairSpec ==
  ChatSpec /\ WF_chatVars(Client) /\ WF_chatVars(Tick) /\ WF_chatVars(Watchdog)

-----------------------------------------------------------------------------
(* Properties *)

Waiting == chatPc \in {"check", "read"}

\* What the client has read, with what it has received, is the beginning of the answer to
\* its own last question, and the box shows what has been read: nothing of an earlier
\* request that ended without its reply gets in (openAI.h:192-196, 286-311).
AnswerInOrder ==
  Waiting => /\ box = completeAppendedReply
             /\ IsPrefix(completeAppendedReply \o Text(incoming), given)

\* Every answer in the conversation is the whole answer that was given to the question
\* right before it, whatever broke off, timed out or failed in between
\* (openAI.h:183, 264-270, 318).
ConversationFaithful ==
  \A i \in DOMAIN historical_messages :
    historical_messages[i].role = "assistant" =>
      /\ i > 2
      /\ <<historical_messages[i - 2], historical_messages[i].text>> \in answered

\* When the display offers to stream, the box holds the whole answer or the text of a mode
\* selected since, never a part of an answer (openAI.h:265, logic.h:43).
OfferedIsWhole ==
  status = "press ESCape to stream" /\ chatPc = "idle" => box \in {given, ModeText}

\* Every question comes to an end: by its reply, the deadline or the watchdog
\* (openAI.h:229, main.cpp:76).
QuestionEnds == chatPc # "idle" ~> chatPc = "idle"

\* "Bad Request Please retry" (openAI.h:259): a question asked again after it makes a
\* request the service can parse.
RetryWellFormed == retry /\ chatPc = "send" => WellFormed(historical_messages)
=============================================================================
