------------------------------ MODULE Display -------------------------------
(***************************************************************************)
(* Questions to the touch display and its answers (LCD.h, logic.h:18-49).  *)
(* The display sends "mode" when the user chooses a generative mode; the   *)
(* controller then asks for the choice, and at Enter for the text of the   *)
(* prompt; when the start switch is on it asks for the text to stream.  An *)
(* answer is whatever arrives in half a second.                            *)
(*                                                                         *)
(* External: the display, which answers in order, late or not at all and   *)
(* at times sends a termination (1A FF FF FF) unasked, and the user.  A    *)
(* text is one item, and a termination another.                            *)
(***************************************************************************)
EXTENDS Loop, SequencesExt

CONSTANTS
  TIMEOUT_WAIT_LCD,
  GenerativeModes,   \* the generative modes of the display, 0 among them
  MaxTouches,\* bound: choices made
  MaxAsked   \* bound: questions without answer, and answers unread

ASSUME DisplayAssumption ==
  /\ TIMEOUT_WAIT_LCD \in Nat /\ MaxTouches \in Nat /\ MaxAsked \in Nat
  /\ GenerativeModes \subseteq Nat /\ 0 \in GenerativeModes

VARIABLES
  rx,       \* what has arrived and is unread
  asked,    \* external: questions not answered yet
  shown,    \* external: the mode chosen on the display
  touches,  \* external: choices made
  STATE_GENERATIVE_TRACKER,
  deadline, \* of the wait for an answer
  reply,    \* of expectLCDStreamInt or expectLCDStream: what was read
  disturbed,\* history: something else came, or may come, into the answers of this pass
  modeDoubt \* history: a choice was missed, or its answer disturbed

envVars == <<asked, shown, touches>>
displayVars == <<rx, envVars, STATE_GENERATIVE_TRACKER, deadline, reply, disturbed, modeDoubt>>

\* The word "mode" (by its last byte), a text (by any byte that is no mode), a termination
\* (by its last byte) and the blank that takes its place.
ModeEvent == 101
Text == 84
Termination == 255
Blank == 32
Uninitialised == GenerativeModes \cup {255}

DisplayInit ==
  /\ rx = << >> /\ asked = << >> /\ shown = 0 /\ touches = 0
  /\ STATE_GENERATIVE_TRACKER = 0 /\ deadline = 0 /\ reply = << >>
  /\ disturbed = FALSE /\ modeDoubt = FALSE

-----------------------------------------------------------------------------
(* The controller *)

\* In the other modes of the device, and while the start switch is off, nothing is read.
OtherMode ==
  /\ pc = "switch" /\ pc' = "top"
  /\ UNCHANGED <<millis, ticks, displayVars>>

\* isGenerativeModeChanged reads everything, "mode" or not.  (Mutant: what is not "mode" is
\* left.)
ReadIfMode == IF Contains(rx, ModeEvent) THEN << >> ELSE rx
ReadAll == << >>

isGenerativeModeChanged ==
  /\ pc = "switch"
  /\ pc' = IF Contains(rx, ModeEvent) THEN "delay" ELSE "keys"
  /\ rx' = ReadAll
  /\ disturbed' = FALSE
  /\ UNCHANGED <<millis, ticks, envVars, STATE_GENERATIVE_TRACKER, deadline, reply, modeDoubt>>

\* A question (getValueLCD, getTextLCD).  The deadline is a sum that may wrap: the wait is
\* then over before it begins.
Ask(question, place, unread) ==
  /\ Len(asked) + Len(rx) < MaxAsked
  /\ pc' = place
  /\ asked' = Append(asked, question)
  /\ deadline' = Plus(millis, TIMEOUT_WAIT_LCD) /\ reply' = << >>
  /\ disturbed' = (disturbed \/ unread \/ asked # << >> \/ deadline' < millis)
  /\ UNCHANGED <<millis, ticks, rx, shown, touches, STATE_GENERATIVE_TRACKER, modeDoubt>>

\* The modes in which Enter asks for the prompt.
Prompting == {0, 1, 3}

AskMode == pc = "delay" /\ Ask(ModeEvent, "value", FALSE)
AskText ==
  pc = "keys" /\ STATE_GENERATIVE_TRACKER \in Prompting /\ Ask(Text, "text", FALSE)

\* streamingProcess asks without a look at the line, and its answer is all that is there.
AskStream == pc = "switch" /\ Ask(Text, "text", \E i \in DOMAIN rx : rx[i] # Termination)

NoEnter ==
  /\ pc = "keys" /\ pc' = "top"
  /\ disturbed' = FALSE
  /\ UNCHANGED <<millis, ticks, rx, envVars, STATE_GENERATIVE_TRACKER, deadline, reply,
                 modeDoubt>>

Waiting == pc \in {"value", "text"} /\ deadline > millis

Read ==
  /\ Waiting /\ rx # << >>
  /\ rx' = Tail(rx) /\ reply' = Append(reply, Head(rx))
  /\ modeDoubt' = (modeDoubt \/ (pc = "text" /\ Head(rx) = ModeEvent))
  /\ UNCHANGED <<pc, millis, ticks, envVars, STATE_GENERATIVE_TRACKER, deadline, disturbed>>

\* The last byte that came is the mode; without any it is uninitialised.  (Mutant: the first
\* byte counts.)
FirstByte == IF reply = << >> THEN Uninitialised ELSE {Head(reply)}
LastByte == IF reply = << >> THEN Uninitialised ELSE {Last(reply)}

\* expectLCDStream puts a blank for each termination; expectLCDStreamInt keeps them.
Filtered(s) == [i \in DOMAIN s |-> IF s[i] = Termination THEN Blank ELSE s[i]]

WaitEnds ==
  /\ pc \in {"value", "text"} /\ ~(deadline > millis)
  /\ disturbed' = (disturbed \/ asked # << >> \/ rx # << >>)
  /\ IF pc = "value"
     THEN /\ STATE_GENERATIVE_TRACKER' \in LastByte
          /\ modeDoubt' = disturbed' /\ pc' = "keys"
     ELSE UNCHANGED <<STATE_GENERATIVE_TRACKER, modeDoubt>> /\ pc' = "asked"
  /\ deadline' = 0 /\ reply' = IF pc = "value" THEN << >> ELSE Filtered(reply)
  /\ UNCHANGED <<millis, ticks, rx, envVars>>

\* The prompt goes to the chat, or the text to the computer.
PromptUsed ==
  /\ pc = "asked" /\ pc' = "top"
  /\ reply' = << >> /\ disturbed' = FALSE
  /\ UNCHANGED <<millis, ticks, rx, envVars, STATE_GENERATIVE_TRACKER, deadline, modeDoubt>>

\* A restart: the display does not notice.
DisplayBoots ==
  /\ rx' = << >> /\ STATE_GENERATIVE_TRACKER' = 0 /\ deadline' = 0 /\ reply' = << >>
  /\ disturbed' = FALSE /\ modeDoubt' = TRUE
  /\ UNCHANGED envVars

DisplayNext ==
  \/ OtherMode \/ isGenerativeModeChanged \/ AskMode \/ AskText \/ AskStream \/ NoEnter \/ Read
  \/ WaitEnds \/ PromptUsed

-----------------------------------------------------------------------------
(* External: the display and the user *)

\* What comes after the first look at the line disturbs the answers of the pass; a choice
\* made while the display is still given its second does not, since the question follows it.
InAnswers == pc \in {"value", "keys", "text"}

Touch ==
  /\ touches < MaxTouches /\ touches' = touches + 1
  /\ shown' \in GenerativeModes \ {shown}
  /\ rx' = Append(rx, ModeEvent)
  /\ disturbed' = (disturbed \/ InAnswers)
  /\ UNCHANGED <<pc, millis, ticks, asked, STATE_GENERATIVE_TRACKER, deadline, reply,
                 modeDoubt>>

Answer ==
  /\ asked # << >> /\ asked' = Tail(asked)
  /\ rx' = Append(rx, IF Head(asked) = Text THEN Text ELSE shown)
  /\ disturbed' = (disturbed \/ pc = "keys")
  /\ UNCHANGED <<pc, millis, ticks, shown, touches, STATE_GENERATIVE_TRACKER, deadline, reply,
                 modeDoubt>>

NoAnswer ==
  /\ asked # << >> /\ asked' = Tail(asked)
  /\ disturbed' = (disturbed \/ InAnswers)
  /\ UNCHANGED <<pc, millis, ticks, rx, shown, touches, STATE_GENERATIVE_TRACKER, deadline,
                 reply, modeDoubt>>

\* A termination comes.  It spoils the choice when it comes after it.
Stray ==
  /\ Len(asked) + Len(rx) + Len(reply) < MaxAsked
  /\ rx' = Append(rx, Termination)
  /\ disturbed' = (disturbed \/ (pc = "value" /\ asked = << >>))
  /\ UNCHANGED <<pc, millis, ticks, envVars, STATE_GENERATIVE_TRACKER, deadline, reply,
                 modeDoubt>>

DisplayEnv == Touch \/ Answer \/ NoAnswer \/ Stray

-----------------------------------------------------------------------------
(* Properties *)

\* The generative mode is the one the display shows, through choices in quick succession,
\* terminations and answers that were late for an earlier question; not after a choice made
\* while the answer is awaited or read as part of a text, an answer that did not come in
\* time or had a termination after it, a wait cut short, or a restart (LCD.h:167,
\* logic.h:18-32 and 149).
ModeFollows ==
  pc \in {"top", "scan", "switch"} /\ ~modeDoubt /\ ~Contains(rx, ModeEvent) =>
    STATE_GENERATIVE_TRACKER = shown

\* The prompt, or the text to stream, is the text of the display, but for blanks where
\* terminations came: what was late for an earlier question is gone before the next one.
\* Not so when something else than a termination was on the line at the question for the
\* text to stream, which nobody reads before (LCD.h:137-153, logic.h:20-22 and 149).
PromptIsText ==
  pc = "asked" /\ ~disturbed =>
    \E i \in DOMAIN reply : reply[i] = Text /\ \A j \in DOMAIN reply \ {i} : reply[j] = Blank
=============================================================================
