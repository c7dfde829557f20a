------------------------------ MODULE Keyboard ------------------------------
(***************************************************************************)
(* The firmware of the keyboard controller (the STM32): setup() and loop() *)
(* of main.cpp with the scanning of keyboard.h, the mode changes of        *)
(* logic.h, the mode byte kept in EEPROM and everything the loop writes to *)
(* its two lines to the coprocessor.                                       *)
(*                                                                         *)
(* One pass of loop() is cut into steps where it waits (delay, EEPROM      *)
(* write, chat request), because keys move, the coprocessor runs and the   *)
(* controller may restart in between; pc says where the pass stands.       *)
(* Left out: display contents other than the answer, the buzzer, clock and *)
(* videos, the counter of key presses, and the debug text of everything    *)
(* but the key scan.  Module ChatClient has the chat request in detail.    *)
(***************************************************************************)
EXTENDS KeyMap, Link, Sequences

CONSTANTS
  MatrixKeys,     \* the matrix positions that have a key
  SpecialKeys,    \* the special keys that are ever moved
  Answers,        \* texts, whole or in part, that the chat can put into the answer box
  ModeInfo,       \* the text that explains a generative mode in the answer box
  ModeReplies,    \* generative modes that the user selects on the display
  BootModes,      \* mode bytes the EEPROM can hold at first power-up
  EepromMayFail,  \* whether an EEPROM write may fail its verification
  MaxResets,      \* bound: restarts of the controller
  UartRoom,       \* bytes the transmitter to the coprocessor can hold
  SerialRoom      \* items the transmitter of the debug line can hold

ASSUME KeysAssumption ==
  /\ MatrixKeys \subseteq MatrixPositions
  /\ SpecialKeys \subseteq SpecialKeyIds
ASSUME ValuesAssumption ==
  /\ ModeReplies \subseteq 0 .. 4
  /\ BootModes \subseteq Byte
  /\ EepromMayFail \in BOOLEAN
ASSUME AnswersAssumption == ModeInfo \in Seq(Byte) /\ \A a \in Answers : a \in Seq(Byte)
ASSUME BoundsAssumption == MaxResets \in Nat /\ UartRoom \in Nat /\ SerialRoom \in Nat

STATE_BASIC_KEYBOARD  == 0
STATE_CHAT_GPT_QUERY  == 1
STATE_CHAT_GPT_STREAM == 2
STATE_DEVICE_LOCKED   == 3
STATE_DEVICE_SLEEP    == 4
Modes == 0 .. 4

\* Generative modes whose keys the loop handles: informative, creative, illustrative.
TypingModes == {0, 1, 3}

NoKey   == 0    \* scanKeyboard returns NULL when nothing changed
NoSpKey == 99   \* scanSpecialKeys returns 99 when nothing changed

VARIABLES
  down,              \* matrix keys that are physically down
  spDown,            \* special keys that are physically down
  prevKeyStates,     \* matrix keys the last scans saw down
  prevSpecialKeys,   \* special keys the last scans saw down
  input,             \* code of the matrix key that changed in this pass
  currentKeyState,   \* TRUE iff it was pressed
  inputSpecialKeys,  \* the special key that changed in this pass
  currentSpKeyState, \* TRUE iff it was pressed
  pc,                \* where the pass of loop() stands
  STATE_TRACKER,     \* the mode
  STATE_GENERATIVE_TRACKER, \* the generative mode, as the display reported it
  NFCInitialized, isToFinitialized, \* the tag reader and the distance sensor answered
  outText,           \* the answer box of the display
  answer,            \* characters streamGPTResults still has to send
  lcdAsleep,         \* the display was put to sleep
  eepMode,           \* the mode byte in EEPROM
  uart,              \* bytes written to the coprocessor, not yet transmitted
  serial,            \* the debug line, not yet transmitted
  resets,            \* restarts so far
  unsaved,           \* history: the last mode save failed its verification
  sentHeld,          \* history: codes last reported pressed to the coprocessor
  orphaned           \* history: codes whose release was dropped, or left unseen by a restart

pinVars  == <<down, spDown>>
scanVars == <<prevKeyStates, prevSpecialKeys, input, currentKeyState,
              inputSpecialKeys, currentSpKeyState>>
modeVars == <<STATE_TRACKER, eepMode, unsaved>>
sensorVars == <<NFCInitialized, isToFinitialized>>
textVars == <<outText, answer, lcdAsleep>>
lineVars == <<uart, serial>>
heldVars == <<sentHeld, orphaned>>
vars == <<pinVars, scanVars, pc, modeVars, STATE_GENERATIVE_TRACKER, sensorVars, textVars,
          lineVars, resets, heldVars>>

-----------------------------------------------------------------------------
(* What the passes are made of *)

First(x, S) == x \in S /\ \A y \in S : x <= y
Toggle(S, x) == IF x \in S THEN S \ {x} ELSE S \cup {x}

\* The keys whose level differs from what was last seen.  (Mutants: only presses count; the
\* scan ends at the first key it finds down, changed or not.)
ChangedPressesOnly(now, seen) == now \ seen
ChangedUpToHeld(now, seen) ==
  {x \in (now \ seen) \cup (seen \ now) : \A y \in now \cap seen : x <= y}
Changed(now, seen) == (now \ seen) \cup (seen \ now)

\* A scan returns at the first change x, and remembers only that one.  (Mutant: it
\* remembers every level it reads.)
SeenAll(now, seen, x) == now
Seen(now, seen, x) == Toggle(seen, x)

\* Writing blocks while the transmit buffer is full.
Send(bytes) == /\ Len(uart) + Len(bytes) <= UartRoom
               /\ uart' = uart \o bytes

\* The caller ignores the result, so a failed write only leaves the old byte behind.
\* (Mutant: the byte is written only when it is already there.)
safeCurrentStateInverted(state) == UNCHANGED eepMode /\ unsaved' = FALSE
safeCurrentState(state) ==
  \/ eepMode' = state /\ unsaved' = FALSE
  \/ /\ EepromMayFail /\ eepMode # state
     /\ eepMode' = eepMode /\ unsaved' = TRUE

SpPressed(k) == inputSpecialKeys = k /\ currentSpKeyState
KeyPressed(c) == input = c /\ currentKeyState

SpForwarded == inputSpecialKeys \in DOMAIN spKeyCode

\* The bytes processKey and processSpKeyKBD write for this pass, and their effect on
\* the set of codes reported pressed.
KeyMessage == IF input = NoKey THEN << >>
              ELSE IF currentKeyState THEN pressChar(input) ELSE releaseChar(input)
SpKeyMessage == IF ~SpForwarded THEN << >>
                ELSE IF currentSpKeyState THEN pressChar(spKeyCode[inputSpecialKeys])
                ELSE releaseChar(spKeyCode[inputSpecialKeys])

Report(S, c, pressed) == IF pressed THEN S \cup {c} ELSE S \ {c}
AfterKey(S) == IF input = NoKey THEN S ELSE Report(S, input, currentKeyState)
AfterSpKey(S) == IF ~SpForwarded THEN S
                 ELSE Report(S, spKeyCode[inputSpecialKeys], currentSpKeyState)

EventCodes == (IF input = NoKey THEN {} ELSE {input})
              \cup (IF SpForwarded THEN {spKeyCode[inputSpecialKeys]} ELSE {})
ReleasedCodes ==
  (IF input # NoKey /\ ~currentKeyState THEN {input} ELSE {})
  \cup (IF SpForwarded /\ ~currentSpKeyState THEN {spKeyCode[inputSpecialKeys]} ELSE {})

\* A pass in any other mode forwards no key: releases seen by it are dropped.
DropEvents == /\ orphaned' = orphaned \cup (ReleasedCodes \cap sentHeld)
              /\ UNCHANGED sentHeld

-----------------------------------------------------------------------------
(* setup() *)

\* The controller starts with the EEPROM and the rest of the board as they are.
Init ==
  /\ down = {} /\ spDown = {}
  /\ prevKeyStates = {} /\ prevSpecialKeys = {}
  /\ input = NoKey /\ currentKeyState = FALSE
  /\ inputSpecialKeys = NoSpKey /\ currentSpKeyState = FALSE
  /\ pc = "scan"
  /\ eepMode \in BootModes
  /\ STATE_TRACKER = eepMode
  /\ STATE_GENERATIVE_TRACKER = 0
  /\ NFCInitialized = FALSE /\ isToFinitialized = FALSE
  /\ outText = << >> /\ answer = << >> /\ lcdAsleep = FALSE
  /\ uart = << >> /\ serial = << >>
  /\ resets = 0 /\ unsaved = FALSE
  /\ sentHeld = {} /\ orphaned = {}

\* The controller restarts (watchdog, reset pin): its RAM and its transmit buffers are
\* lost, the EEPROM, the display and the coprocessor are not.
Reset ==
  /\ resets < MaxResets
  /\ resets' = resets + 1
  /\ prevKeyStates' = {} /\ prevSpecialKeys' = {}
  /\ input' = NoKey /\ currentKeyState' = FALSE
  /\ inputSpecialKeys' = NoSpKey /\ currentSpKeyState' = FALSE
  /\ pc' = "scan"
  /\ STATE_TRACKER' = eepMode
  /\ STATE_GENERATIVE_TRACKER' = 0
  /\ NFCInitialized' = FALSE /\ isToFinitialized' = FALSE
  /\ answer' = << >>
  /\ uart' = << >> /\ serial' = << >>
  /\ orphaned' = orphaned \cup sentHeld
  /\ unsaved' = FALSE
  /\ UNCHANGED <<pinVars, eepMode, outText, lcdAsleep, sentHeld>>

-----------------------------------------------------------------------------
(* loop(): the scan, then the lock and sleep keys, which act on press and on release *)

scanSpecialKeys ==
  \/ /\ Changed(spDown, prevSpecialKeys) = {}
     /\ inputSpecialKeys' = NoSpKey /\ currentSpKeyState' = FALSE
     /\ UNCHANGED prevSpecialKeys
  \/ \E i \in SpecialKeys :
       /\ First(i, Changed(spDown, prevSpecialKeys))
       /\ inputSpecialKeys' = i /\ currentSpKeyState' = (i \in spDown)
       /\ prevSpecialKeys' = Seen(spDown, prevSpecialKeys, i)

scanKeyboard ==
  \/ /\ Changed(down, prevKeyStates) = {}
     /\ input' = NoKey /\ currentKeyState' = FALSE
     /\ UNCHANGED <<prevKeyStates, serial>>
  \/ \E k \in MatrixKeys :
       /\ First(k, Changed(down, prevKeyStates))
       /\ input' = caseMux[k] /\ currentKeyState' = (k \in down)
       /\ prevKeyStates' = Seen(down, prevKeyStates, k)
       /\ Len(serial) < SerialRoom
       /\ serial' = Append(serial, DebugText)

Scan ==
  /\ pc = "scan"
  /\ scanSpecialKeys
  /\ scanKeyboard
  /\ \/ /\ inputSpecialKeys' = SP_KEY_A
        /\ STATE_TRACKER' = STATE_DEVICE_LOCKED /\ pc' = "lock"
     \/ /\ inputSpecialKeys' = SP_KEY_B
        /\ STATE_TRACKER' = STATE_DEVICE_SLEEP /\ pc' = "sleep"
     \/ /\ inputSpecialKeys' \notin {SP_KEY_A, SP_KEY_B}
        /\ UNCHANGED STATE_TRACKER /\ pc' = "switch"
  /\ UNCHANGED <<pinVars, STATE_GENERATIVE_TRACKER, sensorVars, textVars, eepMode, unsaved,
                 uart, resets, heldVars>>

\* The rest of lockdevice.
LockDevice ==
  /\ pc = "lock"
  /\ safeCurrentState(STATE_TRACKER)
  /\ Send(changeLightMode(LED_MODE_PLASMA))
  /\ pc' = "switch"
  /\ UNCHANGED <<pinVars, scanVars, STATE_TRACKER, STATE_GENERATIVE_TRACKER, sensorVars,
                 textVars, serial, resets, heldVars>>

\* The rest of sleepDevice: the mode is saved six seconds before the display and the
\* lights go dark.
SleepSave ==
  /\ pc = "sleep"
  /\ safeCurrentState(STATE_TRACKER)
  /\ pc' = "dim"
  /\ UNCHANGED <<pinVars, scanVars, STATE_TRACKER, STATE_GENERATIVE_TRACKER, sensorVars,
                 textVars, lineVars, resets, heldVars>>

SleepDim ==
  /\ pc = "dim"
  /\ lcdAsleep' = TRUE
  /\ pc' = "dark"
  /\ UNCHANGED <<pinVars, scanVars, modeVars, STATE_GENERATIVE_TRACKER, sensorVars, outText,
                 answer, lineVars, resets, heldVars>>

SleepLights ==
  /\ pc = "dark"
  /\ Send(sleepModeLight(1))
  /\ pc' = "switch"
  /\ UNCHANGED <<pinVars, scanVars, modeVars, STATE_GENERATIVE_TRACKER, sensorVars, textVars,
                 serial, resets, heldVars>>

-----------------------------------------------------------------------------
(* case STATE_BASIC_KEYBOARD *)

BasicKeyboard ==
  /\ pc = "switch" /\ STATE_TRACKER = STATE_BASIC_KEYBOARD
  /\ IF SpPressed(SP_KEY_C)
     THEN STATE_TRACKER' = STATE_CHAT_GPT_QUERY /\ pc' = "toGPT"
     ELSE UNCHANGED STATE_TRACKER /\ pc' = "keys"
  /\ UNCHANGED <<pinVars, scanVars, eepMode, unsaved, STATE_GENERATIVE_TRACKER, sensorVars,
                 textVars, lineVars, resets, heldVars>>

\* The rest of toChatGPTMode.
ToChatGPTMode ==
  /\ pc = "toGPT"
  /\ safeCurrentState(STATE_TRACKER)
  /\ Send(changeLightMode(LED_MODE_SIDERAIN))
  /\ pc' = "keys"
  /\ UNCHANGED <<pinVars, scanVars, STATE_TRACKER, STATE_GENERATIVE_TRACKER, sensorVars,
                 textVars, serial, resets, heldVars>>

\* Where the pass goes after the keys of keyboard mode.  (Mutant: without the break, into
\* the next case.)
BasicBreakMissing == "query"
BasicBreak == "scan"

\* processKey and processSpKeyKBD, also in the pass that has just left keyboard mode.
ForwardKeys ==
  /\ pc = "keys"
  /\ Send(KeyMessage \o SpKeyMessage)
  /\ sentHeld' = AfterSpKey(AfterKey(sentHeld))
  /\ orphaned' = orphaned \ EventCodes
  /\ pc' = BasicBreak
  /\ UNCHANGED <<pinVars, scanVars, modeVars, STATE_GENERATIVE_TRACKER, sensorVars, textVars,
                 serial, resets>>

-----------------------------------------------------------------------------
(* case STATE_CHAT_GPT_QUERY *)

\* A new generative mode replaces the answer box by a text that explains it.
monitorGenerativeModeSelection ==
  \/ UNCHANGED <<STATE_GENERATIVE_TRACKER, outText>>
  \/ STATE_GENERATIVE_TRACKER' \in ModeReplies /\ outText' = ModeInfo

ChatQuery ==
  /\ pc = "switch" /\ STATE_TRACKER = STATE_CHAT_GPT_QUERY
  /\ monitorGenerativeModeSelection
  /\ IF SpPressed(SP_KEY_C)
     THEN STATE_TRACKER' = STATE_BASIC_KEYBOARD /\ pc' = "toKeyboard"
     ELSE UNCHANGED STATE_TRACKER /\ pc' = "query"
  /\ DropEvents
  /\ UNCHANGED <<pinVars, scanVars, eepMode, unsaved, sensorVars, answer, lcdAsleep, lineVars,
                 resets>>

\* The rest of toKeyboardMode.  The pass then goes on with the keys of query mode.
ToKeyboardMode ==
  /\ pc = "toKeyboard"
  /\ safeCurrentState(STATE_TRACKER)
  /\ Send(changeLightMode(LED_MODE_PLASMA))
  /\ outText' = << >>
  /\ pc' = "query"
  /\ UNCHANGED <<pinVars, scanVars, STATE_TRACKER, STATE_GENERATIVE_TRACKER, sensorVars,
                 answer, lcdAsleep, serial, resets, heldVars>>

\* processSpKeyGPT, then the matrix key: Escape arms the streaming, Enter asks the chat,
\* any other key only edits the prompt.
QueryKeys ==
  /\ pc = "query"
  /\ IF inputSpecialKeys = SP_KEY_D
     THEN Send(changeLightMode(LED_MODE_THREESINE)) ELSE UNCHANGED uart
  /\ \/ /\ STATE_GENERATIVE_TRACKER \in TypingModes /\ KeyPressed(ES)
        /\ STATE_TRACKER' = STATE_CHAT_GPT_STREAM /\ pc' = "toStream"
     \/ /\ STATE_GENERATIVE_TRACKER \in TypingModes /\ KeyPressed(EN)
        /\ UNCHANGED STATE_TRACKER /\ pc' = "chat"
     \/ /\ ~(STATE_GENERATIVE_TRACKER \in TypingModes /\ (KeyPressed(ES) \/ KeyPressed(EN)))
        /\ UNCHANGED STATE_TRACKER /\ pc' = "scan"
  /\ UNCHANGED <<pinVars, scanVars, eepMode, unsaved, STATE_GENERATIVE_TRACKER, sensorVars,
                 textVars, serial, resets, heldVars>>

ToStreamMode ==
  /\ pc = "toStream"
  /\ safeCurrentState(STATE_TRACKER)
  /\ pc' = "scan"
  /\ UNCHANGED <<pinVars, scanVars, STATE_TRACKER, STATE_GENERATIVE_TRACKER, sensorVars,
                 textVars, lineVars, resets, heldVars>>

\* The head of openAI_chat_Stream: the connection fails, or the answer box is cleared and
\* the request sent.
ChatConnect ==
  /\ pc = "chat"
  /\ \/ pc' = "scan" /\ UNCHANGED <<outText, uart>>
     \/ pc' = "asking" /\ outText' = << >> /\ Send(changeLightMode(LED_MODE_COLORFILL))
  /\ UNCHANGED <<pinVars, scanVars, modeVars, STATE_GENERATIVE_TRACKER, sensorVars, answer,
                 lcdAsleep, serial, resets, heldVars>>

\* The reply adds to the answer box.
ChatText ==
  /\ pc = "asking"
  /\ outText' \in Answers
  /\ UNCHANGED <<pinVars, scanVars, pc, modeVars, STATE_GENERATIVE_TRACKER, sensorVars, answer,
                 lcdAsleep, lineVars, resets, heldVars>>

\* It ends; the lights stay as they are when it has waited too long.
ChatReply ==
  /\ pc = "asking"
  /\ Send(changeLightMode(LED_MODE_SIDERAIN)) \/ UNCHANGED uart
  /\ pc' = "scan"
  /\ UNCHANGED <<pinVars, scanVars, modeVars, STATE_GENERATIVE_TRACKER, sensorVars, textVars,
                 serial, resets, heldVars>>

-----------------------------------------------------------------------------
(* case STATE_CHAT_GPT_STREAM: nothing happens until the interlock switch is closed
   (PIN_GPT_STATUS is LOW) *)

StreamIdle ==
  /\ pc = "switch" /\ STATE_TRACKER = STATE_CHAT_GPT_STREAM
  /\ pc' = "scan"
  /\ DropEvents
  /\ UNCHANGED <<pinVars, scanVars, modeVars, STATE_GENERATIVE_TRACKER, sensorVars, textVars,
                 lineVars, resets>>

\* The head of streamingProcess and of streamGPTResults.
StreamStart ==
  /\ pc = "switch" /\ STATE_TRACKER = STATE_CHAT_GPT_STREAM
  /\ Send(changeLightMode(LED_MODE_SLANTBAR) \o <<STREAMSTARTCODE>>)
  /\ answer' = outText
  /\ pc' = "stream"
  /\ DropEvents
  /\ UNCHANGED <<pinVars, scanVars, modeVars, STATE_GENERATIVE_TRACKER, sensorVars, outText,
                 lcdAsleep, serial, resets>>

\* One turn of its loop: the next character goes out while the display deletes its last.
StreamChar ==
  /\ pc = "stream" /\ answer # << >>
  /\ Len(serial) < SerialRoom
  /\ serial' = Append(serial, Head(answer))
  /\ answer' = Tail(answer)
  /\ outText' = SubSeq(outText, 1, Len(outText) - 1)
  /\ UNCHANGED <<pinVars, scanVars, pc, modeVars, STATE_GENERATIVE_TRACKER, sensorVars,
                 lcdAsleep, uart, resets, heldVars>>

StreamDone ==
  /\ pc = "stream" /\ answer = << >>
  /\ Send(<<STREAMDONECODE>>)
  /\ pc' = "streamed"
  /\ UNCHANGED <<pinVars, scanVars, modeVars, STATE_GENERATIVE_TRACKER, sensorVars, textVars,
                 serial, resets, heldVars>>

\* Two and a half seconds later: the tail of streamingProcess up to the save.
StreamEnd ==
  /\ pc = "streamed"
  /\ STATE_TRACKER' = STATE_CHAT_GPT_QUERY
  /\ Send(changeLightMode(LED_MODE_SIDERAIN))
  /\ pc' = "streamSave"
  /\ UNCHANGED <<pinVars, scanVars, eepMode, unsaved, STATE_GENERATIVE_TRACKER, sensorVars,
                 textVars, serial, resets, heldVars>>

StreamSave ==
  /\ pc = "streamSave"
  /\ safeCurrentState(STATE_TRACKER)
  /\ pc' = "scan"
  /\ UNCHANGED <<pinVars, scanVars, STATE_TRACKER, STATE_GENERATIVE_TRACKER, sensorVars,
                 textVars, lineVars, resets, heldVars>>

-----------------------------------------------------------------------------
(* case STATE_DEVICE_LOCKED *)

\* (Mutant: the tag is looked for before the reader has answered.)
ReaderUnchecked == TRUE
ReaderReady == NFCInitialized

InitNFC ==
  /\ pc = "switch" /\ STATE_TRACKER = STATE_DEVICE_LOCKED
  /\ ~NFCInitialized
  /\ NFCInitialized' \in BOOLEAN
  /\ pc' = "scan"
  /\ DropEvents
  /\ UNCHANGED <<pinVars, scanVars, modeVars, STATE_GENERATIVE_TRACKER, isToFinitialized,
                 textVars, lineVars, resets>>

\* checkNFCTag, with no tag or another one on the reader.
LockedNoTag ==
  /\ pc = "switch" /\ STATE_TRACKER = STATE_DEVICE_LOCKED
  /\ NFCInitialized
  /\ pc' = "scan"
  /\ DropEvents
  /\ UNCHANGED <<pinVars, scanVars, modeVars, STATE_GENERATIVE_TRACKER, sensorVars, textVars,
                 lineVars, resets>>

\* checkNFCTag, with the owner's tag on the reader.
TagAccepted ==
  /\ pc = "switch" /\ STATE_TRACKER = STATE_DEVICE_LOCKED
  /\ ReaderReady
  /\ STATE_TRACKER' = STATE_BASIC_KEYBOARD
  /\ pc' = "unlock"
  /\ DropEvents
  /\ UNCHANGED <<pinVars, scanVars, eepMode, unsaved, STATE_GENERATIVE_TRACKER, sensorVars,
                 textVars, lineVars, resets>>

\* The rest of checkNFCTag, and of wakeDevice: both end with the same calls.
BackToKeyboard ==
  /\ pc \in {"unlock", "woke"}
  /\ safeCurrentState(STATE_TRACKER)
  /\ Send(changeLightMode(LED_MODE_PLASMA))
  /\ outText' = << >>
  /\ pc' = "scan"
  /\ UNCHANGED <<pinVars, scanVars, STATE_TRACKER, STATE_GENERATIVE_TRACKER, sensorVars,
                 answer, lcdAsleep, serial, resets, heldVars>>

-----------------------------------------------------------------------------
(* case STATE_DEVICE_SLEEP, and a mode byte that is no mode *)

InitTof ==
  /\ pc = "switch" /\ STATE_TRACKER = STATE_DEVICE_SLEEP
  /\ ~isToFinitialized
  /\ isToFinitialized' \in BOOLEAN
  /\ pc' = "scan"
  /\ DropEvents
  /\ UNCHANGED <<pinVars, scanVars, modeVars, STATE_GENERATIVE_TRACKER, NFCInitialized,
                 textVars, lineVars, resets>>

AsleepNobody ==
  /\ pc = "switch" /\ STATE_TRACKER = STATE_DEVICE_SLEEP
  /\ isToFinitialized
  /\ pc' = "scan"
  /\ DropEvents
  /\ UNCHANGED <<pinVars, scanVars, modeVars, STATE_GENERATIVE_TRACKER, sensorVars, textVars,
                 lineVars, resets>>

\* (Mutant: the display is left asleep.)
wakeLCDForgotten == UNCHANGED lcdAsleep
wakeLCD == lcdAsleep' = FALSE

\* scanToF reports somebody: the head of wakeDevice.
WakeDevice ==
  /\ pc = "switch" /\ STATE_TRACKER = STATE_DEVICE_SLEEP
  /\ isToFinitialized
  /\ wakeLCD
  /\ pc' = "waking"
  /\ DropEvents
  /\ UNCHANGED <<pinVars, scanVars, modeVars, STATE_GENERATIVE_TRACKER, sensorVars, outText,
                 answer, lineVars, resets>>

\* A second later the lights follow, and the mode changes.
WakeLights ==
  /\ pc = "waking"
  /\ Send(sleepModeLight(0))
  /\ STATE_TRACKER' = STATE_BASIC_KEYBOARD
  /\ pc' = "woke"
  /\ UNCHANGED <<pinVars, scanVars, eepMode, unsaved, STATE_GENERATIVE_TRACKER, sensorVars,
                 textVars, serial, resets, heldVars>>

\* No case of the switch matches.  (Mutant: a default case goes to keyboard mode.)
UnknownModeDefault ==
  /\ pc = "switch" /\ STATE_TRACKER \notin Modes
  /\ pc' = "scan" /\ STATE_TRACKER' = STATE_BASIC_KEYBOARD
  /\ DropEvents
  /\ UNCHANGED <<pinVars, scanVars, eepMode, unsaved, STATE_GENERATIVE_TRACKER, sensorVars,
                 textVars, lineVars, resets>>
UnknownMode ==
  /\ pc = "switch" /\ STATE_TRACKER \notin Modes
  /\ pc' = "scan"
  /\ DropEvents
  /\ UNCHANGED <<pinVars, scanVars, modeVars, STATE_GENERATIVE_TRACKER, sensorVars, textVars,
                 lineVars, resets>>

-----------------------------------------------------------------------------
(* The environment: keys move, the transmitters empty *)

PinChange ==
  /\ \/ \E k \in MatrixKeys : down' = Toggle(down, k) /\ UNCHANGED spDown
     \/ \E i \in SpecialKeys : spDown' = Toggle(spDown, i) /\ UNCHANGED down
  /\ UNCHANGED <<scanVars, pc, modeVars, STATE_GENERATIVE_TRACKER, sensorVars, textVars,
                 lineVars, resets, heldVars>>

Controller ==
  \/ Scan \/ LockDevice \/ SleepSave \/ SleepDim \/ SleepLights
  \/ BasicKeyboard \/ ToChatGPTMode \/ ForwardKeys
  \/ ChatQuery \/ ToKeyboardMode \/ QueryKeys \/ ToStreamMode \/ ChatConnect
  \/ ChatText \/ ChatReply
  \/ StreamIdle \/ StreamStart \/ StreamChar \/ StreamDone \/ StreamEnd \/ StreamSave
  \/ InitNFC \/ LockedNoTag \/ TagAccepted \/ BackToKeyboard
  \/ InitTof \/ AsleepNobody \/ WakeDevice \/ WakeLights \/ UnknownMode

\* Both transmitters empty, towards a receiver that this module does not look at.
Transmit ==
  /\ uart \o serial # << >>
  /\ uart' = << >> /\ serial' = << >>
  /\ UNCHANGED <<pinVars, scanVars, pc, modeVars, STATE_GENERATIVE_TRACKER, sensorVars,
                 textVars, resets, heldVars>>

Next == Controller \/ Reset \/ PinChange \/ Transmit

Spec == Init /\ [][Next]_vars

\* The controller runs (every wait in its loop ends) and the lines drain.
FairSpec == Spec /\ WF_vars(Controller) /\ WF_vars(Transmit)

-----------------------------------------------------------------------------
(* Properties *)

SavePending == {"lock", "sleep", "toGPT", "toKeyboard", "toStream", "unlock", "woke",
                "streamSave"}
Positions == SavePending
             \cup {"scan", "switch", "dim", "dark", "waking", "keys", "query", "chat", "asking",
                   "stream", "streamed"}

\* Types of the variables.
KeyTypes ==
  /\ down \subseteq MatrixKeys /\ prevKeyStates \subseteq MatrixKeys
  /\ spDown \subseteq SpecialKeys /\ prevSpecialKeys \subseteq SpecialKeys
  /\ input \in Byte /\ inputSpecialKeys \in SpecialKeyIds \cup {NoSpKey}
  /\ sentHeld \subseteq Byte /\ orphaned \subseteq Byte
ModeTypes ==
  /\ pc \in Positions
  /\ STATE_TRACKER \in Byte /\ eepMode \in Byte /\ STATE_GENERATIVE_TRACKER \in Byte
  /\ resets \in Nat
FlagTypes ==
  /\ currentKeyState \in BOOLEAN /\ currentSpKeyState \in BOOLEAN
  /\ NFCInitialized \in BOOLEAN /\ isToFinitialized \in BOOLEAN
  /\ unsaved \in BOOLEAN /\ lcdAsleep \in BOOLEAN
TextTypes ==
  /\ outText \in Seq(Byte) /\ answer \in Seq(Byte)
  /\ uart \in Seq(Byte) /\ serial \in Seq(DebugItem)
TypeOK == KeyTypes /\ ModeTypes /\ FlagTypes /\ TextTypes

SeenDownCodes == {caseMux[k] : k \in prevKeyStates}
                 \cup {spKeyCode[i] : i \in prevSpecialKeys \cap DOMAIN spKeyCode}

\* Between two passes, every code the computer was last told is pressed has a key the scan
\* saw down, or its release fell into another mode or into a restart.  In particular a
\* scan that reports one change per pass forgets no release (keyboard.h:86, main.cpp:114),
\* though Control is wired to two positions and one special key.
HostHeldJustified == pc = "scan" => sentHeld \subseteq SeenDownCodes \cup orphaned

\* Outside the short time between a mode change and its save the EEPROM holds the current
\* mode, so a restart comes back to it (main.cpp:86), unless the write itself failed
\* (EEPROM.h:53, whose result every caller drops).
ModeSaved == pc \notin SavePending => STATE_TRACKER = eepMode \/ unsaved

\* A chat request is made in query mode, or in the very pass in which the mode key was
\* pressed together with Enter: that pass has already left query mode (main.cpp:123-139).
ChatOnlyFromQuery ==
  pc \in {"chat", "asking"} =>
    STATE_TRACKER = STATE_CHAT_GPT_QUERY \/ SpPressed(SP_KEY_C)

\* Locked mode is left through the tag or the sleep key; a restart leaves it only when the
\* lock had not reached the EEPROM yet (logic.h:62, main.cpp:155-166).
LockHolds ==
  [][STATE_TRACKER = STATE_DEVICE_LOCKED /\ STATE_TRACKER' # STATE_DEVICE_LOCKED =>
       \/ NFCInitialized /\ pc' = "unlock"
       \/ inputSpecialKeys' = SP_KEY_B
       \/ resets' # resets /\ (pc = "lock" \/ unsaved)]_vars

\* The keyboard starts typing again behind a dark display only by the tag (the device was
\* locked in its sleep and nothing but wakeDevice wakes the display), or by a restart that
\* finds keyboard mode in the EEPROM (logic.h:83, 159).
DarkKeyboardOnlyByTag ==
  [][(/\ STATE_TRACKER \in {STATE_DEVICE_LOCKED, STATE_DEVICE_SLEEP}
      /\ STATE_TRACKER' = STATE_BASIC_KEYBOARD
      /\ lcdAsleep')
     => (\/ pc' = "unlock"
         \/ resets' # resets /\ (unsaved \/ pc \in SavePending))]_vars

\* A mode byte that is no mode (an erased EEPROM holds 255) is left only by the lock and
\* sleep keys, and enters RAM only from an EEPROM that holds one (main.cpp:86, 109).
UnknownModeLeftByKeys ==
  [][/\ STATE_TRACKER \notin Modes
          => STATE_TRACKER' \in {STATE_TRACKER, STATE_DEVICE_LOCKED, STATE_DEVICE_SLEEP}
     /\ (STATE_TRACKER \in Modes /\ STATE_TRACKER' \notin Modes)
          => (resets' # resets /\ eepMode \notin Modes)]_vars

\* If the keys stop moving, the scan catches up with them: no mode blocks the loop, and
\* reporting one change per pass loses none (keyboard.h:86, 134).
PinsSettle ==
  (<>[][FALSE]_pinVars) => <>[](prevKeyStates = down /\ prevSpecialKeys = spDown)
=============================================================================
