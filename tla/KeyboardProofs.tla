--------------------------- MODULE KeyboardProofs ---------------------------
(***************************************************************************)
(* Theorems about Keyboard, for every set of keys, every EEPROM content,   *)
(* every answer and any number of restarts.                                *)
(***************************************************************************)
EXTENDS Integers, Keyboard, SequenceTheorems, TLAPS

\* Every position of the matrix holds a code of one byte, and none holds the code 0 that
\* stands for "nothing changed" (keyboard_map.h:65).
LEMMA KeyCodes == \A p \in MatrixPositions : caseMux[p] \in 1 .. 255
  <1>1. \A i \in 1 .. 16 : \A j \in 1 .. 4 : caseMuxRows[i][j] \in 1 .. 255
    <2>1. \A j \in 1 .. 4 : /\ caseMuxRows[1][j] \in 1 .. 255 /\ caseMuxRows[2][j] \in 1 .. 255
                            /\ caseMuxRows[3][j] \in 1 .. 255 /\ caseMuxRows[4][j] \in 1 .. 255
      BY DEF caseMuxRows, SH, SP, PD, EN, BS
    <2>2. \A j \in 1 .. 4 : /\ caseMuxRows[5][j] \in 1 .. 255 /\ caseMuxRows[6][j] \in 1 .. 255
                            /\ caseMuxRows[7][j] \in 1 .. 255 /\ caseMuxRows[8][j] \in 1 .. 255
      BY DEF caseMuxRows, F2, SQ, CT, DL
    <2>3. \A j \in 1 .. 4 : /\ caseMuxRows[9][j] \in 1 .. 255 /\ caseMuxRows[10][j] \in 1 .. 255
                            /\ caseMuxRows[11][j] \in 1 .. 255 /\ caseMuxRows[12][j] \in 1 .. 255
      BY DEF caseMuxRows, AS, BL, CT
    <2>4. \A j \in 1 .. 4 : /\ caseMuxRows[13][j] \in 1 .. 255 /\ caseMuxRows[14][j] \in 1 .. 255
                            /\ caseMuxRows[15][j] \in 1 .. 255 /\ caseMuxRows[16][j] \in 1 .. 255
      BY DEF caseMuxRows, SH, AL, PU, CS, VT, ES
    <2>5. QED
      <3> SUFFICES ASSUME NEW i \in 1 .. 16, NEW j \in 1 .. 4
                   PROVE  caseMuxRows[i][j] \in 1 .. 255
        OBVIOUS
      <3>1. CASE i \in 1 .. 4
        BY <2>1, <3>1
      <3>2. CASE i \in 5 .. 8
        BY <2>2, <3>2
      <3>3. CASE i \in 9 .. 12
        BY <2>3, <3>3
      <3>4. CASE i \in 13 .. 16
        BY <2>4, <3>4
      <3>5. QED
        BY <3>1, <3>2, <3>3, <3>4
  <1>2. \A p \in MatrixPositions : (p \div 4) + 1 \in 1 .. 16 /\ (p % 4) + 1 \in 1 .. 4
    BY DEF MatrixPositions
  <1>3. QED
    BY <1>1, <1>2 DEF caseMux

\* The special keys that are forwarded stand for codes of one byte.
LEMMA SpKeyCodes ==
  /\ DOMAIN spKeyCode = {SP_KEY_D, SP_KEY_E, SP_KEY_F}
  /\ \A i \in DOMAIN spKeyCode : spKeyCode[i] \in 1 .. 255
  BY DEF spKeyCode, SP_KEY_D, SP_KEY_E, SP_KEY_F, CT, AL, SP


\* Changed and Toggle stay within the keys they are given.
LEMMA Toggles ==
  ASSUME NEW S, NEW T, S \subseteq T, NEW x \in T
  PROVE  Toggle(S, x) \subseteq T
  BY DEF Toggle

\* Writing to the coprocessor keeps the line a sequence of bytes.
LEMMA Sends ==
  ASSUME NEW m \in Seq(Byte), uart \in Seq(Byte), Send(m)
  PROVE  uart' \in Seq(Byte)
  BY DEF Send

LEMMA Pairs ==
  ASSUME NEW a \in Byte, NEW b \in Byte
  PROVE  <<a, b>> \in Seq(Byte)
  OBVIOUS

LEMMA KeyBytes ==
  ASSUME NEW c \in Byte
  PROVE  pressChar(c) \in Seq(Byte) /\ releaseChar(c) \in Seq(Byte)
  <1>1. KBDPRESSCODE \in Byte /\ KBDRELEASECODE \in Byte
    BY DEF KBDPRESSCODE, KBDRELEASECODE, Byte
  <1>2. QED
    BY <1>1, Pairs DEF pressChar, releaseChar

LEMMA MessageBytes ==
  ASSUME TypeOK
  PROVE  KeyMessage \in Seq(Byte) /\ SpKeyMessage \in Seq(Byte)
  <1>1. KeyMessage \in Seq(Byte)
    <2>1. input \in Byte
      BY DEF TypeOK, KeyTypes
    <2>2. << >> \in Seq(Byte)
      OBVIOUS
    <2>3. QED
      BY <2>1, <2>2, KeyBytes DEF KeyMessage
  <1>2. SpKeyMessage \in Seq(Byte)
    <2>1. CASE ~SpForwarded
      BY <2>1 DEF SpKeyMessage
    <2>2. CASE SpForwarded
      <3>1. spKeyCode[inputSpecialKeys] \in Byte
        BY <2>2, SpKeyCodes DEF SpForwarded, Byte
      <3>2. QED
        BY <2>2, <3>1, KeyBytes DEF SpKeyMessage
    <2>3. QED
      BY <2>1, <2>2
  <1>3. QED
    BY <1>1, <1>2

\* The messages of a pass are bytes, and so are the codes it reports.
LEMMA Messages ==
  ASSUME TypeOK
  PROVE  /\ KeyMessage \o SpKeyMessage \in Seq(Byte)
         /\ AfterSpKey(AfterKey(sentHeld)) \subseteq Byte
         /\ ReleasedCodes \subseteq Byte
         /\ EventCodes \subseteq Byte
  <1>1. KeyMessage \in Seq(Byte) /\ SpKeyMessage \in Seq(Byte)
    BY MessageBytes
  <1>2. KeyMessage \o SpKeyMessage \in Seq(Byte)
    BY <1>1
  <1>3. SpForwarded => spKeyCode[inputSpecialKeys] \in Byte
    BY SpKeyCodes DEF SpForwarded, Byte
  <1>4. AfterKey(sentHeld) \subseteq Byte
    BY DEF AfterKey, Report, TypeOK, KeyTypes
  <1>5. AfterSpKey(AfterKey(sentHeld)) \subseteq Byte
    BY <1>3, <1>4 DEF AfterSpKey, Report
  <1>6. ReleasedCodes \subseteq Byte /\ EventCodes \subseteq Byte
    BY <1>3 DEF ReleasedCodes, EventCodes, TypeOK, KeyTypes
  <1>7. QED
    BY <1>2, <1>5, <1>6

LEMMA LightBytes ==
  /\ \A m \in 0 .. 8 : changeLightMode(m) \in Seq(Byte) /\ sleepModeLight(m) \in Seq(Byte)
  /\ changeLightMode(LED_MODE_SLANTBAR) \o <<STREAMSTARTCODE>> \in Seq(Byte)
  /\ <<STREAMDONECODE>> \in Seq(Byte)
  <1>1. \A m \in 0 .. 8 : 48 + m \in Byte
    BY DEF Byte
  <1>2. /\ LEDCHANGEHEADER \in Byte /\ LEDSLEEPMODEHEADER \in Byte
        /\ STREAMSTARTCODE \in Byte /\ STREAMDONECODE \in Byte
    BY DEF LEDCHANGEHEADER, LEDSLEEPMODEHEADER, STREAMSTARTCODE, STREAMDONECODE, Byte
  <1>3. \A m \in 0 .. 8 : changeLightMode(m) \in Seq(Byte) /\ sleepModeLight(m) \in Seq(Byte)
    BY <1>1, <1>2, Pairs DEF changeLightMode, sleepModeLight
  <1>4. <<STREAMSTARTCODE>> \in Seq(Byte) /\ <<STREAMDONECODE>> \in Seq(Byte)
    BY <1>2
  <1>5. changeLightMode(LED_MODE_SLANTBAR) \in Seq(Byte)
    BY <1>3 DEF LED_MODE_SLANTBAR
  <1>6. QED
    BY <1>3, <1>4, <1>5

\* A scan of the matrix reports at most one key, and reports it released if it had seen it
\* down.
LEMMA ScanKey ==
  ASSUME scanKeyboard
  PROVE  \/ /\ input' = NoKey /\ currentKeyState' = FALSE
            /\ prevKeyStates' = prevKeyStates
         \/ \E k \in MatrixKeys : /\ input' = caseMux[k]
                                  /\ currentKeyState' \in BOOLEAN
                                  /\ k \in prevKeyStates => currentKeyState' = FALSE
                                  /\ prevKeyStates' = Toggle(prevKeyStates, k)
  <1>1. CASE /\ Changed(down, prevKeyStates) = {}
             /\ input' = NoKey /\ currentKeyState' = FALSE
             /\ UNCHANGED <<prevKeyStates, serial>>
    BY <1>1
  <1>2. CASE \E k \in MatrixKeys :
               /\ First(k, Changed(down, prevKeyStates))
               /\ input' = caseMux[k] /\ currentKeyState' = (k \in down)
               /\ prevKeyStates' = Seen(down, prevKeyStates, k)
               /\ Len(serial) < SerialRoom
               /\ serial' = Append(serial, DebugText)
    <2>1. PICK k \in MatrixKeys : /\ First(k, Changed(down, prevKeyStates))
                                  /\ input' = caseMux[k]
                                  /\ currentKeyState' = (k \in down)
                                  /\ prevKeyStates' = Seen(down, prevKeyStates, k)
      BY <1>2
    <2>2. prevKeyStates' = Toggle(prevKeyStates, k)
      BY <2>1 DEF Seen
    <2>3. (k \in down) \in BOOLEAN
      OBVIOUS
    <2>4. currentKeyState' \in BOOLEAN
      BY <2>1, <2>3
    <2>5. k \in prevKeyStates => ~(k \in down)
      BY <2>1 DEF First, Changed
    <2>6. k \in prevKeyStates => currentKeyState' = FALSE
      <3>1. ASSUME k \in prevKeyStates PROVE (k \in down) = FALSE
        BY <2>5, <3>1
      <3>2. QED
        BY <2>1, <3>1
    <2>7. QED
      BY <2>1, <2>2, <2>4, <2>6
  <1>3. QED
    BY <1>1, <1>2, Zenon DEF scanKeyboard

\* The same of the scan of the special keys.
LEMMA ScanSpecialKey ==
  ASSUME scanSpecialKeys
  PROVE  \/ /\ inputSpecialKeys' = NoSpKey /\ currentSpKeyState' = FALSE
            /\ prevSpecialKeys' = prevSpecialKeys
         \/ \E i \in SpecialKeys : /\ inputSpecialKeys' = i
                                   /\ currentSpKeyState' \in BOOLEAN
                                   /\ i \in prevSpecialKeys => currentSpKeyState' = FALSE
                                   /\ prevSpecialKeys' = Toggle(prevSpecialKeys, i)
  <1>1. CASE /\ Changed(spDown, prevSpecialKeys) = {}
             /\ inputSpecialKeys' = NoSpKey /\ currentSpKeyState' = FALSE
             /\ UNCHANGED prevSpecialKeys
    BY <1>1
  <1>2. CASE \E i \in SpecialKeys :
               /\ First(i, Changed(spDown, prevSpecialKeys))
               /\ inputSpecialKeys' = i /\ currentSpKeyState' = (i \in spDown)
               /\ prevSpecialKeys' = Seen(spDown, prevSpecialKeys, i)
    <2>1. PICK i \in SpecialKeys : /\ First(i, Changed(spDown, prevSpecialKeys))
                                   /\ inputSpecialKeys' = i
                                   /\ currentSpKeyState' = (i \in spDown)
                                   /\ prevSpecialKeys' = Seen(spDown, prevSpecialKeys, i)
      BY <1>2
    <2>2. prevSpecialKeys' = Toggle(prevSpecialKeys, i)
      BY <2>1 DEF Seen
    <2>3. (i \in spDown) \in BOOLEAN
      OBVIOUS
    <2>4. currentSpKeyState' \in BOOLEAN
      BY <2>1, <2>3
    <2>5. i \in prevSpecialKeys => ~(i \in spDown)
      BY <2>1 DEF First, Changed
    <2>6. i \in prevSpecialKeys => currentSpKeyState' = FALSE
      <3>1. ASSUME i \in prevSpecialKeys PROVE (i \in spDown) = FALSE
        BY <2>5, <3>1
      <3>2. QED
        BY <2>1, <3>1
    <2>7. QED
      BY <2>1, <2>2, <2>4, <2>6
  <1>3. QED
    BY <1>1, <1>2, Zenon DEF scanSpecialKeys

\* The display deletes the last character of a text.
LEMMA DropLast ==
  ASSUME NEW T, NEW s \in Seq(T)
  PROVE SubSeq(s, 1, Len(s) - 1) \in Seq(T)
  <1> DEFINE n == Len(s) - 1
  <1>1. n \in Int
    OBVIOUS
  <1>2. \A i \in 1 .. n : i \in 1 .. Len(s)
    OBVIOUS
  <1>3. \A i \in 1 .. Len(s) : s[i] \in T
    OBVIOUS
  <1> HIDE DEF n
  <1>4. SubSeq(s, 1, n) \in Seq(T)
    BY <1>1, <1>2, <1>3, SubSeqProperties
  <1>5. QED
    BY <1>4 DEF n

-----------------------------------------------------------------------------
(* Type correctness, one group of variables at a time *)

LEMMA TypeInit == Init => TypeOK
  <1>1. Init => KeyTypes
    BY DEF Init, KeyTypes, Byte, NoKey
  <1>2. Init => ModeTypes
    BY ValuesAssumption DEF Init, ModeTypes, Byte, Positions
  <1>3. Init => FlagTypes
    BY DEF Init, FlagTypes
  <1>4. Init => TextTypes
    BY DEF Init, TextTypes
  <1>5. QED
    BY <1>1, <1>2, <1>3, <1>4 DEF TypeOK

LEMMA KeyTypesStep ==
  ASSUME TypeOK, [Next]_vars
  PROVE  KeyTypes'
  <1>1. CASE Reset
    BY <1>1 DEF Reset, TypeOK, KeyTypes, Byte, NoKey, pinVars
  <1>2. CASE PinChange
    BY <1>2, Toggles DEF PinChange, TypeOK, KeyTypes, scanVars, heldVars
  <1>3. CASE Scan
    <2>1. /\ prevSpecialKeys' \subseteq SpecialKeys
          /\ inputSpecialKeys' \in SpecialKeyIds \cup {NoSpKey}
      BY <1>3, KeysAssumption, Toggles
         DEF Scan, scanSpecialKeys, Seen, TypeOK, KeyTypes
    <2>2. scanKeyboard => prevKeyStates' \subseteq MatrixKeys
      <3>1. \A k \in MatrixKeys : Toggle(prevKeyStates, k) \subseteq MatrixKeys
        BY Toggles DEF TypeOK, KeyTypes
      <3>2. QED
        BY <3>1, ScanKey DEF TypeOK, KeyTypes
    <2>a. \A k \in MatrixKeys : caseMux[k] \in Byte
      BY KeyCodes, KeysAssumption DEF Byte
    <2>c. NoKey \in Byte
      BY DEF NoKey, Byte
    <2>b. scanKeyboard => input' \in Byte
      BY <2>a, <2>c, ScanKey
    <2>3. QED
      BY <1>3, <2>1, <2>2, <2>b DEF Scan, TypeOK, KeyTypes, pinVars, heldVars
  <1>4. CASE ForwardKeys
    BY <1>4, Messages DEF ForwardKeys, TypeOK, KeyTypes, pinVars, scanVars
  <1>5. CASE pinVars' = pinVars /\ scanVars' = scanVars /\ DropEvents
    BY <1>5, Messages DEF DropEvents, TypeOK, KeyTypes, pinVars, scanVars
  <1>6. CASE UNCHANGED <<pinVars, scanVars, heldVars>>
    BY <1>6 DEF TypeOK, KeyTypes, pinVars, scanVars, heldVars
  <1>7. QED
    BY <1>1, <1>2, <1>3, <1>4, <1>5, <1>6
       DEF Next, Controller, vars, Transmit, LockDevice, SleepSave, SleepDim, SleepLights,
           BasicKeyboard, ToChatGPTMode, ChatQuery, ToKeyboardMode, QueryKeys,
           ToStreamMode, ChatConnect, ChatText, ChatReply, StreamIdle, StreamStart,
           StreamChar, StreamDone,
           StreamEnd, StreamSave, InitNFC, LockedNoTag, TagAccepted, BackToKeyboard,
           InitTof, AsleepNobody, WakeDevice, WakeLights, UnknownMode

LEMMA ModeTypesStep ==
  ASSUME TypeOK, [Next]_vars
  PROVE  ModeTypes'
  <1> USE DEF TypeOK, ModeTypes, modeVars
  <1>m. /\ {"scan", "switch", "dim", "dark", "waking", "keys", "query", "chat", "asking",
            "stream", "streamed", "lock", "sleep", "toGPT", "toKeyboard", "toStream", "unlock", "woke",
            "streamSave"} = Positions
        /\ STATE_BASIC_KEYBOARD \in Byte /\ STATE_CHAT_GPT_QUERY \in Byte
        /\ STATE_CHAT_GPT_STREAM \in Byte /\ STATE_DEVICE_LOCKED \in Byte
        /\ STATE_DEVICE_SLEEP \in Byte
    BY DEF Positions, SavePending, Byte, STATE_BASIC_KEYBOARD, STATE_CHAT_GPT_QUERY,
           STATE_CHAT_GPT_STREAM, STATE_DEVICE_LOCKED, STATE_DEVICE_SLEEP
  <1>1. CASE Reset
    BY <1>1, <1>m DEF Reset, Byte
  <1>2. CASE PinChange \/ Transmit \/ UNCHANGED vars
    BY <1>2 DEF PinChange, Transmit, vars
  <1>3. CASE Scan \/ BasicKeyboard \/ StreamEnd \/ TagAccepted \/ WakeDevice \/ WakeLights
    BY <1>3, <1>m DEF Scan, BasicKeyboard, StreamEnd, TagAccepted, WakeDevice, WakeLights
  <1>4. CASE ChatQuery
    <2>1. STATE_GENERATIVE_TRACKER' \in Byte
      <3>1. \/ STATE_GENERATIVE_TRACKER' = STATE_GENERATIVE_TRACKER
            \/ STATE_GENERATIVE_TRACKER' \in ModeReplies
        BY <1>4 DEF ChatQuery, monitorGenerativeModeSelection
      <3>2. ModeReplies \subseteq Byte
        BY ValuesAssumption DEF Byte
      <3>3. QED
        BY <3>1, <3>2
    <2>2. QED
      BY <1>4, <1>m, <2>1 DEF ChatQuery
  <1>5. CASE QueryKeys
    BY <1>5, <1>m DEF QueryKeys
  <1>6. CASE \/ LockDevice \/ SleepSave \/ ToChatGPTMode \/ ToKeyboardMode
             \/ ToStreamMode \/ StreamSave \/ BackToKeyboard
    BY <1>6, <1>m
       DEF LockDevice, SleepSave, ToChatGPTMode, ToKeyboardMode, ToStreamMode, StreamSave,
           BackToKeyboard, safeCurrentState
  <1>7. CASE \/ SleepDim \/ SleepLights \/ ForwardKeys \/ ChatConnect \/ ChatText
             \/ ChatReply \/ StreamIdle
             \/ StreamStart
             \/ StreamChar \/ StreamDone \/ InitNFC \/ LockedNoTag \/ InitTof
             \/ AsleepNobody \/ UnknownMode
    BY <1>7, <1>m
       DEF SleepDim, SleepLights, ForwardKeys, BasicBreak, ChatConnect, ChatText, ChatReply,
           StreamIdle,
           StreamStart,
           StreamChar, StreamDone, InitNFC, LockedNoTag, InitTof, AsleepNobody,
           UnknownMode
  <1>8. QED
    BY <1>1, <1>2, <1>3, <1>4, <1>5, <1>6, <1>7 DEF Next, Controller

LEMMA FlagTypesStep ==
  ASSUME TypeOK, [Next]_vars
  PROVE  FlagTypes'
  <1> USE DEF TypeOK, FlagTypes, modeVars, sensorVars, textVars, scanVars
  <1>1. CASE Reset
    BY <1>1 DEF Reset
  <1>2. CASE PinChange \/ Transmit \/ UNCHANGED vars
    BY <1>2 DEF PinChange, Transmit, vars
  <1>3. CASE Scan
    <2>1. scanSpecialKeys => currentSpKeyState' \in BOOLEAN
      BY ScanSpecialKey
    <2>2. scanKeyboard => currentKeyState' \in BOOLEAN
      BY ScanKey
    <2>3. QED
      BY <1>3, <2>1, <2>2 DEF Scan
  <1>4. CASE \/ LockDevice \/ SleepSave \/ ToChatGPTMode \/ ToKeyboardMode
             \/ ToStreamMode \/ StreamSave \/ BackToKeyboard
    BY <1>4
       DEF LockDevice, SleepSave, ToChatGPTMode, ToKeyboardMode, ToStreamMode, StreamSave,
           BackToKeyboard, safeCurrentState
  <1>5. CASE \/ SleepDim \/ SleepLights \/ BasicKeyboard \/ ForwardKeys \/ ChatQuery
             \/ QueryKeys
             \/ ChatConnect \/ ChatText \/ ChatReply \/ StreamIdle \/ StreamStart
             \/ StreamChar \/ StreamDone
    BY <1>5
       DEF SleepDim, SleepLights, BasicKeyboard, ForwardKeys, ChatQuery, QueryKeys,
           ChatConnect, ChatText,
           ChatReply,
           StreamIdle, StreamStart, StreamChar, StreamDone
  <1>6. CASE \/ StreamEnd \/ InitNFC \/ LockedNoTag \/ TagAccepted \/ InitTof
             \/ AsleepNobody \/ WakeDevice \/ WakeLights \/ UnknownMode
    BY <1>6
       DEF StreamEnd, InitNFC, LockedNoTag, TagAccepted, InitTof, AsleepNobody,
           WakeDevice, WakeLights, wakeLCD, UnknownMode
  <1>7. QED
    BY <1>1, <1>2, <1>3, <1>4, <1>5, <1>6 DEF Next, Controller

\* The debug line takes characters of the answer and debug text.
LEMMA TextTypesStep ==
  ASSUME TypeOK, [Next]_vars
  PROVE  TextTypes'
  <1> USE DEF TextTypes, textVars, lineVars
  <1>t. TextTypes
    BY DEF TypeOK
  <1>m. /\ changeLightMode(LED_MODE_PLASMA) \in Seq(Byte)
        /\ changeLightMode(LED_MODE_SIDERAIN) \in Seq(Byte)
        /\ changeLightMode(LED_MODE_THREESINE) \in Seq(Byte)
        /\ sleepModeLight(0) \in Seq(Byte) /\ sleepModeLight(1) \in Seq(Byte)
    BY LightBytes DEF LED_MODE_PLASMA, LED_MODE_SIDERAIN, LED_MODE_THREESINE
  <1>1. CASE Reset
    BY <1>1, <1>t DEF Reset
  <1>2. CASE PinChange \/ UNCHANGED vars
    BY <1>2, <1>t DEF PinChange, vars
  <1>3. CASE Transmit
    BY <1>3, <1>t DEF Transmit
  <1>4. CASE Scan
    <2>1. DebugText \in DebugItem
      BY DEF DebugText, DebugItem
    <2>2. scanKeyboard => serial' \in {serial, Append(serial, DebugText)}
      BY DEF scanKeyboard
    <2>4. Append(serial, DebugText) \in Seq(DebugItem)
      BY <2>1, <1>t
    <2>3. QED
      BY <1>4, <1>t, <2>2, <2>4 DEF Scan
  <1>5. CASE LockDevice
    BY <1>5, <1>t, <1>m, Sends DEF LockDevice
  <1>6. CASE SleepLights
    BY <1>6, <1>t, <1>m, Sends DEF SleepLights
  <1>7. CASE ToChatGPTMode
    BY <1>7, <1>t, <1>m, Sends DEF ToChatGPTMode
  <1>8. CASE ForwardKeys
    BY <1>8, <1>t, Messages, Sends DEF ForwardKeys
  <1>9. CASE ToKeyboardMode
    BY <1>9, <1>t, <1>m, Sends DEF ToKeyboardMode
  <1>19. CASE BackToKeyboard
    BY <1>19, <1>t, <1>m, Sends DEF BackToKeyboard
  <1>10. CASE QueryKeys
    BY <1>10, <1>t, <1>m, Sends DEF QueryKeys
  <1>11. CASE ChatConnect
    <2>1. changeLightMode(LED_MODE_COLORFILL) \in Seq(Byte)
      BY LightBytes DEF LED_MODE_COLORFILL
    <2>2. uart' \in Seq(Byte)
      BY <1>11, <1>t, <2>1, Sends DEF ChatConnect
    <2>3. outText' \in {outText, << >>} /\ answer' = answer /\ serial' = serial
      BY <1>11 DEF ChatConnect
    <2>4. outText' \in Seq(Byte)
      <3>1. << >> \in Seq(Byte)
        OBVIOUS
      <3>2. QED
        BY <1>t, <2>3, <3>1, Zenon
    <2>5. QED
      BY <1>t, <2>2, <2>3, <2>4
  <1>20. CASE ChatReply
    <2>1. uart' \in Seq(Byte)
      BY <1>20, <1>t, <1>m, Sends DEF ChatReply
    <2>2. UNCHANGED <<outText, answer, serial>>
      BY <1>20 DEF ChatReply, textVars
    <2>3. QED
      BY <1>t, <2>1, <2>2
  <1>22. CASE ChatText
    <2>1. outText' \in Seq(Byte)
      BY <1>22, AnswersAssumption DEF ChatText
    <2>2. UNCHANGED <<answer, lineVars>>
      BY <1>22 DEF ChatText
    <2>3. QED
      BY <1>t, <2>1, <2>2 DEF lineVars
  <1>21. CASE ChatQuery
    <2>1. outText' \in {outText, ModeInfo} /\ answer' = answer /\ UNCHANGED lineVars
      BY <1>21 DEF ChatQuery, monitorGenerativeModeSelection
    <2>2. QED
      BY <1>t, <2>1, AnswersAssumption
  <1>12. CASE StreamStart
    BY <1>12, <1>t, LightBytes, Sends DEF StreamStart
  <1>13. CASE StreamChar
    <2>1. Head(answer) \in Byte /\ Tail(answer) \in Seq(Byte)
      BY <1>13, <1>t, HeadTailProperties DEF StreamChar
    <2>2. Head(answer) \in DebugItem
      BY <2>1 DEF Byte, DebugItem
    <2>3. serial' \in Seq(DebugItem)
      BY <1>13, <1>t, <2>2 DEF StreamChar
    <2>4. SubSeq(outText, 1, Len(outText) - 1) \in Seq(Byte)
      BY <1>t, DropLast
    <2>5. QED
      BY <1>13, <1>t, <2>1, <2>3, <2>4 DEF StreamChar
  <1>14. CASE StreamDone
    BY <1>14, <1>t, LightBytes, Sends DEF StreamDone
  <1>15. CASE StreamEnd
    BY <1>15, <1>t, <1>m, Sends DEF StreamEnd
  <1>16. CASE WakeLights
    BY <1>16, <1>t, <1>m, Sends DEF WakeLights
  <1>17. CASE \/ SleepSave \/ SleepDim \/ WakeDevice \/ BasicKeyboard \/ ToStreamMode
              \/ StreamIdle
              \/ StreamSave \/ InitNFC \/ LockedNoTag \/ TagAccepted \/ InitTof
              \/ AsleepNobody \/ UnknownMode
    BY <1>17, <1>t
       DEF SleepSave, SleepDim, WakeDevice, BasicKeyboard, ToStreamMode, StreamIdle, StreamSave,
           InitNFC, LockedNoTag, TagAccepted, InitTof, AsleepNobody, UnknownMode
  <1>18. QED
    BY <1>1, <1>2, <1>3, <1>4, <1>5, <1>6, <1>7, <1>8, <1>9, <1>10, <1>11, <1>12,
       <1>13, <1>14, <1>15, <1>16, <1>17, <1>19, <1>20, <1>21, <1>22 DEF Next, Controller

\* The firmware keeps its variables within their types, whatever the EEPROM holds at
\* power-up and however often it restarts (main.cpp:72-180).
THEOREM TypeCorrect == Spec => []TypeOK
  <1>1. Init => TypeOK
    BY TypeInit
  <1>2. TypeOK /\ [Next]_vars => TypeOK'
    BY KeyTypesStep, ModeTypesStep, FlagTypesStep, TextTypesStep DEF TypeOK
  <1>3. QED
    BY <1>1, <1>2, PTL DEF Spec

-----------------------------------------------------------------------------
(* The mode, its save and the pass that changes it *)

\* The mode at each place of a pass: the step that leaves a mode is always taken in it.
PassMode ==
  /\ pc = "lock" => STATE_TRACKER = STATE_DEVICE_LOCKED
  /\ pc \in {"sleep", "dim", "dark"} => STATE_TRACKER = STATE_DEVICE_SLEEP
  /\ pc = "waking" => STATE_TRACKER = STATE_DEVICE_SLEEP /\ ~lcdAsleep
  /\ pc \in {"toGPT", "streamSave"} => STATE_TRACKER = STATE_CHAT_GPT_QUERY
  /\ pc \in {"unlock", "woke"} => STATE_TRACKER = STATE_BASIC_KEYBOARD
  /\ pc \in {"toStream", "stream", "streamed"} => STATE_TRACKER = STATE_CHAT_GPT_STREAM
  /\ pc = "toKeyboard" => STATE_TRACKER = STATE_BASIC_KEYBOARD /\ SpPressed(SP_KEY_C)
  /\ pc \in {"query", "chat", "asking"} =>
       \/ STATE_TRACKER = STATE_CHAT_GPT_QUERY
       \/ STATE_TRACKER = STATE_BASIC_KEYBOARD /\ SpPressed(SP_KEY_C)

LEMMA PassModeStep ==
  ASSUME PassMode, [Next]_vars
  PROVE  PassMode'
  <1> USE DEF PassMode, modeVars, scanVars, textVars, SpPressed
  <1>1. CASE Reset
    BY <1>1 DEF Reset
  <1>2. CASE PinChange \/ Transmit \/ UNCHANGED vars
    BY <1>2 DEF PinChange, Transmit, vars
  <1>3. CASE Scan
    <2>1. \/ pc' = "lock" /\ STATE_TRACKER' = STATE_DEVICE_LOCKED
          \/ pc' = "sleep" /\ STATE_TRACKER' = STATE_DEVICE_SLEEP
          \/ pc' = "switch"
      BY <1>3 DEF Scan
    <2>2. QED
      BY <2>1
  <1>4. CASE \/ LockDevice \/ SleepSave \/ SleepDim \/ SleepLights \/ BasicKeyboard
             \/ ToChatGPTMode
             \/ ForwardKeys
    BY <1>4
       DEF LockDevice, SleepSave, SleepDim, SleepLights, BasicKeyboard, ToChatGPTMode,
           ForwardKeys,
           BasicBreak
  <1>5. CASE \/ ChatQuery \/ ToKeyboardMode \/ QueryKeys \/ ToStreamMode \/ ChatConnect
             \/ ChatText \/ ChatReply
    BY <1>5 DEF ChatQuery, ToKeyboardMode, QueryKeys, ToStreamMode, ChatConnect, ChatText,
                ChatReply
  <1>6. CASE \/ StreamIdle \/ StreamStart \/ StreamChar \/ StreamDone \/ StreamEnd
             \/ StreamSave
    BY <1>6 DEF StreamIdle, StreamStart, StreamChar, StreamDone, StreamEnd, StreamSave
  <1>7. CASE \/ InitNFC \/ LockedNoTag \/ TagAccepted \/ BackToKeyboard \/ InitTof
             \/ AsleepNobody \/ UnknownMode
    BY <1>7
       DEF InitNFC, LockedNoTag, TagAccepted, BackToKeyboard, InitTof, AsleepNobody,
           UnknownMode
  <1>9. CASE WakeDevice \/ WakeLights
    BY <1>9 DEF WakeDevice, WakeLights, wakeLCD
  <1>8. QED
    BY <1>1, <1>2, <1>3, <1>4, <1>5, <1>6, <1>7, <1>9 DEF Next, Controller

LEMMA ModeSavedStep ==
  ASSUME ModeSaved, [Next]_vars
  PROVE  ModeSaved'
  <1> USE DEF ModeSaved, modeVars, SavePending
  <1>1. CASE Reset
    BY <1>1 DEF Reset
  <1>2. CASE PinChange \/ Transmit \/ UNCHANGED vars
    BY <1>2 DEF PinChange, Transmit, vars
  <1>3. CASE Scan
    BY <1>3 DEF Scan
  <1>4. CASE \/ LockDevice \/ SleepSave \/ ToChatGPTMode \/ ToKeyboardMode
             \/ ToStreamMode \/ StreamSave \/ BackToKeyboard
    <2>1. STATE_TRACKER' = STATE_TRACKER /\ safeCurrentState(STATE_TRACKER)
      BY <1>4
         DEF LockDevice, SleepSave, ToChatGPTMode, ToKeyboardMode, ToStreamMode, StreamSave,
             BackToKeyboard
    <2>2. QED
      BY <2>1 DEF safeCurrentState
  <1>5. CASE \/ SleepDim \/ SleepLights \/ BasicKeyboard \/ ForwardKeys \/ ChatQuery
             \/ QueryKeys
             \/ ChatConnect \/ ChatText \/ ChatReply
    BY <1>5
       DEF SleepDim, SleepLights, BasicKeyboard, ForwardKeys, BasicBreak, ChatQuery, QueryKeys,
           ChatConnect, ChatText, ChatReply
  <1>6. CASE StreamIdle \/ StreamStart \/ StreamChar \/ StreamDone \/ StreamEnd
    BY <1>6 DEF StreamIdle, StreamStart, StreamChar, StreamDone, StreamEnd
  <1>7. CASE \/ InitNFC \/ LockedNoTag \/ TagAccepted \/ InitTof \/ AsleepNobody
             \/ WakeDevice \/ WakeLights \/ UnknownMode
    BY <1>7
       DEF InitNFC, LockedNoTag, TagAccepted, InitTof, AsleepNobody, WakeDevice, WakeLights,
           UnknownMode
  <1>8. QED
    BY <1>1, <1>2, <1>3, <1>4, <1>5, <1>6, <1>7 DEF Next, Controller

\* A restart comes back to the mode of the last completed mode change, unless its EEPROM
\* write failed: every path through loop() that changes the mode saves it before the pass
\* ends (logic.h:62-130, 145-170, main.cpp:137).
THEOREM ModeIsSaved == Spec => []ModeSaved
  <1>1. Init => ModeSaved
    BY DEF Init, ModeSaved
  <1>2. ModeSaved /\ [Next]_vars => ModeSaved'
    BY ModeSavedStep
  <1>3. QED
    BY <1>1, <1>2, PTL DEF Spec

\* A chat request is made in query mode, or in the pass whose mode key has just left it
\* (main.cpp:119-148).
THEOREM ChatFromQuery == Spec => []ChatOnlyFromQuery
  <1>1. Init => PassMode
    BY DEF Init, PassMode
  <1>2. PassMode /\ [Next]_vars => PassMode'
    BY PassModeStep
  <1>3. PassMode => ChatOnlyFromQuery
    BY DEF PassMode, ChatOnlyFromQuery
  <1>4. QED
    BY <1>1, <1>2, <1>3, PTL DEF Spec

-----------------------------------------------------------------------------
(* Locked mode *)

\* Every way out of locked mode: the tag, the sleep key, or a restart that finds another
\* mode in the EEPROM because the lock was not saved (yet).
LockExit ==
  STATE_TRACKER = STATE_DEVICE_LOCKED /\ STATE_TRACKER' # STATE_DEVICE_LOCKED =>
    \/ NFCInitialized /\ pc' = "unlock"
    \/ inputSpecialKeys' = SP_KEY_B
    \/ resets' # resets /\ (pc = "lock" \/ unsaved)

LEMMA LockExitStep ==
  ASSUME TypeOK, PassMode, ModeSaved, [Next]_vars
  PROVE  LockExit
  <1> USE DEF LockExit, modeVars
  <1>c. /\ STATE_BASIC_KEYBOARD = 0 /\ STATE_CHAT_GPT_QUERY = 1 /\ STATE_CHAT_GPT_STREAM = 2
        /\ STATE_DEVICE_LOCKED = 3 /\ STATE_DEVICE_SLEEP = 4
    BY DEF STATE_BASIC_KEYBOARD, STATE_CHAT_GPT_QUERY, STATE_CHAT_GPT_STREAM,
           STATE_DEVICE_LOCKED, STATE_DEVICE_SLEEP
  <1>1. CASE Reset
    <2>1. resets' # resets
      BY <1>1 DEF Reset, TypeOK, ModeTypes
    <2>2. STATE_TRACKER = STATE_DEVICE_LOCKED /\ eepMode # STATE_DEVICE_LOCKED =>
            pc = "lock" \/ unsaved
      BY <1>c DEF PassMode, ModeSaved, SavePending
    <2>3. QED
      BY <1>1, <2>1, <2>2 DEF Reset
  <1>2. CASE PinChange \/ Transmit \/ UNCHANGED vars
    BY <1>2 DEF PinChange, Transmit, vars
  <1>3. CASE Scan
    BY <1>3 DEF Scan
  <1>4. CASE \/ LockDevice \/ SleepSave \/ SleepDim \/ SleepLights \/ BasicKeyboard
             \/ ToChatGPTMode
             \/ ForwardKeys
    BY <1>4, <1>c
       DEF LockDevice, SleepSave, SleepDim, SleepLights, BasicKeyboard, ToChatGPTMode,
           ForwardKeys
  <1>5. CASE \/ ChatQuery \/ ToKeyboardMode \/ QueryKeys \/ ToStreamMode \/ ChatConnect
             \/ ChatText \/ ChatReply
    BY <1>5, <1>c
       DEF ChatQuery, ToKeyboardMode, QueryKeys, ToStreamMode, ChatConnect, ChatText,
           ChatReply, PassMode
  <1>6. CASE \/ StreamIdle \/ StreamStart \/ StreamChar \/ StreamDone \/ StreamEnd
             \/ StreamSave
    BY <1>6, <1>c
       DEF StreamIdle, StreamStart, StreamChar, StreamDone, StreamEnd, StreamSave, PassMode
  <1>7. CASE \/ InitNFC \/ LockedNoTag \/ BackToKeyboard \/ InitTof
             \/ AsleepNobody \/ UnknownMode
    BY <1>7, <1>c
       DEF InitNFC, LockedNoTag, BackToKeyboard, InitTof, AsleepNobody,
           UnknownMode
  <1>8. CASE TagAccepted
    BY <1>8 DEF TagAccepted, ReaderReady
  <1>10. CASE WakeDevice \/ WakeLights
    BY <1>10, <1>c DEF WakeDevice, WakeLights, PassMode
  <1>9. QED
    BY <1>1, <1>2, <1>3, <1>4, <1>5, <1>6, <1>7, <1>8, <1>10 DEF Next, Controller

\* The lock holds against every other key, event and restart (logic.h:62, main.cpp:155).
THEOREM LockIsHeld == Spec => LockHolds
  <1>1. Init => PassMode /\ ModeSaved
    BY DEF Init, PassMode, ModeSaved
  <1>2. PassMode /\ ModeSaved /\ [Next]_vars => (PassMode /\ ModeSaved)'
    BY PassModeStep, ModeSavedStep
  <1>3. TypeOK /\ PassMode /\ ModeSaved /\ [Next]_vars => [LockExit]_vars
    BY LockExitStep
  <1>4. LockHolds <=> [][LockExit]_vars
    BY PTL DEF LockHolds, LockExit
  <1>5. QED
    BY <1>1, <1>2, <1>3, <1>4, TypeCorrect, PTL DEF Spec

-----------------------------------------------------------------------------
(* The dark display, and the mode byte that is no mode *)

\* Keyboard mode behind a dark display: by the tag, or by a restart that finds keyboard
\* mode in the EEPROM because the last change had not reached it.
DarkExit ==
  (/\ STATE_TRACKER \in {STATE_DEVICE_LOCKED, STATE_DEVICE_SLEEP}
   /\ STATE_TRACKER' = STATE_BASIC_KEYBOARD
   /\ lcdAsleep')
  => (\/ pc' = "unlock"
      \/ resets' # resets /\ (unsaved \/ pc \in SavePending))

LEMMA DarkExitStep ==
  ASSUME TypeOK, PassMode, ModeSaved, [Next]_vars
  PROVE  DarkExit
  <1> USE DEF modeVars
  <1>c. /\ STATE_BASIC_KEYBOARD = 0 /\ STATE_CHAT_GPT_QUERY = 1 /\ STATE_CHAT_GPT_STREAM = 2
        /\ STATE_DEVICE_LOCKED = 3 /\ STATE_DEVICE_SLEEP = 4
    BY DEF STATE_BASIC_KEYBOARD, STATE_CHAT_GPT_QUERY, STATE_CHAT_GPT_STREAM,
           STATE_DEVICE_LOCKED, STATE_DEVICE_SLEEP
  <1>d. \/ STATE_TRACKER' = STATE_TRACKER
        \/ STATE_TRACKER \notin {STATE_DEVICE_LOCKED, STATE_DEVICE_SLEEP}
        \/ STATE_TRACKER' # STATE_BASIC_KEYBOARD
        => DarkExit
    BY <1>c DEF DarkExit
  <1>1. CASE Reset
    <2>1. resets' # resets /\ STATE_TRACKER' = eepMode
      BY <1>1 DEF Reset, TypeOK, ModeTypes
    <2>2. eepMode # STATE_TRACKER => unsaved \/ pc \in SavePending
      BY DEF ModeSaved
    <2>3. QED
      BY <1>d, <2>1, <2>2 DEF DarkExit
  <1>2. CASE PinChange \/ Transmit \/ UNCHANGED vars
    BY <1>2, <1>c, <1>d DEF PinChange, Transmit, vars
  <1>3. CASE Scan
    BY <1>3, <1>c, <1>d DEF Scan
  <1>4. CASE \/ LockDevice \/ SleepSave \/ SleepDim \/ SleepLights \/ BasicKeyboard
             \/ ToChatGPTMode
             \/ ForwardKeys
    BY <1>4, <1>c, <1>d
       DEF LockDevice, SleepSave, SleepDim, SleepLights, BasicKeyboard, ToChatGPTMode,
           ForwardKeys
  <1>5. CASE \/ ChatQuery \/ ToKeyboardMode \/ QueryKeys \/ ToStreamMode \/ ChatConnect
             \/ ChatText \/ ChatReply
    BY <1>5, <1>c, <1>d
       DEF ChatQuery, ToKeyboardMode, QueryKeys, ToStreamMode, ChatConnect, ChatText,
           ChatReply, PassMode
  <1>6. CASE \/ StreamIdle \/ StreamStart \/ StreamChar \/ StreamDone \/ StreamEnd
             \/ StreamSave
    BY <1>6, <1>c, <1>d
       DEF StreamIdle, StreamStart, StreamChar, StreamDone, StreamEnd, StreamSave, PassMode
  <1>7. CASE \/ InitNFC \/ LockedNoTag \/ BackToKeyboard \/ InitTof
             \/ AsleepNobody \/ UnknownMode
    BY <1>7, <1>c, <1>d
       DEF InitNFC, LockedNoTag, BackToKeyboard, InitTof, AsleepNobody, UnknownMode
  <1>8. CASE TagAccepted
    BY <1>8 DEF TagAccepted, DarkExit
  <1>9. CASE WakeLights
    BY <1>9 DEF WakeLights, textVars, PassMode, DarkExit
  <1>11. CASE WakeDevice
    BY <1>11, <1>d DEF WakeDevice
  <1>10. QED
    BY <1>1, <1>2, <1>3, <1>4, <1>5, <1>6, <1>7, <1>8, <1>9, <1>11
       DEF Next, Controller

\* The keyboard types behind a dark display only after the tag, or after a restart that
\* overtook a save (logic.h:83, 159).
THEOREM DarkOnlyByTag == Spec => DarkKeyboardOnlyByTag
  <1>1. Init => PassMode /\ ModeSaved
    BY DEF Init, PassMode, ModeSaved
  <1>2. PassMode /\ ModeSaved /\ [Next]_vars => (PassMode /\ ModeSaved)'
    BY PassModeStep, ModeSavedStep
  <1>3. TypeOK /\ PassMode /\ ModeSaved /\ [Next]_vars => [DarkExit]_vars
    BY DarkExitStep
  <1>4. DarkKeyboardOnlyByTag <=> [][DarkExit]_vars
    BY PTL DEF DarkKeyboardOnlyByTag, DarkExit
  <1>5. QED
    BY <1>1, <1>2, <1>3, <1>4, TypeCorrect, PTL DEF Spec

\* A mode byte that is no mode is still the one in the EEPROM: nothing saves it and nothing
\* overwrites it before the mode is left.
UnknownIsStored == STATE_TRACKER \notin Modes => eepMode = STATE_TRACKER

UnknownExit ==
  /\ STATE_TRACKER \notin Modes
       => STATE_TRACKER' \in {STATE_TRACKER, STATE_DEVICE_LOCKED, STATE_DEVICE_SLEEP}
  /\ (STATE_TRACKER \in Modes /\ STATE_TRACKER' \notin Modes)
       => (resets' # resets /\ eepMode \notin Modes)

LEMMA UnknownStep ==
  ASSUME TypeOK, PassMode, UnknownIsStored, [Next]_vars
  PROVE  UnknownExit /\ UnknownIsStored'
  <1> USE DEF UnknownExit, UnknownIsStored, modeVars
  <1>c. /\ STATE_BASIC_KEYBOARD \in Modes /\ STATE_CHAT_GPT_QUERY \in Modes
        /\ STATE_CHAT_GPT_STREAM \in Modes /\ STATE_DEVICE_LOCKED \in Modes
        /\ STATE_DEVICE_SLEEP \in Modes
    BY DEF STATE_BASIC_KEYBOARD, STATE_CHAT_GPT_QUERY, STATE_CHAT_GPT_STREAM,
           STATE_DEVICE_LOCKED, STATE_DEVICE_SLEEP, Modes
  <1>1. CASE Reset
    <2>1. resets' # resets /\ STATE_TRACKER' = eepMode /\ eepMode' = eepMode
      BY <1>1 DEF Reset, TypeOK, ModeTypes
    <2>2. QED
      BY <2>1
  <1>2. CASE PinChange \/ Transmit \/ UNCHANGED vars
    BY <1>2 DEF PinChange, Transmit, vars
  <1>3. CASE Scan
    BY <1>3, <1>c DEF Scan
  <1>4. CASE \/ LockDevice \/ SleepSave \/ ToChatGPTMode \/ ToKeyboardMode
             \/ ToStreamMode \/ StreamSave \/ BackToKeyboard
    <2>1. STATE_TRACKER' = STATE_TRACKER
      BY <1>4
         DEF LockDevice, SleepSave, ToChatGPTMode, ToKeyboardMode, ToStreamMode, StreamSave,
             BackToKeyboard
    <2>2. STATE_TRACKER \in Modes
      BY <1>4, <1>c
         DEF LockDevice, SleepSave, ToChatGPTMode, ToKeyboardMode, ToStreamMode, StreamSave,
             BackToKeyboard, PassMode
    <2>3. QED
      BY <2>1, <2>2
  <1>5. CASE \/ SleepDim \/ SleepLights \/ BasicKeyboard \/ ForwardKeys \/ ChatQuery
             \/ QueryKeys
             \/ ChatConnect \/ ChatText \/ ChatReply
    BY <1>5, <1>c
       DEF SleepDim, SleepLights, BasicKeyboard, ForwardKeys, ChatQuery, QueryKeys, ChatConnect,
           ChatText, ChatReply, PassMode
  <1>6. CASE StreamIdle \/ StreamStart \/ StreamChar \/ StreamDone \/ StreamEnd
    BY <1>6, <1>c
       DEF StreamIdle, StreamStart, StreamChar, StreamDone, StreamEnd, PassMode
  <1>7. CASE \/ InitNFC \/ LockedNoTag \/ TagAccepted \/ InitTof \/ AsleepNobody
             \/ UnknownMode
    BY <1>7, <1>c
       DEF InitNFC, LockedNoTag, TagAccepted, InitTof, AsleepNobody, UnknownMode
  <1>9. CASE WakeDevice \/ WakeLights
    BY <1>9, <1>c DEF WakeDevice, WakeLights, PassMode
  <1>8. QED
    BY <1>1, <1>2, <1>3, <1>4, <1>5, <1>6, <1>7, <1>9 DEF Next, Controller

\* A mode byte that is no mode is left by the lock and sleep keys only, a restart included,
\* and comes only from the EEPROM (main.cpp:86, 109).
THEOREM UnknownLeftByKeys == Spec => UnknownModeLeftByKeys
  <1>1. Init => PassMode /\ UnknownIsStored
    BY DEF Init, PassMode, UnknownIsStored
  <1>2. TypeOK /\ PassMode /\ UnknownIsStored /\ [Next]_vars
          => (PassMode /\ UnknownIsStored)' /\ [UnknownExit]_vars
    BY PassModeStep, UnknownStep
  <1>3. UnknownModeLeftByKeys <=> [][UnknownExit]_vars
    BY PTL DEF UnknownModeLeftByKeys, UnknownExit
  <1>4. QED
    BY <1>1, <1>2, <1>3, TypeCorrect, PTL DEF Spec

-----------------------------------------------------------------------------
(* What the computer was told *)

\* The places of a pass at which its events are not yet forwarded or dropped.
EventPending == pc \in {"lock", "sleep", "dim", "dark", "switch", "toGPT", "keys"}

\* A code reported pressed has a key that the scan saw down, or its release was dropped, or
\* its release is the event this pass is about to handle.  HostHeldJustified alone is not
\* inductive: between the scan and the end of the pass it does not hold.
HeldOrReleased ==
  \A c \in sentHeld : \/ c \in SeenDownCodes \cup orphaned
                      \/ EventPending /\ c \in ReleasedCodes

\* A press that is not yet handled is of a key the scan saw down.
PressesSeen ==
  EventPending => /\ input # NoKey /\ currentKeyState => input \in SeenDownCodes
                  /\ SpForwarded /\ currentSpKeyState =>
                       spKeyCode[inputSpecialKeys] \in SeenDownCodes

HeldInv == HeldOrReleased /\ PressesSeen

\* A scan turns every code that is no longer seen down into a release to be handled.
LEMMA ScanHeld ==
  ASSUME TypeOK, HeldInv, Scan
  PROVE  HeldInv'
  <1>p. pc = "scan" /\ EventPending' /\ UNCHANGED heldVars
    BY DEF Scan, EventPending
  <1>k. \A k \in prevKeyStates : \/ k \in prevKeyStates'
                                 \/ input' # NoKey /\ ~currentKeyState' /\ input' = caseMux[k]
    <2>1. \A k \in MatrixKeys : caseMux[k] # NoKey
      BY KeyCodes, KeysAssumption DEF NoKey
    <2>2. scanKeyboard
      BY DEF Scan
    <2>3. QED
      BY <2>1, <2>2, ScanKey DEF Toggle
  <1>s. \A i \in prevSpecialKeys : \/ i \in prevSpecialKeys'
                                   \/ inputSpecialKeys' = i /\ ~currentSpKeyState'
    <2>1. scanSpecialKeys
      BY DEF Scan
    <2>2. QED
      BY <2>1, ScanSpecialKey DEF Toggle
  <1>1. \A c \in SeenDownCodes : c \in SeenDownCodes' \/ c \in ReleasedCodes'
    <2> SUFFICES ASSUME NEW c \in SeenDownCodes
                 PROVE  c \in SeenDownCodes' \/ c \in ReleasedCodes'
      OBVIOUS
    <2>1. CASE \E k \in prevKeyStates : c = caseMux[k]
      BY <2>1, <1>k DEF SeenDownCodes, ReleasedCodes
    <2>2. CASE \E i \in prevSpecialKeys \cap DOMAIN spKeyCode : c = spKeyCode[i]
      BY <2>2, <1>s DEF SeenDownCodes, ReleasedCodes, SpForwarded
    <2>3. QED
      BY <2>1, <2>2 DEF SeenDownCodes
  <1>2. HeldOrReleased'
    BY <1>p, <1>1 DEF HeldInv, HeldOrReleased, EventPending, heldVars
  <1>3. (input # NoKey /\ currentKeyState)' => input' \in SeenDownCodes'
    <2>1. scanKeyboard
      BY DEF Scan
    <2>2. (input # NoKey /\ currentKeyState)' => \E k \in prevKeyStates' : input' = caseMux[k]
      BY <2>1, ScanKey DEF Toggle
    <2>3. QED
      BY <2>2 DEF SeenDownCodes
  <1>4. (SpForwarded /\ currentSpKeyState)' => spKeyCode[inputSpecialKeys'] \in SeenDownCodes'
    <2>1. scanSpecialKeys
      BY DEF Scan
    <2>2. (SpForwarded /\ currentSpKeyState)' => inputSpecialKeys' \in prevSpecialKeys'
      BY <2>1, ScanSpecialKey, SpKeyCodes
         DEF Toggle, SpForwarded, NoSpKey, SP_KEY_D, SP_KEY_E, SP_KEY_F
    <2>3. QED
      BY <2>2 DEF SeenDownCodes, SpForwarded
  <1>5. QED
    BY <1>2, <1>3, <1>4 DEF HeldInv, PressesSeen

\* Forwarding leaves as pressed only codes with a key seen down, and codes that no event of
\* the pass is about.
LEMMA ForwardHeld ==
  ASSUME HeldInv, ForwardKeys
  PROVE  HeldInv'
  <1>1. /\ EventPending /\ ~EventPending' /\ UNCHANGED <<prevKeyStates, prevSpecialKeys>>
        /\ sentHeld' = AfterSpKey(AfterKey(sentHeld))
        /\ orphaned' = orphaned \ EventCodes
    BY DEF ForwardKeys, EventPending, BasicBreak, scanVars
  <1>2. SeenDownCodes' = SeenDownCodes
    BY <1>1 DEF SeenDownCodes
  <1>3. \A c \in sentHeld' :
          \/ input # NoKey /\ currentKeyState /\ c = input
          \/ SpForwarded /\ currentSpKeyState /\ c = spKeyCode[inputSpecialKeys]
          \/ c \in sentHeld /\ c \notin EventCodes
    BY <1>1 DEF AfterSpKey, AfterKey, Report, EventCodes
  <1>4. ReleasedCodes \subseteq EventCodes
    BY DEF ReleasedCodes, EventCodes
  <1>5. \A c \in sentHeld' : c \in SeenDownCodes' \cup orphaned'
    BY <1>1, <1>2, <1>3, <1>4 DEF HeldInv, HeldOrReleased, PressesSeen
  <1>6. QED
    BY <1>1, <1>5 DEF HeldInv, HeldOrReleased, PressesSeen

\* A pass in another mode drops its releases.
LEMMA DropHeld ==
  ASSUME HeldInv, DropEvents, UNCHANGED scanVars, ~EventPending'
  PROVE  HeldInv'
  <1>1. SeenDownCodes' = SeenDownCodes
    BY DEF SeenDownCodes, scanVars
  <1>2. \A c \in sentHeld' : c \in SeenDownCodes' \cup orphaned'
    BY <1>1 DEF HeldInv, HeldOrReleased, DropEvents
  <1>3. QED
    BY <1>2 DEF HeldInv, HeldOrReleased, PressesSeen

\* Every other step of a pass leaves the events and the reported codes alone.
LEMMA KeepHeld ==
  ASSUME HeldInv, UNCHANGED <<scanVars, heldVars>>, EventPending' = EventPending
  PROVE  HeldInv'
  <1>1. /\ SeenDownCodes' = SeenDownCodes /\ ReleasedCodes' = ReleasedCodes
        /\ SpForwarded' = SpForwarded
    BY DEF SeenDownCodes, ReleasedCodes, SpForwarded, scanVars
  <1>2. HeldOrReleased'
    BY <1>1 DEF HeldInv, HeldOrReleased, heldVars
  <1>3. PressesSeen'
    BY <1>1 DEF HeldInv, PressesSeen, scanVars
  <1>4. QED
    BY <1>2, <1>3 DEF HeldInv

LEMMA HeldInvStep ==
  ASSUME TypeOK, HeldInv, [Next]_vars
  PROVE  HeldInv'
  <1>1. CASE Reset
    <2>1. ~EventPending' /\ sentHeld' \subseteq orphaned'
      BY <1>1 DEF Reset, EventPending
    <2>2. QED
      BY <2>1 DEF HeldInv, HeldOrReleased, PressesSeen
  <1>2. CASE PinChange \/ Transmit \/ UNCHANGED vars
    <2>1. UNCHANGED <<scanVars, heldVars>> /\ pc' = pc
      BY <1>2 DEF PinChange, Transmit, vars
    <2>2. QED
      BY <2>1, KeepHeld DEF EventPending
  <1>3. CASE Scan
    BY <1>3, ScanHeld
  <1>4. CASE LockDevice \/ SleepSave \/ SleepDim \/ SleepLights \/ BasicKeyboard
             \/ ToChatGPTMode
    <2>1. UNCHANGED <<scanVars, heldVars>> /\ EventPending' = EventPending
      BY <1>4
         DEF LockDevice, SleepSave, SleepDim, SleepLights, BasicKeyboard, ToChatGPTMode,
             EventPending
    <2>2. QED
      BY <2>1, KeepHeld
  <1>5. CASE ForwardKeys
    BY <1>5, ForwardHeld
  <1>6. CASE \/ ToKeyboardMode \/ QueryKeys \/ ToStreamMode \/ ChatConnect \/ ChatText
             \/ ChatReply \/ StreamChar
             \/ StreamDone \/ StreamEnd \/ StreamSave \/ BackToKeyboard \/ WakeLights
    <2>1. UNCHANGED <<scanVars, heldVars>>
      BY <1>6
         DEF ToKeyboardMode, QueryKeys, ToStreamMode, ChatConnect, ChatText, ChatReply,
             StreamChar, StreamDone,
             StreamEnd, StreamSave, BackToKeyboard, WakeLights
    <2>2. ~EventPending /\ ~EventPending'
      BY <1>6
         DEF ToKeyboardMode, QueryKeys, ToStreamMode, ChatConnect, ChatText, ChatReply,
             StreamChar, StreamDone,
             StreamEnd, StreamSave, BackToKeyboard, WakeLights, EventPending
    <2>3. QED
      BY <2>1, <2>2, KeepHeld DEF EventPending
  <1>7. CASE \/ ChatQuery \/ StreamIdle \/ StreamStart \/ InitNFC \/ LockedNoTag
             \/ TagAccepted \/ InitTof \/ AsleepNobody \/ WakeDevice \/ UnknownMode
    <2>1. DropEvents /\ UNCHANGED scanVars
      BY <1>7
         DEF ChatQuery, StreamIdle, StreamStart, InitNFC, LockedNoTag, TagAccepted, InitTof,
             AsleepNobody, WakeDevice, UnknownMode
    <2>2. ~EventPending'
      BY <1>7
         DEF ChatQuery, StreamIdle, StreamStart, InitNFC, LockedNoTag, TagAccepted, InitTof,
             AsleepNobody, WakeDevice, UnknownMode, EventPending
    <2>3. QED
      BY <2>1, <2>2, DropHeld
  <1>8. QED
    BY <1>1, <1>2, <1>3, <1>4, <1>5, <1>6, <1>7 DEF Next, Controller

\* Between two passes the computer holds no code down without a reason: a key the scan saw
\* down, a release that another mode swallowed, or a restart (keyboard.h:86-236).
THEOREM HeldIsJustified == Spec => []HostHeldJustified
  <1>1. Init => HeldInv
    BY DEF Init, HeldInv, HeldOrReleased, PressesSeen, EventPending
  <1>2. TypeOK /\ HeldInv /\ [Next]_vars => HeldInv'
    BY HeldInvStep
  <1>3. HeldInv => HostHeldJustified
    BY DEF HeldInv, HeldOrReleased, HostHeldJustified, EventPending
  <1>4. QED
    BY <1>1, <1>2, <1>3, TypeCorrect, PTL DEF Spec
=============================================================================
