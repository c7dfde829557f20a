--------------------------- MODULE KaiBoardProofs ---------------------------
(***************************************************************************)
(* Proofs about KaiBoard, for any keys, answers, buffer sizes and number   *)
(* of restarts: the bytes on the command line are always whole commands,   *)
(* unless one was lost, and once they are taken the coprocessor agrees     *)
(* with the controller about keys, lights and stream.                      *)
(***************************************************************************)
EXTENDS KaiBoard, KeyboardProofs, FoldTheorems, FiniteSetTheorems

-----------------------------------------------------------------------------
(* What the coprocessor will have taken, one byte after the other *)

Results == [held : SUBSET Byte, dark : BOOLEAN, streaming : BOOLEAN, command : Byte]

LEMMA TakeTypes ==
  ASSUME NEW s \in Results, NEW b \in Byte
  PROVE  Take(s, b) \in Results
<1>1. 0 \in Byte
  BY DEF Byte
<1> QED
  BY <1>1, Zenon DEF Take, Results

TakeStep == [x \in Results \X Byte |-> Take(x[1], x[2])]

\* The fold that Outcome is, as a fold of a function.
LEMMA TakenIsFold ==
  ASSUME NEW base \in Results, NEW s \in Seq(Byte)
  PROVE  FoldLeft(Take, base, s) = FoldValue(Results, TakeStep, base, s)
<1> DEFINE n == Len(s)
           h == [x \in Results \X (1 .. n) |-> Take(x[1], s[x[2]])]
           T(f) == [S \in SUBSET DOMAIN s |->
                      IF S = {} THEN base ELSE Take(f[S \ {Max(S)}], s[Max(S)])]
           f == CHOOSE e : e = T(e)
<1>1. n \in Nat /\ DOMAIN s = 1 .. n /\ \A k \in 1 .. n : s[k] \in Byte
  OBVIOUS
<1>2. f = T(f)
  <2> HIDE DEF n
  <2>1. h \in [Results \X (1 .. n) -> Results]
    <3>1. \A x \in Results \X (1 .. n) : Take(x[1], s[x[2]]) \in Results
      BY <1>1, TakeTypes
    <3> QED
      BY <3>1
  <2>2. HasFold(Results, h, base, n)
    <3> HIDE DEF h
    <3> QED
      BY <1>1, <2>1, FoldExists
  <2>3. PICK e \in [SUBSET (1 .. n) -> Results] : e = FoldStep(e, h, base, n)
    BY <2>2 DEF HasFold
  <2>4. ASSUME NEW S \in SUBSET (1 .. n), S # {}
        PROVE  h[<<e[S \ {Max(S)}], Max(S)>>] = Take(e[S \ {Max(S)}], s[Max(S)])
    <3>1. Max(S) \in 1 .. n /\ S \ {Max(S)} \in SUBSET (1 .. n)
      BY <1>1, <2>4, Largest
    <3>2. e[S \ {Max(S)}] \in Results
      BY <3>1
    <3> QED
      BY <3>1, <3>2
  <2>5. \A S \in SUBSET (1 .. n) :
          e[S] = IF S = {} THEN base ELSE Take(e[S \ {Max(S)}], s[Max(S)])
    <3> HIDE DEF h
    <3> QED
      BY <2>3, <2>4 DEF FoldStep
  <2>6. e = T(e)
    BY <1>1, <2>5
  <2> QED
    BY <2>6, Zenon
<1>3. FoldLeft(Take, base, s) = f[DOMAIN s]
  BY DEF FoldLeft, MapThenFoldSet
<1> HIDE DEF f
<1>4. f[{}] = base
  BY <1>2
<1>5. TakeStep \in [Results \X Byte -> Results]
  <2>1. \A x \in Results \X Byte : Take(x[1], x[2]) \in Results
    BY TakeTypes
  <2> QED
    BY <2>1 DEF TakeStep
<1>6. ASSUME NEW k \in 1 .. n, f[1 .. (k - 1)] \in Results
      PROVE  f[1 .. k] = TakeStep[<<f[1 .. (k - 1)], s[k]>>]
  <2>1. 1 .. k \in SUBSET DOMAIN s /\ 1 .. k # {} /\ (1 .. k) \ {k} = 1 .. (k - 1)
    <3>1. k \in 1 .. k /\ \A i \in 1 .. k : i \in 1 .. n
      BY <1>1
    <3>2. \A i : i \in 1 .. k /\ i # k <=> i \in 1 .. (k - 1)
      BY <1>1
    <3> QED
      BY <1>1, <3>1, <3>2
  <2>2. Max(1 .. k) = k
    BY MaxOfRange
  <2>3. f[1 .. k] = Take(f[(1 .. k) \ {Max(1 .. k)}], s[Max(1 .. k)])
    BY <1>2, <2>1
  <2>4. f[1 .. k] = Take(f[1 .. (k - 1)], s[k])
    BY <2>1, <2>2, <2>3
  <2> QED
    BY <1>1, <1>6, <2>4 DEF TakeStep
<1> DEFINE p == [k \in 0 .. n |-> f[1 .. k]]
<1>7. p \in Runs(Results, TakeStep, base, s)
  BY <1>4, <1>5, <1>6, FoldIsRun
<1>8. p[n] = f[DOMAIN s]
  BY <1>1
<1> HIDE DEF p
<1> QED
  BY <1>1, <1>3, <1>7, <1>8, RunsEndAlike

LEMMA TakeStepTypes ==
  ASSUME NEW base \in Results
  PROVE  FoldOver(Results, Byte, TakeStep, base)
<1>1. \A x \in Results \X Byte : Take(x[1], x[2]) \in Results
  BY TakeTypes
<1> QED
  BY <1>1 DEF TakeStep, FoldOver

LEMMA TakenNothing ==
  ASSUME NEW base \in Results
  PROVE  FoldLeft(Take, base, << >>) = base
<1>1. << >> \in Seq(Byte)
  OBVIOUS
<1> QED
  BY <1>1, TakenIsFold, FoldOfNothing

LEMMA TakenAppend ==
  ASSUME NEW base \in Results, NEW s \in Seq(Byte), NEW b \in Byte
  PROVE  /\ FoldLeft(Take, base, s) \in Results
         /\ FoldLeft(Take, base, Append(s, b)) = Take(FoldLeft(Take, base, s), b)
<1> DEFINE v == FoldValue(Results, TakeStep, base, s)
<1>1. FoldLeft(Take, base, s) = v
  BY TakenIsFold
<1>2. v \in Results
  BY TakeStepTypes, RunExists
<1>3. Append(s, b) \in Seq(Byte)
  OBVIOUS
<1>4. FoldLeft(Take, base, Append(s, b)) = FoldValue(Results, TakeStep, base, Append(s, b))
  BY <1>3, TakenIsFold
<1>5. FoldValue(Results, TakeStep, base, Append(s, b)) = TakeStep[<<v, b>>]
  BY TakeStepTypes, FoldAppend
<1>6. TakeStep[<<v, b>>] = Take(v, b)
  <2> HIDE DEF v
  <2> QED
    BY <1>2 DEF TakeStep
<1> HIDE DEF v
<1> QED
  BY <1>1, <1>2, <1>4, <1>5, <1>6

LEMMA TakenFirst ==
  ASSUME NEW base \in Results, NEW s \in Seq(Byte), s # << >>
  PROVE  FoldLeft(Take, base, s) = FoldLeft(Take, Take(base, Head(s)), Tail(s))
<1>1. Head(s) \in Byte /\ Tail(s) \in Seq(Byte)
  OBVIOUS
<1>2. TakeStep[<<base, Head(s)>>] = Take(base, Head(s))
  BY <1>1 DEF TakeStep
<1>3. Take(base, Head(s)) \in Results
  BY <1>1, TakeTypes
<1>4. FoldLeft(Take, base, s) = FoldValue(Results, TakeStep, base, s)
  BY TakenIsFold
<1>5. FoldLeft(Take, Take(base, Head(s)), Tail(s))
        = FoldValue(Results, TakeStep, Take(base, Head(s)), Tail(s))
  BY <1>1, <1>3, TakenIsFold
<1>6. FoldValue(Results, TakeStep, base, s)
        = FoldValue(Results, TakeStep, TakeStep[<<base, Head(s)>>], Tail(s))
  BY TakeStepTypes, FoldFirst
<1> QED
  BY <1>2, <1>4, <1>5, <1>6

-----------------------------------------------------------------------------
(* Types *)

\* A computer that is not connected sees no key.
BoardTypes == BoardTypeOK /\ (~connected => host = {})

\* A report that lacks some codes.
LEMMA TextTyped ==
  ASSUME BoardTypes, NEW text, connected' = connected, SendReport(report \ text)
  PROVE  /\ report' \subseteq Byte /\ host' \subseteq report'
         /\ Cardinality(report') <= ReportRoom /\ (~connected' => host' = {})
         /\ crowded' \in BOOLEAN
<1>1. /\ report \subseteq Byte /\ host \subseteq report /\ Cardinality(report) <= ReportRoom
      /\ (~connected => host = {}) /\ crowded \in BOOLEAN /\ ReportRoom \in Nat
  BY RoomAssumption DEF BoardTypes, BoardTypeOK
<1>2. IsFiniteSet(report) /\ Cardinality(report) \in Nat
  <2>1. IsFiniteSet(Byte)
    <3>1. 0 \in Int /\ 255 \in Int
      OBVIOUS
    <3> QED
      BY <3>1, FS_Interval DEF Byte
  <2> QED
    BY <1>1, <2>1, FS_Subset, FS_CardinalityType
<1>3. report' = report \ text /\ host' = (IF connected THEN report \ text ELSE host)
      /\ crowded' = crowded
  BY DEF SendReport
<1>4. /\ Cardinality(report \ text) <= Cardinality(report)
      /\ Cardinality(report \ text) \in Nat
  <2>1. report \ text \subseteq report
    OBVIOUS
  <2> QED
    BY <1>2, <2>1, FS_Subset, FS_CardinalityType
<1> QED
  BY <1>1, <1>2, <1>3, <1>4

LEMMA ReportStep ==
  ASSUME BoardTypes, NEW c, connected' = connected,
         (c \in Byte /\ press(c)) \/ release(c)
  PROVE  /\ report' \subseteq Byte /\ host' \subseteq report'
         /\ Cardinality(report') <= ReportRoom /\ (~connected' => host' = {})
         /\ crowded' \in BOOLEAN
<1>1. /\ report \subseteq Byte /\ host \subseteq report /\ Cardinality(report) <= ReportRoom
      /\ (~connected => host = {}) /\ crowded \in BOOLEAN /\ ReportRoom \in Nat
  BY RoomAssumption DEF BoardTypes, BoardTypeOK
<1>2. IsFiniteSet(report) /\ Cardinality(report) \in Nat
  <2>1. IsFiniteSet(Byte)
    <3>1. 0 \in Int /\ 255 \in Int
      OBVIOUS
    <3> QED
      BY <3>1, FS_Interval DEF Byte
  <2> QED
    BY <1>1, <2>1, FS_Subset, FS_CardinalityType
<1>3. CASE c \in Byte /\ press(c)
  <2>1. CASE c \in report \/ Cardinality(report) < ReportRoom
    <3>1. report' = report \cup {c} /\ host' = (IF connected THEN report \cup {c} ELSE host)
          /\ crowded' = crowded
      BY <1>3, <2>1 DEF press, SendReport
    <3>2. Cardinality(report \cup {c}) <= ReportRoom
      <4>1. CASE c \in report
        <5>1. report \cup {c} = report
          BY <4>1
        <5> QED
          BY <5>1, <1>1
      <4>2. CASE c \notin report
        <5>1. Cardinality(report \cup {c}) = Cardinality(report) + 1
          BY <4>2, <1>2, FS_AddElement
        <5> QED
          BY <5>1, <4>2, <2>1, <1>1, <1>2
      <4> QED
        BY <4>1, <4>2
    <3> QED
      BY <1>1, <1>3, <3>1, <3>2
  <2>2. CASE ~(c \in report \/ Cardinality(report) < ReportRoom)
    BY <1>1, <1>3, <2>2 DEF press
  <2> QED
    BY <2>1, <2>2
<1>4. CASE release(c)
  BY <1>4, TextTyped DEF release
<1> QED
  BY <1>3, <1>4

\* The line's item is a byte, and what a receiver keeps of it fits.
LEMMA ReceivedFits ==
  ASSUME NEW T, NEW q \in Seq(T), NEW x \in T, NEW room \in Nat, Len(q) <= room
  PROVE  Received(q, x, room) \in Seq(T) /\ Len(Received(q, x, room)) <= room
  BY DEF Received

LEMMA Dropped ==
  ASSUME NEW q \in Seq(Byte), q # << >>
  PROVE  /\ SubSeq(q, 3, Len(q)) \in Seq(Byte) /\ Len(SubSeq(q, 3, Len(q))) <= Len(q)
         /\ Tail(q) \in Seq(Byte) /\ Len(Tail(q)) <= Len(q) /\ Head(q) \in Byte
         /\ (IF Len(q) >= 2 THEN q[2] ELSE 255) \in Byte
<1>1. Len(q) \in Nat /\ Len(q) >= 1
  OBVIOUS
<1>2. SubSeq(q, 3, Len(q)) \in Seq(Byte)
  <2>1. 3 \in Nat /\ \A i \in 3 .. Len(q) : i \in 1 .. Len(q)
    BY <1>1
  <2>2. \A i \in 3 .. Len(q) : q[i] \in Byte
    BY <2>1
  <2> QED
    BY <1>1, <2>1, <2>2
<1>3. Len(SubSeq(q, 3, Len(q))) <= Len(q)
  BY <1>1
<1>4. 255 \in Byte
  BY DEF Byte
<1>5. Len(q) >= 2 => q[2] \in Byte
  BY <1>1
<1> QED
  BY <1>1, <1>2, <1>3, <1>4, <1>5

LEMMA KeyboardTypeStep ==
  ASSUME TypeOK, [Next]_vars
  PROVE  TypeOK'
  BY KeyTypesStep, ModeTypesStep, FlagTypesStep, TextTypesStep DEF TypeOK

LEMMA BoardTypeInit == BoardInit => BoardTypes
<1> SUFFICES ASSUME BoardInit PROVE BoardTypes
  OBVIOUS
<1>1. TypeOK
  BY TypeInit DEF BoardInit
<1>2. Cardinality({}) <= ReportRoom
  BY RoomAssumption, FS_EmptySet
<1>3. << >> \in Seq(Byte) /\ << >> \in Seq(DebugItem) /\ Len(<< >>) = 0
  OBVIOUS
<1>4. /\ {connected, stramingResult, sleepMode, crowded, overtyped, echoed, lost, cut, parted}
            \subseteq BOOLEAN
      /\ report = {} /\ host = {} /\ rx = << >> /\ rxDebug = << >> /\ coPc = "top"
  BY DEF BoardInit, CoInit
<1> QED
  BY <1>1, <1>2, <1>3, <1>4, RoomAssumption DEF BoardTypes, BoardTypeOK

CoTypes ==
  /\ rx \in Seq(Byte) /\ Len(rx) <= RxRoom
  /\ rxDebug \in Seq(DebugItem) /\ Len(rxDebug) <= DebugRoom
  /\ coPc \in {"top", "commands", "typing"}
  /\ connected \in BOOLEAN /\ stramingResult \in BOOLEAN /\ sleepMode \in BOOLEAN
  /\ overtyped \in BOOLEAN /\ echoed \in BOOLEAN /\ crowded \in BOOLEAN
  /\ report \subseteq Byte /\ host \subseteq report
  /\ Cardinality(report) <= ReportRoom
  /\ ~connected => host = {}

LEMMA TypesSplit == BoardTypes <=> TypeOK /\ CoTypes /\ {lost, cut, parted} \subseteq BOOLEAN
  BY DEF BoardTypes, BoardTypeOK, CoTypes

LEMMA CoTypesStep ==
  ASSUME BoardTypes, CoprocessorStep
  PROVE  CoTypes'
<1> DEFINE silent == uart = << >>
           debugSilent == serial = << >>
<1>t. CoTypes
  BY TypesSplit
<1>1. CASE EnterCommands \/ EnterTyping \/ EndPass
  BY <1>1, <1>t DEF EnterCommands, EnterTyping, EndPass, rxVars, bleVars, CoTypes
<1>2. CASE PressKey(silent) \/ ReleaseKey(silent)
  <2>1. rx # << >> /\ rx \in Seq(Byte) /\ Len(rx) <= RxRoom /\ Len(rx) \in Nat
    BY <1>2, <1>t DEF PressKey, ReleaseKey, Command, CoTypes
  <2>2. /\ rx' = DropCommand /\ connected' = connected
        /\ (Argument \in Byte /\ press(Argument)) \/ release(Argument)
    BY <1>2, <2>1, Dropped DEF PressKey, ReleaseKey, Argument
  <2>3. rx' \in Seq(Byte) /\ Len(rx') <= RxRoom
    BY <2>1, <2>2, Dropped, RoomAssumption DEF DropCommand
  <2>4. /\ report' \subseteq Byte /\ host' \subseteq report'
        /\ Cardinality(report') <= ReportRoom /\ (~connected' => host' = {})
        /\ crowded' \in BOOLEAN
    BY <2>2, ReportStep
  <2>5. UNCHANGED <<rxDebug, coPc, connected, stramingResult, sleepMode, overtyped, echoed>>
    BY <1>2 DEF PressKey, ReleaseKey
  <2> QED
    BY <1>t, <2>3, <2>4, <2>5 DEF CoTypes
<1>3. CASE LightMode(silent) \/ LightSleep(silent)
  <2>0. rx # << >> /\ rx' = DropCommand
    BY <1>3, Zenon DEF LightMode, LightSleep, Command
  <2>1. rx # << >> /\ rx \in Seq(Byte) /\ Len(rx) <= RxRoom /\ Len(rx) \in Nat
    BY <1>t, <2>0 DEF CoTypes
  <2>2. rx' \in Seq(Byte) /\ Len(rx') <= RxRoom
    BY <2>0, <2>1, Dropped, RoomAssumption DEF DropCommand
  <2>3. sleepMode' \in BOOLEAN
    BY <1>3, <1>t DEF LightMode, LightSleep, CoTypes
  <2>4. UNCHANGED <<rxDebug, coPc, stramingResult, bleVars, overtyped, echoed>>
    BY <1>3 DEF LightMode, LightSleep
  <2> QED
    BY <1>t, <2>2, <2>3, <2>4 DEF CoTypes, bleVars
<1>4. CASE StreamBegin(debugSilent) \/ StreamFinish(debugSilent) \/ EchoByte
  <2>1. rx # << >> /\ rx \in Seq(Byte) /\ Len(rx) <= RxRoom /\ Len(rx) \in Nat
    BY <1>4, <1>t DEF StreamBegin, StreamFinish, EchoByte, Command, CoTypes
  <2>2. rx' \in Seq(Byte) /\ Len(rx') <= RxRoom
    BY <1>4, <2>1, Dropped, RoomAssumption DEF StreamBegin, StreamFinish, EchoByte
  <2>3. /\ rxDebug' \in Seq(DebugItem) /\ Len(rxDebug') <= DebugRoom
        /\ stramingResult' \in BOOLEAN /\ echoed' \in BOOLEAN
    <3>1. << >> \in Seq(DebugItem) /\ Len(<< >>) <= DebugRoom
      BY RoomAssumption
    <3>2. /\ rxDebug' \in {rxDebug, << >>} /\ stramingResult' \in {stramingResult, TRUE, FALSE}
          /\ echoed' \in {echoed, TRUE}
      BY <1>4 DEF StreamBegin, StreamFinish, EchoByte
    <3> QED
      BY <1>t, <3>1, <3>2 DEF CoTypes
  <2>4. UNCHANGED <<coPc, sleepMode, bleVars, overtyped>>
    BY <1>4 DEF StreamBegin, StreamFinish, EchoByte
  <2> QED
    BY <1>t, <2>2, <2>3, <2>4 DEF CoTypes, bleVars
<1>5. CASE TypeChar
  <2>1. /\ rxDebug # << >> /\ rxDebug \in Seq(DebugItem) /\ Len(rxDebug) <= DebugRoom
        /\ rxDebug' = Tail(rxDebug)
    BY <1>5, <1>t DEF TypeChar, CoTypes
  <2>2. rxDebug' \in Seq(DebugItem) /\ Len(rxDebug') <= DebugRoom
    <3>1. Tail(rxDebug) \in Seq(DebugItem) /\ Len(Tail(rxDebug)) = Len(rxDebug) - 1
      BY <2>1
    <3>2. Len(rxDebug) \in Nat
      BY <2>1
    <3> QED
      BY <2>1, <3>1, <3>2, RoomAssumption
  <2>3. UNCHANGED <<rx, coPc, connected, stramingResult, sleepMode, echoed>>
    BY <1>5 DEF TypeChar
  <2>4. overtyped' \in BOOLEAN
    BY <1>5, <1>t DEF TypeChar, write, CoTypes
  <2>5. (\E text : SendReport(report \ text)) \/ UNCHANGED <<report, host, crowded>>
    BY <1>5, Zenon DEF TypeChar, write
  <2>6. /\ report' \subseteq Byte /\ host' \subseteq report'
        /\ Cardinality(report') <= ReportRoom /\ (~connected' => host' = {})
        /\ crowded' \in BOOLEAN
    <3>1. CASE \E text : SendReport(report \ text)
      <4>1. PICK text : SendReport(report \ text)
        BY <3>1
      <4> QED
        BY <4>1, <2>3, TextTyped
    <3>2. CASE UNCHANGED <<report, host, crowded>>
      BY <3>2, <2>3, <1>t DEF CoTypes
    <3> QED
      BY <2>5, <3>1, <3>2
  <2> QED
    BY <1>t, <2>2, <2>3, <2>4, <2>6 DEF CoTypes
<1> QED
  BY <1>1, <1>2, <1>3, <1>4, <1>5 DEF CoprocessorStep, Coprocess

LEMMA BoardTypeStep ==
  ASSUME BoardTypes, [BoardNext]_boardVars
  PROVE  BoardTypes'
<1>t. TypeOK /\ CoTypes /\ {lost, cut, parted} \subseteq BOOLEAN
  BY TypesSplit
<1>0. TypeOK' /\ CoTypes' /\ {lost', cut', parted'} \subseteq BOOLEAN => BoardTypes'
  BY DEF BoardTypes, BoardTypeOK, CoTypes
<1>u. UNCHANGED coVars => CoTypes'
  BY <1>t DEF coVars, rxVars, bleVars, CoTypes
<1>v. UNCHANGED vars => TypeOK'
  BY <1>t, KeyboardTypeStep
<1>1. CASE Key
  BY <1>1, <1>t, <1>0, <1>u, KeyboardTypeStep DEF Key, Next, linkVars
<1>2. CASE ControllerStep
  BY <1>2, <1>t, <1>0, <1>u, KeyboardTypeStep DEF ControllerStep, Next
<1>3. CASE ControllerReset
  BY <1>3, <1>t, <1>0, <1>u, KeyboardTypeStep DEF ControllerReset, Next
<1>4. CASE TransmitByte
  <2>1. uart \in Seq(Byte) /\ uart # << >> /\ uart' = Tail(uart)
    BY <1>4, <1>t DEF TransmitByte, TypeOK, TextTypes
  <2>2. TypeOK'
    <3>1. uart' \in Seq(Byte)
      BY <2>1
    <3>2. KeyTypes' /\ ModeTypes' /\ FlagTypes'
      BY <1>4, <1>t DEF TransmitByte, TypeOK, KeyTypes, ModeTypes, FlagTypes, pinVars, scanVars,
                        modeVars, sensorVars, textVars, heldVars
    <3>3. TextTypes'
      BY <1>4, <1>t, <3>1 DEF TransmitByte, TypeOK, TextTypes, textVars
    <3> QED
      BY <3>2, <3>3 DEF TypeOK
  <2>3. rx' \in Seq(Byte) /\ Len(rx') <= RxRoom
    BY <1>4, <1>t, <2>1, RoomAssumption, ReceivedFits DEF TransmitByte, CoTypes
  <2>4. CoTypes'
    BY <1>4, <1>t, <2>3 DEF TransmitByte, CoTypes, bleVars
  <2> QED
    BY <1>4, <1>t, <1>0, <2>2, <2>4 DEF TransmitByte
<1>5. CASE TransmitDebug
  <2>1. serial \in Seq(DebugItem) /\ serial # << >> /\ serial' = Tail(serial)
    BY <1>5, <1>t DEF TransmitDebug, TypeOK, TextTypes
  <2>2. TypeOK'
    <3>1. serial' \in Seq(DebugItem)
      BY <2>1
    <3>2. KeyTypes' /\ ModeTypes' /\ FlagTypes'
      BY <1>5, <1>t DEF TransmitDebug, TypeOK, KeyTypes, ModeTypes, FlagTypes, pinVars, scanVars,
                        modeVars, sensorVars, textVars, heldVars
    <3>3. TextTypes'
      BY <1>5, <1>t, <3>1 DEF TransmitDebug, TypeOK, TextTypes, textVars
    <3> QED
      BY <3>2, <3>3 DEF TypeOK
  <2>3. rxDebug' \in Seq(DebugItem) /\ Len(rxDebug') <= DebugRoom
    BY <1>5, <1>t, <2>1, RoomAssumption, ReceivedFits DEF TransmitDebug, CoTypes
  <2>4. CoTypes'
    BY <1>5, <1>t, <2>3 DEF TransmitDebug, CoTypes, bleVars
  <2> QED
    BY <1>5, <1>t, <1>0, <2>2, <2>4 DEF TransmitDebug, linkVars
<1>6. CASE CoprocessorStep
  BY <1>6, <1>t, <1>0, <1>v, CoTypesStep DEF CoprocessorStep, linkVars
<1>7. CASE Connection
  <2>1. CoTypes'
    BY <1>7, <1>t DEF Connection, Connect, CoTypes, rxVars
  <2> QED
    BY <1>7, <1>t, <1>0, <1>v, <2>1 DEF Connection, linkVars
<1>8. CASE UNCHANGED boardVars
  BY <1>8, <1>t, <1>0, <1>u, <1>v DEF boardVars, linkVars
<1> QED
  BY <1>1, <1>2, <1>3, <1>4, <1>5, <1>6, <1>7, <1>8 DEF BoardNext

\* BoardTypeOK for any keys, buffers and answers: the receivers never hold more than they
\* have room for, the computer sees no key that the report does not hold, and a press that
\* finds the report full adds nothing to it (BleKeyboard, main.cpp of the coprocessor).
THEOREM BoardTypeCorrect == BoardSpec => []BoardTypeOK
<1>1. BoardTypes => BoardTypeOK
  BY DEF BoardTypes
<1>2. BoardTypes /\ [BoardNext]_boardVars => BoardTypes'
  BY BoardTypeStep
<1> QED
  BY <1>1, <1>2, BoardTypeInit, PTL DEF BoardSpec

-----------------------------------------------------------------------------
(* Whole commands *)

\* What the parser of the coprocessor waits for: a command, an argument, or the digit of a
\* light command that darkens or lights; "bad" when a byte is none of what it expects.
Expected == {"command", "argument", "digit", "bad"}
AfterByte(e, b) ==
  CASE e = "argument" -> "command"
    [] e = "digit" -> IF b \in {48, 49} THEN "command" ELSE "bad"
    [] e = "command" ->
         (CASE b \in {KBDPRESSCODE, KBDRELEASECODE, LEDCHANGEHEADER} -> "argument"
            [] b = LEDSLEEPMODEHEADER -> "digit"
            [] b \in {STREAMSTARTCODE, STREAMDONECODE} -> "command"
            [] OTHER -> "bad")
    [] OTHER -> "bad"
ParseStep == [x \in Expected \X Byte |-> AfterByte(x[1], x[2])]
Parsed(e, s) == FoldValue(Expected, ParseStep, e, s)
WholeCommands(s) == Parsed("command", s) = "command"

\* What is on its way, and what the coprocessor has already taken.
Line == rx \o uart
Base == [held |-> report, dark |-> sleepMode, streaming |-> stramingResult, command |-> 0]

\* Part of the inductive invariant; the rest is BoardTypes and the claims themselves.
LineInv ==
  /\ ~lost => WholeCommands(Line) /\ Outcome.command = 0
  /\ NothingEchoed

LEMMA Codes ==
  /\ KBDPRESSCODE \in Byte /\ KBDRELEASECODE \in Byte /\ LEDCHANGEHEADER \in Byte
  /\ LEDSLEEPMODEHEADER \in Byte /\ STREAMSTARTCODE \in Byte /\ STREAMDONECODE \in Byte
  /\ 48 \in Byte /\ 49 \in Byte
  BY DEF KBDPRESSCODE, KBDRELEASECODE, LEDCHANGEHEADER, LEDSLEEPMODEHEADER, STREAMSTARTCODE,
         STREAMDONECODE, Byte

LEMMA ParseTypes ==
  ASSUME NEW e \in Expected
  PROVE  /\ FoldOver(Expected, Byte, ParseStep, e)
         /\ \A b \in Byte : ParseStep[<<e, b>>] = AfterByte(e, b) /\ AfterByte(e, b) \in Expected
<1>1. \A f \in Expected : \A b \in Byte : AfterByte(f, b) \in Expected
  BY Zenon DEF AfterByte, Expected
<1>2. \A x \in Expected \X Byte : AfterByte(x[1], x[2]) \in Expected
  BY <1>1
<1>3. ParseStep \in [Expected \X Byte -> Expected]
  BY <1>2 DEF ParseStep
<1>4. \A b \in Byte : ParseStep[<<e, b>>] = AfterByte(e, b)
  BY DEF ParseStep
<1> QED
  BY <1>1, <1>3, <1>4 DEF FoldOver

LEMMA ParsedNothing ==
  ASSUME NEW e \in Expected
  PROVE  Parsed(e, << >>) = e
  BY FoldOfNothing DEF Parsed

LEMMA ParsedAppend ==
  ASSUME NEW e \in Expected, NEW s \in Seq(Byte), NEW b \in Byte
  PROVE  Parsed(e, s) \in Expected /\ Parsed(e, Append(s, b)) = AfterByte(Parsed(e, s), b)
<1>1. FoldOver(Expected, Byte, ParseStep, e)
  BY ParseTypes
<1>2. Parsed(e, s) \in Expected
  BY <1>1, RunExists DEF Parsed
<1>3. Parsed(e, Append(s, b)) = ParseStep[<<Parsed(e, s), b>>]
  BY <1>1, FoldAppend DEF Parsed
<1> QED
  BY <1>2, <1>3, ParseTypes

LEMMA ParsedFirst ==
  ASSUME NEW e \in Expected, NEW s \in Seq(Byte), s # << >>
  PROVE  Parsed(e, s) = Parsed(AfterByte(e, Head(s)), Tail(s))
<1>1. FoldOver(Expected, Byte, ParseStep, e) /\ Head(s) \in Byte
  BY ParseTypes
<1>2. Parsed(e, s) = Parsed(ParseStep[<<e, Head(s)>>], Tail(s))
  BY <1>1, FoldFirst DEF Parsed
<1> QED
  BY <1>1, <1>2, ParseTypes

\* What went wrong once stays wrong.
LEMMA BadStays ==
  ASSUME NEW s \in Seq(Byte)
  PROVE  Parsed("bad", s) = "bad"
<1> DEFINE p == [k \in 0 .. Len(s) |-> "bad"]
<1>1. Len(s) \in Nat /\ \A k \in 1 .. Len(s) : s[k] \in Byte /\ k - 1 \in 0 .. Len(s)
  OBVIOUS
<1>2. "bad" \in Expected
  BY DEF Expected
<1>3. \A b \in Byte : ParseStep[<<"bad", b>>] = "bad"
  BY <1>2, ParseTypes DEF AfterByte
<1>4. p \in [0 .. Len(s) -> Expected]
  BY <1>2
<1>5. p[0] = "bad" /\ p[Len(s)] = "bad"
  BY <1>1
<1>6. \A k \in 1 .. Len(s) : p[k] = "bad" /\ p[k - 1] = "bad"
  BY <1>1
<1> HIDE DEF p
<1>7. p \in Runs(Expected, ParseStep, "bad", s)
  BY <1>1, <1>3, <1>4, <1>5, <1>6 DEF Runs, IsRun
<1> QED
  BY <1>1, <1>5, <1>7, RunsEndAlike DEF Parsed

\* The first of whole commands is a code with its argument.
LEMMA FirstCommand ==
  ASSUME NEW s \in Seq(Byte), s # << >>, WholeCommands(s)
  PROVE  \/ /\ Head(s) \in {KBDPRESSCODE, KBDRELEASECODE, LEDCHANGEHEADER}
            /\ Tail(s) # << >> /\ WholeCommands(Tail(Tail(s)))
         \/ /\ Head(s) = LEDSLEEPMODEHEADER
            /\ Tail(s) # << >> /\ Head(Tail(s)) \in {48, 49} /\ WholeCommands(Tail(Tail(s)))
         \/ /\ Head(s) \in {STREAMSTARTCODE, STREAMDONECODE}
            /\ WholeCommands(Tail(s))
<1> DEFINE b == Head(s)
           t == Tail(s)
<1>1. b \in Byte /\ t \in Seq(Byte)
  OBVIOUS
<1>2. {"command", "argument", "digit", "bad"} \subseteq Expected
  BY DEF Expected
<1>3. Parsed(AfterByte("command", b), t) = "command"
  BY <1>2, ParsedFirst DEF WholeCommands
<1> HIDE DEF b, t
<1>4. CASE b \in {KBDPRESSCODE, KBDRELEASECODE, LEDCHANGEHEADER}
  <2>1. AfterByte("command", b) = "argument"
    BY <1>4 DEF AfterByte, KBDPRESSCODE, KBDRELEASECODE, LEDCHANGEHEADER, LEDSLEEPMODEHEADER,
                STREAMSTARTCODE, STREAMDONECODE
  <2>2. Parsed("argument", t) = "command"
    BY <1>3, <2>1
  <2>3. t # << >>
    BY <1>2, <2>2, ParsedNothing
  <2>4. AfterByte("argument", Head(t)) = "command"
    BY DEF AfterByte
  <2>5. Parsed("command", Tail(t)) = "command"
    BY <1>1, <1>2, <2>2, <2>3, <2>4, ParsedFirst
  <2> QED
    BY <1>4, <2>3, <2>5 DEF WholeCommands, b, t
<1>5. CASE b = LEDSLEEPMODEHEADER
  <2>1. AfterByte("command", b) = "digit"
    BY <1>5 DEF AfterByte, KBDPRESSCODE, KBDRELEASECODE, LEDCHANGEHEADER, LEDSLEEPMODEHEADER,
                STREAMSTARTCODE, STREAMDONECODE
  <2>2. Parsed("digit", t) = "command"
    BY <1>3, <2>1
  <2>3. t # << >>
    BY <1>2, <2>2, ParsedNothing
  <2>4. Tail(t) \in Seq(Byte)
    BY <1>1, <2>3
  <2>5. Parsed(AfterByte("digit", Head(t)), Tail(t)) = "command"
    BY <1>1, <1>2, <2>2, <2>3, ParsedFirst
  <2>6. Head(t) \in {48, 49}
    <3> SUFFICES ASSUME Head(t) \notin {48, 49} PROVE FALSE
      OBVIOUS
    <3>1. AfterByte("digit", Head(t)) = "bad"
      BY DEF AfterByte
    <3> QED
      BY <2>4, <2>5, <3>1, BadStays
  <2>7. AfterByte("digit", Head(t)) = "command"
    BY <2>6 DEF AfterByte
  <2> QED
    BY <1>5, <2>3, <2>5, <2>6, <2>7 DEF WholeCommands, b, t
<1>6. CASE b \in {STREAMSTARTCODE, STREAMDONECODE}
  <2>1. AfterByte("command", b) = "command"
    BY <1>6 DEF AfterByte, KBDPRESSCODE, KBDRELEASECODE, LEDCHANGEHEADER, LEDSLEEPMODEHEADER,
                STREAMSTARTCODE, STREAMDONECODE
  <2> QED
    BY <1>3, <1>6, <2>1 DEF WholeCommands, b, t
<1>7. CASE b \notin {KBDPRESSCODE, KBDRELEASECODE, LEDCHANGEHEADER, LEDSLEEPMODEHEADER,
                     STREAMSTARTCODE, STREAMDONECODE}
  <2>1. AfterByte("command", b) = "bad"
    BY <1>7 DEF AfterByte
  <2> QED
    BY <1>1, <1>3, <2>1, BadStays
<1> QED
  BY <1>4, <1>5, <1>6, <1>7

\* A command put behind whole commands.
LEMMA OneMore ==
  ASSUME NEW s \in Seq(Byte), WholeCommands(s), NEW c \in {STREAMSTARTCODE, STREAMDONECODE}
  PROVE  WholeCommands(Append(s, c))
<1>1. c \in Byte /\ "command" \in Expected
  BY Codes DEF Expected
<1>2. AfterByte("command", c) = "command"
  BY DEF AfterByte, KBDPRESSCODE, KBDRELEASECODE, LEDCHANGEHEADER, LEDSLEEPMODEHEADER,
         STREAMSTARTCODE, STREAMDONECODE
<1> QED
  BY <1>1, <1>2, ParsedAppend DEF WholeCommands

LEMMA TwoMore ==
  ASSUME NEW s \in Seq(Byte), WholeCommands(s), NEW c, NEW a \in Byte,
         \/ c \in {KBDPRESSCODE, KBDRELEASECODE, LEDCHANGEHEADER}
         \/ c = LEDSLEEPMODEHEADER /\ a \in {48, 49}
  PROVE  WholeCommands(Append(Append(s, c), a))
<1>1. c \in Byte /\ {"command", "argument", "digit"} \subseteq Expected
  BY Codes DEF Expected
<1> DEFINE t == Append(s, c)
<1>2. t \in Seq(Byte)
  BY <1>1
<1>3. Parsed("command", t) = AfterByte("command", c)
  BY <1>1, ParsedAppend DEF WholeCommands
<1> HIDE DEF t
<1>4. Parsed("command", Append(t, a)) = AfterByte(AfterByte("command", c), a)
  BY <1>1, <1>2, <1>3, ParsedAppend
<1>5. AfterByte(AfterByte("command", c), a) = "command"
  <2>1. CASE c \in {KBDPRESSCODE, KBDRELEASECODE, LEDCHANGEHEADER}
    <3>1. AfterByte("command", c) = "argument"
      BY <2>1 DEF AfterByte, KBDPRESSCODE, KBDRELEASECODE, LEDCHANGEHEADER,
                  LEDSLEEPMODEHEADER, STREAMSTARTCODE, STREAMDONECODE
    <3> QED
      BY <3>1 DEF AfterByte
  <2>2. CASE c = LEDSLEEPMODEHEADER /\ a \in {48, 49}
    <3>1. AfterByte("command", c) = "digit"
      BY <2>2 DEF AfterByte, KBDPRESSCODE, KBDRELEASECODE, LEDCHANGEHEADER,
                  LEDSLEEPMODEHEADER, STREAMSTARTCODE, STREAMDONECODE
    <3> QED
      BY <2>2, <3>1 DEF AfterByte
  <2> QED
    BY <2>1, <2>2
<1> QED
  BY <1>4, <1>5 DEF WholeCommands, t

-----------------------------------------------------------------------------
(* What a whole command does to the result *)

Taken(base, s) == FoldLeft(Take, base, s)

\* The command c with argument a makes w of v.
Effect(v, w, c, a) ==
  /\ w.command = 0 /\ w.streaming = v.streaming
  /\ IF c = LEDSLEEPMODEHEADER THEN w.dark = (a = 49) ELSE w.dark = v.dark
  /\ w.held = (IF c = KBDPRESSCODE THEN v.held \cup {a}
               ELSE IF c = KBDRELEASECODE THEN v.held \ {a} ELSE v.held)

LEMMA DistinctCodes ==
  /\ 0 \notin {KBDPRESSCODE, KBDRELEASECODE, LEDCHANGEHEADER, LEDSLEEPMODEHEADER}
  /\ KBDPRESSCODE \notin {KBDRELEASECODE, LEDCHANGEHEADER, LEDSLEEPMODEHEADER,
                          STREAMSTARTCODE, STREAMDONECODE}
  /\ KBDRELEASECODE \notin {LEDCHANGEHEADER, LEDSLEEPMODEHEADER, STREAMSTARTCODE, STREAMDONECODE}
  /\ LEDCHANGEHEADER \notin {LEDSLEEPMODEHEADER, STREAMSTARTCODE, STREAMDONECODE}
  /\ LEDSLEEPMODEHEADER \notin {STREAMSTARTCODE, STREAMDONECODE}
  /\ STREAMSTARTCODE # STREAMDONECODE
  BY DEF KBDPRESSCODE, KBDRELEASECODE, LEDCHANGEHEADER, LEDSLEEPMODEHEADER,
         STREAMSTARTCODE, STREAMDONECODE

LEMMA TakeTwo ==
  ASSUME NEW v \in Results, v.command = 0, NEW a \in Byte,
         NEW c \in {KBDPRESSCODE, KBDRELEASECODE, LEDCHANGEHEADER, LEDSLEEPMODEHEADER}
  PROVE  /\ Take(v, c) \in Results /\ Take(Take(v, c), a) \in Results
         /\ Effect(v, Take(Take(v, c), a), c, a)
<1> DEFINE u == Take(v, c)
           w == Take(u, a)
<1>1. c \in Byte
  BY Codes
<1>2. u \in Results
  BY <1>1, TakeTypes
<1>3. u = [v EXCEPT !.command = c]
  BY DistinctCodes, Zenon DEF Take
<1>4. u.command = c /\ u.held = v.held /\ u.dark = v.dark /\ u.streaming = v.streaming
  <2> HIDE DEF u
  <2> QED
    BY <1>3 DEF Results
<1> HIDE DEF u
<1>5. w \in Results
  BY <1>2, TakeTypes
<1>6. Effect(v, w, c, a)
  <2>1. CASE c = KBDPRESSCODE
    <3>1. w = [u EXCEPT !.command = 0, !.held = u.held \cup {a}]
      BY <1>4, <2>1, DistinctCodes, Zenon DEF Take
    <3> HIDE DEF w
    <3>2. w.command = 0 /\ w.held = u.held \cup {a} /\ w.dark = u.dark
          /\ w.streaming = u.streaming
      BY <1>2, <3>1 DEF Results
    <3> QED
      BY <1>4, <2>1, <3>2, DistinctCodes, Zenon DEF Effect
  <2>2. CASE c = KBDRELEASECODE
    <3>1. w = [u EXCEPT !.command = 0, !.held = u.held \ {a}]
      BY <1>4, <2>2, DistinctCodes, Zenon DEF Take
    <3> HIDE DEF w
    <3>2. w.command = 0 /\ w.held = u.held \ {a} /\ w.dark = u.dark
          /\ w.streaming = u.streaming
      BY <1>2, <3>1 DEF Results
    <3> QED
      BY <1>4, <2>2, <3>2, DistinctCodes, Zenon DEF Effect
  <2>3. CASE c = LEDSLEEPMODEHEADER
    <3>1. w = [u EXCEPT !.command = 0, !.dark = (a = 49)]
      BY <1>4, <2>3, DistinctCodes, Zenon DEF Take
    <3> HIDE DEF w
    <3>2. w.command = 0 /\ w.held = u.held /\ w.dark = (a = 49) /\ w.streaming = u.streaming
      BY <1>2, <3>1 DEF Results
    <3> QED
      BY <1>4, <2>3, <3>2, DistinctCodes, Zenon DEF Effect
  <2>4. CASE c = LEDCHANGEHEADER
    <3>1. w = [u EXCEPT !.command = 0]
      BY <1>4, <2>4, DistinctCodes, Zenon DEF Take
    <3> HIDE DEF w
    <3>2. w.command = 0 /\ w.held = u.held /\ w.dark = u.dark /\ w.streaming = u.streaming
      BY <1>2, <3>1 DEF Results
    <3> QED
      BY <1>4, <2>4, <3>2, DistinctCodes, Zenon DEF Effect
  <2> QED
    BY <2>1, <2>2, <2>3, <2>4
<1> QED
  BY <1>2, <1>5, <1>6 DEF u

LEMMA TakeOne ==
  ASSUME NEW v \in Results, v.command = 0, NEW c \in {STREAMSTARTCODE, STREAMDONECODE}
  PROVE  /\ Take(v, c) \in Results
         /\ Take(v, c).command = 0 /\ Take(v, c).held = v.held /\ Take(v, c).dark = v.dark
         /\ Take(v, c).streaming <=> c = STREAMSTARTCODE
<1> DEFINE w == Take(v, c)
<1>1. c \in Byte
  BY Codes
<1>2. w \in Results
  BY <1>1, TakeTypes
<1>3. CASE c = STREAMSTARTCODE
  <2>1. w = [v EXCEPT !.streaming = TRUE]
    BY <1>3, DistinctCodes, Zenon DEF Take
  <2> HIDE DEF w
  <2>2. w.command = v.command /\ w.held = v.held /\ w.dark = v.dark /\ w.streaming = TRUE
    BY <2>1 DEF Results
  <2> QED
    BY <1>2, <1>3, <2>2 DEF w
<1>4. CASE c = STREAMDONECODE
  <2>1. w = [v EXCEPT !.streaming = FALSE]
    BY <1>4, DistinctCodes, Zenon DEF Take
  <2> HIDE DEF w
  <2>2. w.command = v.command /\ w.held = v.held /\ w.dark = v.dark /\ w.streaming = FALSE
    BY <2>1 DEF Results
  <2> QED
    BY <1>2, <1>4, <2>2, DistinctCodes DEF w
<1> QED
  BY <1>3, <1>4

LEMMA SameResults ==
  ASSUME NEW v \in Results, NEW w \in Results, v.held = w.held, v.dark = w.dark,
         v.streaming = w.streaming, v.command = w.command
  PROVE  v = w
  BY DEF Results

\* What is held has no say in the rest of the result.
Rest(v) == <<v.dark, v.streaming, v.command>>

LEMMA TakeRest ==
  ASSUME NEW v \in Results, NEW w \in Results, NEW b \in Byte, Rest(v) = Rest(w)
  PROVE  Rest(Take(v, b)) = Rest(Take(w, b))
<1>1. v.dark = w.dark /\ v.streaming = w.streaming /\ v.command = w.command
  BY DEF Rest
<1>2. ASSUME NEW x \in Results, NEW y \in Results, x.dark = y.dark,
             x.streaming = y.streaming, NEW c
      PROVE  /\ \A h, i : Rest([x EXCEPT !.command = c, !.held = h])
                            = Rest([y EXCEPT !.command = c, !.held = i])
             /\ \A d : Rest([x EXCEPT !.command = c, !.dark = d])
                         = Rest([y EXCEPT !.command = c, !.dark = d])
             /\ Rest([x EXCEPT !.command = c]) = Rest([y EXCEPT !.command = c])
             /\ x.command = y.command => \A d : Rest([x EXCEPT !.streaming = d])
                                                = Rest([y EXCEPT !.streaming = d])
  BY <1>2 DEF Rest, Results
<1>3. CASE v.command \in {KBDPRESSCODE, KBDRELEASECODE, LEDSLEEPMODEHEADER, LEDCHANGEHEADER}
  <2>1. CASE v.command = KBDPRESSCODE
    <3>1. Take(v, b) = [v EXCEPT !.command = 0, !.held = v.held \cup {b}]
      BY <2>1, DistinctCodes, Zenon DEF Take
    <3>2. Take(w, b) = [w EXCEPT !.command = 0, !.held = w.held \cup {b}]
      BY <1>1, <2>1, DistinctCodes, Zenon DEF Take
    <3> QED
      BY <1>1, <3>1, <3>2 DEF Rest, Results
  <2>2. CASE v.command = KBDRELEASECODE
    <3>1. Take(v, b) = [v EXCEPT !.command = 0, !.held = v.held \ {b}]
      BY <2>2, DistinctCodes, Zenon DEF Take
    <3>2. Take(w, b) = [w EXCEPT !.command = 0, !.held = w.held \ {b}]
      BY <1>1, <2>2, DistinctCodes, Zenon DEF Take
    <3> QED
      BY <1>1, <3>1, <3>2 DEF Rest, Results
  <2>3. CASE v.command = LEDSLEEPMODEHEADER
    <3>1. Take(v, b) = [v EXCEPT !.command = 0, !.dark = (b = 49)]
      BY <2>3, DistinctCodes, Zenon DEF Take
    <3>2. Take(w, b) = [w EXCEPT !.command = 0, !.dark = (b = 49)]
      BY <1>1, <2>3, DistinctCodes, Zenon DEF Take
    <3> QED
      BY <1>1, <3>1, <3>2 DEF Rest, Results
  <2>4. CASE v.command = LEDCHANGEHEADER
    BY <1>1, <1>2, <2>4, DistinctCodes, Zenon DEF Take
  <2> QED
    BY <1>3, <2>1, <2>2, <2>3, <2>4
<1>4. CASE v.command \notin {KBDPRESSCODE, KBDRELEASECODE, LEDSLEEPMODEHEADER, LEDCHANGEHEADER}
  <2>1. CASE v.command = 0 /\ b = STREAMSTARTCODE
    BY <1>1, <1>2, <1>4, <2>1, DistinctCodes, Zenon DEF Take
  <2>2. CASE v.command = 0 /\ b = STREAMDONECODE
    BY <1>1, <1>2, <1>4, <2>2, DistinctCodes, Zenon DEF Take
  <2>3. CASE ~(v.command = 0 /\ b \in {STREAMSTARTCODE, STREAMDONECODE})
    BY <1>1, <1>2, <1>4, <2>3, Zenon DEF Take
  <2> QED
    BY <2>1, <2>2, <2>3
<1> QED
  BY <1>3, <1>4

LEMMA HeldApart ==
  ASSUME NEW v \in Results, NEW w \in Results, NEW s \in Seq(Byte), Rest(v) = Rest(w)
  PROVE  Rest(Taken(v, s)) = Rest(Taken(w, s))
<1>1. PICK p \in Runs(Results, TakeStep, v, s) : TRUE
  BY TakeStepTypes, RunExists
<1>2. PICK q \in Runs(Results, TakeStep, w, s) : TRUE
  BY TakeStepTypes, RunExists
<1>3. Len(s) \in Nat /\ \A k \in 1 .. Len(s) : s[k] \in Byte /\ k - 1 \in 0 .. Len(s)
                                               /\ k \in 0 .. Len(s)
  OBVIOUS
<1>4. Taken(v, s) = p[Len(s)] /\ Taken(w, s) = q[Len(s)]
  BY <1>3, RunsEndAlike, TakenIsFold DEF Taken
<1> DEFINE x == [k \in 0 .. Len(s) |-> Rest(p[k])]
           y == [k \in 0 .. Len(s) |-> Rest(q[k])]
<1>5. x[0] = y[0]
  <2>1. p[0] = v /\ q[0] = w /\ 0 \in 0 .. Len(s)
    BY <1>3 DEF Runs, IsRun
  <2> QED
    BY <2>1
<1>6. ASSUME NEW k \in 1 .. Len(s), x[k - 1] = y[k - 1] PROVE x[k] = y[k]
  <2>1. p[k - 1] \in Results /\ q[k - 1] \in Results
    BY <1>3 DEF Runs
  <2>2. Rest(p[k - 1]) = Rest(q[k - 1])
    BY <1>3, <1>6
  <2>3. p[k] = TakeStep[<<p[k - 1], s[k]>>] /\ q[k] = TakeStep[<<q[k - 1], s[k]>>]
    BY DEF Runs, IsRun
  <2>4. p[k] = Take(p[k - 1], s[k]) /\ q[k] = Take(q[k - 1], s[k])
    BY <1>3, <2>1, <2>3 DEF TakeStep
  <2>5. Rest(p[k]) = Rest(q[k])
    BY <1>3, <2>1, <2>2, <2>4, TakeRest
  <2> QED
    BY <1>3, <2>5
<1>7. GoOnAlike(x, y, Len(s))
  <2> HIDE DEF x, y
  <2> QED
    BY <1>5, <1>6 DEF GoOnAlike
<1>8. x[Len(s)] = y[Len(s)]
  <2> HIDE DEF x, y
  <2>1. \A k \in 0 .. Len(s) : x[k] = y[k]
    BY <1>3, <1>7, SameEnd
  <2> QED
    BY <1>3, <2>1
<1> QED
  BY <1>3, <1>4, <1>8

\* Commands put behind whole ones take effect on the result, and leave them whole.
Complete(base, s) ==
  base \in Results /\ s \in Seq(Byte) /\ WholeCommands(s) /\ Taken(base, s).command = 0

LEMMA PairTaken ==
  ASSUME NEW base, NEW s, Complete(base, s), NEW c, NEW a \in Byte,
         \/ c \in {KBDPRESSCODE, KBDRELEASECODE, LEDCHANGEHEADER}
         \/ c = LEDSLEEPMODEHEADER /\ a \in {48, 49}
  PROVE  /\ Complete(base, s \o <<c, a>>)
         /\ Effect(Taken(base, s), Taken(base, s \o <<c, a>>), c, a)
<1> DEFINE t == Append(s, c)
           u == Append(t, a)
<1>1. base \in Results /\ s \in Seq(Byte) /\ WholeCommands(s) /\ Taken(base, s).command = 0
  BY DEF Complete
<1>2. c \in Byte /\ c \in {KBDPRESSCODE, KBDRELEASECODE, LEDCHANGEHEADER, LEDSLEEPMODEHEADER}
  BY Codes
<1>3. s \o <<c, a>> = u
  BY <1>1, <1>2, Behind
<1>4. WholeCommands(u)
  BY <1>1, TwoMore
<1>5. t \in Seq(Byte)
  BY <1>1, <1>2
<1>6. Taken(base, s) \in Results /\ Taken(base, t) = Take(Taken(base, s), c)
  BY <1>1, <1>2, TakenAppend DEF Taken
<1> HIDE DEF t
<1>7. u \in Seq(Byte)
  BY <1>5
<1>8. Taken(base, u) = Take(Taken(base, t), a)
  BY <1>1, <1>5, TakenAppend DEF Taken
<1> HIDE DEF u
<1>9. Effect(Taken(base, s), Taken(base, u), c, a)
  BY <1>1, <1>2, <1>6, <1>8, TakeTwo
<1>10. Taken(base, u).command = 0
  BY <1>9 DEF Effect
<1> QED
  BY <1>1, <1>3, <1>4, <1>7, <1>9, <1>10 DEF Complete

LEMMA SingleTaken ==
  ASSUME NEW base, NEW s, Complete(base, s), NEW c \in {STREAMSTARTCODE, STREAMDONECODE}
  PROVE  /\ Complete(base, s \o <<c>>)
         /\ Taken(base, s \o <<c>>).held = Taken(base, s).held
         /\ Taken(base, s \o <<c>>).dark = Taken(base, s).dark
         /\ Taken(base, s \o <<c>>).streaming <=> c = STREAMSTARTCODE
<1> DEFINE t == Append(s, c)
<1>1. base \in Results /\ s \in Seq(Byte) /\ WholeCommands(s) /\ Taken(base, s).command = 0
  BY DEF Complete
<1>2. c \in Byte
  BY Codes
<1>3. s \o <<c>> = t
  BY <1>1, <1>2, Behind
<1>4. WholeCommands(t)
  BY <1>1, OneMore
<1>5. t \in Seq(Byte)
  BY <1>1, <1>2
<1>6. Taken(base, s) \in Results /\ Taken(base, t) = Take(Taken(base, s), c)
  BY <1>1, <1>2, TakenAppend DEF Taken
<1> HIDE DEF t
<1>7. /\ Taken(base, t).command = 0 /\ Taken(base, t).held = Taken(base, s).held
      /\ Taken(base, t).dark = Taken(base, s).dark
      /\ Taken(base, t).streaming <=> c = STREAMSTARTCODE
  BY <1>1, <1>6, TakeOne
<1> QED
  BY <1>1, <1>3, <1>4, <1>5, <1>7 DEF Complete

-----------------------------------------------------------------------------
(* What a step of the controller puts on the line *)

\* The step says nothing to the lights, and does not leave the place where that is due.
Undimmed ==
  /\ pc \notin Parting
  /\ \/ pc' \notin Parting /\ lcdAsleep' = lcdAsleep
     \/ pc' = "dark" /\ lcdAsleep'
     \/ pc' = "waking" /\ ~lcdAsleep'

Unheard == sentHeld' = sentHeld /\ Undimmed
NoStream == pc # "stream" /\ pc' # "stream"

SendsNothing == uart' = uart /\ Unheard /\ (pc' = "stream" <=> pc = "stream")
SendsLight == \E m \in 0 .. 8 : uart' = uart \o changeLightMode(m) /\ Unheard /\ NoStream
SendsSleep(d) ==
  /\ uart' = uart \o sleepModeLight(d) /\ sentHeld' = sentHeld
  /\ IF d = 1 THEN pc = "dark" ELSE pc = "waking"
  /\ pc' \notin Parting /\ lcdAsleep' = lcdAsleep
  /\ NoStream
SendsKeys ==
  /\ uart' = uart \o (KeyMessage \o SpKeyMessage) /\ Undimmed
  /\ sentHeld' = AfterSpKey(AfterKey(sentHeld))
  /\ NoStream
SendsStart ==
  /\ uart' = uart \o (changeLightMode(LED_MODE_SLANTBAR) \o <<STREAMSTARTCODE>>)
  /\ Unheard /\ pc = "switch" /\ pc' = "stream"
SendsDone == uart' = uart \o <<STREAMDONECODE>> /\ Unheard /\ pc = "stream" /\ pc' # "stream"

LEMMA ControllerSends ==
  ASSUME Controller
  PROVE  \/ SendsNothing \/ SendsLight \/ SendsSleep(0) \/ SendsSleep(1)
         \/ SendsKeys \/ SendsStart \/ SendsDone
<1> USE DEF Unheard, Undimmed, Parting, NoStream, heldVars, textVars, DropEvents
<1>m. {LED_MODE_PLASMA, LED_MODE_SIDERAIN, LED_MODE_THREESINE, LED_MODE_COLORFILL}
         \subseteq 0 .. 8
  BY DEF LED_MODE_PLASMA, LED_MODE_SIDERAIN, LED_MODE_THREESINE, LED_MODE_COLORFILL
<1>1. CASE Scan
  BY <1>1 DEF Scan, SendsNothing
<1>2. CASE LockDevice
  <2>1. uart' = uart \o changeLightMode(LED_MODE_PLASMA)
    BY <1>2 DEF LockDevice, Send
  <2> QED
    BY <1>2, <1>m, <2>1 DEF LockDevice, SendsLight
<1>3. CASE SleepSave \/ BasicKeyboard \/ ChatQuery \/ ToStreamMode \/ ChatText \/ StreamIdle
           \/ StreamChar \/ StreamSave
  BY <1>3 DEF SleepSave, BasicKeyboard, ChatQuery, ToStreamMode, ChatText, StreamIdle, StreamChar,
              StreamSave, SendsNothing, lineVars
<1>4. CASE InitNFC \/ LockedNoTag \/ TagAccepted \/ InitTof \/ AsleepNobody \/ UnknownMode
  BY <1>4 DEF InitNFC, LockedNoTag, TagAccepted, InitTof, AsleepNobody, UnknownMode,
              SendsNothing, lineVars
<1>5. CASE SleepDim \/ WakeDevice
  BY <1>5 DEF SleepDim, WakeDevice, wakeLCD, lineVars, SendsNothing
<1>17. CASE SleepLights
  BY <1>17 DEF SleepLights, Send, SendsSleep
<1>6. CASE ToChatGPTMode
  <2>1. uart' = uart \o changeLightMode(LED_MODE_SIDERAIN)
    BY <1>6 DEF ToChatGPTMode, Send
  <2> QED
    BY <1>6, <1>m, <2>1 DEF ToChatGPTMode, SendsLight
<1>7. CASE ForwardKeys
  BY <1>7 DEF ForwardKeys, Send, SendsKeys, BasicBreak
<1>8. CASE ToKeyboardMode
  <2>1. uart' = uart \o changeLightMode(LED_MODE_PLASMA)
    BY <1>8 DEF ToKeyboardMode, Send
  <2> QED
    BY <1>8, <1>m, <2>1 DEF ToKeyboardMode, SendsLight
<1>9. CASE QueryKeys
  <2>1. Unheard /\ NoStream
    BY <1>9 DEF QueryKeys
  <2>2. uart' = uart \o changeLightMode(LED_MODE_THREESINE) \/ uart' = uart
    BY <1>9 DEF QueryKeys, Send
  <2> QED
    BY <1>m, <2>1, <2>2 DEF SendsLight, SendsNothing
<1>10. CASE ChatConnect
  <2>1. Unheard /\ NoStream
    BY <1>10 DEF ChatConnect
  <2>2. uart' = uart \o changeLightMode(LED_MODE_COLORFILL) \/ uart' = uart
    BY <1>10 DEF ChatConnect, Send
  <2> QED
    BY <1>m, <2>1, <2>2 DEF SendsLight, SendsNothing
<1>11. CASE ChatReply
  <2>1. Unheard /\ NoStream
    BY <1>11 DEF ChatReply
  <2>2. uart' = uart \o changeLightMode(LED_MODE_SIDERAIN) \/ uart' = uart
    BY <1>11 DEF ChatReply, Send
  <2> QED
    BY <1>m, <2>1, <2>2 DEF SendsLight, SendsNothing
<1>12. CASE StreamStart
  BY <1>12 DEF StreamStart, Send, SendsStart
<1>13. CASE StreamDone
  BY <1>13 DEF StreamDone, Send, SendsDone
<1>14. CASE StreamEnd
  <2>1. uart' = uart \o changeLightMode(LED_MODE_SIDERAIN)
    BY <1>14 DEF StreamEnd, Send
  <2> QED
    BY <1>14, <1>m, <2>1 DEF StreamEnd, SendsLight
<1>15. CASE BackToKeyboard
  <2>1. uart' = uart \o changeLightMode(LED_MODE_PLASMA)
    BY <1>15 DEF BackToKeyboard, Send
  <2> QED
    BY <1>15, <1>m, <2>1 DEF BackToKeyboard, SendsLight
<1>16. CASE WakeLights
  BY <1>16 DEF WakeLights, Send, SendsSleep
<1> QED
  BY <1>1, <1>2, <1>3, <1>4, <1>5, <1>6, <1>7, <1>8, <1>9, <1>10, <1>11, <1>12, <1>13, <1>14,
     <1>15, <1>16, <1>17 DEF Controller

LEMMA OutcomeIsTaken ==
  /\ Outcome = Taken(Base, Line)
  /\ Outcome' = Taken(Base', Line')
  BY DEF Outcome, Taken, Base, Line

LEMMA BaseTypes ==
  /\ BoardTypes => Base \in Results /\ Line \in Seq(Byte)
  /\ BoardTypes' => Base' \in Results
<1>1. 0 \in Byte
  BY DEF Byte
<1>2. ASSUME BoardTypes PROVE Base \in Results /\ Line \in Seq(Byte)
  <2>1. /\ rx \in Seq(Byte) /\ uart \in Seq(Byte) /\ report \in SUBSET Byte
        /\ sleepMode \in BOOLEAN /\ stramingResult \in BOOLEAN
    BY <1>2 DEF BoardTypes, BoardTypeOK, TypeOK, TextTypes
  <2> QED
    BY <1>1, <2>1 DEF Base, Line, Results
<1>3. ASSUME BoardTypes' PROVE Base' \in Results
  <2>1. report' \in SUBSET Byte /\ sleepMode' \in BOOLEAN /\ stramingResult' \in BOOLEAN
    BY <1>3 DEF BoardTypes, BoardTypeOK
  <2> QED
    BY <1>1, <2>1 DEF Base, Results
<1> QED
  BY <1>2, <1>3

\* The messages of a pass take effect as it reports them.
Forwarded(base, s, m, keys) ==
  /\ Complete(base, s \o m)
  /\ Taken(base, s \o m).held = keys
  /\ Taken(base, s \o m).dark = Taken(base, s).dark
  /\ Taken(base, s \o m).streaming = Taken(base, s).streaming

LEMMA KeyCodeTaken ==
  ASSUME NEW base, NEW s, Complete(base, s), NEW c \in Byte
  PROVE  /\ Forwarded(base, s, pressChar(c), Taken(base, s).held \cup {c})
         /\ Forwarded(base, s, releaseChar(c), Taken(base, s).held \ {c})
<1>1. /\ Complete(base, s \o <<KBDPRESSCODE, c>>)
      /\ Effect(Taken(base, s), Taken(base, s \o <<KBDPRESSCODE, c>>), KBDPRESSCODE, c)
  BY PairTaken
<1>2. /\ Complete(base, s \o <<KBDRELEASECODE, c>>)
      /\ Effect(Taken(base, s), Taken(base, s \o <<KBDRELEASECODE, c>>), KBDRELEASECODE, c)
  BY PairTaken
<1>3. Forwarded(base, s, pressChar(c), Taken(base, s).held \cup {c})
  BY <1>1, DistinctCodes, Zenon DEF Forwarded, Effect, pressChar
<1>4. Forwarded(base, s, releaseChar(c), Taken(base, s).held \ {c})
  BY <1>2, DistinctCodes, Zenon DEF Forwarded, Effect, releaseChar
<1> QED
  BY <1>3, <1>4

LEMMA NothingForwarded ==
  ASSUME NEW base, NEW s, Complete(base, s)
  PROVE  Forwarded(base, s, << >>, Taken(base, s).held)
<1>1. s \o << >> = s
  BY DEF Complete
<1> QED
  BY <1>1 DEF Forwarded

LEMMA KeyMessageTaken ==
  ASSUME TypeOK, NEW base, NEW s, Complete(base, s)
  PROVE  Forwarded(base, s, KeyMessage, AfterKey(Taken(base, s).held))
<1>1. input \in Byte
  BY DEF TypeOK, KeyTypes
<1>2. CASE input = NoKey
  <2>1. KeyMessage = << >> /\ AfterKey(Taken(base, s).held) = Taken(base, s).held
    BY <1>2 DEF KeyMessage, AfterKey
  <2> QED
    BY <2>1, NothingForwarded
<1>3. CASE input # NoKey /\ currentKeyState
  <2>1. /\ KeyMessage = pressChar(input)
        /\ AfterKey(Taken(base, s).held) = Taken(base, s).held \cup {input}
    BY <1>3 DEF KeyMessage, AfterKey, Report
  <2>2. Forwarded(base, s, pressChar(input), Taken(base, s).held \cup {input})
    BY <1>1, KeyCodeTaken
  <2> QED
    BY <2>1, <2>2, Zenon
<1>4. CASE input # NoKey /\ ~currentKeyState
  <2>1. /\ KeyMessage = releaseChar(input)
        /\ AfterKey(Taken(base, s).held) = Taken(base, s).held \ {input}
    BY <1>4 DEF KeyMessage, AfterKey, Report
  <2>2. Forwarded(base, s, releaseChar(input), Taken(base, s).held \ {input})
    BY <1>1, KeyCodeTaken
  <2> QED
    BY <2>1, <2>2, Zenon
<1> QED
  BY <1>2, <1>3, <1>4

LEMMA SpKeyMessageTaken ==
  ASSUME NEW base, NEW s, Complete(base, s)
  PROVE  Forwarded(base, s, SpKeyMessage, AfterSpKey(Taken(base, s).held))
<1> DEFINE c == spKeyCode[inputSpecialKeys]
<1>1. SpForwarded => c \in Byte
  BY SpKeyCodes DEF SpForwarded, Byte
<1>2. CASE ~SpForwarded
  <2>1. SpKeyMessage = << >> /\ AfterSpKey(Taken(base, s).held) = Taken(base, s).held
    BY <1>2 DEF SpKeyMessage, AfterSpKey
  <2> QED
    BY <2>1, NothingForwarded
<1>3. CASE SpForwarded /\ currentSpKeyState
  <2>1. /\ SpKeyMessage = pressChar(c)
        /\ AfterSpKey(Taken(base, s).held) = Taken(base, s).held \cup {c}
    BY <1>3 DEF SpKeyMessage, AfterSpKey, Report
  <2> HIDE DEF c
  <2>2. Forwarded(base, s, pressChar(c), Taken(base, s).held \cup {c})
    BY <1>1, <1>3, KeyCodeTaken
  <2> QED
    BY <2>1, <2>2, Zenon
<1>4. CASE SpForwarded /\ ~currentSpKeyState
  <2>1. /\ SpKeyMessage = releaseChar(c)
        /\ AfterSpKey(Taken(base, s).held) = Taken(base, s).held \ {c}
    BY <1>4 DEF SpKeyMessage, AfterSpKey, Report
  <2> HIDE DEF c
  <2>2. Forwarded(base, s, releaseChar(c), Taken(base, s).held \ {c})
    BY <1>1, <1>4, KeyCodeTaken
  <2> QED
    BY <2>1, <2>2, Zenon
<1> QED
  BY <1>2, <1>3, <1>4

\* Between the two the display has already changed and the lights have not been told.
DisplayAhead == ~lost /\ pc \in Parting => (lcdAsleep <=> pc = "dark")

\* The inductive invariant, with BoardTypes.
InFlight == LineInv /\ KeysInFlight /\ LightsInFlight /\ DisplayAhead /\ StreamInFlight

\* While a byte was lost nothing is claimed but that no loss is forgotten.
LEMMA NothingClaimed ==
  ASSUME InFlight, lost', (echoed' => echoed \/ lost')
  PROVE  InFlight'
  BY DEF InFlight, LineInv, NothingEchoed, KeysInFlight, LightsInFlight, DisplayAhead,
         StreamInFlight

LEMMA ControllerKeeps ==
  ASSUME BoardTypes, InFlight, ControllerStep
  PROVE  InFlight'
<1> DEFINE L == Line
           v == Taken(Base, L)
           w == Taken(Base', Line')
<1>1. /\ Controller /\ rx' = rx /\ lost' = lost /\ echoed' = echoed /\ Base' = Base
      /\ crowded' = crowded /\ overtyped' = overtyped
      /\ cut' = (cut /\ ~(pc = "switch" /\ pc' = "stream"))
      /\ parted' = (parted /\ pc \notin Parting)
  BY DEF ControllerStep, coVars, rxVars, bleVars, Base
<1>2. CASE lost
  BY <1>1, <1>2, NothingClaimed
<1>3. CASE ~lost
  <2>1. /\ Complete(Base, L) /\ v.command = 0 /\ ~echoed
        /\ ~crowded /\ ~overtyped => v.held = sentHeld
        /\ ~parted /\ pc \notin Parting => v.dark = lcdAsleep
        /\ pc \in Parting => (lcdAsleep <=> pc = "dark")
        /\ pc = "stream" => v.streaming
        /\ v.streaming => pc = "stream" \/ cut
    BY <1>3, OutcomeIsTaken, BaseTypes
       DEF InFlight, LineInv, KeysInFlight, LightsInFlight, DisplayAhead, StreamInFlight,
           NothingEchoed, Complete
  <2>2. \A m \in Seq(Byte) : uart' = uart \o m => Line' = L \o m
    <3>1. rx \in Seq(Byte) /\ uart \in Seq(Byte)
      BY DEF BoardTypes, BoardTypeOK, TypeOK, TextTypes
    <3> QED
      BY <1>1, <3>1, Regrouped DEF Line
  <2>3. SUFFICES /\ Complete(Base, Line')
                 /\ v.held = sentHeld => w.held = sentHeld'
                 /\ ~parted' /\ pc' \notin Parting => w.dark = lcdAsleep'
                 /\ pc' \in Parting => (lcdAsleep' <=> pc' = "dark")
                 /\ pc' = "stream" => w.streaming
                 /\ w.streaming => pc' = "stream" \/ cut'
    <3>1. w.command = 0 /\ WholeCommands(Line')
      BY <1>1, <2>3 DEF Complete
    <3>2. Outcome' = w
      BY OutcomeIsTaken
    <3> HIDE DEF v, w
    <3>3. LineInv'
      BY <1>1, <2>1, <3>1, <3>2 DEF LineInv, NothingEchoed
    <3>4. KeysInFlight'
      BY <1>1, <1>3, <2>1, <2>3, <3>1, <3>2 DEF KeysInFlight
    <3>5. LightsInFlight' /\ DisplayAhead' /\ StreamInFlight'
      BY <2>3, <3>2 DEF LightsInFlight, DisplayAhead, StreamInFlight
    <3> QED
      BY <3>3, <3>4, <3>5 DEF InFlight
  <2> HIDE DEF L
  <2>u. Undimmed /\ w.dark = v.dark
          => /\ ~parted' /\ pc' \notin Parting => w.dark = lcdAsleep'
             /\ pc' \in Parting => (lcdAsleep' <=> pc' = "dark")
    <3> HIDE DEF v, w
    <3> QED
      BY <1>1, <2>1, Zenon DEF Undimmed, Parting
  <2>4. CASE SendsNothing
    <3>1. Line' = L
      BY <1>1, <2>4 DEF SendsNothing, Line, L
    <3>2. w = v
      BY <1>1, <3>1
    <3>3. cut => cut' \/ pc' = "stream"
      BY <1>1
    <3> HIDE DEF v, w
    <3> QED
      BY <1>1, <2>1, <2>4, <2>u, <3>1, <3>2, <3>3 DEF SendsNothing, Unheard
  <2>5. CASE SendsLight
    <3>1. PICK m \in 0 .. 8 : uart' = uart \o changeLightMode(m)
      BY <2>5 DEF SendsLight
    <3>2. changeLightMode(m) \in Seq(Byte) /\ 48 + m \in Byte
      <4>1. m \in 0 .. 8
        OBVIOUS
      <4>2. 48 + m \in Byte
        BY <4>1 DEF Byte
      <4> QED
        BY <4>2, LightBytes
    <3>3. Line' = L \o <<LEDCHANGEHEADER, 48 + m>>
      BY <2>2, <3>1, <3>2 DEF changeLightMode
    <3>4. Complete(Base, Line') /\ Effect(v, w, LEDCHANGEHEADER, 48 + m)
      BY <1>1, <2>1, <3>2, <3>3, PairTaken
    <3> HIDE DEF v, w
    <3>5. w.held = v.held /\ w.dark = v.dark /\ w.streaming = v.streaming
      BY <3>4, DistinctCodes DEF Effect
    <3> QED
      BY <1>1, <2>1, <2>5, <2>u, <3>4, <3>5 DEF SendsLight, Unheard, NoStream
  <2>6. ASSUME NEW d \in {0, 1}, SendsSleep(d)
        PROVE  /\ Complete(Base, Line')
               /\ v.held = sentHeld => w.held = sentHeld'
               /\ ~parted' /\ pc' \notin Parting => w.dark = lcdAsleep'
               /\ pc' \in Parting => (lcdAsleep' <=> pc' = "dark")
               /\ pc' = "stream" => w.streaming
               /\ w.streaming => pc' = "stream" \/ cut'
    <3>1. uart' = uart \o sleepModeLight(d)
      BY <2>6 DEF SendsSleep
    <3>2. sleepModeLight(d) \in Seq(Byte) /\ 48 + d \in Byte /\ 48 + d \in {48, 49}
          /\ d \in 0 .. 8
      <4>1. 48 + d \in {48, 49} /\ d \in 0 .. 8
        OBVIOUS
      <4> QED
        BY <4>1, LightBytes, Codes
    <3>3. Line' = L \o <<LEDSLEEPMODEHEADER, 48 + d>>
      BY <2>2, <3>1, <3>2 DEF sleepModeLight
    <3>4. Complete(Base, Line') /\ Effect(v, w, LEDSLEEPMODEHEADER, 48 + d)
      BY <1>1, <2>1, <3>2, <3>3, PairTaken
    <3> HIDE DEF v, w
    <3>5. w.held = v.held /\ w.dark = (48 + d = 49) /\ w.streaming = v.streaming
      BY <3>4, DistinctCodes, Zenon DEF Effect
    <3>6. 48 + d = 49 <=> d = 1
      OBVIOUS
    <3>7. w.dark = lcdAsleep' /\ pc' \notin Parting
      <4>1. lcdAsleep \in BOOLEAN
        BY DEF BoardTypes, BoardTypeOK, TypeOK, FlagTypes
      <4>2. pc \in Parting /\ (pc = "dark" <=> d = 1)
        BY <2>6 DEF SendsSleep, Parting
      <4>3. lcdAsleep' = lcdAsleep /\ pc' \notin Parting
        BY <2>6 DEF SendsSleep
      <4>4. lcdAsleep <=> d = 1
        BY <2>1, <4>2
      <4>5. lcdAsleep = (48 + d = 49)
        BY <3>6, <4>1, <4>4, Zenon
      <4> QED
        BY <3>5, <4>3, <4>5, Zenon
    <3> QED
      BY <1>1, <2>1, <2>6, <3>4, <3>5, <3>7 DEF SendsSleep, NoStream
  <2>7. CASE SendsKeys
    <3>1. TypeOK
      BY DEF BoardTypes, BoardTypeOK
    <3>2. Forwarded(Base, L, KeyMessage, AfterKey(v.held))
      BY <2>1, <3>1, KeyMessageTaken
    <3> DEFINE k == L \o KeyMessage
    <3>3. Complete(Base, k) /\ Taken(Base, k).held = AfterKey(v.held)
          /\ Taken(Base, k).dark = v.dark /\ Taken(Base, k).streaming = v.streaming
      BY <3>2 DEF Forwarded
    <3>4. Forwarded(Base, k, SpKeyMessage, AfterSpKey(Taken(Base, k).held))
      <4> HIDE DEF k
      <4> QED
        BY <3>3, SpKeyMessageTaken
    <3>5. KeyMessage \in Seq(Byte) /\ SpKeyMessage \in Seq(Byte) /\ L \in Seq(Byte)
      BY <2>1, <3>1, MessageBytes DEF Complete
    <3>6. Line' = k \o SpKeyMessage
      <4>1. KeyMessage \o SpKeyMessage \in Seq(Byte)
        BY <3>5
      <4>2. Line' = L \o (KeyMessage \o SpKeyMessage)
        BY <2>2, <2>7, <4>1 DEF SendsKeys
      <4> QED
        BY <3>5, <4>2, Regrouped
    <3> HIDE DEF k
    <3>7. Complete(Base, Line') /\ w.held = AfterSpKey(AfterKey(v.held))
          /\ w.dark = v.dark /\ w.streaming = v.streaming
      BY <1>1, <3>3, <3>4, <3>6 DEF Forwarded
    <3> HIDE DEF v, w
    <3>8. v.held = sentHeld => w.held = sentHeld'
      BY <2>7, <3>7, Zenon DEF SendsKeys
    <3> QED
      BY <1>1, <2>1, <2>7, <2>u, <3>7, <3>8 DEF SendsKeys, NoStream
  <2>8. CASE SendsStart
    <3> DEFINE m == changeLightMode(LED_MODE_SLANTBAR)
               k == L \o <<LEDCHANGEHEADER, 48 + LED_MODE_SLANTBAR>>
    <3>1. 48 + LED_MODE_SLANTBAR \in Byte
      BY DEF Byte, LED_MODE_SLANTBAR
    <3>2. Complete(Base, k) /\ Effect(v, Taken(Base, k), LEDCHANGEHEADER, 48 + LED_MODE_SLANTBAR)
      BY <2>1, <3>1, PairTaken
    <3>3. /\ m \o <<STREAMSTARTCODE>> \in Seq(Byte) /\ m \in Seq(Byte)
          /\ <<STREAMSTARTCODE>> \in Seq(Byte) /\ L \in Seq(Byte)
      <4>1. LED_MODE_SLANTBAR \in 0 .. 8
        BY DEF LED_MODE_SLANTBAR
      <4> QED
        BY <2>1, <4>1, LightBytes, Codes DEF Complete
    <3>4. Line' = L \o (m \o <<STREAMSTARTCODE>>)
      <4> HIDE DEF m
      <4> QED
        BY <2>2, <2>8, <3>3 DEF SendsStart, m
    <3>5. Line' = k \o <<STREAMSTARTCODE>>
      <4>1. k = L \o m
        BY DEF changeLightMode
      <4> HIDE DEF m, k
      <4> QED
        BY <3>3, <3>4, <4>1, Regrouped
    <3> HIDE DEF k
    <3>6. /\ Complete(Base, Line') /\ w.held = Taken(Base, k).held
          /\ w.dark = Taken(Base, k).dark /\ w.streaming
      BY <1>1, <3>2, <3>5, SingleTaken
    <3> HIDE DEF v, w
    <3>7. w.held = v.held /\ w.dark = v.dark
      BY <3>2, <3>6, DistinctCodes DEF Effect
    <3> QED
      BY <2>1, <2>8, <2>u, <3>6, <3>7 DEF SendsStart, Unheard
  <2>9. CASE SendsDone
    <3>1. <<STREAMDONECODE>> \in Seq(Byte)
      BY Codes
    <3>2. Line' = L \o <<STREAMDONECODE>>
      BY <2>2, <2>9, <3>1 DEF SendsDone
    <3>3. Complete(Base, Line') /\ w.held = v.held /\ w.dark = v.dark /\ ~w.streaming
      BY <1>1, <2>1, <3>2, SingleTaken, DistinctCodes
    <3> HIDE DEF v, w
    <3> QED
      BY <2>1, <2>9, <2>u, <3>3 DEF SendsDone, Unheard
  <2> QED
    BY <1>1, <2>4, <2>5, <2>6, <2>7, <2>8, <2>9, ControllerSends
<1> QED
  BY <1>2, <1>3

LEMMA InFlightInit ==
  ASSUME BoardInit
  PROVE  InFlight
<1>1. /\ Line = << >> /\ ~echoed /\ pc = "scan" /\ pc \notin Parting /\ sentHeld = {}
      /\ lcdAsleep = FALSE
      /\ report = {} /\ sleepMode = FALSE /\ stramingResult = FALSE
  <2>1. << >> \o << >> = << >>
    BY Behind
  <2> QED
    BY <2>1 DEF BoardInit, Init, CoInit, Line, Parting
<1>2. Base \in Results
  BY BoardTypeInit, BaseTypes
<1>3. Outcome = Base
  BY <1>1, <1>2, OutcomeIsTaken, TakenNothing DEF Taken
<1>4. WholeCommands(Line)
  BY <1>1, ParsedNothing DEF WholeCommands, Expected
<1>5. Base.held = {} /\ Base.dark = FALSE /\ Base.streaming = FALSE /\ Base.command = 0
  BY <1>1 DEF Base
<1> QED
  BY <1>1, <1>3, <1>4, <1>5
     DEF InFlight, LineInv, NothingEchoed, KeysInFlight, LightsInFlight, DisplayAhead,
         StreamInFlight

\* A step that leaves the line and what was taken from it alone.
LEMMA QuietKeeps ==
  ASSUME InFlight, Line' = Line, Base' = Base,
         UNCHANGED <<crowded, overtyped, echoed, sentHeld, lcdAsleep>>, lost' <=> lost,
         \/ UNCHANGED <<pc, cut, parted>>
         \/ /\ pc' \notin Parting \cup {"stream"} /\ cut' = (cut \/ pc = "stream")
            /\ parted' = (parted \/ pc \in Parting)
  PROVE  InFlight'
<1>1. Outcome' = Outcome
  BY OutcomeIsTaken
<1>2. LineInv' /\ KeysInFlight'
  BY <1>1 DEF InFlight, LineInv, NothingEchoed, KeysInFlight
<1>4. LightsInFlight' /\ DisplayAhead'
  BY <1>1 DEF InFlight, LightsInFlight, DisplayAhead
<1>3. StreamInFlight'
  BY <1>1 DEF InFlight, StreamInFlight
<1> QED
  BY <1>2, <1>3, <1>4 DEF InFlight

LEMMA ResetKeeps ==
  ASSUME InFlight, ControllerReset
  PROVE  InFlight'
<1>1. /\ uart' = << >> /\ pc' = "scan" /\ lost' = (lost \/ uart # << >>)
      /\ cut' = (cut \/ pc = "stream") /\ parted' = (parted \/ pc \in Parting)
      /\ Base' = Base /\ rx' = rx /\ pc' \notin Parting \cup {"stream"}
      /\ UNCHANGED <<crowded, overtyped, echoed, sentHeld, lcdAsleep>>
  BY DEF ControllerReset, Reset, coVars, rxVars, bleVars, Base, Parting
<1>2. CASE lost'
  BY <1>1, <1>2, NothingClaimed
<1>3. CASE ~lost'
  <2>1. uart = << >> /\ ~lost
    BY <1>1, <1>3
  <2>2. Line' = Line
    BY <1>1, <2>1 DEF Line
  <2> QED
    BY <1>1, <1>3, <2>1, <2>2, QuietKeeps
<1> QED
  BY <1>2, <1>3

LEMMA TransmitByteKeeps ==
  ASSUME BoardTypes, InFlight, TransmitByte
  PROVE  InFlight'
<1>1. /\ uart # << >> /\ uart' = Tail(uart) /\ rx' = Received(rx, Head(uart), RxRoom)
      /\ lost' = (lost \/ Len(rx) = RxRoom) /\ Base' = Base
      /\ UNCHANGED <<pc, cut, parted, crowded, overtyped, echoed, sentHeld, lcdAsleep>>
  BY DEF TransmitByte, bleVars, textVars, heldVars, Base
<1>2. CASE lost'
  BY <1>1, <1>2, NothingClaimed
<1>3. CASE ~lost'
  <2>1. /\ rx \in Seq(Byte) /\ uart \in Seq(Byte) /\ Len(rx) <= RxRoom /\ RxRoom \in Nat
        /\ lost \in BOOLEAN
    BY RoomAssumption DEF BoardTypes, BoardTypeOK, TypeOK, TextTypes
  <2>2. ~lost /\ Len(rx) # RxRoom
    BY <1>1, <1>3
  <2>3. rx' = Append(rx, Head(uart))
    BY <1>1, <2>1, <2>2 DEF Received
  <2>4. Line' = Line
    BY <1>1, <2>1, <2>3, Moved DEF Line
  <2> QED
    BY <1>1, <1>3, <2>2, <2>4, QuietKeeps
<1> QED
  BY <1>2, <1>3

-----------------------------------------------------------------------------
(* What a step of the coprocessor takes off the line *)

\* The step takes a whole command, and nothing else happens to what is on its way.
LEMMA TakenKeeps ==
  ASSUME InFlight, ~lost, UNCHANGED <<pc, cut, parted, lost, echoed, sentHeld, lcdAsleep>>,
         crowded => crowded', overtyped => overtyped',
         WholeCommands(Line'), Rest(Outcome') = Rest(Outcome),
         ~crowded' /\ ~overtyped' => Outcome'.held = Outcome.held
  PROVE  InFlight'
<1>1. /\ Outcome'.command = Outcome.command /\ Outcome'.dark = Outcome.dark
      /\ Outcome'.streaming = Outcome.streaming
  BY DEF Rest
<1>2. LineInv' /\ KeysInFlight'
  BY <1>1 DEF InFlight, LineInv, NothingEchoed, KeysInFlight
<1>3. LightsInFlight' /\ DisplayAhead' /\ StreamInFlight'
  BY <1>1 DEF InFlight, LightsInFlight, DisplayAhead, StreamInFlight
<1> QED
  BY <1>2, <1>3 DEF InFlight

LEMMA FirstOfLine ==
  ASSUME BoardTypes, InFlight, ~lost, rx # << >>
  PROVE  /\ Line # << >> /\ Line \in Seq(Byte) /\ WholeCommands(Line) /\ Base \in Results
         /\ Head(Line) = Head(rx) /\ Tail(Line) = Tail(rx) \o uart
         /\ rx \in Seq(Byte) /\ uart \in Seq(Byte) /\ Base.command = 0
<1>1. rx \in Seq(Byte) /\ uart \in Seq(Byte)
  BY DEF BoardTypes, BoardTypeOK, TypeOK, TextTypes
<1> QED
  BY <1>1, Joined, BaseTypes DEF InFlight, LineInv, Line, Base

\* A command with an argument is taken together with it.
LEMMA PairComes ==
  ASSUME BoardTypes, InFlight, ~lost, rx # << >>, HasArgument(uart = << >>),
         NEW c \in {KBDPRESSCODE, KBDRELEASECODE, LEDCHANGEHEADER, LEDSLEEPMODEHEADER},
         Head(rx) = c, rx' = DropCommand, uart' = uart
  PROVE  /\ Argument \in Byte /\ (c = LEDSLEEPMODEHEADER => Argument \in {48, 49})
         /\ WholeCommands(Line') /\ Line' \in Seq(Byte)
         /\ \E w \in Results : Effect(Base, w, c, Argument) /\ Outcome = Taken(w, Line')
<1>1. /\ Line # << >> /\ Line \in Seq(Byte) /\ WholeCommands(Line) /\ Base \in Results
      /\ Head(Line) = c /\ Tail(Line) = Tail(rx) \o uart
      /\ rx \in Seq(Byte) /\ uart \in Seq(Byte) /\ Base.command = 0
  BY FirstOfLine
<1>2. /\ Tail(Line) # << >> /\ WholeCommands(Tail(Tail(Line)))
      /\ c = LEDSLEEPMODEHEADER => Head(Tail(Line)) \in {48, 49}
  BY <1>1, FirstCommand, DistinctCodes
<1>3. Len(rx) >= 2
  <2> SUFFICES ASSUME uart = << >>, ~(Len(rx) >= 2) PROVE FALSE
    BY DEF HasArgument
  <2>1. Tail(rx) = << >>
    BY <1>1
  <2>2. << >> \o << >> = << >>
    BY Behind
  <2> QED
    BY <1>1, <1>2, <2>1, <2>2
<1>4. /\ Tail(rx) \in Seq(Byte) /\ Tail(rx) # << >> /\ Head(Tail(rx)) = rx[2]
      /\ DropCommand = Tail(Tail(rx))
  <2>1. Len(rx) \in Nat /\ Tail(rx) \in Seq(Byte) /\ Len(Tail(rx)) = Len(rx) - 1
        /\ Head(Tail(rx)) = rx[2]
    BY <1>1, <1>3
  <2>2. Tail(rx) # << >>
    BY <1>3, <2>1
  <2>3. DropCommand = Tail(Tail(rx))
    BY <1>1, <1>3 DEF DropCommand
  <2> QED
    BY <2>1, <2>2, <2>3
<1>5. Head(Tail(Line)) = Argument /\ Tail(Tail(Line)) = Line'
  <2>1. Argument = rx[2]
    BY <1>3 DEF Argument
  <2> QED
    BY <1>1, <1>4, <2>1, Joined DEF Line
<1>6. Tail(Line) \in Seq(Byte) /\ Line' \in Seq(Byte) /\ Argument \in Byte
  <2>1. Tail(Line) \in Seq(Byte)
    BY <1>1
  <2>2. Head(Tail(Line)) \in Byte /\ Tail(Tail(Line)) \in Seq(Byte)
    BY <1>2, <2>1
  <2> QED
    BY <1>5, <2>1, <2>2
<1> DEFINE u == Take(Base, c)
           w == Take(u, Argument)
<1>7. u \in Results /\ w \in Results /\ Effect(Base, w, c, Argument)
  BY <1>1, <1>6, TakeTwo
<1>8. Outcome = Taken(u, Tail(Line))
  BY <1>1, OutcomeIsTaken, TakenFirst DEF Taken
<1> HIDE DEF u
<1>9. Taken(u, Tail(Line)) = Taken(w, Line')
  BY <1>2, <1>5, <1>6, <1>7, TakenFirst DEF Taken
<1> HIDE DEF w
<1> QED
  BY <1>2, <1>5, <1>6, <1>7, <1>8, <1>9

\* The result is that of what was taken: all of it, or all but the keys held when a press
\* found no room or a stream typed over a key.
LEMMA SameOutcome ==
  ASSUME BoardTypes', NEW w \in Results, Outcome = Taken(w, Line'), Line' \in Seq(Byte),
         Rest(Base') = Rest(w), ~crowded' /\ ~overtyped' => report' = w.held
  PROVE  /\ Rest(Outcome') = Rest(Outcome)
         /\ ~crowded' /\ ~overtyped' => Outcome'.held = Outcome.held
<1>1. Base' \in Results /\ Outcome' = Taken(Base', Line')
  BY BaseTypes, OutcomeIsTaken
<1>2. Rest(Outcome') = Rest(Outcome)
  BY <1>1, HeldApart
<1>3. ASSUME report' = w.held PROVE Base' = w
  <2>1. Base'.held = report'
    BY DEF Base
  <2>2. Base'.dark = w.dark /\ Base'.streaming = w.streaming /\ Base'.command = w.command
    BY DEF Rest
  <2> QED
    BY <1>1, <1>3, <2>1, <2>2, SameResults
<1> QED
  BY <1>1, <1>2, <1>3

LEMMA CoprocessorKeeps ==
  ASSUME BoardTypes, BoardTypes', InFlight, CoprocessorStep
  PROVE  InFlight'
<1> DEFINE silent == uart = << >>
           debugSilent == serial = << >>
<1>1. /\ UNCHANGED <<pc, cut, parted, lost, sentHeld, lcdAsleep>> /\ uart' = uart
      /\ Coprocess(silent, debugSilent)
  BY DEF CoprocessorStep, vars, heldVars, textVars, linkVars, lineVars
<1>2. CASE lost
  BY <1>1, <1>2, NothingClaimed
<1>3. ASSUME ~lost, EnterCommands \/ EnterTyping \/ EndPass
      PROVE  InFlight'
  <2>1. UNCHANGED <<rx, report, sleepMode, stramingResult, crowded, overtyped, echoed>>
    BY <1>3 DEF EnterCommands, EnterTyping, EndPass, rxVars, bleVars
  <2>2. Line' = Line /\ Base' = Base
    BY <1>1, <2>1 DEF Line, Base
  <2> QED
    BY <1>1, <2>1, <2>2, QuietKeeps
<1>4. ASSUME ~lost, TypeChar
      PROVE  InFlight'
  <2>1. /\ UNCHANGED <<rx, sleepMode, stramingResult, echoed>>
        /\ \/ UNCHANGED <<report, crowded, overtyped>>
           \/ \E text : /\ report' = report \ text /\ crowded' = crowded
                        /\ (overtyped \/ report \cap text # {}) => overtyped'
    BY <1>4, Zenon DEF TypeChar, write, SendReport
  <2>2. /\ overtyped => overtyped'
        /\ crowded' = crowded
        /\ ~crowded' /\ ~overtyped' => report' = report
    <3>1. \A text : report \cap text = {} => report \ text = report
      OBVIOUS
    <3>2. CASE UNCHANGED <<report, crowded, overtyped>>
      BY <3>2
    <3>3. CASE \E text : /\ report' = report \ text /\ crowded' = crowded
                         /\ (overtyped \/ report \cap text # {}) => overtyped'
      <4>1. PICK text : /\ report' = report \ text /\ crowded' = crowded
                        /\ (overtyped \/ report \cap text # {}) => overtyped'
        BY <3>3
      <4> QED
        BY <3>1, <4>1, Zenon
    <3> QED
      BY <2>1, <3>2, <3>3, Zenon
  <2>3. Line' = Line
    BY <1>1, <2>1 DEF Line
  <2>4. Rest(Base') = Rest(Base) /\ Base.held = report
    BY <2>1 DEF Rest, Base
  <2>5. WholeCommands(Line') /\ Line' \in Seq(Byte) /\ Base \in Results
        /\ Outcome = Taken(Base, Line')
    BY <1>4, <2>3, BaseTypes, OutcomeIsTaken DEF InFlight, LineInv
  <2>6. /\ Rest(Outcome') = Rest(Outcome)
        /\ ~crowded' /\ ~overtyped' => Outcome'.held = Outcome.held
    BY <2>2, <2>4, <2>5, SameOutcome
  <2> QED
    BY <1>1, <1>4, <2>1, <2>2, <2>5, <2>6, TakenKeeps
<1>5. ASSUME ~lost, NEW c \in {KBDPRESSCODE, KBDRELEASECODE, LEDCHANGEHEADER, LEDSLEEPMODEHEADER},
             Command, Head(rx) = c, HasArgument(silent), rx' = DropCommand,
             UNCHANGED <<stramingResult, overtyped, echoed>>, crowded => crowded',
             IF c = LEDSLEEPMODEHEADER THEN Argument \in {48, 49} => sleepMode' = (Argument = 49)
             ELSE sleepMode' = sleepMode,
             ~crowded' => report' = IF c = KBDPRESSCODE THEN report \cup {Argument}
                                    ELSE IF c = KBDRELEASECODE THEN report \ {Argument}
                                    ELSE report
      PROVE  InFlight'
  <2>1. rx # << >>
    BY <1>5 DEF Command
  <2>2. /\ c = LEDSLEEPMODEHEADER => Argument \in {48, 49}
        /\ WholeCommands(Line') /\ Line' \in Seq(Byte)
    BY <1>1, <1>5, <2>1, PairComes
  <2>3. PICK w \in Results : Effect(Base, w, c, Argument) /\ Outcome = Taken(w, Line')
    BY <1>1, <1>5, <2>1, PairComes
  <2>4. /\ Base.held = report /\ Base.dark = sleepMode /\ Base.streaming = stramingResult
        /\ Base'.dark = sleepMode' /\ Base'.streaming = stramingResult'
        /\ Base'.command = 0
    BY DEF Base
  <2>5. /\ w.command = 0 /\ w.streaming = stramingResult
        /\ w.held = (IF c = KBDPRESSCODE THEN report \cup {Argument}
                     ELSE IF c = KBDRELEASECODE THEN report \ {Argument} ELSE report)
    BY <2>3, <2>4 DEF Effect
  <2>6. w.dark = sleepMode'
    <3>1. CASE c = LEDSLEEPMODEHEADER
      <4>1. w.dark = (Argument = 49)
        BY <2>3, <3>1, Zenon DEF Effect
      <4>2. sleepMode' = (Argument = 49)
        BY <1>5, <2>2, <3>1, Zenon
      <4> QED
        BY <4>1, <4>2, Zenon
    <3>2. CASE c # LEDSLEEPMODEHEADER
      <4>1. w.dark = Base.dark
        BY <2>3, <3>2, Zenon DEF Effect
      <4>2. sleepMode' = sleepMode
        BY <1>5, <3>2, Zenon
      <4> QED
        BY <2>4, <4>1, <4>2, Zenon
    <3> QED
      BY <3>1, <3>2
  <2>7. Rest(Base') = Rest(w)
    BY <1>5, <2>4, <2>5, <2>6 DEF Rest
  <2>8. ~crowded' /\ ~overtyped' => report' = w.held
    BY <1>5, <2>5
  <2>9. /\ Rest(Outcome') = Rest(Outcome)
        /\ ~crowded' /\ ~overtyped' => Outcome'.held = Outcome.held
    BY <2>2, <2>3, <2>7, <2>8, SameOutcome
  <2>10. UNCHANGED <<pc, cut, parted, lost, echoed, sentHeld, lcdAsleep>>
         /\ (overtyped => overtyped')
    BY <1>1, <1>5
  <2> QED
    BY <1>5, <2>2, <2>9, <2>10, TakenKeeps
<1>6. ASSUME ~lost, PressKey(silent)
      PROVE  InFlight'
  <2>1. /\ Command /\ Head(rx) = KBDPRESSCODE /\ HasArgument(silent) /\ rx' = DropCommand
        /\ UNCHANGED <<stramingResult, overtyped, echoed>> /\ sleepMode' = sleepMode
    BY <1>6 DEF PressKey
  <2>2. (crowded => crowded') /\ (~crowded' => report' = report \cup {Argument})
    BY <1>6 DEF PressKey, press, SendReport
  <2> QED
    BY <1>5, <1>6, <2>1, <2>2, DistinctCodes
<1>7. ASSUME ~lost, ReleaseKey(silent)
      PROVE  InFlight'
  <2>1. /\ Command /\ Head(rx) = KBDRELEASECODE /\ HasArgument(silent) /\ rx' = DropCommand
        /\ UNCHANGED <<stramingResult, overtyped, echoed>> /\ sleepMode' = sleepMode
    BY <1>7 DEF ReleaseKey
  <2>2. crowded' = crowded /\ report' = report \ {Argument}
    BY <1>7 DEF ReleaseKey, release, SendReport
  <2> QED
    BY <1>5, <1>7, <2>1, <2>2, DistinctCodes
<1>8. ASSUME ~lost, LightMode(silent)
      PROVE  InFlight'
  <2>1. /\ Command /\ Head(rx) = LEDCHANGEHEADER /\ HasArgument(silent) /\ rx' = DropCommand
        /\ UNCHANGED <<stramingResult, overtyped, echoed>> /\ sleepMode' = sleepMode
        /\ crowded' = crowded /\ report' = report
    BY <1>8 DEF LightMode, bleVars
  <2> QED
    BY <1>5, <1>8, <2>1, DistinctCodes
<1>9. ASSUME ~lost, LightSleep(silent)
      PROVE  InFlight'
  <2>1. /\ Command /\ Head(rx) = LEDSLEEPMODEHEADER /\ HasArgument(silent) /\ rx' = DropCommand
        /\ UNCHANGED <<stramingResult, overtyped, echoed>>
        /\ crowded' = crowded /\ report' = report
    BY <1>9, Zenon DEF LightSleep, bleVars
  <2>2. Argument \in {48, 49} => sleepMode' = (Argument = 49)
    <3>1. Argument = 49 => sleepMode' = TRUE
      BY <1>9 DEF LightSleep
    <3>2. Argument = 48 => sleepMode' = FALSE
      BY <1>9 DEF LightSleep
    <3>3. (48 = 49) = FALSE /\ (49 = 49) = TRUE
      OBVIOUS
    <3> QED
      BY <3>1, <3>2, <3>3, Zenon
  <2> QED
    BY <1>5, <1>9, <2>1, <2>2, DistinctCodes
<1>10. ASSUME ~lost, NEW c \in {STREAMSTARTCODE, STREAMDONECODE},
              Command, Head(rx) = c, rx' = Tail(rx),
              UNCHANGED <<sleepMode, bleVars, overtyped, echoed>>,
              stramingResult' = (c = STREAMSTARTCODE)
       PROVE  InFlight'
  <2>1. rx # << >>
    BY <1>10 DEF Command
  <2>2. /\ Line # << >> /\ Line \in Seq(Byte) /\ WholeCommands(Line) /\ Base \in Results
        /\ Head(Line) = c /\ Tail(Line) = Tail(rx) \o uart /\ Base.command = 0
    BY <1>10, <2>1, FirstOfLine
  <2>3. Line' = Tail(Line)
    BY <1>1, <1>10, <2>2 DEF Line
  <2>4. WholeCommands(Line') /\ Line' \in Seq(Byte)
    BY <2>2, <2>3, FirstCommand, DistinctCodes
  <2> DEFINE w == Take(Base, c)
  <2>5. Outcome = Taken(w, Line')
    BY <2>2, <2>3, OutcomeIsTaken, TakenFirst DEF Taken
  <2>6. /\ w \in Results /\ w.command = 0 /\ w.held = report /\ w.dark = sleepMode
        /\ w.streaming <=> c = STREAMSTARTCODE
    BY <2>2, TakeOne DEF Base
  <2> HIDE DEF w
  <2>7. Rest(Base') = Rest(w)
    <3>1. w.streaming = stramingResult'
      BY <1>10, <2>6 DEF Results
    <3> QED
      BY <1>10, <2>6, <3>1 DEF Rest, Base
  <2>8. report' = w.held /\ crowded' = crowded
        /\ UNCHANGED <<pc, cut, parted, lost, echoed, sentHeld, lcdAsleep>>
        /\ overtyped' = overtyped
    BY <1>1, <1>10, <2>6 DEF bleVars
  <2>9. /\ Rest(Outcome') = Rest(Outcome)
        /\ ~crowded' /\ ~overtyped' => Outcome'.held = Outcome.held
    BY <2>4, <2>5, <2>6, <2>7, <2>8, SameOutcome
  <2> QED
    BY <1>10, <2>4, <2>8, <2>9, TakenKeeps
<1>11. ASSUME ~lost, StreamBegin(debugSilent)
       PROVE  InFlight'
  BY <1>10, <1>11, DistinctCodes DEF StreamBegin
<1>12. ASSUME ~lost, StreamFinish(debugSilent)
       PROVE  InFlight'
  BY <1>10, <1>12, DistinctCodes DEF StreamFinish
<1>13. ASSUME ~lost, EchoByte
       PROVE  InFlight'
  <2>1. rx # << >> /\ Head(rx) \notin {KBDPRESSCODE, KBDRELEASECODE, LEDCHANGEHEADER,
                                       LEDSLEEPMODEHEADER, STREAMSTARTCODE, STREAMDONECODE}
    BY <1>13 DEF EchoByte, Command
  <2> QED
    BY <1>13, <2>1, FirstOfLine, FirstCommand
<1> QED
  BY <1>1, <1>2, <1>3, <1>4, <1>6, <1>7, <1>8, <1>9, <1>11, <1>12, <1>13 DEF Coprocess

LEMMA InFlightStep ==
  ASSUME BoardTypes, InFlight, [BoardNext]_boardVars
  PROVE  InFlight'
<1>1. CASE Key \/ TransmitDebug \/ Connection \/ UNCHANGED boardVars
  <2>1. /\ UNCHANGED <<rx, uart, report, sleepMode, stramingResult, pc, cut, parted>>
        /\ UNCHANGED <<lost, crowded, overtyped, echoed, sentHeld, lcdAsleep>>
    BY <1>1 DEF Key, PinChange, TransmitDebug, Connection, Connect, boardVars, vars, lineVars,
                linkVars, textVars, heldVars, coVars, rxVars, bleVars
  <2>2. Line' = Line /\ Base' = Base
    BY <2>1 DEF Line, Base
  <2> QED
    BY <2>1, <2>2, QuietKeeps
<1>2. CASE CoprocessorStep
  BY <1>2, BoardTypeStep, CoprocessorKeeps
<1> QED
  BY <1>1, <1>2, ControllerKeeps, ResetKeeps, TransmitByteKeeps DEF BoardNext

LEMMA BoardInductive == BoardSpec => [](BoardTypes /\ InFlight)
<1>1. BoardInit => BoardTypes /\ InFlight
  BY BoardTypeInit, InFlightInit
<1>2. BoardTypes /\ InFlight /\ [BoardNext]_boardVars => (BoardTypes /\ InFlight)'
  BY BoardTypeStep, InFlightStep
<1> QED
  BY <1>1, <1>2, PTL DEF BoardSpec

\* However the two programs interleave, the coprocessor takes every byte that was not lost
\* for what it was sent as, and so never sends one back on the debug line (main.cpp of the
\* coprocessor, 335-341).
THEOREM NothingIsEchoed == BoardSpec => []NothingEchoed
<1>1. InFlight => NothingEchoed
  BY DEF InFlight, LineInv
<1> QED
  BY <1>1, BoardInductive, PTL

\* Once what is on its way is taken, the keys the computer is told of are those the
\* controller reported, for any number of keys, of restarts and of bytes under way
\* (Coprocessor.h:36-72, main.cpp of the coprocessor, 253-283).
THEOREM KeysFollow == BoardSpec => []KeysInFlight
<1>1. InFlight => KeysInFlight
  BY DEF InFlight
<1> QED
  BY <1>1, BoardInductive, PTL

\* The lights go dark and come back with the display (logic.h:70-97), whatever is pressed and
\* wherever restarts fall, but for a restart between the two, whose trace the next whole sleep
\* or wake-up removes.
THEOREM LightsFollow == BoardSpec => []LightsInFlight
<1>1. InFlight => LightsInFlight
  BY DEF InFlight
<1> QED
  BY <1>1, BoardInductive, PTL

\* The coprocessor types the debug line only while the controller streams, or after a
\* restart in the middle of a stream (Coprocessor.h:82-97).
THEOREM StreamFollows == BoardSpec => []StreamInFlight
<1>1. InFlight => StreamInFlight
  BY DEF InFlight
<1> QED
  BY <1>1, BoardInductive, PTL
=============================================================================
