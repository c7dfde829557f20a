---------------------------- MODULE PanelProofs ----------------------------
(***************************************************************************)
(* Proofs about Panel, for any clock, timeouts, modes and bounds: the      *)
(* counter is saved in time although millis() wraps, and what the          *)
(* controller takes from the display is what it asked for.                 *)
(***************************************************************************)
EXTENDS Integers, Panel, FoldTheorems

-----------------------------------------------------------------------------
(* The clock *)

LEMMA Remainder ==
  ASSUME NEW M \in Nat, M > 0
  PROVE  /\ \A a \in Nat : a < M => a % M = a
         /\ \A a \in Nat : M <= a /\ a < 2 * M => a % M = a - M
<1>1. M \in Nat /\ M > 0
  OBVIOUS
<1>2. ASSUME NEW a \in Nat PROVE a = M * (a \div M) + (a % M) /\ a % M \in 0 .. (M - 1) /\ a \div M \in Int
  BY <1>1
<1>3. ASSUME NEW w \in Nat, NEW q \in Int, NEW k \in Int, q >= k PROVE w * q >= w * k
  <2>1. w * (q - k) >= 0
    <3>1. q - k \in Nat
      BY <1>3
    <3> QED
      BY <3>1
  <2>2. w * q = w * k + w * (q - k)
    OBVIOUS
  <2> DEFINE x == w * q
             y == w * k
             z == w * (q - k)
  <2>3. x \in Int /\ y \in Int /\ z \in Int
    OBVIOUS
  <2> HIDE DEF x, y, z
  <2>4. x = y + z /\ z >= 0
    BY <2>1, <2>2 DEF x, y, z
  <2>5. x >= y
    BY <2>3, <2>4
  <2> QED
    BY <2>5 DEF x, y
<1>4. ASSUME NEW a \in Nat, NEW k \in {0, 1}, M * k <= a, a < M * k + M
      PROVE  a % M = a - M * k
  <2> DEFINE q == a \div M
             r == a % M
  <2>1. a = M * q + r /\ r \in 0 .. (M - 1) /\ q \in Int
    BY <1>2
  <2> HIDE DEF q, r
  <2>2. M * (k + 1) = M * k + M /\ M * (k - 1) = M * k - M
    BY <1>1
  <2>3. M * k \in Int /\ M * q \in Int
    BY <1>1, <2>1
  <2>4. ~(q >= k + 1)
    <3>1. q >= k + 1 => M * q >= M * k + M
      BY <1>1, <1>3, <2>1, <2>2
    <3> QED
      BY <1>1, <1>4, <2>1, <2>3, <3>1
  <2>5. ~(k - 1 >= q)
    <3>1. k - 1 >= q => M * k - M >= M * q
      BY <1>1, <1>3, <2>1, <2>2
    <3> QED
      BY <1>1, <1>4, <2>1, <2>3, <3>1
  <2>6. q = k
    BY <2>1, <2>4, <2>5
  <2>7. r = a - M * k
    BY <1>1, <2>1, <2>3, <2>6
  <2> QED
    BY <2>7 DEF r
<1>5. M * 0 = 0 /\ M * 1 = M
  BY <1>1
<1> QED
  BY <1>1, <1>4, <1>5

LEMMA Wraps ==
  /\ \A a \in Nat : a < W => a % W = a
  /\ \A a \in Nat : W <= a /\ a < 2 * W => a % W = a - W
BY Remainder, LoopAssumption

\* The clock goes round, and a difference undoes it.
LEMMA ClockGoesRound ==
  ASSUME NEW m \in 0 .. (W - 1), NEW t \in 0 .. (W - 1), NEW d \in Nat, d < W,
         m = t + d \/ m = t + d - W
  PROVE  /\ Minus(m, t) = d
         /\ Plus(m, 1) \in 0 .. (W - 1)
         /\ Plus(m, 1) = t + (d + 1) \/ Plus(m, 1) = t + (d + 1) - W
<1>1. W \in Nat /\ W > 0
  BY LoopAssumption
<1>2. m + W - t \in Nat /\ m + 1 \in Nat
  BY <1>1
<1>3. (m + W - t) % W = d
  <2>1. CASE m = t + d
    <3>1. m + W - t = d + W
      BY <1>1, <2>1
    <3> DEFINE x == m + W - t
    <3>2. W <= x /\ x < 2 * W /\ x \in Nat /\ x - W = d
      BY <1>1, <3>1
    <3> HIDE DEF x
    <3>3. x % W = x - W
      BY <3>2, Wraps
    <3> QED
      BY <3>2, <3>3 DEF x
  <2>2. CASE m = t + d - W
    <3>1. m + W - t = d
      BY <1>1, <2>2
    <3>2. d % W = d
      BY Wraps
    <3> QED
      BY <3>1, <3>2
  <2> QED
    BY <2>1, <2>2
<1>4. CASE m + 1 < W
  <2>1. (m + 1) % W = m + 1
    BY <1>2, <1>4, Wraps
  <2> QED
    BY <1>1, <1>3, <1>4, <2>1 DEF Plus, Minus
<1>5. CASE m + 1 = W
  <2>1. (m + 1) % W = m + 1 - W
    BY <1>1, <1>2, <1>5, Wraps
  <2> QED
    BY <1>1, <1>3, <1>5, <2>1 DEF Plus, Minus
<1> QED
  BY <1>1, <1>4, <1>5

-----------------------------------------------------------------------------
(* The counter is saved in time *)

\* The time since the last save, as it is and as the wrapped clock shows it.
CounterClock ==
  /\ millis \in 0 .. (W - 1) /\ timerSaveKeycount \in 0 .. (W - 1)
  /\ ticks \in 0 .. MaxPass /\ age \in Nat
  /\ millis = timerSaveKeycount + age \/ millis = timerSaveKeycount + age - W

\* A pass that saves began at most a pass after the interval ended; one that does not began
\* before it ended.
SaveIsNear ==
  age <= intervalSaveKeycount + ticks + (IF pc = "saving" THEN MaxPass ELSE 0)

TimelyInv == CounterClock /\ SaveIsNear

LEMMA AgeIsBounded ==
  ASSUME TimelyInv
  PROVE  age <= intervalSaveKeycount + 2 * MaxPass /\ age < W
BY LoopAssumption, CounterAssumption, IntervalAssumption DEF TimelyInv, CounterClock, SaveIsNear

LEMMA TimelyInit == PanelInit => TimelyInv
<1> SUFFICES ASSUME PanelInit PROVE TimelyInv
  OBVIOUS
<1>1. millis \in 0 .. (W - 1)
  <2>1. 0 + W - 2 \in Int /\ W \in Nat \ {0}
    BY LoopAssumption
  <2>2. Minus(0, 2) \in 0 .. (W - 1)
    BY <2>1 DEF Minus
  <2>3. 0 \in 0 .. (W - 1)
    BY <2>1
  <2> QED
    BY <2>2, <2>3 DEF PanelInit
<1> QED
  BY <1>1, LoopAssumption, CounterAssumption
  DEF PanelInit, CounterInit, TimelyInv, CounterClock, SaveIsNear

LEMMA TimelyStep == TimelyInv /\ [PanelNext]_panelVars => TimelyInv'
<1> SUFFICES ASSUME TimelyInv, [PanelNext]_panelVars PROVE TimelyInv'
  OBVIOUS
<1>a. /\ W \in Nat \ {0} /\ MaxPass \in Nat /\ intervalSaveKeycount \in Nat
      /\ intervalSaveKeycount + 2 * MaxPass < W
  BY LoopAssumption, CounterAssumption, IntervalAssumption
<1>b. age <= intervalSaveKeycount + 2 * MaxPass /\ age < W
  BY AgeIsBounded
<1>c. /\ Minus(millis, timerSaveKeycount) = age
      /\ Plus(millis, 1) \in 0 .. (W - 1)
      /\ \/ Plus(millis, 1) = timerSaveKeycount + (age + 1)
         \/ Plus(millis, 1) = timerSaveKeycount + (age + 1) - W
  BY <1>b, ClockGoesRound DEF TimelyInv, CounterClock
<1>1. CASE monitorKeycount
  <2>1. Due <=> age > intervalSaveKeycount
    BY <1>c DEF Due
  <2> QED
    BY <1>1, <1>a, <1>b, <2>1 DEF monitorKeycount, TimelyInv, CounterClock, SaveIsNear
<1>2. CASE SaveByte
  BY <1>2 DEF SaveByte, TimelyInv, CounterClock, SaveIsNear
<1>3. CASE SaveEnds
  BY <1>3, <1>a DEF SaveEnds, TimelyInv, CounterClock, SaveIsNear
<1>4. CASE ScanCounts
  BY <1>4 DEF ScanCounts, TimelyInv, CounterClock, SaveIsNear
<1>5. CASE (DisplayNext \/ DisplayEnv) /\ UNCHANGED counterVars
  <2>1. UNCHANGED <<millis, ticks, timerSaveKeycount, age>>
    BY <1>5 DEF counterVars, DisplayNext, DisplayEnv, OtherMode, isGenerativeModeChanged,
         AskMode, AskText, AskStream, Ask, NoEnter, Read, WaitEnds, PromptUsed, Touch, Answer, NoAnswer, Stray
  <2>2. pc = "saving" <=> pc' = "saving"
    BY <1>5 DEF DisplayNext, DisplayEnv, OtherMode, isGenerativeModeChanged,
         AskMode, AskText, AskStream, Ask, NoEnter, Read, WaitEnds, PromptUsed, Waiting, Touch, Answer,
         NoAnswer, Stray
  <2> QED
    BY <2>1, <2>2 DEF TimelyInv, CounterClock, SaveIsNear
<1>6. CASE Boots
  BY <1>6, <1>a DEF Boots, CounterBoots, TimelyInv, CounterClock, SaveIsNear
<1>7. CASE Tick
  BY <1>7, <1>a, <1>c DEF Tick, CounterTick, TimelyInv, CounterClock, SaveIsNear
<1>8. CASE UNCHANGED panelVars
  BY <1>8 DEF panelVars, counterVars, TimelyInv, CounterClock, SaveIsNear
<1> QED
  BY <1>1, <1>2, <1>3, <1>4, <1>5, <1>6, <1>7, <1>8 DEF PanelNext, CounterNext

\* The counter is saved every interval, but for the pass before and its own, for every
\* interval, pass and clock for which the interval fits the clock (logic.h:52).
THEOREM SavedInTime == PanelSpec => []SaveIsTimely
<1>1. TimelyInv => SaveIsTimely
  BY AgeIsBounded DEF SaveIsTimely
<1> QED
  BY TimelyInit, TimelyStep, <1>1, PTL DEF PanelSpec

-----------------------------------------------------------------------------
(* The answers of the display *)

PanelSeqs ==
  /\ asked \in Seq({ModeEvent, Text}) /\ rx \in Seq(Nat) /\ reply \in Seq(Nat)
  /\ shown \in GenerativeModes

\* What is under way while the mode, or the text, is awaited: the question, or its answer,
\* last of all that came.
ModeUnderWay ==
  pc = "value" /\ ~disturbed =>
    \/ asked = <<ModeEvent>>
    \/ asked = << >> /\ reply \o rx # << >> /\ Last(reply \o rx) = shown
Strays(s) == \A i \in DOMAIN s : s[i] = Termination
OneText(s) == \E i \in DOMAIN s : s[i] = Text /\ \A j \in DOMAIN s \ {i} : s[j] = Termination
TextUnderWay ==
  pc = "text" /\ ~disturbed =>
    \/ asked = <<Text>> /\ Strays(reply \o rx)
    \/ asked = << >> /\ OneText(reply \o rx)
KeysUndisturbed == pc = "keys" /\ ~disturbed => Strays(rx)

\* Between its answers, the mode of the controller is the one shown, but for a choice that
\* it has not seen yet.
ModeKnown ==
  pc \notin {"delay", "value"} /\ ~modeDoubt /\ ~Contains(rx, ModeEvent) =>
    STATE_GENERATIVE_TRACKER = shown

PanelInv ==
  PanelSeqs /\ ModeUnderWay /\ TextUnderWay /\ KeysUndisturbed /\ ModeKnown /\ PromptIsText

LEMMA ContainsAppended ==
  ASSUME NEW s \in Seq(Nat), NEW x \in Nat, NEW e
  PROVE  Contains(Append(s, x), e) <=> Contains(s, e) \/ x = e
<1>1. /\ Len(Append(s, x)) = Len(s) + 1
      /\ \A i \in 1 .. Len(s) : Append(s, x)[i] = s[i]
      /\ Append(s, x)[Len(s) + 1] = x
  OBVIOUS
<1>2. Len(s) \in Nat /\ 1 .. (Len(s) + 1) = (1 .. Len(s)) \cup {Len(s) + 1}
  OBVIOUS
<1> DEFINE t == Append(s, x)
           n == Len(s) + 1
<1> HIDE DEF t, n
<1>3. /\ Len(t) = n /\ t[n] = x /\ 1 .. n = (1 .. Len(s)) \cup {n}
      /\ \A i \in 1 .. Len(s) : t[i] = s[i]
  BY <1>1, <1>2 DEF t, n
<1>4. (\E i \in 1 .. n : t[i] = e) <=> (\E i \in 1 .. Len(s) : s[i] = e) \/ x = e
  BY <1>3, Zenon
<1> QED
  BY <1>3, <1>4 DEF Contains, t

LEMMA ContainsTaken ==
  ASSUME NEW s \in Seq(Nat), s # << >>, NEW e
  PROVE  Contains(s, e) <=> Head(s) = e \/ Contains(Tail(s), e)
<1>1. /\ Len(s) \in Nat /\ Len(s) >= 1 /\ Head(s) = s[1] /\ Len(Tail(s)) = Len(s) - 1
      /\ \A i \in 1 .. (Len(s) - 1) : Tail(s)[i] = s[i + 1]
  OBVIOUS
<1>2. ASSUME NEW i \in 1 .. Len(s), s[i] = e PROVE Head(s) = e \/ Contains(Tail(s), e)
  <2>1. CASE i = 1
    BY <1>1, <1>2, <2>1
  <2>2. CASE i # 1
    <3>1. i - 1 \in 1 .. (Len(s) - 1) /\ (i - 1) + 1 = i
      BY <1>1, <2>2
    <3>2. Tail(s)[i - 1] = e
      BY <1>1, <1>2, <3>1
    <3> QED
      BY <1>1, <3>1, <3>2 DEF Contains
  <2> QED
    BY <2>1, <2>2
<1>3. Head(s) = e => Contains(s, e)
  BY <1>1 DEF Contains
<1>4. ASSUME NEW i \in 1 .. Len(Tail(s)), Tail(s)[i] = e PROVE Contains(s, e)
  <2>1. i + 1 \in 1 .. Len(s) /\ s[i + 1] = e
    BY <1>1, <1>4
  <2> QED
    BY <2>1 DEF Contains
<1> QED
  BY <1>2, <1>3, <1>4 DEF Contains

LEMMA ContainsNothing == \A e : ~Contains(<< >>, e)
BY DEF Contains

LEMMA LastCame ==
  ASSUME NEW s \in Seq(Nat), NEW t \in Seq(Nat), NEW x \in Nat
  PROVE  s \o Append(t, x) # << >> /\ Last(s \o Append(t, x)) = x
<1>1. s \o Append(t, x) \in Seq(Nat) /\ Len(s \o Append(t, x)) = Len(s) + Len(t) + 1
  OBVIOUS
<1>2. (s \o Append(t, x))[Len(s) + Len(t) + 1] = x
  OBVIOUS
<1>3. Len(s) \in Nat /\ Len(t) \in Nat
  OBVIOUS
<1> QED
  BY <1>1, <1>2, <1>3 DEF Last

\* What a termination, or the text, does to what has come.
LEMMA NothingIsStray == Strays(<< >>)
BY DEF Strays

LEMMA OneMore ==
  ASSUME NEW s \in Seq(Nat), NEW t \in Seq(Nat), NEW x \in Nat
  PROVE  /\ x = Termination /\ Strays(t) => Strays(Append(t, x))
         /\ x = Termination /\ Strays(s \o t) => Strays(s \o Append(t, x))
         /\ x = Termination /\ OneText(s \o t) => OneText(s \o Append(t, x))
         /\ x = Text /\ Strays(s \o t) => OneText(s \o Append(t, x))
<1>1. ASSUME NEW u \in Seq(Nat)
      PROVE  /\ x = Termination /\ Strays(u) => Strays(Append(u, x))
             /\ x = Termination /\ OneText(u) => OneText(Append(u, x))
             /\ x = Text /\ Strays(u) => OneText(Append(u, x))
  <2> DEFINE v == Append(u, x)
             n == Len(u) + 1
  <2>1. /\ DOMAIN v = DOMAIN u \cup {n} /\ v[n] = x /\ \A i \in DOMAIN u : i # n /\ v[i] = u[i]
    OBVIOUS
  <2> HIDE DEF v, n
  <2>2. x = Termination /\ Strays(u) => Strays(v)
    BY <2>1 DEF Strays
  <2>3. x = Termination /\ OneText(u) => OneText(v)
    <3> SUFFICES ASSUME x = Termination, OneText(u) PROVE OneText(v)
      OBVIOUS
    <3>1. PICK i \in DOMAIN u : u[i] = Text /\ \A j \in DOMAIN u \ {i} : u[j] = Termination
      BY DEF OneText
    <3>2. i \in DOMAIN v /\ v[i] = Text /\ \A j \in DOMAIN v \ {i} : v[j] = Termination
      BY <2>1, <3>1
    <3> QED
      BY <3>2 DEF OneText
  <2>4. x = Text /\ Strays(u) => OneText(v)
    <3> SUFFICES ASSUME x = Text, Strays(u) PROVE OneText(v)
      OBVIOUS
    <3>1. n \in DOMAIN v /\ v[n] = Text /\ \A j \in DOMAIN v \ {n} : v[j] = Termination
      BY <2>1 DEF Strays
    <3> QED
      BY <3>1 DEF OneText
  <2> QED
    BY <2>2, <2>3, <2>4 DEF v
<1>2. s \o t \in Seq(Nat) /\ s \o Append(t, x) = Append(s \o t, x)
  OBVIOUS
<1> DEFINE u == s \o t
           w == s \o Append(t, x)
<1>3. u \in Seq(Nat) /\ w = Append(u, x)
  BY <1>2
<1> HIDE DEF u, w
<1>4. /\ x = Termination /\ Strays(u) => Strays(w)
      /\ x = Termination /\ OneText(u) => OneText(w)
      /\ x = Text /\ Strays(u) => OneText(w)
  BY <1>1, <1>3
<1> QED
  BY <1>1, <1>4 DEF u, w

LEMMA NothingRead == \A s \in Seq(Nat) : << >> \o s = s /\ s \o << >> = s
OBVIOUS

LEMMA FilteredText ==
  ASSUME NEW s \in Seq(Nat)
  PROVE  /\ Filtered(s) \in Seq(Nat)
         /\ OneText(s) => \E i \in DOMAIN Filtered(s) :
               /\ Filtered(s)[i] = Text
               /\ \A j \in DOMAIN Filtered(s) \ {i} : Filtered(s)[j] = Blank
<1> DEFINE f == Filtered(s)
<1>1. f = [i \in DOMAIN s |-> IF s[i] = Termination THEN Blank ELSE s[i]]
  BY DEF Filtered
<1>2. DOMAIN s = 1 .. Len(s) /\ Len(s) \in Nat /\ \A i \in DOMAIN s : s[i] \in Nat
  OBVIOUS
<1>3. Blank \in Nat /\ Termination # Text
  BY DEF Blank, Termination, Text
<1> HIDE DEF f
<1>4. f \in [1 .. Len(s) -> Nat]
  BY <1>1, <1>2, <1>3
<1>5. f \in Seq(Nat)
  BY <1>2, <1>4, SeqDef
<1>6. ASSUME OneText(s)
      PROVE  \E i \in DOMAIN f : f[i] = Text /\ \A j \in DOMAIN f \ {i} : f[j] = Blank
  <2>1. PICK i \in DOMAIN s : s[i] = Text /\ \A j \in DOMAIN s \ {i} : s[j] = Termination
    BY <1>6 DEF OneText
  <2>2. i \in DOMAIN f /\ f[i] = Text /\ \A j \in DOMAIN f \ {i} : f[j] = Blank
    BY <1>1, <1>3, <2>1
  <2> QED
    BY <2>2
<1> QED
  BY <1>5, <1>6 DEF f

LEMMA ReadOn ==
  ASSUME NEW s \in Seq(Nat), NEW t \in Seq(Nat), t # << >>
  PROVE  Append(s, Head(t)) \o Tail(t) = s \o t
OBVIOUS

-----------------------------------------------------------------------------
(* The steps *)

\* What happens outside the answers changes nothing about them.
LEMMA OtherSteps ==
  ASSUME PanelInv, UNCHANGED displayVars,
         \/ pc' = pc
         \/ /\ pc \in {"top", "saving", "scan", "switch"}
            /\ pc' \in {"top", "saving", "scan", "switch"}
  PROVE  PanelInv'
<1>1. /\ rx' = rx /\ asked' = asked /\ shown' = shown /\ reply' = reply
      /\ disturbed' = disturbed /\ modeDoubt' = modeDoubt
      /\ STATE_GENERATIVE_TRACKER' = STATE_GENERATIVE_TRACKER
  BY DEF displayVars, envVars
<1>2. CASE pc' = pc
  BY <1>1, <1>2, Zenon
  DEF PanelInv, PanelSeqs, ModeUnderWay, TextUnderWay, KeysUndisturbed, ModeKnown, PromptIsText
<1>3. CASE /\ pc \in {"top", "saving", "scan", "switch"}
           /\ pc' \in {"top", "saving", "scan", "switch"}
  <2>1. /\ pc' \notin {"value", "text", "keys", "asked", "delay"}
        /\ pc \notin {"delay", "value"}
    BY <1>3
  <2> QED
    BY <1>1, <2>1, Zenon
    DEF PanelInv, PanelSeqs, ModeUnderWay, TextUnderWay, KeysUndisturbed, ModeKnown,
        PromptIsText
<1> QED
  BY <1>2, <1>3

LEMMA LooksAtTheLine == PanelInv /\ isGenerativeModeChanged => PanelInv'
<1> SUFFICES ASSUME PanelInv, isGenerativeModeChanged PROVE PanelInv'
  OBVIOUS
<1>1. /\ rx' = << >> /\ asked' = asked /\ shown' = shown /\ reply' = reply
      /\ modeDoubt' = modeDoubt /\ STATE_GENERATIVE_TRACKER' = STATE_GENERATIVE_TRACKER
      /\ pc = "switch" /\ pc' = IF Contains(rx, ModeEvent) THEN "delay" ELSE "keys"
  BY DEF isGenerativeModeChanged, envVars, ReadAll
<1>2. PanelSeqs'
  BY <1>1 DEF PanelInv, PanelSeqs
<1>3. pc' \notin {"value", "text", "asked"}
  BY <1>1
<1>4. (ModeUnderWay /\ TextUnderWay /\ KeysUndisturbed /\ PromptIsText)'
  BY <1>1, <1>3, NothingIsStray, Zenon DEF ModeUnderWay, TextUnderWay, KeysUndisturbed, PromptIsText
<1>5. ModeKnown'
  <2>1. CASE Contains(rx, ModeEvent)
    <3>1. pc' = "delay"
      BY <1>1, <2>1
    <3> QED
      BY <3>1 DEF ModeKnown
  <2>2. CASE ~Contains(rx, ModeEvent)
    <3>1. pc \notin {"delay", "value"}
      BY <1>1
    <3> QED
      BY <1>1, <2>2, <3>1, Zenon DEF ModeKnown, PanelInv
  <2> QED
    BY <2>1, <2>2
<1> QED
  BY <1>2, <1>4, <1>5 DEF PanelInv

LEMMA AsksForMode == PanelInv /\ AskMode => PanelInv'
<1> SUFFICES ASSUME PanelInv, AskMode PROVE PanelInv'
  OBVIOUS
<1>1. /\ pc = "delay" /\ pc' = "value"
      /\ rx' = rx /\ asked' = Append(asked, ModeEvent) /\ shown' = shown /\ reply' = << >>
  BY DEF AskMode, Ask
<1>2. ~disturbed' => asked = << >>
  BY Zenon DEF AskMode, Ask
<1>3. asked = << >> => asked' = <<ModeEvent>>
  BY <1>1
<1>4. PanelSeqs'
  BY <1>1 DEF PanelInv, PanelSeqs
<1>5. pc' \notin {"text", "keys", "asked"}
  BY <1>1
<1> QED
  BY <1>1, <1>2, <1>3, <1>4, <1>5, Zenon
  DEF PanelInv, ModeUnderWay, TextUnderWay, KeysUndisturbed, PromptIsText, ModeKnown

LEMMA AsksForText == PanelInv /\ (AskText \/ AskStream) => PanelInv'
<1> SUFFICES ASSUME PanelInv, AskText \/ AskStream PROVE PanelInv'
  OBVIOUS
<1>1. /\ pc \in {"keys", "switch"} /\ pc' = "text"
      /\ rx' = rx /\ asked' = Append(asked, Text) /\ shown' = shown /\ reply' = << >>
      /\ modeDoubt' = modeDoubt /\ STATE_GENERATIVE_TRACKER' = STATE_GENERATIVE_TRACKER
  BY DEF AskText, AskStream, Ask
<1>2. rx \in Seq(Nat)
  BY DEF PanelInv, PanelSeqs
<1>3. ~disturbed' => asked = << >> /\ Strays(rx)
  <2>1. CASE AskText
    <3>1. pc = "keys" /\ (~disturbed' => ~disturbed /\ asked = << >>)
      BY <2>1, Zenon DEF AskText, Ask
    <3> QED
      BY <3>1, Zenon DEF PanelInv, KeysUndisturbed
  <2>2. CASE AskStream
    <3>1. ~disturbed' => asked = << >> /\ ~ \E i \in DOMAIN rx : rx[i] # Termination
      BY <2>2, Zenon DEF AskStream, Ask
    <3> QED
      BY <3>1, Zenon DEF Strays
  <2> QED
    BY <2>1, <2>2
<1>4. asked = << >> => asked' = <<Text>>
  BY <1>1
<1>5. reply' \o rx' = rx
  BY <1>1, <1>2, NothingRead
<1>6. PanelSeqs'
  BY <1>1 DEF PanelInv, PanelSeqs
<1>7. TextUnderWay'
  BY <1>1, <1>3, <1>4, <1>5, Zenon DEF TextUnderWay
<1>8. pc' \notin {"value", "keys", "asked"} /\ pc \notin {"delay", "value"}
  BY <1>1
<1> QED
  BY <1>1, <1>6, <1>7, <1>8, Zenon
  DEF PanelInv, ModeUnderWay, KeysUndisturbed, PromptIsText, ModeKnown

LEMMA PassEnds == PanelInv /\ (NoEnter \/ PromptUsed) => PanelInv'
<1> SUFFICES ASSUME PanelInv, NoEnter \/ PromptUsed PROVE PanelInv'
  OBVIOUS
<1>1. /\ pc \in {"keys", "asked"} /\ pc' = "top"
      /\ rx' = rx /\ asked' = asked /\ shown' = shown
      /\ reply' = << >> \/ reply' = reply
      /\ modeDoubt' = modeDoubt /\ STATE_GENERATIVE_TRACKER' = STATE_GENERATIVE_TRACKER
  BY DEF NoEnter, PromptUsed, envVars
<1>2. PanelSeqs'
  <2>1. << >> \in Seq(Nat)
    OBVIOUS
  <2> QED
    BY <1>1, <2>1, Zenon DEF PanelInv, PanelSeqs
<1>3. pc' \notin {"value", "text", "keys", "asked"} /\ pc \notin {"delay", "value"}
  BY <1>1
<1> QED
  BY <1>1, <1>2, <1>3, Zenon
  DEF PanelInv, ModeUnderWay, TextUnderWay, KeysUndisturbed, PromptIsText, ModeKnown

\* The reply and what is still on the line are, together, what has come.
LEMMA ReadsOne == PanelInv /\ Read => PanelInv'
<1> SUFFICES ASSUME PanelInv, Read PROVE PanelInv'
  OBVIOUS
<1>1. /\ pc \in {"value", "text"} /\ pc' = pc
      /\ rx # << >> /\ rx' = Tail(rx) /\ reply' = Append(reply, Head(rx))
      /\ asked' = asked /\ shown' = shown
      /\ STATE_GENERATIVE_TRACKER' = STATE_GENERATIVE_TRACKER
  BY DEF Read, Waiting, envVars
<1>2. disturbed' = disturbed
  BY DEF Read
<1>3. ~modeDoubt' => ~modeDoubt /\ ~(pc = "text" /\ Head(rx) = ModeEvent)
  BY Zenon DEF Read
<1>4. rx \in Seq(Nat) /\ reply \in Seq(Nat)
  BY DEF PanelInv, PanelSeqs
<1>5. PanelSeqs'
  <2>1. Head(rx) \in Nat /\ Tail(rx) \in Seq(Nat) /\ Append(reply, Head(rx)) \in Seq(Nat)
    BY <1>1, <1>4
  <2> QED
    BY <1>1, <2>1 DEF PanelInv, PanelSeqs
<1>6. ModeUnderWay'
  <2>1. reply' \o rx' = reply \o rx
    BY <1>1, <1>4, ReadOn
  <2> QED
    BY <1>1, <1>2, <2>1, Zenon DEF PanelInv, ModeUnderWay
<1>7. TextUnderWay'
  <2>1. reply' \o rx' = reply \o rx
    BY <1>1, <1>4, ReadOn
  <2> QED
    BY <1>1, <1>2, <2>1, Zenon DEF PanelInv, TextUnderWay
<1>8. ModeKnown'
  <2>1. Contains(rx, ModeEvent) <=> Head(rx) = ModeEvent \/ Contains(rx', ModeEvent)
    BY <1>1, <1>4, ContainsTaken
  <2>2. pc = "text" \/ pc = "value"
    BY <1>1
  <2> QED
    BY <1>1, <1>3, <2>1, <2>2, Zenon DEF PanelInv, ModeKnown
<1>9. pc' \notin {"keys", "asked"}
  BY <1>1
<1> QED
  BY <1>5, <1>6, <1>7, <1>8, <1>9, Zenon DEF PanelInv, KeysUndisturbed, PromptIsText

LEMMA WaitIsOver == PanelInv /\ WaitEnds => PanelInv'
<1> SUFFICES ASSUME PanelInv, WaitEnds PROVE PanelInv'
  OBVIOUS
<1>1. rx' = rx /\ asked' = asked /\ shown' = shown
  BY DEF WaitEnds, envVars
<1>2. ~disturbed' => ~disturbed /\ asked = << >> /\ rx = << >>
  BY Zenon DEF WaitEnds
<1>3. rx \in Seq(Nat) /\ reply \in Seq(Nat)
  BY DEF PanelInv, PanelSeqs
<1>4. CASE pc = "value"
  <2>1. /\ pc' = "keys" /\ reply' = << >> /\ modeDoubt' = disturbed'
        /\ STATE_GENERATIVE_TRACKER' \in LastByte
    BY <1>4 DEF WaitEnds
  <2>2. PanelSeqs'
    BY <1>1, <2>1 DEF PanelInv, PanelSeqs
  <2>3. ~disturbed' => STATE_GENERATIVE_TRACKER' = shown
    <3>1. SUFFICES ASSUME ~disturbed' PROVE STATE_GENERATIVE_TRACKER' = shown
      OBVIOUS
    <3>2. ~disturbed /\ asked = << >> /\ rx = << >>
      BY <1>2, <3>1
    <3>3. << >> # <<ModeEvent>>
      OBVIOUS
    <3>4. reply \o rx # << >> /\ Last(reply \o rx) = shown
      BY <1>4, <3>2, <3>3, Zenon DEF PanelInv, ModeUnderWay
    <3>5. reply \o << >> = reply
      BY <1>3
    <3>6. reply # << >> /\ Last(reply) = shown
      BY <3>2, <3>4, <3>5, Zenon
    <3>7. LastByte = {Last(reply)}
      BY <3>6 DEF LastByte
    <3> QED
      BY <2>1, <3>6, <3>7
  <2>4. pc' \notin {"value", "text", "asked"}
    BY <2>1
  <2> QED
    BY <1>1, <1>2, <2>1, <2>2, <2>3, <2>4, NothingIsStray, Zenon
    DEF PanelInv, ModeUnderWay, TextUnderWay, KeysUndisturbed, ModeKnown, PromptIsText
<1>5. CASE pc # "value"
  <2>1. /\ pc = "text" /\ pc' = "asked" /\ reply' = Filtered(reply)
        /\ modeDoubt' = modeDoubt /\ STATE_GENERATIVE_TRACKER' = STATE_GENERATIVE_TRACKER
    BY <1>5 DEF WaitEnds
  <2>2. PanelSeqs'
    BY <1>1, <1>3, <2>1, FilteredText DEF PanelInv, PanelSeqs
  <2>3. ~disturbed' => OneText(reply)
    <3>1. SUFFICES ASSUME ~disturbed' PROVE OneText(reply)
      OBVIOUS
    <3>2. ~disturbed /\ asked = << >> /\ rx = << >>
      BY <1>2, <3>1
    <3>3. << >> # <<Text>>
      OBVIOUS
    <3>4. OneText(reply \o rx)
      BY <2>1, <3>2, <3>3, Zenon DEF PanelInv, TextUnderWay
    <3>5. reply \o << >> = reply
      BY <1>3
    <3> QED
      BY <3>2, <3>4, <3>5, Zenon
  <2>4. PromptIsText'
    <3>1. OneText(reply) => \E i \in DOMAIN Filtered(reply) :
             /\ Filtered(reply)[i] = Text
             /\ \A j \in DOMAIN Filtered(reply) \ {i} : Filtered(reply)[j] = Blank
      BY <1>3, FilteredText
    <3> QED
      BY <2>1, <2>3, <3>1, Zenon DEF PromptIsText
  <2>5. pc' \notin {"value", "text", "keys"} /\ pc \notin {"delay", "value"}
    BY <2>1
  <2> QED
    BY <1>1, <2>1, <2>2, <2>4, <2>5, Zenon
    DEF PanelInv, ModeUnderWay, TextUnderWay, KeysUndisturbed, ModeKnown
<1> QED
  BY <1>4, <1>5

LEMMA UserTouches == PanelInv /\ Touch => PanelInv'
<1> SUFFICES ASSUME PanelInv, Touch PROVE PanelInv'
  OBVIOUS
<1>1. /\ pc' = pc /\ rx' = Append(rx, ModeEvent) /\ asked' = asked /\ reply' = reply
      /\ shown' \in GenerativeModes
  BY DEF Touch
<1>2. ~disturbed' => ~disturbed /\ pc \notin {"value", "keys", "text"}
  BY Zenon DEF Touch, InAnswers
<1>3. rx \in Seq(Nat) /\ ModeEvent \in Nat
  BY DEF PanelInv, PanelSeqs, ModeEvent
<1>4. Append(rx, ModeEvent) \in Seq(Nat)
  BY <1>3
<1>5. PanelSeqs'
  BY <1>1, <1>4 DEF PanelInv, PanelSeqs
<1>6. Contains(rx', ModeEvent)
  BY <1>1, <1>3, ContainsAppended
<1>7. ~disturbed' => ~disturbed /\ pc # "value" /\ pc # "keys" /\ pc # "text"
  BY <1>2
<1> QED
  BY <1>1, <1>5, <1>6, <1>7, Zenon
  DEF PanelInv, ModeUnderWay, TextUnderWay, KeysUndisturbed, ModeKnown, PromptIsText

LEMMA DisplayAnswers == PanelInv /\ Answer => PanelInv'
<1> SUFFICES ASSUME PanelInv, Answer PROVE PanelInv'
  OBVIOUS
<1> DEFINE x == IF Head(asked) = Text THEN Text ELSE shown
<1>1. /\ asked # << >> /\ asked' = Tail(asked) /\ rx' = Append(rx, x)
      /\ pc' = pc /\ shown' = shown /\ reply' = reply /\ modeDoubt' = modeDoubt
      /\ STATE_GENERATIVE_TRACKER' = STATE_GENERATIVE_TRACKER
  BY DEF Answer
<1>2. ~disturbed' => ~disturbed /\ pc # "keys"
  BY Zenon DEF Answer
<1>3. /\ asked \in Seq({ModeEvent, Text}) /\ rx \in Seq(Nat) /\ reply \in Seq(Nat)
      /\ shown \in GenerativeModes
  BY DEF PanelInv, PanelSeqs
<1>4. x \in Nat
  BY <1>3, DisplayAssumption DEF Text
<1>5. (asked = <<ModeEvent>> => x = shown) /\ (asked = <<Text>> => x = Text)
  BY DEF ModeEvent, Text
<1> HIDE DEF x
<1>6. PanelSeqs'
  <2>1. Tail(asked) \in Seq({ModeEvent, Text}) /\ Append(rx, x) \in Seq(Nat)
    BY <1>1, <1>3, <1>4
  <2> QED
    BY <1>1, <1>3, <2>1 DEF PanelSeqs
<1>7. ModeUnderWay'
  <2>1. reply' \o rx' # << >> /\ Last(reply' \o rx') = x
    BY <1>1, <1>3, <1>4, LastCame
  <2>2. CASE pc = "value" /\ ~disturbed
    <3>1. asked = <<ModeEvent>>
      BY <1>1, <2>2, Zenon DEF PanelInv, ModeUnderWay
    <3>2. asked' = << >>
      BY <1>1, <3>1
    <3> QED
      BY <1>1, <1>5, <2>1, <3>1, <3>2, Zenon DEF ModeUnderWay
  <2>3. CASE ~(pc = "value" /\ ~disturbed)
    BY <1>1, <1>2, <2>3, Zenon DEF ModeUnderWay
  <2> QED
    BY <2>2, <2>3
<1>8. TextUnderWay'
  <2>1. CASE pc = "text" /\ ~disturbed
    <3>1. asked = <<Text>> /\ Strays(reply \o rx)
      BY <1>1, <2>1, Zenon DEF PanelInv, TextUnderWay
    <3>2. asked' = << >>
      BY <1>1, <3>1
    <3>3. OneText(reply' \o rx')
      BY <1>1, <1>3, <1>4, <1>5, <3>1, OneMore
    <3> QED
      BY <3>2, <3>3 DEF TextUnderWay
  <2>2. CASE ~(pc = "text" /\ ~disturbed)
    BY <1>1, <1>2, <2>2, Zenon DEF TextUnderWay
  <2> QED
    BY <2>1, <2>2
<1>9. KeysUndisturbed'
  BY <1>1, <1>2, Zenon DEF KeysUndisturbed
<1>10. ModeKnown'
  <2>1. Contains(rx', ModeEvent) <=> Contains(rx, ModeEvent) \/ x = ModeEvent
    BY <1>1, <1>3, <1>4, ContainsAppended
  <2> QED
    BY <1>1, <2>1, Zenon DEF PanelInv, ModeKnown
<1>11. PromptIsText'
  BY <1>1, <1>2, Zenon DEF PanelInv, PromptIsText
<1> QED
  BY <1>6, <1>7, <1>8, <1>9, <1>10, <1>11 DEF PanelInv

LEMMA DisplayIsSilent == PanelInv /\ NoAnswer => PanelInv'
<1> SUFFICES ASSUME PanelInv, NoAnswer PROVE PanelInv'
  OBVIOUS
<1>1. /\ asked # << >> /\ asked' = Tail(asked) /\ rx' = rx
      /\ pc' = pc /\ shown' = shown /\ reply' = reply /\ modeDoubt' = modeDoubt
      /\ STATE_GENERATIVE_TRACKER' = STATE_GENERATIVE_TRACKER
  BY DEF NoAnswer
<1>2. ~disturbed' => ~disturbed /\ ~InAnswers
  BY Zenon DEF NoAnswer
<1>3. ~InAnswers => pc # "value" /\ pc # "keys" /\ pc # "text"
  BY DEF InAnswers
<1>4. PanelSeqs'
  BY <1>1 DEF PanelInv, PanelSeqs
<1> QED
  BY <1>1, <1>2, <1>3, <1>4, Zenon
  DEF PanelInv, ModeUnderWay, TextUnderWay, KeysUndisturbed, ModeKnown, PromptIsText

LEMMA TerminationComes == PanelInv /\ Stray => PanelInv'
<1> SUFFICES ASSUME PanelInv, Stray PROVE PanelInv'
  OBVIOUS
<1>1. /\ rx' = Append(rx, Termination) /\ asked' = asked
      /\ pc' = pc /\ shown' = shown /\ reply' = reply /\ modeDoubt' = modeDoubt
      /\ STATE_GENERATIVE_TRACKER' = STATE_GENERATIVE_TRACKER
  BY DEF Stray, envVars
<1>2. ~disturbed' => ~disturbed /\ ~(pc = "value" /\ asked = << >>)
  BY Zenon DEF Stray
<1>3. /\ rx \in Seq(Nat) /\ reply \in Seq(Nat) /\ Termination \in Nat
      /\ Termination # ModeEvent
  BY DEF PanelInv, PanelSeqs, Termination, ModeEvent
<1>4. PanelSeqs'
  <2>1. Append(rx, Termination) \in Seq(Nat)
    BY <1>3
  <2> QED
    BY <1>1, <2>1 DEF PanelInv, PanelSeqs
<1>5. ModeUnderWay'
  BY <1>1, <1>2, Zenon DEF PanelInv, ModeUnderWay
<1>6. /\ Strays(rx) => Strays(rx')
      /\ Strays(reply \o rx) => Strays(reply' \o rx')
      /\ OneText(reply \o rx) => OneText(reply' \o rx')
  BY <1>1, <1>3, OneMore
<1>7. TextUnderWay'
  BY <1>1, <1>2, <1>6, Zenon DEF PanelInv, TextUnderWay
<1>8. KeysUndisturbed'
  BY <1>1, <1>2, <1>6, Zenon DEF PanelInv, KeysUndisturbed
<1>9. ModeKnown'
  <2>1. Contains(rx', ModeEvent) <=> Contains(rx, ModeEvent)
    BY <1>1, <1>3, ContainsAppended
  <2> QED
    BY <1>1, <2>1, Zenon DEF PanelInv, ModeKnown
<1>10. PromptIsText'
  BY <1>1, <1>2, Zenon DEF PanelInv, PromptIsText
<1> QED
  BY <1>4, <1>5, <1>7, <1>8, <1>9, <1>10 DEF PanelInv

LEMMA PanelRestarts == PanelInv /\ Boots => PanelInv'
<1> SUFFICES ASSUME PanelInv, Boots PROVE PanelInv'
  OBVIOUS
<1>1. /\ pc' = "top" /\ rx' = << >> /\ reply' = << >> /\ asked' = asked /\ shown' = shown
      /\ modeDoubt' = TRUE
  BY DEF Boots, CounterBoots, DisplayBoots, envVars
<1>2. PanelSeqs'
  BY <1>1 DEF PanelInv, PanelSeqs
<1>3. pc' \notin {"value", "text", "keys", "asked"}
  BY <1>1
<1> QED
  BY <1>1, <1>2, <1>3
  DEF PanelInv, ModeUnderWay, TextUnderWay, KeysUndisturbed, ModeKnown, PromptIsText

LEMMA PanelInvInit == PanelInit => PanelInv
<1> SUFFICES ASSUME PanelInit PROVE PanelInv
  OBVIOUS
<1>1. /\ pc = "top" /\ rx = << >> /\ reply = << >> /\ asked = << >> /\ shown = 0
      /\ STATE_GENERATIVE_TRACKER = 0
  BY DEF PanelInit, DisplayInit
<1>2. PanelSeqs
  BY <1>1, DisplayAssumption DEF PanelSeqs
<1> QED
  BY <1>1, <1>2
  DEF PanelInv, ModeUnderWay, TextUnderWay, KeysUndisturbed, ModeKnown, PromptIsText

LEMMA PanelInvStep == PanelInv /\ [PanelNext]_panelVars => PanelInv'
<1> SUFFICES ASSUME PanelInv, [PanelNext]_panelVars PROVE PanelInv'
  OBVIOUS
<1>1. CASE CounterNext /\ UNCHANGED displayVars
  <2>1. \/ pc' = pc
        \/ /\ pc \in {"top", "saving", "scan", "switch"}
           /\ pc' \in {"top", "saving", "scan", "switch"}
    BY <1>1 DEF CounterNext, monitorKeycount, SaveByte, SaveEnds, ScanCounts
  <2> QED
    BY <1>1, <2>1, OtherSteps
<1>2. CASE OtherMode
  BY <1>2, OtherSteps DEF OtherMode
<1>3. CASE Tick
  <2>1. UNCHANGED displayVars /\ pc' = pc
    BY <1>3 DEF Tick, CounterTick
  <2> QED
    BY <2>1, OtherSteps
<1>4. CASE UNCHANGED panelVars
  <2>1. UNCHANGED displayVars /\ pc' = pc
    BY <1>4 DEF panelVars
  <2> QED
    BY <2>1, OtherSteps
<1> QED
  BY <1>1, <1>2, <1>3, <1>4, LooksAtTheLine, AsksForMode, AsksForText, PassEnds, ReadsOne,
     WaitIsOver, UserTouches, DisplayAnswers, DisplayIsSilent, TerminationComes, PanelRestarts
  DEF PanelNext, DisplayNext, DisplayEnv

LEMMA PanelInvHolds == PanelSpec => []PanelInv
BY PanelInvInit, PanelInvStep, PTL DEF PanelSpec

\* The prompt, or the text to stream, is the text of the display but for blanks where
\* terminations came, for any wait, clock and number of late answers and terminations
\* (LCD.h:137-153, logic.h:149).
THEOREM PromptIsWhole == PanelSpec => []PromptIsText
<1>1. PanelInv => PromptIsText
  BY DEF PanelInv
<1> QED
  BY PanelInvHolds, <1>1, PTL

\* The controller's generative mode is the one the display shows, for any set of modes and
\* any number of choices and terminations (LCD.h:167, logic.h:18-32 and 149).
THEOREM ModeIsFollowed == PanelSpec => []ModeFollows
<1>1. PanelInv => ModeFollows
  BY DEF PanelInv, ModeKnown, ModeFollows
<1> QED
  BY PanelInvHolds, <1>1, PTL

-----------------------------------------------------------------------------
(* The counter: division by the base *)

LEMMA TimesGrows ==
  ASSUME NEW x \in Int, NEW y \in Int, x <= y
  PROVE  Base * x <= Base * y
<1>1. Base \in Nat /\ y - x \in Nat
  BY CounterAssumption
<1>2. Base * (y - x) \in Nat
  BY <1>1
<1>3. Base * y = Base * x + Base * (y - x)
  BY <1>1
<1> DEFINE a == Base * x
           b == Base * y
           c == Base * (y - x)
<1>4. a \in Int /\ b \in Int
  BY <1>1
<1> HIDE DEF a, b, c
<1>5. b = a + c /\ c \in Nat
  BY <1>2, <1>3 DEF a, b, c
<1>6. a <= b
  BY <1>4, <1>5
<1> QED
  BY <1>6 DEF a, b

LEMMA Divided ==
  ASSUME NEW a \in Nat
  PROVE  /\ a = Base * (a \div Base) + (a % Base)
         /\ a % Base \in 0 .. (Base - 1) /\ a \div Base \in Nat
<1>1. Base \in Nat /\ Base > 0
  BY CounterAssumption
<1>2. /\ a = Base * (a \div Base) + (a % Base)
      /\ a % Base \in 0 .. (Base - 1) /\ a \div Base \in Int
  BY <1>1
<1>3. a \div Base >= 0
  <2> DEFINE q == a \div Base
             r == a % Base
             t == Base * q
  <2>1. q \in Int /\ r \in 0 .. (Base - 1) /\ a = t + r
    BY <1>2
  <2>2. q <= -1 => t <= Base * (-1)
    <3> HIDE DEF q
    <3> QED
      BY <2>1, TimesGrows
  <2>3. Base * (-1) = -Base
    BY <1>1
  <2>4. t \in Int
    BY <1>1, <1>2
  <2> HIDE DEF q, r, t
  <2>5. ~(q <= -1)
    BY <1>1, <2>1, <2>2, <2>3, <2>4
  <2>6. q >= 0
    BY <2>1, <2>5
  <2> QED
    BY <2>6 DEF q
<1> QED
  BY <1>2, <1>3

\* Quotients keep the order, and a number is smaller when its quotient is.
LEMMA QuotientLeast ==
  ASSUME NEW q \in Int, NEW r \in 0 .. (Base - 1), NEW p \in Int, NEW t \in 0 .. (Base - 1),
         Base * q + r <= Base * p + t
  PROVE  q <= p
<1>1. Base \in Nat /\ Base > 0
  BY CounterAssumption
<1>2. p + 1 <= q => Base * (p + 1) <= Base * q
  BY TimesGrows
<1>3. Base * (p + 1) = Base * p + Base
  BY <1>1
<1> DEFINE a == Base * q
           b == Base * p
<1>4. a \in Int /\ b \in Int
  BY <1>1
<1>5. a + r <= b + t /\ (p + 1 <= q => b + Base <= a)
  BY <1>2, <1>3
<1> HIDE DEF a, b
<1> QED
  BY <1>1, <1>4, <1>5

LEMMA DivideBack ==
  ASSUME NEW q \in Nat, NEW r \in 0 .. (Base - 1)
  PROVE  /\ Base * q + r \in Nat
         /\ (Base * q + r) \div Base = q /\ (Base * q + r) % Base = r
<1> DEFINE a == Base * q + r
<1>1. a \in Nat
  <2>1. Base \in Nat
    BY CounterAssumption
  <2>2. Base * q \in Nat
    BY <2>1
  <2> QED
    BY <2>1, <2>2
<1> DEFINE p == a \div Base
           t == a % Base
<1>2. a = Base * p + t /\ t \in 0 .. (Base - 1) /\ p \in Nat
  <2> HIDE DEF a
  <2> QED
    BY <1>1, Divided
<1>3. Base * p + t = Base * q + r
  BY <1>2
<1>b. Base * p \in Int /\ Base * q \in Int
  BY <1>2, CounterAssumption
<1> HIDE DEF p, t, a
<1>4. p <= q /\ q <= p
  <2> DEFINE x == Base * p
             y == Base * q
  <2>1. x + t = y + r /\ x \in Int /\ y \in Int
    BY <1>3, <1>b
  <2> HIDE DEF x, y
  <2>2. x + t <= y + r /\ y + r <= x + t
    BY <1>2, <2>1, CounterAssumption
  <2> QED
    BY <1>2, <2>2, QuotientLeast DEF x, y
<1>5. p = q
  BY <1>2, <1>4
<1>6. t = r
  BY <1>2, <1>3, <1>5, <1>b
<1> QED
  BY <1>1, <1>5, <1>6 DEF p, t, a

-----------------------------------------------------------------------------
(* The counter: its bytes *)

Steps(n) == [Nat \X (1 .. n) -> Nat]
Solvable(base, g, n) ==
  \E f \in [0 .. n -> Nat] : f[0] = base /\ \A k \in 1 .. n : f[k] = g[<<f[k - 1], k>>]

\* A recursion over 0 .. n has a solution.
LEMMA Recursion ==
  ASSUME NEW n \in Nat, NEW base \in Nat, NEW g \in Steps(n)
  PROVE  Solvable(base, g, n)
<1> DEFINE s == [k \in 1 .. n |-> k]
<1>1. s \in Seq(1 .. n) /\ Len(s) = n /\ \A k \in 1 .. n : s[k] = k
  <2>1. s \in [1 .. n -> 1 .. n]
    OBVIOUS
  <2>2. s \in Seq(1 .. n)
    BY <2>1, SeqDef
  <2>3. Len(s) = n
    BY <2>2
  <2> QED
    BY <2>2, <2>3
<1>2. FoldOver(Nat, 1 .. n, g, base)
  BY DEF FoldOver, Steps
<1> HIDE DEF s
<1>3. PICK f \in Runs(Nat, g, base, s) : TRUE
  BY <1>1, <1>2, RunExists
<1> QED
  BY <1>1, <1>3 DEF Runs, IsRun, Solvable

Places == 0 .. (Bytes - 1)
Digits == [Places -> 0 .. (Base - 1)]

ShiftStep(from, n) ==
  from = [i \in 0 .. Bytes |-> IF i = 0 THEN n ELSE from[i - 1] \div Base]
NumberStep(from, b) ==
  from = [i \in 0 .. Bytes |-> IF i = Bytes THEN 0 ELSE Base * from[i + 1] + b[i]]

LEMMA ShiftedIs ==
  ASSUME NEW n \in Nat
  PROVE  /\ Shifted(n) \in [0 .. Bytes -> Nat]
         /\ Shifted(n)[0] = n
         /\ \A i \in Places : Shifted(n)[i + 1] = Shifted(n)[i] \div Base
<1>1. Bytes \in Nat
  BY CounterAssumption
<1> DEFINE g == [x \in Nat \X (1 .. Bytes) |-> x[1] \div Base]
<1>2. g \in Steps(Bytes)
  BY Divided DEF Steps
<1>3. PICK f \in [0 .. Bytes -> Nat] :
         f[0] = n /\ \A k \in 1 .. Bytes : f[k] = g[<<f[k - 1], k>>]
  <2> HIDE DEF g
  <2>1. Solvable(n, g, Bytes)
    BY <1>1, <1>2, Recursion
  <2> QED
    BY <2>1 DEF Solvable
<1>4. \A k \in 1 .. Bytes : f[k] = f[k - 1] \div Base
  <2> TAKE k \in 1 .. Bytes
  <2>1. f[k - 1] \in Nat
    BY <1>1, <1>3
  <2> QED
    BY <1>3, <2>1
<1>5. ShiftStep(f, n)
  <2>1. \A i \in 0 .. Bytes : f[i] = IF i = 0 THEN n ELSE f[i - 1] \div Base
    BY <1>1, <1>3, <1>4
  <2> QED
    BY <1>3, <2>1 DEF ShiftStep
<1> DEFINE h == Shifted(n)
<1>6. h = CHOOSE from : ShiftStep(from, n)
  BY DEF Shifted, ShiftStep
<1>7. ShiftStep(h, n)
  <2> HIDE DEF h
  <2> QED
    BY <1>5, <1>6
<1>8. h = f
  <2> HIDE DEF h
  <2>1. DOMAIN h = 0 .. Bytes /\ DOMAIN f = 0 .. Bytes
    BY <1>3, <1>7 DEF ShiftStep
  <2>2. GoOnAlike(h, f, Bytes)
    BY <1>1, <1>3, <1>4, <1>7 DEF GoOnAlike, ShiftStep
  <2>3. \A k \in 0 .. Bytes : h[k] = f[k]
    BY <1>1, <2>2, SameEnd
  <2> QED
    BY <1>3, <1>7, <2>3 DEF ShiftStep
<1>9. \A i \in Places : f[i + 1] = f[i] \div Base
  <2> TAKE i \in Places
  <2>1. i + 1 \in 1 .. Bytes /\ (i + 1) - 1 = i
    BY <1>1 DEF Places
  <2> QED
    BY <1>4, <2>1
<1> QED
  BY <1>3, <1>8, <1>9

LEMMA NumberIs ==
  ASSUME NEW b \in Digits
  PROVE  /\ Number(b) \in [0 .. Bytes -> Nat]
         /\ Number(b)[Bytes] = 0
         /\ \A i \in Places : Number(b)[i] = Base * Number(b)[i + 1] + b[i]
<1>1. Bytes \in Nat /\ Base \in Nat
  BY CounterAssumption
<1> DEFINE g == [x \in Nat \X (1 .. Bytes) |-> Base * x[1] + b[Bytes - x[2]]]
<1>2. g \in Steps(Bytes)
  <2> SUFFICES ASSUME NEW v \in Nat, NEW k \in 1 .. Bytes
               PROVE  Base * v + b[Bytes - k] \in Nat
    BY DEF Steps
  <2>1. b[Bytes - k] \in Nat
    BY <1>1 DEF Digits, Places
  <2>2. Base * v \in Nat
    BY <1>1
  <2> QED
    BY <2>1, <2>2
<1>3. PICK p \in [0 .. Bytes -> Nat] :
         p[0] = 0 /\ \A k \in 1 .. Bytes : p[k] = g[<<p[k - 1], k>>]
  <2> HIDE DEF g
  <2>1. Solvable(0, g, Bytes)
    BY <1>1, <1>2, Recursion
  <2> QED
    BY <2>1 DEF Solvable
<1>4. \A k \in 1 .. Bytes : p[k] = Base * p[k - 1] + b[Bytes - k]
  <2> TAKE k \in 1 .. Bytes
  <2>1. p[k - 1] \in Nat
    BY <1>1, <1>3
  <2> QED
    BY <1>3, <2>1
<1> HIDE DEF g
<1> DEFINE f == [i \in 0 .. Bytes |-> p[Bytes - i]]
<1>5. f \in [0 .. Bytes -> Nat] /\ f[Bytes] = 0
  BY <1>1, <1>3
<1>6. \A i \in Places : f[i] = Base * f[i + 1] + b[i]
  <2> TAKE i \in Places
  <2>1. Bytes - i \in 1 .. Bytes /\ (Bytes - i) - 1 = Bytes - (i + 1) /\ Bytes - (Bytes - i) = i
        /\ i \in 0 .. Bytes /\ i + 1 \in 0 .. Bytes
    BY <1>1 DEF Places
  <2>2. p[Bytes - i] = Base * p[Bytes - (i + 1)] + b[i]
    BY <1>4, <2>1
  <2> QED
    BY <2>1, <2>2
<1> HIDE DEF f
<1>7. NumberStep(f, b)
  <2>1. \A i \in 0 .. Bytes : f[i] = IF i = Bytes THEN 0 ELSE Base * f[i + 1] + b[i]
    BY <1>1, <1>5, <1>6 DEF Places
  <2> QED
    BY <1>5, <2>1 DEF NumberStep
<1> DEFINE h == Number(b)
<1>8. h = CHOOSE from : NumberStep(from, b)
  BY DEF Number, NumberStep
<1>9. NumberStep(h, b)
  <2> HIDE DEF h
  <2> QED
    BY <1>7, <1>8
<1>10. \A i \in 0 .. Bytes : h[i] = IF i = Bytes THEN 0 ELSE Base * h[i + 1] + b[i]
  <2> HIDE DEF h
  <2> QED
    BY <1>9 DEF NumberStep
<1> HIDE DEF h
<1>11. \A k \in 0 .. Bytes : h[Bytes - k] = f[Bytes - k]
  <2> DEFINE S == {k \in Nat : k <= Bytes => h[Bytes - k] = f[Bytes - k]}
  <2>1. 0 \in S
    BY <1>1, <1>5, <1>10
  <2>2. \A k \in Nat : k \in S => k + 1 \in S
    <3> SUFFICES ASSUME NEW k \in Nat, k \in S, k + 1 <= Bytes
                 PROVE  h[Bytes - (k + 1)] = f[Bytes - (k + 1)]
      OBVIOUS
    <3> DEFINE i == Bytes - (k + 1)
    <3>1. i \in Places /\ i \in 0 .. Bytes /\ i # Bytes /\ i + 1 = Bytes - k
      BY <1>1 DEF Places
    <3>2. h[Bytes - k] = f[Bytes - k]
      BY <1>1
    <3> HIDE DEF i
    <3>3. h[i] = Base * h[i + 1] + b[i] /\ f[i] = Base * f[i + 1] + b[i]
      BY <1>6, <1>10, <3>1
    <3>4. h[i] = f[i]
      BY <3>1, <3>2, <3>3
    <3> QED
      BY <3>4 DEF i
  <2> HIDE DEF S
  <2>3. \A k \in Nat : k \in S
    BY <2>1, <2>2, Induction
  <2> QED
    BY <1>1, <2>3 DEF S
<1>12. \A i \in 0 .. Bytes : h[i] = f[i]
  <2> TAKE i \in 0 .. Bytes
  <2>1. Bytes - i \in 0 .. Bytes /\ Bytes - (Bytes - i) = i
    BY <1>1
  <2> QED
    BY <1>11, <2>1
<1>13. h = f
  BY <1>5, <1>9, <1>12 DEF NumberStep
<1> QED
  BY <1>5, <1>6, <1>13 DEF h

LEMMA Upward ==
  ASSUME NEW S, 0 \in S, \A i \in Places : i \in S => i + 1 \in S
  PROVE  \A i \in 0 .. Bytes : i \in S
<1>1. Bytes \in Nat
  BY CounterAssumption
<1> DEFINE D == {k \in Nat : k <= Bytes => k \in S}
<1>2. 0 \in D
  OBVIOUS
<1>3. \A k \in Nat : k \in D => k + 1 \in D
  BY <1>1 DEF Places
<1> HIDE DEF D
<1>4. \A k \in Nat : k \in D
  BY <1>2, <1>3, Induction
<1> QED
  BY <1>1, <1>4 DEF D

LEMMA Downward ==
  ASSUME NEW S, Bytes \in S, \A i \in Places : i + 1 \in S => i \in S
  PROVE  \A i \in 0 .. Bytes : i \in S
<1>1. Bytes \in Nat
  BY CounterAssumption
<1> DEFINE D == {k \in Nat : k <= Bytes => Bytes - k \in S}
<1>2. 0 \in D
  BY <1>1
<1>3. \A k \in Nat : k \in D => k + 1 \in D
  <2> SUFFICES ASSUME NEW k \in Nat, k \in D, k + 1 <= Bytes
               PROVE  Bytes - (k + 1) \in S
    OBVIOUS
  <2>1. Bytes - (k + 1) \in Places /\ (Bytes - (k + 1)) + 1 = Bytes - k
    BY <1>1 DEF Places
  <2>2. Bytes - k \in S
    BY <1>1
  <2> QED
    BY <2>1, <2>2
<1> HIDE DEF D
<1>4. \A k \in Nat : k \in D
  BY <1>2, <1>3, Induction
<1>5. \A i \in 0 .. Bytes : Bytes - i \in Nat /\ Bytes - i <= Bytes /\ Bytes - (Bytes - i) = i
  BY <1>1
<1> QED
  BY <1>4, <1>5 DEF D

Top == [i \in Places |-> Base - 1]

LEMMA TopIsDigits == Top \in Digits /\ CounterEnd = Number(Top)[0] + 1 /\ \A i \in Places : Top[i] = Base - 1
<1>1. Base \in Nat /\ Base > 0 /\ Bytes \in Nat
  BY CounterAssumption
<1>2. Base - 1 \in 0 .. (Base - 1)
  BY <1>1
<1> QED
  BY <1>2 DEF Top, Digits, Places, CounterEnd

\* What bytes can hold is less than CounterEnd.
LEMMA NumberFits ==
  ASSUME NEW b \in Digits
  PROVE  Number(b)[0] \in 0 .. (CounterEnd - 1) /\ CounterEnd \in Nat \ {0}
<1>1. Bytes \in Nat /\ Base \in Nat
  BY CounterAssumption
<1> DEFINE f == Number(b)
           t == Number(Top)
<1>2. /\ f \in [0 .. Bytes -> Nat] /\ f[Bytes] = 0
      /\ \A i \in Places : f[i] = Base * f[i + 1] + b[i]
  BY NumberIs
<1>3. /\ t \in [0 .. Bytes -> Nat] /\ t[Bytes] = 0
      /\ \A i \in Places : t[i] = Base * t[i + 1] + (Base - 1)
  BY NumberIs, TopIsDigits
<1>4. CounterEnd = t[0] + 1
  BY TopIsDigits
<1> HIDE DEF f, t
<1> DEFINE S == {i \in 0 .. Bytes : f[i] <= t[i]}
<1>5. Bytes \in S
  BY <1>1, <1>2, <1>3
<1>6. ASSUME NEW i \in Places, i + 1 \in S PROVE i \in S
  <2>1. i \in 0 .. Bytes /\ i + 1 \in 0 .. Bytes
    BY <1>1 DEF Places
  <2> DEFINE x == Base * f[i + 1]
             y == Base * t[i + 1]
  <2>2. x <= y /\ x \in Nat /\ y \in Nat
    BY <1>1, <1>2, <1>3, <1>6, <2>1, TimesGrows
  <2>3. f[i] = x + b[i] /\ t[i] = y + (Base - 1) /\ b[i] \in 0 .. (Base - 1)
    BY <1>2, <1>3 DEF Digits
  <2> HIDE DEF x, y
  <2>4. f[i] <= t[i]
    BY <1>1, <2>2, <2>3
  <2> QED
    BY <2>1, <2>4
<1> HIDE DEF S
<1>7. 0 \in S
  <2>1. 0 \in 0 .. Bytes
    BY <1>1
  <2> QED
    BY <1>5, <1>6, <2>1, Downward
<1>8. f[0] <= t[0] /\ f[0] \in Nat /\ t[0] \in Nat
  BY <1>1, <1>2, <1>3, <1>7 DEF S
<1> QED
  BY <1>4, <1>8 DEF f

\* Reading back what the bytes of a number are.
LEMMA BytesOfNumber ==
  ASSUME NEW b \in Digits
  PROVE  /\ \A i \in 0 .. Bytes : Shifted(Number(b)[0])[i] = Number(b)[i]
         /\ \A i \in Places : Byte(Number(b)[0], i) = b[i]
<1>1. Bytes \in Nat /\ Base \in Nat
  BY CounterAssumption
<1> DEFINE f == Number(b)
           n == f[0]
           h == Shifted(n)
<1>2. /\ f \in [0 .. Bytes -> Nat]
      /\ \A i \in Places : f[i] = Base * f[i + 1] + b[i]
  BY NumberIs
<1> HIDE DEF f
<1>3. n \in Nat
  BY <1>1, <1>2
<1> HIDE DEF n
<1>4. h[0] = n /\ \A i \in Places : h[i + 1] = h[i] \div Base
  BY <1>3, ShiftedIs
<1>h. h = Shifted(n)
  OBVIOUS
<1> HIDE DEF h
<1>5. ASSUME NEW i \in Places PROVE f[i] \div Base = f[i + 1] /\ f[i] % Base = b[i]
  <2>1. i + 1 \in 0 .. Bytes
    BY <1>1 DEF Places
  <2>2. f[i + 1] \in Nat /\ b[i] \in 0 .. (Base - 1)
    BY <1>2, <2>1 DEF Digits
  <2>3. f[i] = Base * f[i + 1] + b[i]
    BY <1>2
  <2> QED
    BY <2>2, <2>3, DivideBack
<1> DEFINE S == {i \in 0 .. Bytes : h[i] = f[i]}
<1>6. 0 \in S
  BY <1>1, <1>4 DEF n
<1>7. \A i \in Places : i \in S => i + 1 \in S
  <2> SUFFICES ASSUME NEW i \in Places, i \in S PROVE i + 1 \in S
    OBVIOUS
  <2>1. i + 1 \in 0 .. Bytes
    BY <1>1 DEF Places
  <2>2. h[i + 1] = f[i + 1]
    BY <1>4, <1>5
  <2> QED
    BY <2>1, <2>2
<1> HIDE DEF S
<1>8. \A i \in 0 .. Bytes : i \in S
  BY <1>6, <1>7, Upward
<1>9. \A i \in 0 .. Bytes : h[i] = f[i]
  BY <1>8 DEF S
<1>10. ASSUME NEW i \in Places PROVE Byte(n, i) = b[i]
  <2>1. i \in 0 .. Bytes
    BY <1>1 DEF Places
  <2> QED
    BY <1>5, <1>9, <1>h, <2>1 DEF Byte
<1> QED
  BY <1>9, <1>10, <1>h DEF f, n

\* A quotient of a smaller number is not larger.
LEMMA ShiftedGrows ==
  ASSUME NEW m \in Nat, NEW n \in Nat, m <= n
  PROVE  \A i \in 0 .. Bytes : Shifted(m)[i] <= Shifted(n)[i]
<1>1. Bytes \in Nat
  BY CounterAssumption
<1> DEFINE f == Shifted(m)
           h == Shifted(n)
           S == {i \in 0 .. Bytes : f[i] <= h[i]}
<1>2. /\ f \in [0 .. Bytes -> Nat] /\ f[0] = m
      /\ \A i \in Places : f[i + 1] = f[i] \div Base
  BY ShiftedIs
<1>3. /\ h \in [0 .. Bytes -> Nat] /\ h[0] = n
      /\ \A i \in Places : h[i + 1] = h[i] \div Base
  BY ShiftedIs
<1> HIDE DEF f, h
<1>4. 0 \in S
  BY <1>1, <1>2, <1>3
<1>5. \A i \in Places : i \in S => i + 1 \in S
  <2> SUFFICES ASSUME NEW i \in Places, i \in S PROVE i + 1 \in S
    OBVIOUS
  <2>1. i \in 0 .. Bytes /\ i + 1 \in 0 .. Bytes
    BY <1>1 DEF Places
  <2>2. f[i] \in Nat /\ h[i] \in Nat /\ f[i] <= h[i]
    BY <1>2, <1>3, <2>1
  <2> DEFINE q == f[i] \div Base
             r == f[i] % Base
             u == h[i] \div Base
             v == h[i] % Base
  <2>3. f[i] = Base * q + r /\ r \in 0 .. (Base - 1) /\ q \in Nat
    BY <2>2, Divided
  <2>4. h[i] = Base * u + v /\ v \in 0 .. (Base - 1) /\ u \in Nat
    BY <2>2, Divided
  <2>5. f[i + 1] = q /\ h[i + 1] = u
    BY <1>2, <1>3
  <2> HIDE DEF q, r, u, v
  <2>6. q <= u
    BY <2>2, <2>3, <2>4, QuotientLeast
  <2> QED
    BY <2>1, <2>5, <2>6
<1> HIDE DEF S
<1>6. \A i \in 0 .. Bytes : i \in S
  BY <1>4, <1>5, Upward
<1> QED
  BY <1>6 DEF S, f, h

LEMMA ByteIs ==
  ASSUME NEW n \in Nat
  PROVE  \A i \in Places : /\ Byte(n, i) \in 0 .. (Base - 1)
                           /\ Shifted(n)[i] = Base * Shifted(n)[i + 1] + Byte(n, i)
<1> TAKE i \in Places
<1>1. i \in 0 .. Bytes
  BY CounterAssumption DEF Places
<1> DEFINE f == Shifted(n)
           a == f[i]
<1>2. a \in Nat /\ f[i + 1] = a \div Base
  BY <1>1, ShiftedIs
<1>3. Byte(n, i) = a % Base
  BY DEF Byte
<1> HIDE DEF a
<1>4. a = Base * (a \div Base) + (a % Base) /\ a % Base \in 0 .. (Base - 1)
  BY <1>2, Divided
<1>5. a = Base * f[i + 1] + Byte(n, i) /\ Byte(n, i) \in 0 .. (Base - 1)
  BY <1>2, <1>3, <1>4
<1> QED
  BY <1>5 DEF a, f

\* A number that fits has nothing beyond its bytes.
LEMMA NothingBeyond ==
  ASSUME NEW n \in 0 .. (CounterEnd - 1)
  PROVE  n \in Nat /\ Shifted(n)[Bytes] = 0
<1>1. Bytes \in Nat /\ Base \in Nat /\ Base > 0 /\ n \in Nat
  BY CounterAssumption
<1> DEFINE t == Number(Top)
           h == Shifted(n)
           S == {i \in 0 .. Bytes : h[i] <= t[i]}
<1>2. /\ t \in [0 .. Bytes -> Nat] /\ t[Bytes] = 0
      /\ \A i \in Places : t[i] = Base * t[i + 1] + (Base - 1)
  BY NumberIs, TopIsDigits
<1>3. CounterEnd = t[0] + 1
  BY TopIsDigits
<1>4. h \in [0 .. Bytes -> Nat] /\ h[0] = n
  BY <1>1, ShiftedIs
<1>5. \A i \in Places : Byte(n, i) \in 0 .. (Base - 1) /\ h[i] = Base * h[i + 1] + Byte(n, i)
  BY <1>1, ByteIs
<1> HIDE DEF t, h
<1>6. 0 \in S
  <2>1. 0 \in 0 .. Bytes /\ t[0] \in Nat
    BY <1>1, <1>2
  <2> QED
    BY <1>1, <1>3, <1>4, <2>1
<1>7. \A i \in Places : i \in S => i + 1 \in S
  <2> SUFFICES ASSUME NEW i \in Places, i \in S PROVE i + 1 \in S
    OBVIOUS
  <2>1. i \in 0 .. Bytes /\ i + 1 \in 0 .. Bytes
    BY <1>1 DEF Places
  <2>2. h[i + 1] \in Nat /\ t[i + 1] \in Nat /\ h[i] <= t[i]
    BY <1>2, <1>4, <2>1
  <2>3. /\ h[i] = Base * h[i + 1] + Byte(n, i) /\ Byte(n, i) \in 0 .. (Base - 1)
        /\ t[i] = Base * t[i + 1] + (Base - 1) /\ Base - 1 \in 0 .. (Base - 1)
    BY <1>1, <1>2, <1>5
  <2>4. h[i + 1] <= t[i + 1]
    BY <2>2, <2>3, QuotientLeast
  <2> QED
    BY <2>1, <2>4
<1> HIDE DEF S
<1>8. \A i \in 0 .. Bytes : i \in S
  BY <1>6, <1>7, Upward
<1>9. Bytes \in 0 .. Bytes
  BY <1>1
<1>10. h[Bytes] <= 0 /\ h[Bytes] \in Nat
  BY <1>2, <1>4, <1>8, <1>9 DEF S
<1> QED
  BY <1>1, <1>10 DEF h

\* The bytes of a number that fits put together are the number.
LEMMA NumberOfBytes ==
  ASSUME NEW n \in 0 .. (CounterEnd - 1), NEW b \in Digits, \A i \in Places : b[i] = Byte(n, i)
  PROVE  Number(b)[0] = n
<1>1. Bytes \in Nat
  BY CounterAssumption
<1> DEFINE f == Number(b)
           h == Shifted(n)
           S == {i \in 0 .. Bytes : f[i] = h[i]}
<1>2. n \in Nat /\ h[Bytes] = 0
  BY NothingBeyond
<1>3. /\ f[Bytes] = 0 /\ \A i \in Places : f[i] = Base * f[i + 1] + b[i]
  BY NumberIs
<1>4. h[0] = n /\ \A i \in Places : h[i] = Base * h[i + 1] + Byte(n, i)
  BY <1>2, ShiftedIs, ByteIs
<1> HIDE DEF f, h
<1>5. Bytes \in S
  BY <1>1, <1>2, <1>3
<1>6. \A i \in Places : i + 1 \in S => i \in S
  <2> SUFFICES ASSUME NEW i \in Places, i + 1 \in S PROVE i \in S
    OBVIOUS
  <2>1. i \in 0 .. Bytes
    BY <1>1 DEF Places
  <2>2. f[i + 1] = h[i + 1] /\ b[i] = Byte(n, i)
    OBVIOUS
  <2>3. f[i] = h[i]
    BY <1>3, <1>4, <2>2
  <2> QED
    BY <2>1, <2>3
<1> HIDE DEF S
<1>7. \A i \in 0 .. Bytes : i \in S
  BY <1>5, <1>6, Downward
<1>8. f[0] = h[0]
  BY <1>1, <1>7 DEF S
<1> QED
  BY <1>4, <1>8 DEF f

NotAbove(b, n) == \A i \in 0 .. Bytes : Number(b)[i] <= Shifted(n)[i]

LEMMA TotalNotAbove ==
  ASSUME NEW b \in Digits, NEW n \in Nat, NotAbove(b, n)
  PROVE  Number(b)[0] <= n
<1>1. 0 \in 0 .. Bytes
  BY CounterAssumption
<1>2. Number(b)[0] <= Shifted(n)[0]
  BY <1>1 DEF NotAbove
<1>3. Shifted(n)[0] = n
  BY ShiftedIs
<1> QED
  BY <1>2, <1>3

LEMMA WithMore ==
  ASSUME NEW b \in Digits, NEW m \in Nat, NEW n \in Nat, m <= n, NotAbove(b, m)
  PROVE  NotAbove(b, n)
<1> DEFINE f == Number(b)
           g == Shifted(m)
           h == Shifted(n)
<1>1. f \in [0 .. Bytes -> Nat]
  BY NumberIs
<1>2. g \in [0 .. Bytes -> Nat]
  BY ShiftedIs
<1>3. h \in [0 .. Bytes -> Nat]
  BY ShiftedIs
<1>4. \A i \in 0 .. Bytes : g[i] <= h[i]
  BY ShiftedGrows
<1>5. \A i \in 0 .. Bytes : f[i] <= g[i]
  BY DEF NotAbove
<1> HIDE DEF f, g, h
<1>6. \A i \in 0 .. Bytes : f[i] <= h[i]
  BY <1>1, <1>2, <1>3, <1>4, <1>5
<1> QED
  BY <1>6 DEF f, h, NotAbove

\* A byte of n written over one of b, when those below are of n already.
LEMMA WrittenNotAbove ==
  ASSUME NEW b \in Digits, NEW n \in Nat, NEW a \in Places, NotAbove(b, n),
         \A i \in Places : i < a => b[i] = Byte(n, i),
         NEW c \in Digits, c = [b EXCEPT ![a] = Byte(n, a)]
  PROVE  NotAbove(c, n)
<1>1. Bytes \in Nat /\ Base \in Nat
  BY CounterAssumption
<1> DEFINE f == Number(b)
           g == Number(c)
           h == Shifted(n)
           S == {i \in 0 .. Bytes : g[i] <= h[i] /\ (i > a => g[i] = f[i])}
<1>2. /\ f \in [0 .. Bytes -> Nat] /\ f[Bytes] = 0
      /\ \A i \in Places : f[i] = Base * f[i + 1] + b[i]
  BY NumberIs
<1>3. /\ g \in [0 .. Bytes -> Nat] /\ g[Bytes] = 0
      /\ \A i \in Places : g[i] = Base * g[i + 1] + c[i]
  BY NumberIs
<1>4. h \in [0 .. Bytes -> Nat]
  BY ShiftedIs
<1>5. \A i \in Places : Byte(n, i) \in 0 .. (Base - 1) /\ h[i] = Base * h[i + 1] + Byte(n, i)
  BY ByteIs
<1>6. \A i \in 0 .. Bytes : f[i] <= h[i]
  BY DEF NotAbove
<1> HIDE DEF f, g, h
<1>7. Bytes \in S
  BY <1>1, <1>2, <1>3, <1>4
<1>8. \A i \in Places : i + 1 \in S => i \in S
  <2> SUFFICES ASSUME NEW i \in Places, i + 1 \in S PROVE i \in S
    OBVIOUS
  <2>1. i \in 0 .. Bytes /\ i + 1 \in 0 .. Bytes /\ i \in Int /\ a \in Int
    BY <1>1 DEF Places
  <2>2. g[i + 1] <= h[i + 1] /\ g[i + 1] \in Nat /\ h[i + 1] \in Nat
    BY <1>3, <1>4, <2>1
  <2>3. CASE i > a
    <3>1. c[i] = b[i] /\ g[i + 1] = f[i + 1]
      BY <2>1, <2>3 DEF Digits
    <3>2. g[i] = f[i]
      BY <1>2, <1>3, <3>1
    <3> QED
      BY <1>6, <2>1, <3>2
  <2>4. CASE ~(i > a)
    <3>1. c[i] = Byte(n, i)
      BY <2>1, <2>4 DEF Digits
    <3> DEFINE x == Base * g[i + 1]
               y == Base * h[i + 1]
    <3>2. x <= y /\ x \in Nat /\ y \in Nat
      BY <1>1, <2>2, TimesGrows
    <3>3. g[i] = x + Byte(n, i) /\ h[i] = y + Byte(n, i) /\ Byte(n, i) \in Nat
      BY <1>1, <1>3, <1>5, <3>1
    <3> HIDE DEF x, y
    <3>4. g[i] <= h[i]
      BY <3>2, <3>3
    <3> QED
      BY <2>1, <2>4, <3>4
  <2> QED
    BY <2>3, <2>4
<1> HIDE DEF S
<1>9. \A i \in 0 .. Bytes : i \in S
  BY <1>7, <1>8, Downward
<1> QED
  BY <1>9 DEF S, g, h, NotAbove

-----------------------------------------------------------------------------
(* The counter is saved byte by byte *)

CountTypes ==
  /\ eep \in Digits /\ at \in 0 .. Bytes
  /\ clickCounter \in 0 .. (CounterEnd - 1) /\ lastSaved \in 0 .. (CounterEnd - 1)
  /\ presses \in 0 .. MaxPresses /\ start \in 0 .. (CounterEnd - 1)

\* A save has written the low bytes, and the others are still of the save before.
SavedLow == pc = "saving" => \A i \in Places : i < at => eep[i] = Byte(clickCounter, i)
OldHigh == \A i \in Places : eep[i] = Byte(lastSaved, i) \/ (pc = "saving" /\ i < at)

\* As long as the counter cannot have gone round: from each byte on, the EEPROM is not ahead
\* of the counter, and the counter not of the presses.
NotAhead ==
  start + presses < CounterEnd =>
    clickCounter <= start + presses /\ NotAbove(eep, clickCounter)

CountInv == CountTypes /\ (~failed => SavedLow /\ OldHigh /\ NotAhead)

LEMMA ReadIsNotAbove ==
  ASSUME NEW b \in Digits
  PROVE  NotAbove(b, Number(b)[0])
<1>1. \A i \in 0 .. Bytes : Shifted(Number(b)[0])[i] = Number(b)[i]
  BY BytesOfNumber
<1>2. \A i \in 0 .. Bytes : Number(b)[i] \in Nat
  BY NumberIs
<1>3. \A i \in 0 .. Bytes : Number(b)[i] <= Shifted(Number(b)[0])[i]
  BY <1>1, <1>2
<1> QED
  BY <1>3 DEF NotAbove

LEMMA CountInit == PanelInit => CountInv
<1> SUFFICES ASSUME PanelInit PROVE CountInv
  OBVIOUS
<1>1. PICK b \in {0, Base - 1} : eep = [i \in Places |-> b]
  BY DEF PanelInit, CounterInit, Places
<1>2. /\ pc = "top" /\ at = 0 /\ presses = 0 /\ failed = FALSE
      /\ start = Number(eep)[0] /\ clickCounter = start /\ lastSaved = start
  BY DEF PanelInit, CounterInit, readKeyCountEEP
<1>3. Bytes \in Nat /\ Base \in Nat \ {0, 1} /\ MaxPresses \in Nat
  BY CounterAssumption
<1>4. eep \in Digits
  BY <1>1, <1>3 DEF Digits
<1>5. Number(eep)[0] \in 0 .. (CounterEnd - 1)
  BY <1>4, NumberFits
<1>6. CountTypes
  BY <1>2, <1>3, <1>4, <1>5 DEF CountTypes
<1>7. SavedLow
  BY <1>2 DEF SavedLow
<1>8. OldHigh
  <2>1. \A i \in Places : Byte(Number(eep)[0], i) = eep[i]
    BY <1>4, BytesOfNumber
  <2> QED
    BY <1>2, <2>1 DEF OldHigh
<1>9. NotAhead
  <2>1. NotAbove(eep, clickCounter)
    BY <1>2, <1>4, ReadIsNotAbove
  <2>2. start \in Nat /\ start <= start + presses
    BY <1>2, <1>4, NumberFits
  <2> QED
    BY <1>2, <2>1, <2>2 DEF NotAhead
<1> QED
  BY <1>6, <1>7, <1>8, <1>9 DEF CountInv

\* A press counts one up or comes back to zero.
LEMMA NextCount ==
  ASSUME NEW n \in 0 .. (CounterEnd - 1), CounterEnd \in Nat \ {0}
  PROVE  /\ (n + 1) % CounterEnd \in 0 .. (CounterEnd - 1)
         /\ n + 1 < CounterEnd => (n + 1) % CounterEnd = n + 1
<1> DEFINE M == CounterEnd
<1>1. M \in Nat /\ M > 0 /\ n \in 0 .. (M - 1)
  OBVIOUS
<1> HIDE DEF M
<1>2. n + 1 < M => (n + 1) % M = n + 1
  BY <1>1, Remainder
<1>3. n + 1 = M => (n + 1) % M = 0
  BY <1>1, Remainder
<1>4. n + 1 < M \/ n + 1 = M
  BY <1>1
<1>5. (n + 1) % M \in 0 .. (M - 1)
  BY <1>1, <1>2, <1>3, <1>4
<1> QED
  BY <1>2, <1>5 DEF M

LEMMA SaveByteCounts == CountInv /\ SaveByte => CountInv'
<1> SUFFICES ASSUME CountInv, SaveByte PROVE CountInv'
  OBVIOUS
<1>1. Bytes \in Nat /\ CountTypes
  BY CounterAssumption DEF CountInv
<1>2. /\ pc = "saving" /\ pc' = pc /\ at \in Places /\ at' = at + 1
      /\ UNCHANGED <<clickCounter, presses, lastSaved, start>>
  BY <1>1 DEF SaveByte, CountTypes, Places
<1>3. clickCounter \in Nat /\ CounterEnd \in Nat
  BY <1>1, NumberFits DEF CountTypes
<1>4. \/ eep' = [eep EXCEPT ![at] = Byte(clickCounter, at)] /\ failed' = failed
      \/ failed' = TRUE /\ eep' = eep
  BY DEF SaveByte, Order
<1>5. Byte(clickCounter, at) \in 0 .. (Base - 1)
  BY <1>2, <1>3, ByteIs
<1>6. eep' \in Digits
  BY <1>1, <1>2, <1>4, <1>5 DEF CountTypes, Digits
<1>7. CountTypes'
  BY <1>1, <1>2, <1>4, <1>6 DEF CountTypes, Places
<1>8. ASSUME ~failed' PROVE SavedLow' /\ OldHigh' /\ NotAhead'
  <2>1. ~failed /\ eep' = [eep EXCEPT ![at] = Byte(clickCounter, at)] /\ eep \in Digits
    BY <1>1, <1>4, <1>8 DEF CountTypes
  <2>2. SavedLow /\ OldHigh /\ NotAhead
    BY <2>1 DEF CountInv
  <2>3. \A i \in Places : eep'[i] = IF i = at THEN Byte(clickCounter, i) ELSE eep[i]
    BY <2>1 DEF Digits
  <2>4. \A i \in Places : i < at => eep[i] = Byte(clickCounter, i)
    BY <1>2, <2>2 DEF SavedLow
  <2>5. \A i \in Places : i < at' => i < at \/ i = at
    BY <1>1, <1>2 DEF Places
  <2>6. \A i \in Places : i < at' => eep'[i] = Byte(clickCounter', i)
    BY <1>2, <2>3, <2>4, <2>5
  <2>7. SavedLow'
    BY <2>6 DEF SavedLow
  <2>8. \A i \in Places : i < at \/ i = at => i < at'
    BY <1>1, <1>2 DEF Places
  <2>9. \A i \in Places : eep'[i] = Byte(lastSaved, i) \/ i < at'
    BY <1>2, <2>2, <2>3, <2>8 DEF OldHigh
  <2>10. OldHigh'
    BY <1>2, <2>9 DEF OldHigh
  <2>11. NotAbove(eep, clickCounter) => NotAbove(eep', clickCounter)
    BY <1>2, <1>3, <1>6, <2>1, <2>4, WrittenNotAbove
  <2>12. NotAhead'
    <3>1. NotAbove(eep, clickCounter)' <=> NotAbove(eep', clickCounter)
      BY <1>2 DEF NotAbove
    <3> QED
      BY <1>2, <2>2, <2>11, <3>1 DEF NotAhead
  <2> QED
    BY <2>7, <2>10, <2>12
<1> QED
  BY <1>7, <1>8 DEF CountInv

LEMMA CounterRests ==
  ASSUME CountInv, UNCHANGED <<eep, at, clickCounter, lastSaved, presses, failed, start>>,
         pc' = "saving" <=> pc = "saving"
  PROVE  CountInv'
<1>1. CountTypes'
  BY DEF CountInv, CountTypes
<1>2. SavedLow => SavedLow'
  BY DEF SavedLow
<1>3. OldHigh => OldHigh'
  BY DEF OldHigh
<1>4. NotAhead => NotAhead'
  BY DEF NotAhead, NotAbove
<1> QED
  BY <1>1, <1>2, <1>3, <1>4 DEF CountInv

LEMMA SaveEndsCounts == CountInv /\ SaveEnds => CountInv'
<1> SUFFICES ASSUME CountInv, SaveEnds PROVE CountInv'
  OBVIOUS
<1>1. Bytes \in Nat /\ CountTypes
  BY CounterAssumption DEF CountInv
<1>2. /\ pc = "saving" /\ pc' = "scan" /\ at = Bytes /\ lastSaved' = clickCounter
      /\ UNCHANGED <<eep, at, clickCounter, presses, failed, start>>
  BY DEF SaveEnds
<1>3. CountTypes'
  BY <1>1, <1>2 DEF CountTypes
<1>4. ASSUME ~failed PROVE SavedLow' /\ OldHigh' /\ NotAhead'
  <2>1. SavedLow /\ NotAhead
    BY <1>4 DEF CountInv
  <2>2. \A i \in Places : i < at
    BY <1>1, <1>2 DEF Places
  <2>3. OldHigh'
    BY <1>2, <2>1, <2>2 DEF OldHigh, SavedLow
  <2>4. NotAbove(eep, clickCounter) => NotAbove(eep, clickCounter)'
    BY <1>2 DEF NotAbove
  <2>5. NotAhead'
    BY <1>2, <2>1, <2>4 DEF NotAhead
  <2> QED
    BY <1>2, <2>3, <2>5 DEF SavedLow
<1> QED
  BY <1>2, <1>3, <1>4 DEF CountInv

LEMMA ScanCountsCounts == CountInv /\ ScanCounts => CountInv'
<1> SUFFICES ASSUME CountInv, ScanCounts PROVE CountInv'
  OBVIOUS
<1>1. /\ CountTypes /\ CounterEnd \in Nat \ {0} /\ MaxPresses \in Nat
      /\ pc = "scan" /\ pc' = "switch" /\ UNCHANGED <<eep, at, lastSaved, failed, start>>
  <2>1. CountTypes
    BY DEF CountInv
  <2> QED
    BY <2>1, NumberFits, CounterAssumption DEF CountTypes, ScanCounts, saveVars
<1>2. CASE UNCHANGED <<clickCounter, presses>>
  BY <1>1, <1>2, CounterRests
<1>3. CASE /\ presses < MaxPresses /\ presses' = presses + 1
           /\ clickCounter' = (clickCounter + 1) % CounterEnd
  <2>1. /\ clickCounter' \in 0 .. (CounterEnd - 1)
        /\ clickCounter + 1 < CounterEnd => clickCounter' = clickCounter + 1
    BY <1>1, <1>3, NextCount DEF CountTypes
  <2>2. CountTypes'
    BY <1>1, <1>3, <2>1 DEF CountTypes
  <2>3. OldHigh => OldHigh'
    BY <1>1 DEF OldHigh
  <2>4. NotAhead => NotAhead'
    <3> SUFFICES ASSUME NotAhead, start' + presses' < CounterEnd
                 PROVE  clickCounter' <= start' + presses' /\ NotAbove(eep, clickCounter)'
      BY DEF NotAhead
    <3>1. presses \in Nat /\ clickCounter \in Nat /\ start \in Nat
      BY <1>1 DEF CountTypes
    <3>2. start + presses < CounterEnd
      BY <1>1, <1>3, <3>1
    <3>3. clickCounter <= start + presses /\ NotAbove(eep, clickCounter)
      BY <3>2 DEF NotAhead
    <3>4. clickCounter' = clickCounter + 1
      BY <1>1, <1>3, <2>1, <3>1, <3>3
    <3>5. eep \in Digits /\ clickCounter + 1 \in Nat /\ clickCounter <= clickCounter + 1
      BY <1>1, <3>1 DEF CountTypes
    <3>6. NotAbove(eep, clickCounter + 1)
      BY <3>1, <3>3, <3>5, WithMore
    <3>7. NotAbove(eep, clickCounter')
      BY <3>4, <3>6
    <3>8. NotAbove(eep, clickCounter)'
      BY <1>1, <3>7 DEF NotAbove
    <3> QED
      BY <1>1, <1>3, <3>1, <3>3, <3>4, <3>8
  <2> QED
    BY <1>1, <2>2, <2>3, <2>4 DEF CountInv, SavedLow
<1> QED
  BY <1>2, <1>3 DEF ScanCounts

LEMMA BootsCount == CountInv /\ Boots => CountInv'
<1> SUFFICES ASSUME CountInv, Boots PROVE CountInv'
  OBVIOUS
<1>1. /\ CountTypes /\ eep \in Digits /\ Bytes \in Nat
      /\ pc' = "top" /\ clickCounter' = Number(eep)[0] /\ lastSaved' = Number(eep)[0] /\ at' = 0
      /\ UNCHANGED <<eep, failed, presses, start>>
  BY CounterAssumption DEF CountInv, CountTypes, Boots, CounterBoots, readKeyCountEEP
<1>2. Number(eep)[0] \in 0 .. (CounterEnd - 1) /\ CounterEnd \in Nat
  BY <1>1, NumberFits
<1>3. CountTypes'
  BY <1>1, <1>2 DEF CountTypes
<1>4. \A i \in Places : Byte(Number(eep)[0], i) = eep[i]
  BY <1>1, BytesOfNumber
<1>5. OldHigh'
  BY <1>1, <1>4 DEF OldHigh
<1>6. ASSUME ~failed PROVE NotAhead'
  <2> SUFFICES ASSUME start + presses < CounterEnd
               PROVE  clickCounter' <= start + presses /\ NotAbove(eep, clickCounter)'
    BY <1>1 DEF NotAhead
  <2>1. clickCounter <= start + presses /\ NotAbove(eep, clickCounter)
    BY <1>6 DEF CountInv, NotAhead
  <2>2. presses \in Nat /\ clickCounter \in Nat /\ start \in Nat
    BY <1>1 DEF CountTypes
  <2>3. Number(eep)[0] <= clickCounter
    BY <1>1, <2>1, <2>2, TotalNotAbove
  <2>4. NotAbove(eep, Number(eep)[0])
    BY <1>1, ReadIsNotAbove
  <2>5. NotAbove(eep, clickCounter)'
    BY <1>1, <2>4 DEF NotAbove
  <2> QED
    BY <1>1, <1>2, <2>1, <2>2, <2>3, <2>5
<1> QED
  BY <1>1, <1>3, <1>5, <1>6 DEF CountInv, SavedLow

LEMMA CountStep == CountInv /\ [PanelNext]_panelVars => CountInv'
<1> SUFFICES ASSUME CountInv, [PanelNext]_panelVars PROVE CountInv'
  OBVIOUS
<1>1. CASE monitorKeycount
  <2>1. /\ pc = "top" /\ pc' \in {"saving", "scan"} /\ at' = 0
        /\ UNCHANGED <<eep, clickCounter, lastSaved, presses, failed, start>>
    BY <1>1 DEF monitorKeycount
  <2>2. CountTypes'
    BY <2>1, CounterAssumption DEF CountInv, CountTypes
  <2>3. SavedLow'
    BY <2>1 DEF SavedLow, Places
  <2>4. OldHigh => OldHigh'
    BY <2>1 DEF OldHigh
  <2>5. NotAhead => NotAhead'
    BY <2>1 DEF NotAhead, NotAbove
  <2> QED
    BY <2>1, <2>2, <2>3, <2>4, <2>5 DEF CountInv
<1>2. CASE SaveByte
  BY <1>2, SaveByteCounts
<1>3. CASE SaveEnds
  BY <1>3, SaveEndsCounts
<1>4. CASE ScanCounts
  BY <1>4, ScanCountsCounts
<1>5. CASE (DisplayNext \/ DisplayEnv) /\ UNCHANGED counterVars
  <2>1. pc = "saving" <=> pc' = "saving"
    BY <1>5 DEF DisplayNext, DisplayEnv, OtherMode, isGenerativeModeChanged,
         AskMode, AskText, AskStream, Ask, NoEnter, Read, WaitEnds, PromptUsed, Waiting, Touch, Answer,
         NoAnswer, Stray
  <2>2. UNCHANGED <<eep, at, clickCounter, lastSaved, presses, failed, start>>
    BY <1>5 DEF counterVars, saveVars
  <2> QED
    BY <2>1, <2>2, CounterRests
<1>6. CASE Boots
  BY <1>6, BootsCount
<1>7. CASE Tick
  BY <1>7, CounterRests DEF Tick, CounterTick, saveVars
<1>8. CASE UNCHANGED panelVars
  BY <1>8, CounterRests DEF panelVars, counterVars, saveVars
<1> QED
  BY <1>1, <1>2, <1>3, <1>4, <1>5, <1>6, <1>7, <1>8 DEF PanelNext, CounterNext

LEMMA CountInvHolds == PanelSpec => []CountInv
BY CountInit, CountStep, PTL DEF PanelSpec

\* The counter in the EEPROM is never ahead of the presses, wherever saves are torn, unless a
\* write failed, for a counter of any number of bytes and also after it has gone round
\* (EEPROM.h:62-90).
THEOREM NeverAhead == PanelSpec => []CountNeverAhead
<1>1. CountInv => CountNeverAhead
  <2> SUFFICES ASSUME CountInv, ~failed PROVE readKeyCountEEP <= start + presses
    BY DEF CountNeverAhead
  <2>1. CountTypes /\ NotAhead /\ eep \in Digits
    BY DEF CountInv, CountTypes
  <2>2. Number(eep)[0] \in 0 .. (CounterEnd - 1) /\ CounterEnd \in Nat
    BY <2>1, NumberFits
  <2>3. presses \in Nat /\ clickCounter \in Nat /\ start \in Nat
    BY <2>1 DEF CountTypes
  <2>4. CASE start + presses < CounterEnd
    <3>1. NotAbove(eep, clickCounter) /\ clickCounter <= start + presses
      BY <2>1, <2>4 DEF NotAhead
    <3>2. Number(eep)[0] <= clickCounter
      BY <2>1, <2>3, <3>1, TotalNotAbove
    <3> QED
      BY <2>2, <2>3, <3>1, <3>2 DEF readKeyCountEEP
  <2>5. CASE ~(start + presses < CounterEnd)
    BY <2>2, <2>3, <2>5 DEF readKeyCountEEP
  <2> QED
    BY <2>4, <2>5
<1> QED
  BY <1>1, CountInvHolds, PTL

\* When a save changes no byte but the low one, which it writes first, the bytes are those of
\* the counter from then on.
LEMMA NoCarryNoLoss ==
  ASSUME NEW m \in Nat, NEW n \in 0 .. (CounterEnd - 1), m \div Base = n \div Base,
         NEW b \in Digits, b[0] = Byte(n, 0),
         \A i \in Places : b[i] = Byte(m, i) \/ b[i] = Byte(n, i)
  PROVE  Number(b)[0] = n
<1>1. Bytes \in Nat \ {0} /\ n \in Nat
  BY NothingBeyond, CounterAssumption
<1> DEFINE f == Shifted(m)
           h == Shifted(n)
           S == {i \in 0 .. Bytes : i > 0 => f[i] = h[i]}
<1>2. f[0] = m /\ \A i \in Places : f[i + 1] = f[i] \div Base
  BY ShiftedIs
<1>3. h[0] = n /\ \A i \in Places : h[i + 1] = h[i] \div Base
  BY <1>1, ShiftedIs
<1>f. \A i \in Places : Byte(m, i) = f[i] % Base /\ Byte(n, i) = h[i] % Base
  BY DEF Byte
<1> HIDE DEF f, h
<1>4. 0 \in S
  BY <1>1
<1>5. \A i \in Places : i \in S => i + 1 \in S
  <2> SUFFICES ASSUME NEW i \in Places, i \in S PROVE i + 1 \in S
    OBVIOUS
  <2>1. i + 1 \in 0 .. Bytes /\ (i > 0 \/ i = 0)
    BY <1>1 DEF Places
  <2>2. f[i] \div Base = h[i] \div Base
    BY <1>2, <1>3, <2>1
  <2> QED
    BY <1>2, <1>3, <2>1, <2>2
<1> HIDE DEF S
<1>6. \A i \in 0 .. Bytes : i \in S
  BY <1>4, <1>5, Upward
<1>7. \A i \in Places : i > 0 => Byte(m, i) = Byte(n, i)
  <2> TAKE i \in Places
  <2>1. i \in 0 .. Bytes
    BY <1>1 DEF Places
  <2>2. i > 0 => f[i] = h[i]
    BY <1>6, <2>1 DEF S
  <2> QED
    BY <1>f, <2>2
<1>8. \A i \in Places : i > 0 \/ i = 0
  BY <1>1 DEF Places
<1>9. \A i \in Places : b[i] = Byte(n, i)
  BY <1>7, <1>8
<1> QED
  BY <1>9, NumberOfBytes

\* Presses that were saved are lost only by a restart in a save that carries into a higher
\* byte or finds the counter gone round, for a counter of any number of bytes and any number
\* of presses (EEPROM.h:62-105).
THEOREM SavedPressesKept == PanelSpec => []LossNeedsCarry
<1>1. CountInv => LossNeedsCarry
  <2> SUFFICES ASSUME CountInv, ~failed,
                      ~(/\ pc = "saving"
                        /\ \/ lastSaved \div Base # clickCounter \div Base
                           \/ clickCounter < lastSaved)
               PROVE  readKeyCountEEP >= lastSaved
    BY DEF LossNeedsCarry
  <2>1. CountTypes /\ SavedLow /\ OldHigh /\ eep \in Digits
    BY DEF CountInv, CountTypes
  <2>2. /\ CounterEnd \in Nat /\ lastSaved \in Nat /\ clickCounter \in Nat
        /\ lastSaved \in 0 .. (CounterEnd - 1) /\ clickCounter \in 0 .. (CounterEnd - 1)
    BY <2>1, NumberFits DEF CountTypes
  <2>3. pc = "saving" => lastSaved <= clickCounter
    BY <2>2
  <2>4. CASE pc = "saving" /\ at # 0
    <3>1. 0 \in Places /\ 0 < at
      BY <2>1, <2>4, CounterAssumption DEF CountTypes, Places
    <3>2. eep[0] = Byte(clickCounter, 0)
      BY <2>1, <2>4, <3>1 DEF SavedLow
    <3>3. \A i \in Places : eep[i] = Byte(lastSaved, i) \/ eep[i] = Byte(clickCounter, i)
      BY <2>1, <2>4 DEF SavedLow, OldHigh
    <3>4. lastSaved \div Base = clickCounter \div Base
      BY <2>4
    <3>5. Number(eep)[0] = clickCounter
      BY <2>1, <2>2, <3>2, <3>3, <3>4, NoCarryNoLoss
    <3> QED
      BY <2>2, <2>3, <2>4, <3>5 DEF readKeyCountEEP
  <2>5. CASE ~(pc = "saving" /\ at # 0)
    <3>1. \A i \in Places : eep[i] = Byte(lastSaved, i)
      <4>1. \A i \in Places : ~(i < 0)
        BY CounterAssumption DEF Places
      <4> QED
        BY <2>1, <2>5, <4>1 DEF OldHigh
    <3>2. Number(eep)[0] = lastSaved
      BY <2>1, <2>2, <3>1, NumberOfBytes
    <3> QED
      BY <2>2, <3>2 DEF readKeyCountEEP
  <2> QED
    BY <2>4, <2>5
<1> QED
  BY <1>1, CountInvHolds, PTL
=============================================================================
