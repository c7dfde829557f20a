----------------------------- MODULE KeyCounter -----------------------------
(***************************************************************************)
(* The counter of key presses: counted in RAM, saved to the EEPROM every   *)
(* half hour, one byte after the other, and read back at power-up.         *)
(***************************************************************************)
EXTENDS Loop

CONSTANTS
  Base, Bytes, \* the counter's bytes: four of 256
  intervalSaveKeycount,
  MaxPresses,  \* bound: presses
  MaxBoots     \* bound: restarts

ASSUME CounterAssumption ==
  Base \in Nat \ {0, 1} /\ Bytes \in Nat \ {0} /\ intervalSaveKeycount \in Nat
    /\ MaxPresses \in Nat /\ MaxBoots \in Nat
\* Half an hour and two passes, against the forty-nine days after which millis() wraps.
ASSUME IntervalAssumption == intervalSaveKeycount + 2 * MaxPass < W

VARIABLES
  clickCounter,
  timerSaveKeycount,
  eep,      \* the bytes in the EEPROM, the low one first
  at,       \* the byte that is saved next
  boots,    \* restarts so far
  start,    \* history: the counter at the first power-up
  presses,  \* history: every press since then
  lastSaved,\* history: the counter at the end of the last save, or as read at power-up
  failed,   \* history: a write has failed
  age       \* history: time since the last save, which does not wrap

saveVars == <<eep, at, lastSaved, failed, start>>
counterVars == <<clickCounter, timerSaveKeycount, saveVars, boots, presses, age>>

\* Where the pointer that is moved along the counter stands: n from its byte i on.
Shifted(n) == LET from[i \in 0..Bytes] == IF i = 0 THEN n ELSE from[i - 1] \div Base IN from

\* (Mutant: the pointer is not moved to the next byte.)
LowByte(n, i) == n % Base
Byte(n, i) == Shifted(n)[i] % Base

\* The number in the bytes b from byte i on, put together from the high one down.
Number(b) ==
  LET from[i \in 0..Bytes] == IF i = Bytes THEN 0 ELSE Base * from[i + 1] + b[i] IN from
readKeyCountEEP == Number(eep)[0]

\* What does not fit: one more than all bytes at their highest.
CounterEnd == Number([i \in 0..(Bytes - 1) |-> Base - 1])[0] + 1

\* The first power-up finds zeros, or the EEPROM erased: then the count is the highest.
CounterInit ==
  /\ \E b \in {0, Base - 1} : eep = [i \in 0..(Bytes - 1) |-> b]
  /\ start = readKeyCountEEP /\ clickCounter = start /\ lastSaved = start
  /\ timerSaveKeycount = millis /\ at = 0
  /\ boots = 0 /\ presses = 0 /\ failed = FALSE /\ age = 0

\* (Mutant: the deadline as a sum.)
DueBySum == millis > Plus(timerSaveKeycount, intervalSaveKeycount)
Due == Minus(millis, timerSaveKeycount) > intervalSaveKeycount

\* The top of a pass (monitorKeycount).
monitorKeycount ==
  /\ pc = "top"
  /\ pc' = IF Due THEN "saving" ELSE "scan"
  /\ at' = 0 /\ ticks' = 0
  /\ UNCHANGED <<millis, clickCounter, timerSaveKeycount, eep, lastSaved, failed, start,
                 boots, presses, age>>

\* The order of the bytes.  (Mutant: the high one first.)
HighFirst(i) == Bytes - 1 - i
Order(i) == i

\* safeKeycountEEP goes on after a failed write.
SaveByte ==
  /\ pc = "saving" /\ at < Bytes
  /\ LET i == Order(at) IN
     \/ eep' = [eep EXCEPT ![i] = Byte(clickCounter, i)] /\ UNCHANGED failed
     \/ eep[i] # Byte(clickCounter, i) /\ failed' = TRUE /\ UNCHANGED eep
  /\ at' = at + 1
  /\ UNCHANGED <<pc, millis, ticks, clickCounter, timerSaveKeycount, boots, presses, lastSaved,
                 start, age>>

\* Saved or not, the next save is half an hour away.
SaveEnds ==
  /\ pc = "saving" /\ at = Bytes
  /\ timerSaveKeycount' = millis /\ age' = 0
  /\ lastSaved' = clickCounter
  /\ pc' = "scan"
  /\ UNCHANGED <<millis, ticks, clickCounter, eep, at, failed, start, boots, presses>>

\* The scan counts presses of both kinds of keys.
ScanCounts ==
  /\ pc = "scan" /\ pc' = "switch"
  /\ \/ /\ presses < MaxPresses
        /\ clickCounter' = (clickCounter + 1) % CounterEnd /\ presses' = presses + 1
     \/ UNCHANGED <<clickCounter, presses>>
  /\ UNCHANGED <<millis, ticks, timerSaveKeycount, saveVars, boots, age>>

\* A restart, at any step: initTypeCounter.
CounterBoots ==
  /\ boots < MaxBoots /\ boots' = boots + 1
  /\ pc' = "top" /\ millis' = 0 /\ ticks' = 0
  /\ timerSaveKeycount' = 0 /\ age' = 0
  /\ clickCounter' = readKeyCountEEP /\ lastSaved' = readKeyCountEEP /\ at' = 0
  /\ UNCHANGED <<eep, failed, start, presses>>

CounterTick ==
  /\ ticks < MaxPass
  /\ millis' = Plus(millis, 1) /\ ticks' = ticks + 1 /\ age' = age + 1
  /\ UNCHANGED <<pc, clickCounter, timerSaveKeycount, saveVars, boots, presses>>

CounterNext == monitorKeycount \/ SaveByte \/ SaveEnds \/ ScanCounts

-----------------------------------------------------------------------------
(* Properties *)

\* A restart between two bytes leaves a number that was never counted, but never one ahead
\* of the presses, because the low byte is written first; only a failed write can do that,
\* and an erased EEPROM begins with the highest count (EEPROM.h:62-105).
CountNeverAhead == failed \/ readKeyCountEEP <= start + presses

\* Presses that were saved are lost only by a restart in a save that carries into a higher
\* byte, or that finds the counter gone round (EEPROM.h:62-105).
LossNeedsCarry ==
  \/ failed
  \/ readKeyCountEEP >= lastSaved
  \/ /\ pc = "saving"
     /\ lastSaved \div Base # clickCounter \div Base \/ clickCounter < lastSaved

\* The counter is saved every interval, but for the pass before and its own, also when
\* millis() wraps (logic.h:52).
SaveIsTimely == age <= intervalSaveKeycount + 2 * MaxPass
=============================================================================
