-------------------------------- MODULE Loop --------------------------------
(***************************************************************************)
(* What the parts of loop() of the controller that look at the time have   *)
(* in common: where the pass is, and millis(), which wraps.                *)
(***************************************************************************)
EXTENDS Naturals

CONSTANTS
  W,        \* millis() wraps here: 2^32
  MaxPass   \* bound: the longest pass (the watchdog's 30 s)

ASSUME LoopAssumption == W \in Nat \ {0} /\ MaxPass \in Nat

VARIABLES
  pc,     \* "top", "saving", "scan", "switch", or a place in the display's part
  millis,
  ticks   \* time this pass has taken

Plus(a, b) == (a + b) % W
Minus(a, b) == (a + W - b) % W
=============================================================================
