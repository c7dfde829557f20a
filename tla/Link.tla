-------------------------------- MODULE Link --------------------------------
(***************************************************************************)
(* The two one-way lines from the keyboard controller to the coprocessor:  *)
(* the command line (the controller's USART2, the coprocessor's Serial2)   *)
(* and the debug line (Serial on both sides).  Both firmwares repeat these *)
(* codes (Coprocessor.h, and main.cpp of the coprocessor).                 *)
(***************************************************************************)
EXTENDS Naturals, Sequences

Byte == 0 .. 255

KBDPRESSCODE       == 201
KBDRELEASECODE     == 202
LEDCHANGEHEADER    == 212
LEDSLEEPMODEHEADER == 215
STREAMSTARTCODE    == 221
STREAMDONECODE     == 222

LED_MODE_PLASMA    == 1
LED_MODE_THREESINE == 2
LED_MODE_SLANTBAR  == 6
LED_MODE_COLORFILL == 7
LED_MODE_SIDERAIN  == 8

pressChar(c)          == <<KBDPRESSCODE, c>>
releaseChar(c)        == <<KBDRELEASECODE, c>>
changeLightMode(mode) == <<LEDCHANGEHEADER, 48 + mode>>
\* (Mutant: the digit is computed the wrong way round.)
sleepModeLightNoDigit(state) == <<LEDSLEEPMODEHEADER, state - 48>>
sleepModeLight(state) == <<LEDSLEEPMODEHEADER, 48 + state>>

\* A line of debug text on the debug line ("P: 97"), as one item that is no byte of an
\* answer.
DebugText == 256
DebugItem == 0 .. 256
=============================================================================
