------------------------------- MODULE KeyMap -------------------------------
(***************************************************************************)
(* The key codes of the keyboard and the wiring of its matrix              *)
(* (keyboard_map.h).  A matrix position is the number 4 * i + z of the     *)
(* multiplexer address i (0..15) and the read pin z (0..3), so that the    *)
(* scan visits positions in increasing order.                              *)
(***************************************************************************)
EXTENDS Naturals

BS == 8
SQ == 39
BL == 92
AS == 96
CT == 128
AL == 130
SP == 131
SH == 133
EN == 176
ES == 177
VT == 179
CS == 193
F2 == 195
PS == 206
PU == 211
DL == 212
PD == 214

\* The special keys, numbered by their place in specialKeys[].
SP_KEY_C == 0
SP_KEY_B == 1
SP_KEY_A == 2
SP_KEY_F == 3
SP_KEY_E == 4
SP_KEY_D == 5
SpecialKeyIds == 0 .. 5

MatrixPositions == 0 .. 63

\* Row i holds the codes at multiplexer address i - 1.  Printable characters are
\* their ASCII codes.
caseMuxRows ==
  << <<51, 98, 48, SH>>,  <<SP, 103, PD, EN>>, <<122, 116, 44, 93>>, <<97, 54, 107, BS>>,
     <<113, 118, 105, F2>>, <<50, 102, 57, SQ>>, <<CT, 114, DL, 91>>, <<124, 53, 109, 61>>,
     <<AS, 99, 106, 47>>, <<BL, 100, 117, 59>>, <<49, 101, 56, 112>>, <<CT, 52, 32, 45>>,
     <<SH, AL, 110, PU>>, <<CS, 120, 104, 46>>, <<VT, 115, 121, 108>>, <<ES, 119, 55, 111>> >>

caseMux == [p \in MatrixPositions |-> caseMuxRows[(p \div 4) + 1][(p % 4) + 1]]

nonPrintable == <<EN, SH, DL, VT, ES, CT, SP, AL, PS, CS, PU, PD, F2>>
nonPrintableTotal == 12

\* The loop visits the first nonPrintableTotal entries of the array, so its last
\* entry is never compared.
isPrintableKey(in) == \A i \in 1 .. nonPrintableTotal : nonPrintable[i] # in

\* The key code a special key stands for in keyboard mode (processSpKeyKBD).
spKeyCode == [i \in {SP_KEY_D, SP_KEY_E, SP_KEY_F} |->
                CASE i = SP_KEY_F -> CT [] i = SP_KEY_E -> AL [] i = SP_KEY_D -> SP]
=============================================================================
