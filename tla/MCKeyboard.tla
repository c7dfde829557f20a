----------------------------- MODULE MCKeyboard -----------------------------
(***************************************************************************)
(* Small instances of Keyboard for TLC.  Positions: 24 Control, 7 Enter,   *)
(* 60 Escape; the special key F has the code of Control too.               *)
(***************************************************************************)
EXTENDS Keyboard

McKeysForward == {24, 7}
McSpForward   == {SP_KEY_C, SP_KEY_F}
McKeysModes   == {60}
McSpModes     == {SP_KEY_B, SP_KEY_A}

McAnswers  == {<<65>>}
McModeInfo == <<63>>

(* Run forward tells states apart by this much of them.  Of the bytes on the lines a step   *)
(* sees only how many they are (Send), and no property of that run sees any; the answer box *)
(* is written there but read only by the streaming, which needs Escape.  Every step that    *)
(* changes a state changes its view too, so fairness is the same: a write lengthens a line, *)
(* Transmit empties it, and the box changes either while the chat is asked, where the view  *)
(* holds it, or together with pc.                                                           *)
McForwardView ==
  <<pinVars, scanVars, pc, modeVars, STATE_GENERATIVE_TRACKER, sensorVars, lcdAsleep, answer,
    IF pc = "asking" THEN outText ELSE << >>, Len(uart), Len(serial), resets, heldVars>>
=============================================================================
