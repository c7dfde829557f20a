----------------------------- MODULE MCKaiBoard -----------------------------
(***************************************************************************)
(* Small instances of KaiBoard.  Positions: 26 Delete (its code 212 is     *)
(* also LEDCHANGEHEADER), 60 Escape.                                       *)
(***************************************************************************)
EXTENDS KaiBoard

McDelete   == {26}
McEscape   == {60}
McNoKey    == {}
McSpSleep  == {SP_KEY_B}

McNoAnswer == {<< >>}
McModeInfo == <<65>>
=============================================================================
