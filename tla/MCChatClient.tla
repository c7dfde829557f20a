---------------------------- MODULE MCChatClient ----------------------------
(***************************************************************************)
(* Small instances of ChatClient.  Prompt 2 is broken; the pieces of an    *)
(* answer are 11 and 12, the text of a mode is 99.                         *)
(***************************************************************************)
EXTENDS ChatClient

McAnswerTexts == {<<11>>, <<12, 11>>}
McModeText    == <<99>>
=============================================================================
