------------------------------ MODULE MCPanel -------------------------------
(***************************************************************************)
(* Small instances of Panel.                                               *)
(***************************************************************************)
EXTENDS Panel

\* Bound: presses, or an erased counter, and what the display sends do not mix, as the two
\* parts share nothing but the time.
McApart ==
  (presses = 0 /\ start = 0) \/ (touches = 0 /\ asked = << >> /\ rx = << >>)
=============================================================================
