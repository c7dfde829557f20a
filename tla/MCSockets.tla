----------------------------- MODULE MCSockets -----------------------------
(***************************************************************************)
(* Small instances of Sockets.                                             *)
(***************************************************************************)
EXTENDS Sockets
=============================================================================
