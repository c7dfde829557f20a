---------------------------- MODULE MCTlsClient ----------------------------
(***************************************************************************)
(* Small instances of TlsClient.                                           *)
(***************************************************************************)
EXTENDS TlsClient
=============================================================================
