------------------------------ MODULE MCRxFifo ------------------------------
(***************************************************************************)
(* Small instances of RxFifo.                                              *)
(***************************************************************************)
EXTENDS RxFifo
=============================================================================
