------------------------------- MODULE MCDhcp -------------------------------
(***************************************************************************)
(* Small instances of Dhcp.                                                *)
(***************************************************************************)
EXTENDS Dhcp, TLC

Servers == Permutations(Server)
=============================================================================
