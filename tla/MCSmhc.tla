------------------------------- MODULE MCSmhc -------------------------------
(* Transfers of one block and of several. *)
EXTENDS Smhc
=============================================================================
