------------------------------ MODULE MCByteFifo ------------------------------
(* Six slots: room for damage at the front, none, and past the end. *)
EXTENDS ByteFifo

CONSTANTS zero, a, b

MCByte == {zero, a, b}
===============================================================================
