------------------------------- MODULE MCFifo --------------------------------
(* A ring of four slots: wraps after four elements, holds three. *)
EXTENDS Fifo

CONSTANTS a, b

MCElem == {a, b}
MCN == 4
===============================================================================
