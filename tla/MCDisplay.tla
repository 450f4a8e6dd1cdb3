------------------------------- MODULE MCDisplay -------------------------------
(* The module is finite: three interrupts, one engine, one thread. *)
EXTENDS Display

CONSTANTS g2d, lcd, usb

MCIrqs == {g2d, lcd, usb}
===============================================================================
