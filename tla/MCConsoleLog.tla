----------------------------- MODULE MCConsoleLog -----------------------------
(* Lines with a color and without, and one without its end, on a screen of *)
(* three rows of two cells.                                                *)
EXTENDS ConsoleLog

CONSTANTS zero, esc, m, nl, a, b

MCByte == {zero, esc, m, nl, a, b}
MCGarbage == {zero}
MCMessages == {<<a, esc, b, m, b, nl>>, <<m, nl>>, <<a, b, a, b, a>>}
===============================================================================
