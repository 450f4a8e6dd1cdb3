------------------------------- MODULE MCConsole -------------------------------
(* Three rows of three cells on a framebuffer of six. *)
EXTENDS Console

CONSTANTS a, b, blank, nl, cr, bs, other

MCGlyph == {a, b}
Plain == {a, b, nl, other}
WithErase == {a, nl, bs}
===============================================================================
