------------------------------- MODULE MCInput -------------------------------
(* Two keys, which shift makes four: the letter that is all of the name of *)
(* doom, a key without a character, Enter and Backspace.  With both down a *)
(* keyboard may report them, or that it cannot tell.                       *)
EXTENDS Input

CONSTANTS kbd, kbd2, D, R, over, d, zero, enter, back, esc, ctrl

MCKey == {D, R}
MCByte == {d, zero, enter, back, esc, ctrl}
Character(k, shift) == CASE k = D -> IF shift THEN zero ELSE d
                         [] k = R -> IF shift THEN back ELSE enter
                         [] OTHER -> zero

MCAscii == [p \in Code \X BOOLEAN |-> Character(p[1], p[2])]

MCDoom == <<d>>
MCJunk == {<<>>, <<zero>>}
MCCommands == <<<<ctrl>>, <<d>>>>
===============================================================================
