------------------------------- MODULE Cursor -------------------------------
(***************************************************************************)
(* application/console_task.c : where the cursor of console_render goes,   *)
(* whatever is drawn: what Console does in detail and ConsoleLog takes     *)
(* for granted.                                                            *)
(***************************************************************************)
EXTENDS Integers

CONSTANTS row_num, col_num

row_num_max == 2 * row_num      \* FB_MULTIPLY

(* The row after a row: after the last of the framebuffer comes the last   *)
(* of the first screen.                                                    *)
NextRow(row) == IF row + 1 = row_num_max THEN row_num - 1 ELSE row + 1

(* A glyph goes one column to the right, a control symbol nowhere or back; *)
(* a row ends with its last column or a newline.                           *)
Moves(col, row, newline) ==
  {IF c = col_num \/ newline THEN <<0, NextRow(row)>> ELSE <<c, row>> : c \in 0..col+1}
=============================================================================
