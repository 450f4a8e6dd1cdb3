-------------------------------- MODULE Console -------------------------------
(***************************************************************************)
(* application/console_task.c : console_render on its framebuffer, which   *)
(* has twice the rows of the screen.  Text goes down to the last row, the  *)
(* screen following it through src_fb; rows from Mirrored on are drawn a   *)
(* second time at the start of the framebuffer, so that at the end the     *)
(* screen can go back to the start without a copy.                         *)
(*                                                                         *)
(* Pixels and addresses are cells and rows: shift_x, shift_y and           *)
(* max_col_num are divided by ch_size, the address of the first pixel of   *)
(* row k is k.  One step renders one symbol taken from the ring (ESC       *)
(* sequences are taken out before: ConsoleLog).                            *)
(*                                                                         *)
(* fb, shift_x, shift_y, max_col_num : as in the code                      *)
(* nl, nl_write : console_new_line_buf and the index write of its ring     *)
(* src : g2d_rot_config.src_fb                                             *)
(***************************************************************************)
EXTENDS Cursor

CONSTANTS Glyph, Blank,      \* symbols 32..126; ' ' is Blank as well
          NewLine, Return, Backspace, Other,
          Symbols,           \* what the tasks print
          NewLineWords       \* 32-bit words the new-line buffer has room for

Mirrored == row_num_max - row_num + 1

ASSUME RowAssumption == row_num \in Nat \ {0, 1} /\ col_num \in Nat \ {0, 1}
ASSUME SymbolAssumption ==
  /\ Blank \notin {NewLine, Return, Backspace, Other}
  /\ Glyph \cap {NewLine, Return, Backspace, Other} = {}
  /\ Symbols \subseteq Glyph \cup {NewLine, Return, Backspace, Other}
(* 75 words for the 56 rows of the largest panel. *)
ASSUME NewLineAssumption == NewLineWords \in Nat /\ NewLineWords > row_num_max

VARIABLE con

FbRows == 0..row_num_max
FbCols == 0..col_num-1
NoRow == -1          \* src_fb before console_render has set it

-------------------------------------------------------------------------------
(* The drawing primitives: functions of the framebuffer. *)

console_render_char(fb, s, x, y) == [fb EXCEPT ![y][x] = s]

(* Clears from shift_x to the widest row ended so far; see Widest. *)
ClearRow(fb, x, y, widest) ==
  [fb EXCEPT ![y] = [c \in FbCols |-> IF c >= x /\ c < widest THEN Blank ELSE @[c]]]

(* max_col_num after console_clean_row has remembered shift_x. *)
Widest(k, x) == IF x > k.max_col_num THEN x ELSE k.max_col_num

console_clean_row(k, x, y) ==
  [k EXCEPT !.fb = ClearRow(@, x, y, Widest(k, x)), !.max_col_num = Widest(k, x)]

(* Only entries of this turn through the framebuffer are read: the index *)
(* is behind write, so the other branch, for a ring that has wrapped,    *)
(* is not taken (NewLineInMemory).                                       *)
console_new_line_buf_read(k, offset) == k.nl[k.nl_write - offset]

console_new_line_buf_write(k, elem) ==
  [k EXCEPT !.nl[k.nl_write] = elem, !.nl_write = @ + 1]

-------------------------------------------------------------------------------
(* The parts of one turn of console_render's loop, in their order.  Each   *)
(* maps the console to the console.                                        *)

(* Seeded fault: the copy starts one row late. *)
MirrorLate(y) == y > Mirrored

IsMirrored(y) == y >= Mirrored

Character(k, s) ==
  IF s \notin Glyph THEN k
  ELSE [k EXCEPT
         !.fb = LET drawn == console_render_char(@, s, k.shift_x, k.shift_y) IN
                IF IsMirrored(k.shift_y)
                THEN console_render_char(drawn, s, k.shift_x, k.shift_y - Mirrored)
                ELSE drawn,
         !.shift_x = @ + 1]

Erase(k, s) ==
  IF s = Backspace /\ k.shift_x > 1
  THEN [k EXCEPT !.fb = console_render_char(@, Blank, k.shift_x - 1, k.shift_y),
                 !.shift_x = @ - 1]
  ELSE k

CarriageReturn(k, s) == IF s = Return THEN [k EXCEPT !.shift_x = 0] ELSE k

EndsRow(k, s) == k.shift_x = col_num \/ s = NewLine

(* Seeded fault: the copy of a row keeps its old end. *)
CleanEndOnce(k) == console_clean_row(k, k.shift_x, k.shift_y)

CleanEnd(k) ==
  LET clean == console_clean_row(k, k.shift_x, k.shift_y) IN
  IF IsMirrored(k.shift_y)
  THEN console_clean_row(clean, k.shift_x, k.shift_y - Mirrored)
  ELSE clean

EndRow(k, s) ==
  IF EndsRow(k, s)
  THEN console_new_line_buf_write(
         [CleanEnd(k) EXCEPT !.shift_x = 0, !.shift_y = @ + 1], k.shift_y + 1)
  ELSE k

CleanAtStart(k) == IF k.shift_x = 0 THEN console_clean_row(k, 0, k.shift_y) ELSE k

(* Seeded fault: a row taken into use again is not cleaned. *)
EndScreenUnclean(k) ==
  IF k.shift_y >= row_num
  THEN [k EXCEPT !.src = console_new_line_buf_read(k, row_num)]
  ELSE k

(* Past the last row of the screen: the screen follows. *)
EndScreen(k) ==
  IF k.shift_y >= row_num
  THEN CleanAtStart([k EXCEPT !.src = console_new_line_buf_read(k, row_num)])
  ELSE k

(* Seeded fault: the index of the new-line ring is not set back. *)
EndBufferForward(k) ==
  IF k.shift_y = row_num_max
  THEN CleanAtStart([k EXCEPT !.shift_y = row_num - 1, !.src = 0])
  ELSE k

(* Past the last row of the framebuffer: back to the first screen.  The *)
(* loop returns here, and goes on with the next call.                   *)
EndBuffer(k) ==
  IF k.shift_y = row_num_max
  THEN CleanAtStart([k EXCEPT !.shift_y = row_num - 1, !.nl_write = row_num, !.src = 0])
  ELSE k

console_render(k, s) ==
  EndBuffer(EndScreen(EndRow(CarriageReturn(Erase(Character(k, s), s), s), s)))

-------------------------------------------------------------------------------
(* console_task_init; src_fb is set before the framebuffer exists. *)
Init == con = [fb |-> [y \in FbRows |-> [x \in FbCols |-> Blank]],
               shift_x |-> 0, shift_y |-> 0, max_col_num |-> 0,
               nl |-> [i \in 0..NewLineWords-1 |-> 0], nl_write |-> 1,
               src |-> NoRow]

Render(s) == con' = console_render(con, s)

Next == \E s \in Symbols : Render(s)

Spec == Init /\ [][Next]_con

-------------------------------------------------------------------------------
(* Every drawing stays in the framebuffer, the counters in their ranges. *)
TypeOK == con \in [fb : [FbRows -> [FbCols -> Glyph \cup {Blank}]],
                   shift_x : 0..col_num-1,
                   shift_y : 0..row_num_max-1,
                   max_col_num : 0..col_num,
                   nl : [0..NewLineWords-1 -> FbRows],
                   nl_write : 1..NewLineWords,
                   src : FbRows \cup {NoRow}]

(* The new-line ring is told it has 300 entries and is given 300 bytes     *)
(* (NEW_LINE_BUFF_SIZE, console_task.c:61 and 67): the index stays within  *)
(* the memory, and is never less than what is read back, because the end   *)
(* of the framebuffer sets it back in time.                                *)
NewLineInMemory ==
  /\ con.nl_write < NewLineWords
  /\ con.shift_y >= row_num => con.nl_write >= row_num

(* Every finished row near the end has its copy at the start, and of the   *)
(* row being written what is written so far: "if buffer close to end then  *)
(* also copy to start of buffer" (console_task.c:181), "also copy clean to *)
(* start of buffer" (console_task.c:202).                                  *)
MirrorComplete ==
  \A y \in Mirrored..con.shift_y : \A x \in FbCols :
    y < con.shift_y \/ x < con.shift_x => con.fb[y - Mirrored][x] = con.fb[y][x]

(* The row the text on the screen starts with.  Until src_fb has been set  *)
(* the rotation does not read the framebuffer, and the panel shows nothing *)
(* of the text (main.c:23 and 27, dispaly_task.c:146).                     *)
Top == IF con.src = NoRow THEN 0 ELSE con.src

(* Row k is drawn h_margin, two rows, below the address of row k: the      *)
(* margin shows the two rows before the screen's first.  The status bar    *)
(* covers the first of them, where the copies are being drawn, and a part  *)
(* of the second.                                                          *)
InMargin == IF con.src \in {NoRow, 0} THEN [c \in FbCols |-> Blank] ELSE con.fb[con.src - 1]

T == INSTANCE Terminal WITH
       screen <- [i \in 0..row_num-1 |-> con.fb[Top + i]],
       row <- con.shift_y - Top,
       col <- con.shift_x,
       lit <- con.src # NoRow,
       above <- InMargin

(* Whatever is printed in glyphs and newlines, the rows the rotation shows *)
(* from the first scroll on are those of a terminal, and the row over them *)
(* is the last that left the screen, or blank: following the text through  *)
(* the framebuffer and going back to its start never show a row that is    *)
(* not the terminal's, one half drawn above it, nor an old character in a  *)
(* row used again.  Until that first scroll nothing is shown.              *)
ImplementsTerminal == T!Spec
===============================================================================
