------------------------------- MODULE Terminal -------------------------------
(***************************************************************************)
(* What the console promises: a screen of row_num rows of col_num cells    *)
(* that scrolls when its last row is ended.  The panel shows nothing of it *)
(* until it scrolls for the first time, from then on the whole screen, and *)
(* over it, in the margin, a part of one more row.                         *)
(*                                                                         *)
(* lit : the panel shows the screen                                        *)
(* above : the row in the margin, when lit                                 *)
(***************************************************************************)
EXTENDS Integers

CONSTANTS Glyph, Blank, row_num, col_num

VARIABLES screen, row, col, lit, above

Rows == 0..row_num-1
Cols == 0..col_num-1

BlankRow == [c \in Cols |-> Blank]

Scrolled(s) == [i \in Rows |-> IF i < row THEN s[i + 1] ELSE BlankRow]

(* The screen and the cursor's row after a row has been ended.  The row    *)
(* that leaves the screen is the one above it, unless it has been blanked. *)
RowEnded(s) ==
  IF row < row_num - 1
  THEN screen' = s /\ row' = row + 1 /\ UNCHANGED <<lit, above>>
  ELSE /\ screen' = Scrolled(s)
       /\ lit' = TRUE
       /\ above' \in {s[0], BlankRow}
       /\ UNCHANGED row

Init == /\ screen = [i \in Rows |-> BlankRow]
        /\ row = 0
        /\ col = 0
        /\ lit = FALSE
        /\ above = BlankRow

Put(g) == LET s == [screen EXCEPT ![row][col] = g] IN
          IF col + 1 = col_num
          THEN RowEnded(s) /\ col' = 0
          ELSE screen' = s /\ col' = col + 1 /\ UNCHANGED <<row, lit, above>>

EndRow == RowEnded(screen) /\ col' = 0

(* The first character of a row cannot be erased. *)
Erase == /\ col > 1
         /\ screen' = [screen EXCEPT ![row][col - 1] = Blank]
         /\ col' = col - 1
         /\ UNCHANGED <<row, lit, above>>

Next == (\E g \in Glyph : Put(g)) \/ EndRow \/ Erase

Spec == Init /\ [][Next]_<<screen, row, col, lit, above>>
===============================================================================
