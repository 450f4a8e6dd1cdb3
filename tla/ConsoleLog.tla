------------------------------ MODULE ConsoleLog ------------------------------
(***************************************************************************)
(* awh_lib/log.c and the reading side of console_render: the tasks of the  *)
(* main loop print whole messages into the console's ring, console_render  *)
(* takes the bytes out, skips the color sequences and shows the rest.      *)
(*                                                                         *)
(* pc : "loop" a task of the main loop, "print" inside small_printf,       *)
(*      "render" inside console_render, "skip" in its loop over a color    *)
(* todo : the bytes of the message small_printf has still to write         *)
(* row, col : shift_y / ch_size, shift_x / ch_size                         *)
(* printed : the bytes of what was printed in this turn of the main loop   *)
(* due : of every byte printed and not yet taken out of the ring: the byte, *)
(*      and whether it is to be shown or skipped as part of a color        *)
(* taken : the last byte taken out and what became of it, and what was due *)
(*      then (both auxiliary)                                              *)
(***************************************************************************)
EXTENDS ByteFifo, Cursor, FiniteSets

CONSTANTS Messages,       \* strings small_printf makes, at most 199 bytes each
          Esc, EndOfColor, NewLine,
          TurnBytes, TurnCells   \* most bytes and Cells printed in one turn
                                 \* of the main loop

(* Position i of s is in a color sequence, its Esc and its 'm' included.   *)
InColor(s, i) == \E j \in 1..i : s[j] = Esc /\ \A k \in j..i-1 : s[k] # EndOfColor

Fate(s, i) == IF InColor(s, i) THEN "skip" ELSE "show"

Marked(s) == [i \in 1..Len(s) |-> <<s[i], Fate(s, i)>>]

(* The formats of log.h and their arguments have no color without its end. *)
ColorsEnd(s) == s = <<>> \/ s[Len(s)] = EndOfColor \/ ~InColor(s, Len(s))

ASSUME MessagesAssumption == /\ Messages \subseteq {s \in Seq(Byte \ {Zero}) : ColorsEnd(s)}
                             /\ Esc # EndOfColor
ASSUME RowsAssumption == /\ {col_num, row_num} \subseteq Nat \ {0}
                         /\ {TurnBytes, TurnCells} \subseteq Nat

(* What s takes of the screen at most: a cell a byte, a row a newline.     *)
Lines(s) == {i \in DOMAIN s : s[i] = NewLine}
Cells(s) == Len(s) + (col_num - 1) * Cardinality(Lines(s))

(* One call of console_render shows a turn before it returns at the end of *)
(* the framebuffer, and the ring holds the bytes of two.                   *)
TurnFits == TurnCells <= col_num * (row_num + 1) /\ 2 * TurnBytes + 2 <= N

VARIABLES pc, todo, row, col, printed, due, taken

vars == <<rd, wr, mem, owed, last, pc, todo, row, col, printed, due, taken>>

-------------------------------------------------------------------------------
(* Once the console is there. *)
small_printf ==
  /\ pc = "loop"
  /\ \E s \in Messages :
       /\ todo' = s
       /\ printed' = printed \o s
       /\ Len(printed') <= TurnBytes /\ Cells(printed') <= TurnCells
       /\ due' = due \o Marked(s)
  /\ pc' = "print"
  /\ UNCHANGED <<ring, row, col, taken>>

PrintByte == /\ pc = "print"
             /\ todo # <<>>
             /\ Write(Head(todo))
             /\ todo' = Tail(todo)
             /\ UNCHANGED <<pc, row, col, printed, due, taken>>

(* Seeded fault: a message is cut off at the size of the local buffer. *)
PrintDoneCut == /\ pc = "print"
                /\ Len(todo) <= 3
                /\ todo' = <<>>
                /\ pc' = "loop"
                /\ UNCHANGED <<ring, row, col, printed, due, taken>>

PrintDone == /\ pc = "print"
             /\ todo = <<>>
             /\ pc' = "loop"
             /\ UNCHANGED <<ring, todo, row, col, printed, due, taken>>

-------------------------------------------------------------------------------
(* console_render is called once in every turn of the main loop. *)
Render == /\ pc = "loop"
          /\ pc' = "render"
          /\ UNCHANGED <<ring, todo, row, col, printed, due, taken>>

RenderDone == /\ pc = "render"
              /\ fifo_get_available(rd, wr) = 0
              /\ pc' = "loop"
              /\ printed' = <<>>
              /\ UNCHANGED <<ring, todo, row, col, due, taken>>

(* console_string_buf_read, and what becomes of the byte.  An empty ring   *)
(* gives what its slot still holds.                                        *)
Take(fate) ==
  /\ taken' = <<<<ReadByte, fate>>, IF FIFO_EMPTY(rd, wr) THEN <<>> ELSE Head(due)>>
  /\ IF FIFO_EMPTY(rd, wr) THEN ReadEmpty /\ UNCHANGED due ELSE Read /\ due' = Tail(due)

(* ESC: everything up to an 'm' is skipped. *)
StartSkip == /\ pc = "render"
             /\ ~FIFO_EMPTY(rd, wr)
             /\ ReadByte = Esc
             /\ Take("skip")
             /\ pc' = "skip"
             /\ UNCHANGED <<todo, row, col, printed>>

(* Seeded fault: the loop stops in front of the 'm'. *)
SkipShort == /\ pc = "skip"
             /\ IF ReadByte = EndOfColor
                THEN pc' = "render" /\ UNCHANGED <<ring, due, taken>>
                ELSE Take("skip") /\ UNCHANGED pc
             /\ UNCHANGED <<todo, row, col, printed>>

(* The loop does not look whether there is anything to read. *)
Skip == /\ pc = "skip"
        /\ Take("skip")
        /\ pc' = IF ReadByte = EndOfColor THEN "render" ELSE "skip"
        /\ UNCHANGED <<todo, row, col, printed>>

(* After the last row of the framebuffer the rest of the ring waits for    *)
(* the next call.                                                          *)
ShowByte == /\ pc = "render"
            /\ ~FIFO_EMPTY(rd, wr)
            /\ ReadByte # Esc
            /\ Take("show")
            /\ \E to \in Moves(col, row, ReadByte = NewLine) : col' = to[1] /\ row' = to[2]
            /\ IF row' < row THEN pc' = "loop" /\ printed' = <<>>
               ELSE UNCHANGED <<pc, printed>>
            /\ UNCHANGED todo

-------------------------------------------------------------------------------
Init == /\ InitRing
        /\ pc = "loop"
        /\ todo = <<>>
        /\ row = 0
        /\ col = 0
        /\ printed = <<>>
        /\ due = <<>>
        /\ taken = <<<<Zero, "show">>, <<Zero, "show">>>>

Next == \/ small_printf \/ PrintByte \/ PrintDone
        \/ Render \/ RenderDone \/ StartSkip \/ Skip \/ ShowByte

(* One thread runs all of this: whatever is next in it happens. *)
Spec == Init /\ [][Next]_vars /\ WF_vars(Next)

-------------------------------------------------------------------------------
(* When the tasks of a turn print no more than fits, every byte comes out  *)
(* of the ring in its order, undamaged, and is left out exactly when it    *)
(* belongs to a color: none is dropped by fifo_write_done, zeroed by the   *)
(* word store, or taken from a ring that is empty.                         *)
ShowsWhatWasPrinted == taken[1] = taken[2]

(* Within that bound the ring never gets so full that the word store of    *)
(* console_string_buf_write reaches a byte not yet shown.                  *)
NothingDamaged == Damaged = {}

(* console_render comes back: its inner loop finds its 'm', although the   *)
(* loop never asks whether the ring is empty (console_task.c:194).         *)
RenderReturns == pc \in {"render", "skip"} ~> pc = "loop"
===============================================================================
