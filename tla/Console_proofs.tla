----------------------------- MODULE Console_proofs -----------------------------
(***************************************************************************)
(* Proofs about Console for every size of the screen and every text: what  *)
(* a turn of console_render's loop does to the counters, then what it does *)
(* to the cells, and that the screen is a Terminal.                        *)
(***************************************************************************)
EXTENDS Console, TLAPS

Cell == Glyph \cup {Blank}
Image == [FbRows -> [FbCols -> Cell]]

(* The console within a turn: the cursor may be past the end of its row,   *)
(* and of the framebuffer.                                                 *)
Consoles(X, Y) == [fb : Image, shift_x : 0..X, shift_y : 0..Y, max_col_num : 0..col_num,
                   nl : [0..NewLineWords-1 -> FbRows], nl_write : 1..NewLineWords,
                   src : FbRows \cup {NoRow}]

LastRow == row_num_max - 1

(* The new-line ring holds the rows up to the current one, each at its own *)
(* index.                                                                  *)
Counts(k) == /\ k.nl_write = k.shift_y + 1
             /\ \A i \in 0..k.shift_y : k.nl[i] = i

(* The screen ends with the current row, once it has been filled. *)
AtStart(k) == k.shift_y < row_num => k.src \in {NoRow, 0}
Follows(k) == /\ AtStart(k)
              /\ k.shift_y >= row_num => k.src = k.shift_y - row_num + 1

Counted(k) == Counts(k) /\ Follows(k)

-------------------------------------------------------------------------------
(* The counters *)

LEMMA Sizes ==
  /\ row_num \in Nat /\ row_num > 1 /\ col_num \in Nat /\ col_num > 1
  /\ row_num_max \in Nat /\ row_num_max = row_num + row_num
  /\ Mirrored \in Nat /\ Mirrored = row_num + 1
  /\ NewLineWords \in Nat /\ NewLineWords > row_num_max
  /\ LastRow \in Nat /\ LastRow = row_num + row_num - 1
  BY RowAssumption, NewLineAssumption DEF row_num_max, Mirrored, LastRow

LEMMA CharTyped ==
  ASSUME NEW fb \in Image, NEW s \in Cell, NEW x \in FbCols, NEW y \in FbRows
  PROVE  /\ console_render_char(fb, s, x, y) \in Image
         /\ \A r \in FbRows : \A c \in FbCols :
              console_render_char(fb, s, x, y)[r][c] = IF r = y /\ c = x THEN s ELSE fb[r][c]
  BY DEF console_render_char, Image

LEMMA ClearTyped ==
  ASSUME NEW fb \in Image, NEW x \in Int, NEW m \in Int, NEW y \in FbRows
  PROVE  /\ ClearRow(fb, x, y, m) \in Image
         /\ \A r \in FbRows : \A c \in FbCols :
              ClearRow(fb, x, y, m)[r][c] =
                IF r = y /\ c >= x /\ c < m THEN Blank ELSE fb[r][c]
  BY DEF ClearRow, Image, Cell

(* Cleaning a row remembers the widest one and touches nothing else. *)
LEMMA CleanTyped ==
  ASSUME NEW X \in Nat, NEW Y \in Nat, NEW k \in Consoles(X, Y),
         NEW x \in 0..col_num, NEW y \in FbRows,
         NEW r, r = console_clean_row(k, x, y)
  PROVE  /\ r \in Consoles(X, Y)
         /\ r.max_col_num = Widest(k, x)
         /\ r.max_col_num >= x /\ r.max_col_num >= k.max_col_num
         /\ x <= k.max_col_num => r.max_col_num = k.max_col_num
         /\ \A q \in FbRows : \A c \in FbCols :
              r.fb[q][c] = IF q = y /\ c >= x /\ c < r.max_col_num THEN Blank ELSE k.fb[q][c]
         /\ r.shift_x = k.shift_x /\ r.shift_y = k.shift_y
         /\ r.nl = k.nl /\ r.nl_write = k.nl_write /\ r.src = k.src
  <1>1. Widest(k, x) \in 0..col_num /\ Widest(k, x) >= x /\ Widest(k, x) >= k.max_col_num
    BY Sizes DEF Widest, Consoles
  <1>2. k.fb \in Image
    BY DEF Consoles
  <1>3. r = [k EXCEPT !.fb = ClearRow(k.fb, x, y, Widest(k, x)), !.max_col_num = Widest(k, x)]
    BY DEF console_clean_row
  <1>4. ClearRow(k.fb, x, y, Widest(k, x)) \in Image
    BY <1>1, <1>2, ClearTyped
  <1>5. /\ r.fb = ClearRow(k.fb, x, y, Widest(k, x))
        /\ r.max_col_num = Widest(k, x)
        /\ r.shift_x = k.shift_x /\ r.shift_y = k.shift_y
        /\ r.nl = k.nl /\ r.nl_write = k.nl_write /\ r.src = k.src
    BY <1>3 DEF Consoles
  <1>6. r \in Consoles(X, Y)
    BY <1>1, <1>3, <1>4 DEF Consoles
  <1>7. x <= k.max_col_num => r.max_col_num = k.max_col_num
    BY <1>5 DEF Widest, Consoles
  <1>8. \A q \in FbRows : \A c \in FbCols :
          r.fb[q][c] = IF q = y /\ c >= x /\ c < r.max_col_num THEN Blank ELSE k.fb[q][c]
    BY <1>1, <1>2, <1>5, ClearTyped
  <1>9. QED
    BY <1>1, <1>5, <1>6, <1>7, <1>8

(* The drawing of a symbol, and the cursor after it. *)
Drawn(k, s) == CarriageReturn(Erase(Character(k, s), s), s)

Rest(r, k) == /\ r.shift_y = k.shift_y /\ r.nl = k.nl /\ r.nl_write = k.nl_write
              /\ r.src = k.src /\ r.max_col_num = k.max_col_num

LEMMA CharacterTyped ==
  ASSUME NEW k \in Consoles(col_num - 1, LastRow), NEW s \in Symbols,
         NEW r, r = Character(k, s)
  PROVE  r \in Consoles(col_num, LastRow) /\ Rest(r, k)
  <1>1. CASE s \notin Glyph
    <2>1. r = k /\ k.shift_x \in 0..col_num
      BY <1>1, Sizes DEF Character, Consoles
    <2>2. QED
      BY <2>1 DEF Consoles, Rest
  <1>2. CASE s \in Glyph
    <2>1. k.shift_x \in FbCols /\ k.shift_y \in FbRows /\ k.fb \in Image /\ s \in Cell
      BY <1>2, Sizes DEF Consoles, FbCols, FbRows, Cell
    <2>2. IsMirrored(k.shift_y) => k.shift_y - Mirrored \in FbRows
      BY <2>1, Sizes DEF IsMirrored, FbRows
    <2>3. r = [k EXCEPT !.fb = LET drawn == console_render_char(k.fb, s, k.shift_x, k.shift_y) IN
                               IF IsMirrored(k.shift_y)
                               THEN console_render_char(drawn, s, k.shift_x,
                                                        k.shift_y - Mirrored)
                               ELSE drawn,
                        !.shift_x = k.shift_x + 1]
      BY <1>2 DEF Character
    <2>4. r.fb \in Image
      BY <2>1, <2>2, <2>3, CharTyped DEF Consoles
    <2>5. r.shift_x = k.shift_x + 1 /\ r.shift_x \in 0..col_num
      BY <2>3, Sizes DEF Consoles
    <2>6. r = [k EXCEPT !.fb = r.fb, !.shift_x = r.shift_x]
      BY <2>3 DEF Consoles
    <2>7. QED
      BY <2>4, <2>5, <2>6 DEF Consoles, Rest
  <1>3. QED
    BY <1>1, <1>2

LEMMA EraseTyped ==
  ASSUME NEW k \in Consoles(col_num, LastRow), NEW s \in Symbols, NEW r, r = Erase(k, s)
  PROVE  r \in Consoles(col_num, LastRow) /\ Rest(r, k)
  <1>1. CASE s = Backspace /\ k.shift_x > 1
    <2>1. k.shift_x - 1 \in FbCols /\ k.shift_y \in FbRows /\ k.fb \in Image /\ Blank \in Cell
      BY <1>1, Sizes DEF Consoles, FbCols, FbRows, Cell
    <2>2. r = [k EXCEPT !.fb = console_render_char(k.fb, Blank, k.shift_x - 1, k.shift_y),
                        !.shift_x = k.shift_x - 1]
      BY <1>1 DEF Erase
    <2>3. console_render_char(k.fb, Blank, k.shift_x - 1, k.shift_y) \in Image
      BY <2>1, CharTyped
    <2>4. k.shift_x - 1 \in 0..col_num
      BY <1>1, Sizes DEF Consoles
    <2>5. QED
      BY <2>2, <2>3, <2>4 DEF Consoles, Rest
  <1>2. CASE ~(s = Backspace /\ k.shift_x > 1)
    BY <1>2 DEF Erase, Rest
  <1>3. QED
    BY <1>1, <1>2

LEMMA DrawnTyped ==
  ASSUME NEW k \in Consoles(col_num - 1, LastRow), NEW s \in Symbols, NEW r, r = Drawn(k, s)
  PROVE  r \in Consoles(col_num, LastRow) /\ Rest(r, k)
  <1>1. PICK a : a = Character(k, s)
    OBVIOUS
  <1>2. PICK b : b = Erase(a, s)
    OBVIOUS
  <1>3. a \in Consoles(col_num, LastRow) /\ Rest(a, k)
    BY <1>1, CharacterTyped
  <1>4. b \in Consoles(col_num, LastRow) /\ Rest(b, a)
    BY <1>2, <1>3, EraseTyped
  <1>5. r = IF s = Return THEN [b EXCEPT !.shift_x = 0] ELSE b
    BY <1>1, <1>2 DEF Drawn, CarriageReturn
  <1>6. r \in Consoles(col_num, LastRow) /\ Rest(r, b)
    <2>1. 0 \in 0..col_num
      BY Sizes
    <2>2. CASE s = Return
      BY <1>4, <1>5, <2>1, <2>2 DEF Consoles, Rest
    <2>3. CASE s # Return
      BY <1>4, <1>5, <2>3 DEF Rest
    <2>4. QED
      BY <2>2, <2>3
  <1>7. QED
    BY <1>3, <1>4, <1>6 DEF Rest

(* CleanEnd as one clean, or two. *)
LEMMA CleanEndTyped ==
  ASSUME NEW k \in Consoles(col_num, LastRow), NEW r, r = CleanEnd(k)
  PROVE  /\ r \in Consoles(col_num, LastRow)
         /\ r.shift_x = k.shift_x /\ r.shift_y = k.shift_y
         /\ r.nl = k.nl /\ r.nl_write = k.nl_write /\ r.src = k.src
         /\ r.max_col_num = Widest(k, k.shift_x) /\ r.max_col_num >= k.shift_x
         /\ r.max_col_num >= k.max_col_num
         /\ \A q \in FbRows : \A c \in FbCols :
              r.fb[q][c] =
                IF /\ q = k.shift_y \/ (IsMirrored(k.shift_y) /\ q = k.shift_y - Mirrored)
                   /\ c >= k.shift_x /\ c < r.max_col_num
                THEN Blank ELSE k.fb[q][c]
  <1>1. PICK a : a = console_clean_row(k, k.shift_x, k.shift_y)
    OBVIOUS
  <1>2. /\ k.shift_x \in 0..col_num /\ k.shift_y \in FbRows
        /\ IsMirrored(k.shift_y) => k.shift_y - Mirrored \in FbRows
        /\ col_num \in Nat /\ LastRow \in Nat
    <2>1. k.shift_x \in 0..col_num /\ k.shift_y \in 0..LastRow
      BY DEF Consoles
    <2>2. QED
      BY <2>1, Sizes DEF FbRows, IsMirrored
  <1>3. /\ a \in Consoles(col_num, LastRow)
        /\ a.max_col_num = Widest(k, k.shift_x) /\ a.max_col_num >= k.shift_x
        /\ a.max_col_num >= k.max_col_num
        /\ \A q \in FbRows : \A c \in FbCols :
             a.fb[q][c] = IF q = k.shift_y /\ c >= k.shift_x /\ c < a.max_col_num
                          THEN Blank ELSE k.fb[q][c]
        /\ a.shift_x = k.shift_x /\ a.shift_y = k.shift_y
        /\ a.nl = k.nl /\ a.nl_write = k.nl_write /\ a.src = k.src
    <2>1. PICK X \in Nat, Y \in Nat : X = col_num /\ Y = LastRow
      BY <1>2
    <2>2. PICK x \in 0..col_num, y \in FbRows : x = k.shift_x /\ y = k.shift_y
      BY <1>2
    <2>3. k \in Consoles(X, Y) /\ a = console_clean_row(k, x, y)
      BY <1>1, <2>1, <2>2
    <2>4. /\ a \in Consoles(X, Y)
          /\ a.max_col_num = Widest(k, x)
          /\ a.max_col_num >= x /\ a.max_col_num >= k.max_col_num
          /\ \A q \in FbRows : \A c \in FbCols :
               a.fb[q][c] = IF q = y /\ c >= x /\ c < a.max_col_num THEN Blank ELSE k.fb[q][c]
          /\ a.shift_x = k.shift_x /\ a.shift_y = k.shift_y
          /\ a.nl = k.nl /\ a.nl_write = k.nl_write /\ a.src = k.src
      BY <2>3, CleanTyped
    <2>5. QED
      BY <2>1, <2>2, <2>4
  <1>4. r = IF IsMirrored(k.shift_y)
            THEN console_clean_row(a, k.shift_x, k.shift_y - Mirrored) ELSE a
    BY <1>1 DEF CleanEnd
  <1>5. CASE ~IsMirrored(k.shift_y)
    BY <1>3, <1>4, <1>5
  <1>6. CASE IsMirrored(k.shift_y)
    <2>1. /\ r \in Consoles(col_num, LastRow)
          /\ r.max_col_num = a.max_col_num
          /\ \A q \in FbRows : \A c \in FbCols :
               r.fb[q][c] = IF q = k.shift_y - Mirrored /\ c >= k.shift_x /\ c < r.max_col_num
                            THEN Blank ELSE a.fb[q][c]
          /\ r.shift_x = a.shift_x /\ r.shift_y = a.shift_y
          /\ r.nl = a.nl /\ r.nl_write = a.nl_write /\ r.src = a.src
      <3>1. PICK y \in FbRows : y = k.shift_y - Mirrored
        BY <1>2, <1>6
      <3>2. PICK x \in 0..col_num : x = k.shift_x
        BY <1>2
      <3>3. r = console_clean_row(a, x, y) /\ x <= a.max_col_num
        BY <1>3, <1>4, <1>6, <3>1, <3>2
      <3>4. PICK X \in Nat, Y \in Nat : X = col_num /\ Y = LastRow
        BY <1>2
      <3>5. a \in Consoles(X, Y)
        BY <1>3, <3>4
      <3>6. /\ r \in Consoles(X, Y)
            /\ x <= a.max_col_num => r.max_col_num = a.max_col_num
            /\ \A q \in FbRows : \A c \in FbCols :
                 r.fb[q][c] = IF q = y /\ c >= x /\ c < r.max_col_num THEN Blank ELSE a.fb[q][c]
            /\ r.shift_x = a.shift_x /\ r.shift_y = a.shift_y
            /\ r.nl = a.nl /\ r.nl_write = a.nl_write /\ r.src = a.src
        BY <3>3, <3>5, CleanTyped
      <3>7. QED
        BY <3>1, <3>2, <3>3, <3>4, <3>6
    <2>2. QED
      BY <1>3, <1>6, <2>1
  <1>7. QED
    BY <1>5, <1>6

(* The end of a row. *)
LEMMA EndRowTyped ==
  ASSUME NEW k \in Consoles(col_num, LastRow), Counts(k), NEW s \in Symbols, EndsRow(k, s),
         NEW r, r = EndRow(k, s), NEW e, e = CleanEnd(k)
  PROVE  /\ r \in Consoles(col_num - 1, row_num_max)
         /\ Counts(r)
         /\ r.shift_x = 0 /\ r.shift_y = k.shift_y + 1 /\ r.src = k.src
         /\ r.fb = e.fb /\ r.max_col_num = e.max_col_num
  <1>1. /\ e \in Consoles(col_num, LastRow)
        /\ e.shift_y = k.shift_y /\ e.nl = k.nl /\ e.nl_write = k.nl_write /\ e.src = k.src
    BY CleanEndTyped
  <1>2. r = [e EXCEPT !.shift_x = 0, !.shift_y = e.shift_y + 1,
                      !.nl = [e.nl EXCEPT ![e.nl_write] = k.shift_y + 1],
                      !.nl_write = e.nl_write + 1]
    BY <1>1 DEF EndRow, console_new_line_buf_write, Consoles
  <1>3. /\ r.shift_x = 0 /\ r.shift_y = k.shift_y + 1 /\ r.src = e.src /\ r.fb = e.fb
        /\ r.max_col_num = e.max_col_num /\ r.nl_write = k.shift_y + 2
        /\ r.nl = [k.nl EXCEPT ![k.shift_y + 1] = k.shift_y + 1]
    <2>1. /\ e.nl_write = k.shift_y + 1 /\ e.nl_write + 1 = k.shift_y + 2
          /\ e.shift_y + 1 = k.shift_y + 1
      <3>1. k.shift_y \in 0..LastRow
        BY DEF Consoles
      <3>2. QED
        BY <1>1, <3>1, Sizes DEF Counts
    <2>2. QED
      BY <1>1, <1>2, <2>1 DEF Consoles
  <1>4. /\ k.shift_y + 1 \in 0..row_num_max /\ k.shift_y + 1 \in FbRows
        /\ k.shift_y + 2 \in 1..NewLineWords /\ k.shift_y + 1 \in 0..NewLineWords-1
        /\ 0 \in 0..col_num-1 /\ k.shift_y \in Nat
    <2>1. k.shift_y \in 0..LastRow
      BY DEF Consoles
    <2>2. QED
      BY <2>1, Sizes DEF FbRows
  <1>5. r.nl \in [0..NewLineWords-1 -> FbRows]
    BY <1>3, <1>4 DEF Consoles
  <1>6. r \in Consoles(col_num - 1, row_num_max)
    <2>1. r.shift_x \in 0..col_num-1 /\ r.shift_y \in 0..row_num_max
          /\ r.nl_write \in 1..NewLineWords
      BY <1>3, <1>4
    <2>2. QED
      BY <1>1, <1>2, <1>5, <2>1 DEF Consoles
  <1>7. Counts(r)
    <2>1. ASSUME NEW i \in 0..r.shift_y PROVE r.nl[i] = i
      <3>1. i \in 0..NewLineWords-1 /\ (i = k.shift_y + 1 \/ i \in 0..k.shift_y)
        BY <1>3, <1>4, Sizes
      <3>2. k.nl \in [0..NewLineWords-1 -> FbRows]
        BY DEF Consoles
      <3>3. QED
        BY <1>3, <3>1, <3>2 DEF Counts
    <2>2. r.nl_write = r.shift_y + 1
      BY <1>3, <1>4
    <2>3. QED
      BY <2>1, <2>2 DEF Counts
  <1>8. QED
    BY <1>1, <1>3, <1>6, <1>7

(* CleanAtStart at a row of the framebuffer. *)
LEMMA CleanAtStartTyped ==
  ASSUME NEW k \in Consoles(col_num - 1, row_num_max), NEW r, r = CleanAtStart(k)
  PROVE  /\ r \in Consoles(col_num - 1, row_num_max)
         /\ Rest(r, k) /\ r.shift_x = k.shift_x
         /\ k.shift_x # 0 => r = k
         /\ k.shift_x = 0 => \A q \in FbRows : \A c \in FbCols :
              r.fb[q][c] = IF q = k.shift_y /\ c < k.max_col_num THEN Blank ELSE k.fb[q][c]
  <1>1. CASE k.shift_x # 0
    BY <1>1 DEF CleanAtStart, Rest
  <1>2. CASE k.shift_x = 0
    <2>1. /\ 0 \in 0..col_num /\ 0 <= k.max_col_num /\ k.shift_y \in FbRows
          /\ col_num - 1 \in Nat /\ row_num_max \in Nat
      BY Sizes DEF Consoles, FbRows
    <2>2. r = console_clean_row(k, 0, k.shift_y)
      BY <1>2 DEF CleanAtStart
    <2>3. /\ r \in Consoles(col_num - 1, row_num_max)
          /\ r.max_col_num = k.max_col_num
          /\ \A q \in FbRows : \A c \in FbCols :
               r.fb[q][c] = IF q = k.shift_y /\ c >= 0 /\ c < r.max_col_num
                            THEN Blank ELSE k.fb[q][c]
          /\ r.shift_x = k.shift_x /\ r.shift_y = k.shift_y
          /\ r.nl = k.nl /\ r.nl_write = k.nl_write /\ r.src = k.src
      BY <2>1, <2>2, CleanTyped
    <2>4. \A c \in FbCols : c >= 0
      BY DEF FbCols
    <2>5. QED
      BY <1>2, <2>3, <2>4 DEF Rest
  <1>3. QED
    BY <1>1, <1>2

(* Past the last row of the screen, what is read back from the new-line    *)
(* ring is the row the screen starts with.                                 *)
LEMMA EndScreenTyped ==
  ASSUME NEW k \in Consoles(col_num - 1, row_num_max), Counts(k), AtStart(k),
         NEW r, r = EndScreen(k)
  PROVE  /\ r \in Consoles(col_num - 1, row_num_max) /\ Counts(r) /\ Follows(r)
         /\ r.shift_x = k.shift_x /\ r.shift_y = k.shift_y /\ r.max_col_num = k.max_col_num
         /\ k.shift_y < row_num => r = k
         /\ k.shift_y >= row_num /\ k.shift_x # 0 => r.fb = k.fb
         /\ k.shift_y >= row_num /\ k.shift_x = 0 => \A q \in FbRows : \A c \in FbCols :
              r.fb[q][c] = IF q = k.shift_y /\ c < k.max_col_num THEN Blank ELSE k.fb[q][c]
  <1>1. CASE k.shift_y < row_num
    <2>1. r = k
      BY <1>1, Sizes DEF EndScreen, Consoles
    <2>2. QED
      BY <1>1, <2>1, Sizes DEF Follows, Consoles
  <1>2. CASE k.shift_y >= row_num
    <2>1. PICK a : a = [k EXCEPT !.src = console_new_line_buf_read(k, row_num)]
      OBVIOUS
    <2>2. console_new_line_buf_read(k, row_num) = k.shift_y - row_num + 1
      BY <1>2, Sizes DEF console_new_line_buf_read, Counts, Consoles
    <2>3. k.shift_y - row_num + 1 \in FbRows
      BY <1>2, Sizes DEF Consoles, FbRows
    <2>4. /\ a \in Consoles(col_num - 1, row_num_max) /\ a.src = k.shift_y - row_num + 1
          /\ a.fb = k.fb /\ a.shift_x = k.shift_x /\ a.shift_y = k.shift_y
          /\ a.max_col_num = k.max_col_num /\ a.nl = k.nl /\ a.nl_write = k.nl_write
      BY <2>1, <2>2, <2>3 DEF Consoles
    <2>5. r = CleanAtStart(a)
      BY <1>2, <2>1 DEF EndScreen
    <2>6. /\ r \in Consoles(col_num - 1, row_num_max)
          /\ Rest(r, a) /\ r.shift_x = a.shift_x
          /\ a.shift_x # 0 => r = a
          /\ a.shift_x = 0 => \A q \in FbRows : \A c \in FbCols :
               r.fb[q][c] = IF q = a.shift_y /\ c < a.max_col_num THEN Blank ELSE a.fb[q][c]
      BY <2>4, <2>5, CleanAtStartTyped
    <2>7. Counts(r)
      BY <2>4, <2>6 DEF Counts, Rest
    <2>8. Follows(r)
      BY <1>2, <2>4, <2>6, Sizes DEF Follows, AtStart, Rest, Consoles
    <2>9. ~(k.shift_y < row_num)
      BY <1>2, Sizes DEF Consoles
    <2>10. QED
      BY <2>4, <2>6, <2>7, <2>8, <2>9 DEF Rest
  <1>3. QED
    BY <1>1, <1>2, Sizes DEF Consoles

(* Past the last row of the framebuffer, back to the first screen. *)
LEMMA EndBufferTyped ==
  ASSUME NEW k \in Consoles(col_num - 1, row_num_max), Counted(k), NEW r, r = EndBuffer(k)
  PROVE  /\ r \in Consoles(col_num - 1, LastRow) /\ Counted(r)
         /\ r.shift_x = k.shift_x /\ r.max_col_num = k.max_col_num
         /\ k.shift_y # row_num_max => r = k
         /\ k.shift_y = row_num_max =>
              /\ r.shift_y = row_num - 1 /\ r.src = 0
              /\ k.shift_x = 0 => \A q \in FbRows : \A c \in FbCols :
                   r.fb[q][c] = IF q = row_num - 1 /\ c < k.max_col_num
                                THEN Blank ELSE k.fb[q][c]
  <1>1. CASE k.shift_y # row_num_max
    <2>1. r = k /\ k.shift_y \in 0..LastRow
      BY <1>1, Sizes DEF EndBuffer, Consoles
    <2>2. QED
      BY <1>1, <2>1 DEF Consoles
  <1>2. CASE k.shift_y = row_num_max
    <2>1. PICK a : a = [k EXCEPT !.shift_y = row_num - 1, !.nl_write = row_num, !.src = 0]
      OBVIOUS
    <2>2. row_num - 1 \in 0..LastRow /\ row_num \in 1..NewLineWords /\ 0 \in FbRows
          /\ row_num - 1 \in 0..row_num_max
      BY Sizes DEF FbRows
    <2>3. /\ a \in Consoles(col_num - 1, row_num_max) /\ a.shift_y = row_num - 1
          /\ a.nl_write = row_num /\ a.src = 0 /\ a.fb = k.fb /\ a.shift_x = k.shift_x
          /\ a.max_col_num = k.max_col_num /\ a.nl = k.nl
      BY <2>1, <2>2 DEF Consoles
    <2>4. r = CleanAtStart(a)
      BY <1>2, <2>1 DEF EndBuffer
    <2>5. /\ r \in Consoles(col_num - 1, row_num_max)
          /\ Rest(r, a) /\ r.shift_x = a.shift_x
          /\ a.shift_x = 0 => \A q \in FbRows : \A c \in FbCols :
               r.fb[q][c] = IF q = a.shift_y /\ c < a.max_col_num THEN Blank ELSE a.fb[q][c]
      BY <2>3, <2>4, CleanAtStartTyped
    <2>6. r.shift_y = row_num - 1 /\ r.src = 0 /\ r.nl_write = row_num /\ r.nl = k.nl
      BY <2>3, <2>5 DEF Rest
    <2>7. Counts(r)
      BY <1>2, <2>6, Sizes DEF Counted, Counts
    <2>8. Follows(r)
      BY <2>6, Sizes DEF Follows, AtStart
    <2>9. r \in Consoles(col_num - 1, LastRow)
      BY <2>2, <2>5, <2>6 DEF Consoles
    <2>10. r.shift_x = k.shift_x /\ r.max_col_num = k.max_col_num
      BY <2>3, <2>5 DEF Rest
    <2>11. k.shift_x = 0 => \A q \in FbRows : \A c \in FbCols :
             r.fb[q][c] = IF q = row_num - 1 /\ c < k.max_col_num THEN Blank ELSE k.fb[q][c]
      BY <2>3, <2>5
    <2>12. QED
      BY <1>2, <2>6, <2>7, <2>8, <2>9, <2>10, <2>11 DEF Counted
  <1>3. QED
    BY <1>1, <1>2

-------------------------------------------------------------------------------
(* Whatever is printed, the counters stay together. *)

Bounded(k) == k \in Consoles(col_num - 1, LastRow) /\ Counted(k)

LEMMA AfterRow ==
  ASSUME NEW k \in Consoles(col_num, LastRow), Counted(k), NEW s \in Symbols,
         NEW r, r = EndRow(k, s)
  PROVE  r \in Consoles(col_num - 1, row_num_max) /\ Counts(r) /\ AtStart(r)
  <1>1. CASE EndsRow(k, s)
    <2>1. /\ r \in Consoles(col_num - 1, row_num_max) /\ Counts(r)
          /\ r.shift_y = k.shift_y + 1 /\ r.src = k.src
      BY <1>1, EndRowTyped DEF Counted
    <2>2. k.shift_y \in 0..LastRow
      BY DEF Consoles
    <2>3. AtStart(r)
      BY <2>1, <2>2, Sizes DEF Counted, Follows, AtStart
    <2>4. QED
      BY <2>1, <2>3
  <1>2. CASE ~EndsRow(k, s)
    <2>1. r = k
      BY <1>2 DEF EndRow
    <2>2. k.shift_x \in 0..col_num-1 /\ k.shift_y \in 0..row_num_max
      BY <1>2, Sizes DEF EndsRow, Consoles
    <2>3. QED
      BY <2>1, <2>2 DEF Consoles, Counted, Follows
  <1>3. QED
    BY <1>1, <1>2

LEMMA RenderKeepsCounts ==
  ASSUME NEW k, Bounded(k), NEW s \in Symbols
  PROVE  Bounded(console_render(k, s))
  <1>1. PICK d : d = Drawn(k, s)
    OBVIOUS
  <1>2. PICK e : e = EndRow(d, s)
    OBVIOUS
  <1>3. PICK f : f = EndScreen(e)
    OBVIOUS
  <1>4. d \in Consoles(col_num, LastRow) /\ Counted(d)
    BY <1>1, DrawnTyped DEF Bounded, Counted, Counts, Follows, AtStart, Rest
  <1>5. e \in Consoles(col_num - 1, row_num_max) /\ Counts(e) /\ AtStart(e)
    BY <1>2, <1>4, AfterRow
  <1>6. f \in Consoles(col_num - 1, row_num_max) /\ Counted(f)
    BY <1>3, <1>5, EndScreenTyped DEF Counted
  <1>7. console_render(k, s) = EndBuffer(f)
    BY <1>1, <1>2, <1>3 DEF console_render, Drawn
  <1>8. QED
    BY <1>6, <1>7, EndBufferTyped DEF Bounded

LEMMA InitBounded == Init => Bounded(con)
  <1> SUFFICES ASSUME Init PROVE Bounded(con)
    OBVIOUS
  <1>1. [y \in FbRows |-> [x \in FbCols |-> Blank]] \in Image
    BY DEF Image, Cell
  <1>2. /\ 0 \in 0..col_num-1 /\ 0 \in 0..LastRow /\ 0 \in 0..col_num /\ 0 \in FbRows
        /\ 1 \in 1..NewLineWords /\ 0 \in 0..NewLineWords-1
    BY Sizes DEF FbRows
  <1>3. con \in Consoles(col_num - 1, LastRow)
    BY <1>1, <1>2 DEF Init, Consoles
  <1>4. Counted(con)
    <2>1. con.shift_y = 0 /\ con.nl_write = 1 /\ con.nl[0] = 0 /\ con.src = NoRow
      BY <1>2 DEF Init
    <2>2. QED
      BY <2>1, Sizes DEF Counted, Counts, Follows, AtStart
  <1>5. QED
    BY <1>3, <1>4 DEF Bounded

LEMMA BoundedAlways == Spec => []Bounded(con)
  <1>1. Bounded(con) /\ [Next]_con => Bounded(con)'
    BY RenderKeepsCounts DEF Next, Render
  <1>2. QED
    BY <1>1, InitBounded, PTL DEF Spec

(* Every drawing, the copy of a row and the cleaning of rows included,     *)
(* stays inside the framebuffer.                                           *)
THEOREM TypeCorrect == Spec => []TypeOK
  <1>1. Bounded(con) => TypeOK
    BY DEF Bounded, TypeOK, Consoles, Image, Cell, LastRow
  <1>2. QED
    BY <1>1, BoundedAlways, PTL

(* The index of the new-line ring stays inside the 75 words it was given,  *)
(* and is always past what console_new_line_buf_read goes back for.        *)
THEOREM NewLinesInMemory == Spec => []NewLineInMemory
  <1>1. Bounded(con) => NewLineInMemory
    <2> SUFFICES ASSUME Bounded(con) PROVE NewLineInMemory
      OBVIOUS
    <2>1. con.shift_y \in 0..LastRow /\ con.nl_write = con.shift_y + 1
      BY DEF Bounded, Counted, Counts, Consoles
    <2>2. QED
      BY <2>1, Sizes DEF NewLineInMemory
  <1>2. QED
    BY <1>1, BoundedAlways, PTL

-------------------------------------------------------------------------------
(* What ConsoleLog takes for granted of the cursor. *)

(* The drawing of a symbol takes the cursor one cell on at most. *)
LEMMA DrawnMoves ==
  ASSUME NEW k \in Consoles(col_num - 1, LastRow), NEW s \in Symbols, NEW r, r = Drawn(k, s)
  PROVE  r.shift_x \in 0..k.shift_x+1
  <1>1. PICK a : a = Character(k, s)
    OBVIOUS
  <1>2. PICK b : b = Erase(a, s)
    OBVIOUS
  <1>3. /\ a \in Consoles(col_num, LastRow) /\ b \in Consoles(col_num, LastRow)
        /\ k.shift_x \in Nat /\ a.shift_x \in Nat
    <2>1. a \in Consoles(col_num, LastRow)
      BY <1>1, CharacterTyped
    <2>2. b \in Consoles(col_num, LastRow)
      BY <1>2, <2>1, EraseTyped
    <2>3. QED
      BY <2>1, <2>2, Sizes DEF Consoles
  <1>4. a.shift_x \in 0..k.shift_x+1
    <2>1. a = k \/ a.shift_x = k.shift_x + 1
      BY <1>1 DEF Character, Consoles
    <2>2. QED
      BY <1>3, <2>1
  <1>5. b.shift_x \in 0..k.shift_x+1
    <2>1. b = a \/ (a.shift_x > 1 /\ b.shift_x = a.shift_x - 1)
      BY <1>2, <1>3 DEF Erase, Consoles
    <2>2. QED
      BY <1>3, <1>4, <2>1
  <1>6. r = IF s = Return THEN [b EXCEPT !.shift_x = 0] ELSE b
    BY <1>1, <1>2 DEF Drawn, CarriageReturn
  <1>7. s = Return => r.shift_x = 0
    BY <1>3, <1>6 DEF Consoles
  <1>8. QED
    BY <1>3, <1>5, <1>6, <1>7

(* The rest of a turn sees to the end of the row and of the framebuffer.   *)
LEMMA CursorMoves ==
  ASSUME NEW k, Bounded(k), NEW s \in Symbols, NEW r, r = console_render(k, s)
  PROVE  <<r.shift_x, r.shift_y>> \in Moves(k.shift_x, k.shift_y, s = NewLine)
  <1>1. PICK d : d = Drawn(k, s)
    OBVIOUS
  <1>2. PICK e : e = EndRow(d, s)
    OBVIOUS
  <1>3. PICK f : f = EndScreen(e)
    OBVIOUS
  <1>4. /\ d \in Consoles(col_num, LastRow) /\ Counted(d) /\ d.shift_y = k.shift_y
        /\ d.shift_x \in 0..k.shift_x+1
    BY <1>1, DrawnTyped, DrawnMoves DEF Bounded, Counted, Counts, Follows, AtStart, Rest
  <1>5. e \in Consoles(col_num - 1, row_num_max) /\ Counts(e) /\ AtStart(e)
    BY <1>2, <1>4, AfterRow
  <1>6. /\ f \in Consoles(col_num - 1, row_num_max) /\ Counted(f)
        /\ f.shift_x = e.shift_x /\ f.shift_y = e.shift_y
    BY <1>3, <1>5, EndScreenTyped DEF Counted
  <1>7. r = EndBuffer(f)
    BY <1>1, <1>2, <1>3 DEF console_render, Drawn
  <1>8. /\ r.shift_x = e.shift_x
        /\ r.shift_y = IF e.shift_y = row_num_max THEN row_num - 1 ELSE e.shift_y
    BY <1>6, <1>7, EndBufferTyped
  <1>9. k.shift_y \in 0..row_num_max-1 /\ row_num_max \in Nat
    BY Sizes DEF Bounded, Consoles, LastRow
  <1>10. CASE EndsRow(d, s)
    <2>1. e.shift_x = 0 /\ e.shift_y = k.shift_y + 1
      BY <1>2, <1>4, <1>10, EndRowTyped DEF Counted
    <2>2. r.shift_x = 0 /\ r.shift_y = NextRow(k.shift_y)
      BY <1>8, <2>1 DEF NextRow
    <2>3. d.shift_x = col_num \/ s = NewLine
      BY <1>10 DEF EndsRow
    <2>4. QED
      BY <1>4, <2>2, <2>3 DEF Moves
  <1>11. CASE ~EndsRow(d, s)
    <2>1. e = d
      BY <1>2, <1>11 DEF EndRow
    <2>2. r.shift_x = d.shift_x /\ r.shift_y = k.shift_y
      BY <1>4, <1>8, <1>9, <2>1
    <2>3. ~(d.shift_x = col_num \/ s = NewLine)
      BY <1>11 DEF EndsRow
    <2>4. QED
      BY <1>4, <2>2, <2>3 DEF Moves
  <1>12. QED
    BY <1>10, <1>11

(* The cursor goes where Moves says, whatever is drawn.                    *)
CursorIsAsLogged ==
  [][\A s \in Symbols : Render(s) =>
       <<con'.shift_x, con'.shift_y>> \in Moves(con.shift_x, con.shift_y, s = NewLine)]_con

(* Whatever is printed, console_render moves its cursor as ConsoleLog says *)
(* it does: one column on at most, to the start of the next row exactly at *)
(* the last column or a newline, and back to the first screen exactly from *)
(* the last row of the framebuffer.                                        *)
THEOREM CursorMovesAsLogged == Spec => CursorIsAsLogged
  <1>1. ASSUME Bounded(con), NEW s \in Symbols, Render(s)
        PROVE  <<con'.shift_x, con'.shift_y>> \in Moves(con.shift_x, con.shift_y, s = NewLine)
    <2>1. PICK r : r = con'
      OBVIOUS
    <2>2. r = console_render(con, s)
      BY <1>1, <2>1 DEF Render
    <2>3. <<r.shift_x, r.shift_y>> \in Moves(con.shift_x, con.shift_y, s = NewLine)
      BY <1>1, <2>2, CursorMoves
    <2>4. QED
      BY <2>1, <2>3
  <1>2. ASSUME Bounded(con)
        PROVE  [\A s \in Symbols : Render(s) =>
                  <<con'.shift_x, con'.shift_y>>
                    \in Moves(con.shift_x, con.shift_y, s = NewLine)]_con
    BY <1>1, <1>2
  <1>3. QED
    BY <1>2, BoundedAlways, PTL DEF CursorIsAsLogged

-------------------------------------------------------------------------------
(* What is in the cells, when only glyphs and newlines are printed. *)

Plain == Symbols \cap {Return, Backspace} = {}

(* The row is its own copy, or there is none: nothing else is drawn to. *)
Shown(k, q) == q = k.shift_y \/ (IsMirrored(k.shift_y) /\ q = k.shift_y - Mirrored)

(* Beyond the widest row there is only what the current row has now. *)
Narrow(k) == \A q \in FbRows : \A c \in FbCols :
  c >= k.max_col_num /\ k.fb[q][c] # Blank => c < k.shift_x /\ Shown(k, q)

(* After the cursor the row is blank. *)
EndBlank(k) == \A c \in FbCols : c >= k.shift_x => k.fb[k.shift_y][c] = Blank

(* So are the rows below it until the screen has been filled. *)
BelowBlank(k) == \A q \in FbRows : q > k.shift_y /\ q < row_num =>
  \A c \in FbCols : k.fb[q][c] = Blank

Copied(k) == \A q \in Mirrored..k.shift_y : \A c \in FbCols :
  q < k.shift_y \/ c < k.shift_x => k.fb[q - Mirrored][c] = k.fb[q][c]

Cells(k) == Narrow(k) /\ EndBlank(k) /\ BelowBlank(k) /\ Copied(k)

(* A glyph is drawn at the cursor, and into the copy. *)
LEMMA GlyphDrawn ==
  ASSUME NEW k, Bounded(k), Plain, NEW s \in Symbols, s \in Glyph,
         NEW d, d = Drawn(k, s)
  PROVE  /\ d.shift_x = k.shift_x + 1
         /\ \A q \in FbRows : \A c \in FbCols :
              d.fb[q][c] = IF c = k.shift_x /\ Shown(k, q) THEN s ELSE k.fb[q][c]
  <1>1. /\ k.shift_x \in FbCols /\ k.shift_y \in FbRows /\ k.fb \in Image /\ s \in Cell
        /\ k \in Consoles(col_num - 1, LastRow)
    BY Sizes DEF Bounded, Consoles, FbCols, FbRows, Cell
  <1>2. IsMirrored(k.shift_y) => k.shift_y - Mirrored \in FbRows
    BY <1>1, Sizes DEF IsMirrored, FbRows
  <1>3. PICK one : one = console_render_char(k.fb, s, k.shift_x, k.shift_y)
    OBVIOUS
  <1>4. PICK two : two = console_render_char(one, s, k.shift_x, k.shift_y - Mirrored)
    OBVIOUS
  <1>5. d = [k EXCEPT !.fb = IF IsMirrored(k.shift_y) THEN two ELSE one,
                      !.shift_x = k.shift_x + 1]
    <2>1. s # Return /\ s # Backspace
      BY DEF Plain
    <2>2. d = Character(k, s)
      BY <2>1 DEF Drawn, Erase, CarriageReturn
    <2>3. QED
      BY <1>3, <1>4, <2>2 DEF Character
  <1>6. d.fb = (IF IsMirrored(k.shift_y) THEN two ELSE one) /\ d.shift_x = k.shift_x + 1
    BY <1>1, <1>5 DEF Consoles
  <1>7. one \in Image /\ \A q \in FbRows : \A c \in FbCols :
          one[q][c] = IF q = k.shift_y /\ c = k.shift_x THEN s ELSE k.fb[q][c]
    BY <1>1, <1>3, CharTyped
  <1>8. IsMirrored(k.shift_y) => \A q \in FbRows : \A c \in FbCols :
          two[q][c] = IF q = k.shift_y - Mirrored /\ c = k.shift_x THEN s ELSE one[q][c]
    BY <1>1, <1>2, <1>4, <1>7, CharTyped
  <1>9. CASE IsMirrored(k.shift_y)
    BY <1>6, <1>7, <1>8, <1>9 DEF Shown
  <1>10. CASE ~IsMirrored(k.shift_y)
    BY <1>6, <1>7, <1>10 DEF Shown
  <1>11. QED
    BY <1>6, <1>9, <1>10

LEMMA OthersNotDrawn ==
  ASSUME NEW k, Plain, NEW s \in Symbols, s \notin Glyph
  PROVE  Drawn(k, s) = k
  BY DEF Plain, Drawn, Character, Erase, CarriageReturn

(* No row but the current one and its copy is drawn to: those finished     *)
(* before, and their copies, are others.                                   *)
LEMMA DrawnKeepsCells ==
  ASSUME NEW k, Bounded(k), Cells(k), Plain, NEW s \in Symbols,
         NEW d, d = Drawn(k, s)
  PROVE  d \in Consoles(col_num, LastRow) /\ Counted(d) /\ Cells(d)
  <1>1. d \in Consoles(col_num, LastRow) /\ Counted(d) /\ Rest(d, k)
    BY DrawnTyped DEF Bounded, Counted, Counts, Follows, AtStart, Rest
  <1>2. CASE s \notin Glyph
    BY <1>1, <1>2, OthersNotDrawn
  <1>3. CASE s \in Glyph
    <2>1. /\ d.shift_x = k.shift_x + 1
          /\ \A q \in FbRows : \A c \in FbCols :
               d.fb[q][c] = IF c = k.shift_x /\ Shown(k, q) THEN s ELSE k.fb[q][c]
      BY <1>3, GlyphDrawn
    <2>2. /\ d.shift_y = k.shift_y /\ d.max_col_num = k.max_col_num
          /\ \A q \in FbRows : Shown(d, q) <=> Shown(k, q)
      BY <1>1 DEF Rest, Shown
    <2>3. k.shift_x \in FbCols /\ k.shift_y \in 0..LastRow /\ k.shift_y \in FbRows
      BY Sizes DEF Bounded, Consoles, FbCols, FbRows
    <2>4. Narrow(d)
      BY <2>1, <2>2, <2>3 DEF Cells, Narrow, FbCols
    <2>5. EndBlank(d)
      BY <2>1, <2>2, <2>3 DEF Cells, EndBlank, FbCols
    <2>6. BelowBlank(d)
      <3>1. ASSUME NEW q \in FbRows, q > k.shift_y, q < row_num
            PROVE  ~Shown(k, q)
        BY <2>3, <3>1, Sizes DEF Shown, IsMirrored, FbRows
      <3>2. QED
        BY <2>1, <2>2, <3>1 DEF Cells, BelowBlank
    <2>7. Copied(d)
      <3>1. ASSUME NEW q \in Mirrored..k.shift_y
            PROVE  /\ q \in FbRows /\ q - Mirrored \in FbRows
                   /\ q < k.shift_y => ~Shown(k, q) /\ ~Shown(k, q - Mirrored)
                   /\ q = k.shift_y => Shown(k, q) /\ Shown(k, q - Mirrored)
        BY <2>3, Sizes DEF Shown, IsMirrored, FbRows
      <3>2. ASSUME NEW q \in Mirrored..k.shift_y, NEW c \in FbCols,
                   q < k.shift_y \/ c < k.shift_x + 1
            PROVE  d.fb[q - Mirrored][c] = d.fb[q][c]
        <4>1. q = k.shift_y \/ q < k.shift_y
          BY <2>3, Sizes
        <4>2. c = k.shift_x \/ c < k.shift_x \/ q < k.shift_y
          BY <2>3, <3>2 DEF FbCols
        <4>3. q < k.shift_y \/ c < k.shift_x => k.fb[q - Mirrored][c] = k.fb[q][c]
          BY DEF Cells, Copied
        <4>4. QED
          BY <2>1, <3>1, <4>1, <4>2, <4>3
      <3>3. QED
        BY <2>1, <2>2, <3>2 DEF Copied
    <2>8. QED
      BY <1>1, <2>4, <2>5, <2>6, <2>7 DEF Cells
  <1>4. QED
    BY <1>2, <1>3

(* While the row goes on, the drawing is all there is: the row is cleaned  *)
(* where it is blank, and the screen starts where it did.                  *)
LEMMA RowGoesOn ==
  ASSUME NEW d \in Consoles(col_num, LastRow), Counted(d), EndBlank(d),
         NEW s \in Symbols, ~EndsRow(d, s)
  PROVE  EndBuffer(EndScreen(EndRow(d, s))) = d
  <1>1. EndRow(d, s) = d
    BY DEF EndRow
  <1>2. d.shift_x \in 0..col_num /\ d.shift_x # col_num /\ d.shift_y \in 0..LastRow
        /\ d.shift_y \in FbRows
    BY Sizes DEF EndsRow, Consoles, FbRows
  <1>3. EndScreen(d) = d
    <2>1. CASE d.shift_y < row_num
      BY <1>2, <2>1, Sizes DEF EndScreen
    <2>2. CASE d.shift_y >= row_num
      <3>1. console_new_line_buf_read(d, row_num) = d.src
        BY <1>2, <2>2, Sizes DEF console_new_line_buf_read, Counted, Counts, Follows
      <3>2. [d EXCEPT !.src = d.src] = d
        BY DEF Consoles
      <3>3. CASE d.shift_x # 0
        BY <2>2, <3>1, <3>2, <3>3 DEF EndScreen, CleanAtStart
      <3>4. CASE d.shift_x = 0
        <4>1. ClearRow(d.fb, 0, d.shift_y, Widest(d, 0)) = d.fb
          <5>1. d.fb \in Image
            BY DEF Consoles
          <5>2. \A c \in FbCols : d.fb[d.shift_y][c] = Blank
            BY <3>4 DEF EndBlank, FbCols
          <5>3. PICK row : row = d.fb[d.shift_y]
            OBVIOUS
          <5>4. row \in [FbCols -> Cell] /\ \A c \in FbCols : row[c] = Blank
            BY <1>2, <5>1, <5>2, <5>3 DEF Image
          <5>5. [c \in FbCols |-> IF c >= 0 /\ c < Widest(d, 0) THEN Blank ELSE row[c]] = row
            BY <5>4
          <5>6. ClearRow(d.fb, 0, d.shift_y, Widest(d, 0)) = [d.fb EXCEPT ![d.shift_y] = row]
            BY <5>3, <5>5 DEF ClearRow
          <5>7. QED
            BY <1>2, <5>1, <5>3, <5>6 DEF Image
        <4>2. Widest(d, 0) = d.max_col_num
          BY Sizes DEF Widest, Consoles
        <4>3. console_clean_row(d, 0, d.shift_y)
                = [d EXCEPT !.fb = d.fb, !.max_col_num = d.max_col_num]
          BY <4>1, <4>2 DEF console_clean_row
        <4>4. console_clean_row(d, 0, d.shift_y) = d
          BY <4>3 DEF Consoles
        <4>5. QED
          BY <2>2, <3>1, <3>2, <3>4, <4>4 DEF EndScreen, CleanAtStart
      <3>5. QED
        BY <3>3, <3>4
    <2>3. QED
      BY <1>2, <2>1, <2>2, Sizes
  <1>4. EndBuffer(d) = d
    BY <1>2, Sizes DEF EndBuffer
  <1>5. QED
    BY <1>1, <1>3, <1>4

(* What is left of d when its row has been ended: its finished rows, the   *)
(* copy of the last of them, and a blank row to go on in.                  *)
Ended(r, d) ==
  /\ r.shift_x = 0
  /\ r.shift_y = IF d.shift_y = LastRow THEN row_num - 1 ELSE d.shift_y + 1
  /\ \A c \in FbCols : r.fb[r.shift_y][c] = Blank
  /\ \A q \in 0..LastRow : q # r.shift_y /\ ~(q # d.shift_y /\ Shown(d, q)) =>
       \A c \in FbCols : r.fb[q][c] = d.fb[q][c]
  /\ IsMirrored(d.shift_y) =>
       \A c \in FbCols : r.fb[d.shift_y - Mirrored][c] = d.fb[d.shift_y][c]
  /\ \A q \in FbRows : \A c \in FbCols : c >= r.max_col_num => r.fb[q][c] = Blank
  /\ r.src = IF d.shift_y = LastRow THEN 0
             ELSE IF d.shift_y + 1 < row_num THEN d.src ELSE d.shift_y + 1 - row_num + 1

LEMMA RowEnds ==
  ASSUME NEW d \in Consoles(col_num, LastRow), Counted(d), Cells(d),
         NEW s \in Symbols, EndsRow(d, s),
         NEW r, r = EndBuffer(EndScreen(EndRow(d, s)))
  PROVE  Ended(r, d) /\ Bounded(r)
  <1>1. PICK n : n = CleanEnd(d)
    OBVIOUS
  <1>2. PICK e : e = EndRow(d, s)
    OBVIOUS
  <1>3. PICK f : f = EndScreen(e)
    OBVIOUS
  <1>4. d.shift_x \in 0..col_num /\ d.shift_y \in 0..LastRow /\ d.shift_y \in FbRows
        /\ d.max_col_num \in 0..col_num
    BY Sizes DEF Consoles, FbRows
  <1>5. /\ e \in Consoles(col_num - 1, row_num_max) /\ Counts(e) /\ AtStart(e)
        /\ e.shift_x = 0 /\ e.shift_y = d.shift_y + 1 /\ e.src = d.src
        /\ e.fb = n.fb /\ e.max_col_num = n.max_col_num
    BY <1>1, <1>2, EndRowTyped, AfterRow DEF Counted
  <1>6. /\ n.max_col_num >= d.shift_x /\ n.max_col_num >= d.max_col_num
        /\ \A q \in FbRows : \A c \in FbCols :
             n.fb[q][c] = IF Shown(d, q) /\ c >= d.shift_x /\ c < n.max_col_num
                          THEN Blank ELSE d.fb[q][c]
    BY <1>1, CleanEndTyped DEF Shown
  <1>7. n.max_col_num \in Int
    BY <1>5 DEF Consoles
  <1>8. \A q \in FbRows : \A c \in FbCols : c >= n.max_col_num => n.fb[q][c] = Blank
    <2>1. ASSUME NEW q \in FbRows, NEW c \in FbCols, c >= n.max_col_num
          PROVE  d.fb[q][c] = Blank /\ n.fb[q][c] = d.fb[q][c]
      <3>1. c >= d.max_col_num /\ ~(c < d.shift_x) /\ ~(c < n.max_col_num)
        BY <1>4, <1>6, <1>7, <2>1 DEF FbCols
      <3>2. QED
        BY <1>6, <3>1 DEF Cells, Narrow
    <2>2. QED
      BY <2>1
  <1>9. \A q \in 0..LastRow : ~(q # d.shift_y /\ Shown(d, q)) =>
          \A c \in FbCols : n.fb[q][c] = d.fb[q][c]
    <2>1. ASSUME NEW q \in 0..LastRow, ~(q # d.shift_y /\ Shown(d, q)), NEW c \in FbCols
          PROVE  n.fb[q][c] = d.fb[q][c]
      <3>1. q \in FbRows
        BY Sizes DEF FbRows
      <3>2. CASE q = d.shift_y
        BY <1>6, <3>1, <3>2 DEF Cells, EndBlank
      <3>3. CASE ~Shown(d, q)
        BY <1>6, <3>1, <3>3
      <3>4. QED
        BY <2>1, <3>2, <3>3
    <2>2. QED
      BY <2>1
  <1>10. IsMirrored(d.shift_y) =>
           \A c \in FbCols : n.fb[d.shift_y - Mirrored][c] = d.fb[d.shift_y][c]
    <2>1. ASSUME IsMirrored(d.shift_y), NEW c \in FbCols
          PROVE  n.fb[d.shift_y - Mirrored][c] = d.fb[d.shift_y][c]
      <3>1. d.shift_y - Mirrored \in FbRows /\ Shown(d, d.shift_y - Mirrored)
            /\ d.shift_y \in Mirrored..d.shift_y
        BY <1>4, <2>1, Sizes DEF Shown, IsMirrored, FbRows
      <3>2. CASE c < d.shift_x
        <4>1. ~(c >= d.shift_x)
          BY <1>4, <3>2 DEF FbCols
        <4>2. QED
          BY <1>6, <3>1, <3>2, <4>1 DEF Cells, Copied
      <3>3. CASE c >= d.shift_x
        <4>1. d.fb[d.shift_y][c] = Blank
          BY <3>3 DEF Cells, EndBlank
        <4>2. c < n.max_col_num \/ c >= n.max_col_num
          BY <1>7 DEF FbCols
        <4>3. QED
          BY <1>6, <1>8, <3>1, <3>3, <4>1, <4>2
      <3>4. QED
        BY <1>4, <3>2, <3>3 DEF FbCols
    <2>2. QED
      BY <2>1
  <1>11. /\ f \in Consoles(col_num - 1, row_num_max) /\ Counted(f)
         /\ f.shift_x = 0 /\ f.shift_y = d.shift_y + 1 /\ f.max_col_num = n.max_col_num
         /\ d.shift_y + 1 < row_num => f.fb = n.fb /\ f.src = d.src
         /\ d.shift_y + 1 >= row_num => \A q \in FbRows : \A c \in FbCols :
              f.fb[q][c] = IF q = d.shift_y + 1 /\ c < n.max_col_num
                           THEN Blank ELSE n.fb[q][c]
    BY <1>3, <1>5, EndScreenTyped DEF Counted
  <1>12. \A c \in FbCols : f.fb[d.shift_y + 1][c] = Blank
    <2>1. d.shift_y + 1 \in FbRows
      BY <1>4, Sizes DEF FbRows
    <2>2. CASE d.shift_y + 1 < row_num
      <3>1. d.shift_y + 1 > d.shift_y /\ ~Shown(d, d.shift_y + 1) /\ d.shift_y + 1 \in 0..LastRow
        BY <1>4, <2>2, Sizes DEF Shown, IsMirrored
      <3>2. \A c \in FbCols : n.fb[d.shift_y + 1][c] = d.fb[d.shift_y + 1][c]
        BY <1>9, <3>1
      <3>3. QED
        BY <1>11, <2>1, <2>2, <3>1, <3>2 DEF Cells, BelowBlank
    <2>3. CASE d.shift_y + 1 >= row_num
      <3>1. \A c \in FbCols : c < n.max_col_num \/ c >= n.max_col_num
        BY <1>7 DEF FbCols
      <3>2. QED
        BY <1>8, <1>11, <2>1, <2>3, <3>1
    <2>4. QED
      BY <1>4, <2>2, <2>3, Sizes
  <1>13. \A q \in FbRows : q # d.shift_y + 1 => \A c \in FbCols : f.fb[q][c] = n.fb[q][c]
    BY <1>4, <1>11, Sizes
  <1>14. r = EndBuffer(f)
    BY <1>2, <1>3
  <1>15. /\ Bounded(r) /\ r.shift_x = 0 /\ r.max_col_num = n.max_col_num
         /\ f.shift_y # row_num_max => r = f
         /\ f.shift_y = row_num_max =>
              /\ r.shift_y = row_num - 1 /\ r.src = 0
              /\ \A q \in FbRows : \A c \in FbCols :
                   r.fb[q][c] = IF q = row_num - 1 /\ c < n.max_col_num
                                THEN Blank ELSE f.fb[q][c]
    BY <1>11, <1>14, EndBufferTyped DEF Bounded
  <1>16. CASE d.shift_y # LastRow
    <2>1. r = f
      BY <1>4, <1>11, <1>15, <1>16, Sizes
    <2>2. \A q \in 0..LastRow : q \in FbRows
      BY Sizes DEF FbRows
    <2>3. \A q \in 0..LastRow : q # d.shift_y + 1 /\ ~(q # d.shift_y /\ Shown(d, q)) =>
            \A c \in FbCols : f.fb[q][c] = d.fb[q][c]
      BY <1>9, <1>13, <2>2
    <2>4. IsMirrored(d.shift_y) =>
            \A c \in FbCols : f.fb[d.shift_y - Mirrored][c] = d.fb[d.shift_y][c]
      <3>1. IsMirrored(d.shift_y) =>
              d.shift_y - Mirrored \in FbRows /\ d.shift_y - Mirrored # d.shift_y + 1
        BY <1>4, Sizes DEF IsMirrored, FbRows
      <3>2. QED
        BY <1>10, <1>13, <3>1
    <2>5. \A q \in FbRows : \A c \in FbCols : c >= n.max_col_num => f.fb[q][c] = Blank
      BY <1>8, <1>12, <1>13
    <2>6. r.src = IF d.shift_y + 1 < row_num THEN d.src ELSE d.shift_y + 1 - row_num + 1
      <3>1. d.shift_y + 1 >= row_num => f.src = d.shift_y + 1 - row_num + 1
        <4>1. Follows(f)
          BY <1>11 DEF Counted
        <4>2. f.shift_y = d.shift_y + 1
          BY <1>11
        <4>3. QED
          BY <1>4, <4>1, <4>2, Sizes DEF Follows
      <3>2. d.shift_y + 1 < row_num \/ d.shift_y + 1 >= row_num
        BY <1>4, Sizes
      <3>3. ~(d.shift_y + 1 < row_num /\ d.shift_y + 1 >= row_num)
        BY <1>4, Sizes
      <3>4. QED
        BY <1>11, <2>1, <3>1, <3>2, <3>3
    <2>7. QED
      BY <1>11, <1>12, <1>15, <1>16, <2>1, <2>3, <2>4, <2>5, <2>6 DEF Ended
  <1>17. CASE d.shift_y = LastRow
    <2>1. /\ r.shift_y = row_num - 1 /\ r.src = 0
          /\ \A q \in FbRows : \A c \in FbCols :
               r.fb[q][c] = IF q = row_num - 1 /\ c < n.max_col_num THEN Blank ELSE f.fb[q][c]
      BY <1>11, <1>15, <1>17, Sizes
    <2>2. \A q \in 0..LastRow : q \in FbRows /\ q # d.shift_y + 1
      BY <1>17, Sizes DEF FbRows
    <2>3. row_num - 1 \in 0..LastRow /\ row_num - 1 \in FbRows
      BY Sizes DEF FbRows
    <2>4. \A c \in FbCols : r.fb[row_num - 1][c] = Blank
      <3>1. \A c \in FbCols : c < n.max_col_num \/ c >= n.max_col_num
        BY <1>7 DEF FbCols
      <3>2. QED
        BY <1>8, <1>13, <2>1, <2>2, <2>3, <3>1
    <2>5. \A q \in 0..LastRow : q # row_num - 1 /\ ~(q # d.shift_y /\ Shown(d, q)) =>
            \A c \in FbCols : r.fb[q][c] = d.fb[q][c]
      BY <1>9, <1>13, <2>1, <2>2
    <2>6. IsMirrored(d.shift_y) =>
            \A c \in FbCols : r.fb[d.shift_y - Mirrored][c] = d.fb[d.shift_y][c]
      <3>1. IsMirrored(d.shift_y) => /\ d.shift_y - Mirrored \in FbRows
                                     /\ d.shift_y - Mirrored # d.shift_y + 1
                                     /\ d.shift_y - Mirrored # row_num - 1
        BY <1>4, <1>17, Sizes DEF IsMirrored, FbRows
      <3>2. QED
        BY <1>10, <1>13, <2>1, <3>1
    <2>7. \A q \in FbRows : \A c \in FbCols : c >= n.max_col_num => r.fb[q][c] = Blank
      BY <1>8, <1>12, <1>13, <2>1
    <2>8. QED
      BY <1>15, <1>17, <2>1, <2>4, <2>5, <2>6, <2>7 DEF Ended
  <1>18. QED
    BY <1>15, <1>16, <1>17

LEMMA EndedKeepsCells ==
  ASSUME NEW d \in Consoles(col_num, LastRow), Cells(d), NEW r, Ended(r, d), Bounded(r)
  PROVE  Cells(r)
  <1>1. /\ d.shift_y \in 0..LastRow /\ r.shift_y \in 0..LastRow /\ r.shift_x = 0
        /\ r.max_col_num \in 0..col_num
        /\ r.shift_y = IF d.shift_y = LastRow THEN row_num - 1 ELSE d.shift_y + 1
    BY DEF Ended, Bounded, Consoles
  <1>2. Narrow(r)
    BY DEF Narrow, Ended
  <1>3. EndBlank(r)
    BY DEF EndBlank, Ended
  <1>4. BelowBlank(r)
    <2>1. ASSUME NEW q \in FbRows, q > r.shift_y, q < row_num, NEW c \in FbCols
          PROVE  r.fb[q][c] = Blank
      <3>1. /\ q \in 0..LastRow /\ q > d.shift_y /\ q # r.shift_y /\ ~Shown(d, q)
        BY <1>1, <2>1, Sizes DEF Shown, IsMirrored, FbRows
      <3>2. r.fb[q][c] = d.fb[q][c]
        BY <3>1 DEF Ended
      <3>3. QED
        BY <2>1, <3>1, <3>2 DEF Cells, BelowBlank
    <2>2. QED
      BY <2>1 DEF BelowBlank
  <1>5. Copied(r)
    <2>1. ASSUME NEW q \in Mirrored..r.shift_y, NEW c \in FbCols, q < r.shift_y \/ c < r.shift_x
          PROVE  r.fb[q - Mirrored][c] = r.fb[q][c]
      <3>1. /\ r.shift_y = d.shift_y + 1 /\ q \in Mirrored..d.shift_y
            /\ IsMirrored(d.shift_y) /\ q \in 0..LastRow /\ q - Mirrored \in 0..LastRow
            /\ q # r.shift_y /\ q - Mirrored # r.shift_y /\ q - Mirrored # d.shift_y
            /\ q # d.shift_y - Mirrored
        BY <1>1, <2>1, Sizes DEF FbCols, IsMirrored
      <3>2. r.fb[q][c] = d.fb[q][c]
        BY <3>1 DEF Ended, Shown
      <3>3. CASE q = d.shift_y
        BY <3>1, <3>2, <3>3 DEF Ended
      <3>4. CASE q # d.shift_y
        <4>1. q < d.shift_y /\ ~Shown(d, q - Mirrored)
          BY <1>1, <3>1, <3>4, Sizes DEF Shown
        <4>2. r.fb[q - Mirrored][c] = d.fb[q - Mirrored][c]
          BY <3>1, <4>1 DEF Ended
        <4>3. QED
          BY <3>1, <3>2, <4>1, <4>2 DEF Cells, Copied
      <3>5. QED
        BY <3>3, <3>4
    <2>2. QED
      BY <2>1 DEF Copied
  <1>6. QED
    BY <1>2, <1>3, <1>4, <1>5 DEF Cells

(* A turn draws, and ends the row or goes on in it. *)
LEMMA RenderSplits ==
  ASSUME NEW k, Bounded(k), Cells(k), Plain, NEW s \in Symbols,
         NEW d, d = Drawn(k, s), NEW r, r = console_render(k, s)
  PROVE  /\ d \in Consoles(col_num, LastRow) /\ Counted(d) /\ Cells(d)
         /\ Bounded(r)
         /\ EndsRow(d, s) => Ended(r, d)
         /\ ~EndsRow(d, s) => r = d
  <1>1. r = EndBuffer(EndScreen(EndRow(d, s)))
    BY DEF console_render, Drawn
  <1>2. d \in Consoles(col_num, LastRow) /\ Counted(d) /\ Cells(d)
    BY DrawnKeepsCells
  <1>3. Bounded(r)
    BY RenderKeepsCounts
  <1>4. EndsRow(d, s) => Ended(r, d)
    BY <1>1, <1>2, RowEnds
  <1>5. ~EndsRow(d, s) => r = d
    BY <1>1, <1>2, RowGoesOn DEF Cells
  <1>6. QED
    BY <1>2, <1>3, <1>4, <1>5

LEMMA RenderKeepsCells ==
  ASSUME NEW k, Bounded(k), Cells(k), Plain, NEW s \in Symbols
  PROVE  Cells(console_render(k, s))
  <1>1. PICK d : d = Drawn(k, s)
    OBVIOUS
  <1>2. PICK r : r = console_render(k, s)
    OBVIOUS
  <1>3. /\ d \in Consoles(col_num, LastRow) /\ Cells(d) /\ Bounded(r)
        /\ EndsRow(d, s) => Ended(r, d)
        /\ ~EndsRow(d, s) => r = d
    BY <1>1, <1>2, RenderSplits
  <1>4. QED
    BY <1>2, <1>3, EndedKeepsCells

LEMMA InitCells == Init => Cells(con)
  <1> SUFFICES ASSUME Init PROVE Cells(con)
    OBVIOUS
  <1>1. \A q \in FbRows : \A c \in FbCols : con.fb[q][c] = Blank
    BY DEF Init
  <1>2. con.shift_y = 0 /\ 0 \in FbRows
    BY Sizes DEF Init, FbRows
  <1>3. Narrow(con) /\ EndBlank(con) /\ BelowBlank(con)
    BY <1>1, <1>2 DEF Narrow, EndBlank, BelowBlank
  <1>4. Mirrored..con.shift_y = {}
    BY <1>2, Sizes
  <1>5. QED
    BY <1>3, <1>4 DEF Cells, Copied

IInv == Bounded(con) /\ Cells(con)

LEMMA Inductive ==
  ASSUME Plain
  PROVE  Spec => []IInv
  <1>1. Init => IInv
    BY InitBounded, InitCells DEF IInv
  <1>2. IInv /\ [Next]_con => IInv'
    BY RenderKeepsCounts, RenderKeepsCells DEF IInv, Next, Render
  <1>3. QED
    BY <1>1, <1>2, PTL DEF Spec

(* Glyphs and newlines leave every row near the end of the framebuffer     *)
(* with its copy at the start (console_task.c:181 and 202).                *)
THEOREM CopiesComplete ==
  ASSUME Plain
  PROVE  Spec => []MirrorComplete
  <1>1. IInv => MirrorComplete
    BY DEF IInv, Cells, Copied, MirrorComplete
  <1>2. QED
    BY <1>1, Inductive, PTL

-------------------------------------------------------------------------------
(* The screen, as a function of the console. *)

First(k) == IF k.src = NoRow THEN 0 ELSE k.src
ScreenOf(k) == [i \in 0..row_num-1 |-> k.fb[First(k) + i]]
RowOf(k) == k.shift_y - First(k)

(* The screen starts at the start, and later ends with the current row. *)
LEMMA FirstRow ==
  ASSUME NEW Y \in 0..LastRow, NEW k, k.shift_y = Y, Follows(k)
  PROVE  /\ First(k) = IF Y < row_num THEN 0 ELSE Y - row_num + 1
         /\ RowOf(k) = IF Y < row_num THEN Y ELSE row_num - 1
         /\ \A i \in 0..row_num-1 : First(k) + i \in 0..LastRow /\ First(k) + i \in FbRows
  BY Sizes DEF First, RowOf, Follows, AtStart, NoRow, FbRows

(* The margin shows a row that is neither drawn to nor copied to. *)
AboveOf(k) ==
  IF k.src \in {NoRow, 0} THEN [c \in FbCols |-> Blank] ELSE k.fb[k.src - 1]

LEMMA GlyphNotAbove ==
  ASSUME NEW k, Bounded(k), Plain, NEW s \in Symbols, s \in Glyph, NEW d, d = Drawn(k, s)
  PROVE  d.src = k.src /\ AboveOf(d) = AboveOf(k)
  <1>1. /\ k.shift_y \in 0..LastRow /\ k.fb \in Image /\ Follows(k)
        /\ k \in Consoles(col_num - 1, LastRow) /\ k.src \in FbRows \cup {NoRow}
    BY DEF Bounded, Counted, Consoles
  <1>2. d.src = k.src /\ d.fb \in Image
    BY <1>1, DrawnTyped DEF Rest, Consoles
  <1>3. ASSUME k.src \notin {NoRow, 0} PROVE d.fb[k.src - 1] = k.fb[k.src - 1]
    <2>1. PICK q \in FbRows : q = k.src - 1
      BY <1>1, <1>3, Sizes DEF FbRows, NoRow
    <2>2. ~Shown(k, q)
      <3>1. k.src = k.shift_y - row_num + 1 /\ k.shift_y >= row_num
        BY <1>1, <1>3, Sizes DEF Follows, AtStart
      <3>2. QED
        BY <1>1, <2>1, <3>1, Sizes DEF Shown
    <2>3. \A c \in FbCols : d.fb[q][c] = k.fb[q][c]
      BY <2>2, GlyphDrawn
    <2>4. d.fb[q] \in [FbCols -> Cell] /\ k.fb[q] \in [FbCols -> Cell]
      BY <1>1, <1>2 DEF Image
    <2>5. QED
      BY <2>1, <2>3, <2>4
  <1>4. QED
    BY <1>2, <1>3 DEF AboveOf

(* What the end of a row puts there is the row that leaves the screen, or  *)
(* the blank margin at the start of the framebuffer.                       *)
LEMMA EndedAbove ==
  ASSUME NEW d \in Consoles(col_num, LastRow), Follows(d), NEW r, Ended(r, d), Bounded(r)
  PROVE  /\ RowOf(d) < row_num - 1 => r.src = d.src /\ AboveOf(r) = AboveOf(d)
         /\ ~(RowOf(d) < row_num - 1) =>
              /\ r.src # NoRow
              /\ AboveOf(r) \in {ScreenOf(d)[0], [c \in FbCols |-> Blank]}
  <1>1. /\ d.shift_y \in 0..LastRow /\ r.shift_y \in 0..LastRow
        /\ d.fb \in Image /\ r.fb \in Image
        /\ r.shift_y = (IF d.shift_y = LastRow THEN row_num - 1 ELSE d.shift_y + 1)
        /\ r.src = IF d.shift_y = LastRow THEN 0
                   ELSE IF d.shift_y + 1 < row_num THEN d.src ELSE d.shift_y + 1 - row_num + 1
    BY DEF Ended, Bounded, Consoles
  <1>2. /\ First(d) = IF d.shift_y < row_num THEN 0 ELSE d.shift_y - row_num + 1
        /\ RowOf(d) = IF d.shift_y < row_num THEN d.shift_y ELSE row_num - 1
    BY <1>1, FirstRow
  <1>3. ASSUME RowOf(d) < row_num - 1 PROVE r.src = d.src /\ AboveOf(r) = AboveOf(d)
    <2>1. d.shift_y + 1 < row_num /\ d.shift_y # LastRow
      BY <1>1, <1>2, <1>3, Sizes
    <2>2. r.src = d.src /\ d.src \in {NoRow, 0}
      BY <1>1, <2>1, Sizes DEF Follows, AtStart
    <2>3. QED
      BY <2>2 DEF AboveOf
  <1>4. ASSUME ~(RowOf(d) < row_num - 1)
        PROVE  /\ r.src # NoRow
               /\ AboveOf(r) \in {ScreenOf(d)[0], [c \in FbCols |-> Blank]}
    <2>1. d.shift_y >= row_num - 1
      BY <1>1, <1>2, <1>4, Sizes
    <2>2. CASE d.shift_y = LastRow
      BY <1>1, <2>2 DEF AboveOf, NoRow
    <2>3. CASE d.shift_y # LastRow
      <3>1. /\ ~(d.shift_y + 1 < row_num) /\ r.src = d.shift_y + 1 - row_num + 1
            /\ r.shift_y = d.shift_y + 1
        BY <1>1, <2>1, <2>3, Sizes
      <3>2. r.src \notin {NoRow, 0}
        BY <1>1, <2>1, <3>1, Sizes DEF NoRow
      <3>3. PICK q \in FbRows : q = First(d) /\ q = r.src - 1 /\ q \in 0..LastRow
        BY <1>1, <1>2, <2>1, <3>1, Sizes DEF FbRows
      <3>4. q # r.shift_y /\ ~(q # d.shift_y /\ Shown(d, q))
        BY <1>1, <1>2, <2>1, <3>1, <3>3, Sizes DEF Shown
      <3>5. \A c \in FbCols : r.fb[q][c] = d.fb[q][c]
        BY <3>3, <3>4 DEF Ended
      <3>6. r.fb[q] \in [FbCols -> Cell] /\ d.fb[q] \in [FbCols -> Cell]
        BY <1>1 DEF Image
      <3>7. r.fb[q] = d.fb[q]
        BY <3>5, <3>6
      <3>8. ScreenOf(d)[0] = d.fb[q]
        <4>1. 0 \in 0..row_num-1 /\ First(d) + 0 = q
          BY <3>3, Sizes
        <4>2. QED
          BY <4>1 DEF ScreenOf
      <3>9. AboveOf(r) = r.fb[q]
        BY <3>2, <3>3 DEF AboveOf
      <3>10. QED
        BY <3>2, <3>7, <3>8, <3>9
    <2>4. QED
      BY <2>2, <2>3
  <1>5. QED
    BY <1>3, <1>4

(* A glyph changes the cell at the cursor, and its copy is not on the      *)
(* screen.                                                                 *)
LEMMA GlyphOnScreen ==
  ASSUME NEW k, Bounded(k), Plain, NEW s \in Symbols, s \in Glyph, NEW d, d = Drawn(k, s)
  PROVE  /\ ScreenOf(d) = [ScreenOf(k) EXCEPT ![RowOf(k)][k.shift_x] = s]
         /\ RowOf(d) = RowOf(k) /\ First(d) = First(k)
  <1>1. /\ k.shift_y \in 0..LastRow /\ k.shift_x \in FbCols /\ k.fb \in Image /\ Follows(k)
        /\ k \in Consoles(col_num - 1, LastRow)
    BY Sizes DEF Bounded, Counted, Consoles, FbCols
  <1>2. d.src = k.src /\ d.shift_y = k.shift_y /\ d.fb \in Image
    BY <1>1, DrawnTyped DEF Rest, Consoles
  <1>3. First(d) = First(k) /\ RowOf(d) = RowOf(k)
    BY <1>2 DEF First, RowOf
  <1>4. \A q \in FbRows : \A c \in FbCols :
          d.fb[q][c] = IF c = k.shift_x /\ Shown(k, q) THEN s ELSE k.fb[q][c]
    BY GlyphDrawn
  <1>5. /\ First(k) = IF k.shift_y < row_num THEN 0 ELSE k.shift_y - row_num + 1
        /\ RowOf(k) = IF k.shift_y < row_num THEN k.shift_y ELSE row_num - 1
        /\ \A i \in 0..row_num-1 : First(k) + i \in 0..LastRow /\ First(k) + i \in FbRows
    BY <1>1, FirstRow
  <1>6. ASSUME NEW i \in 0..row_num-1
        PROVE  Shown(k, First(k) + i) <=> i = RowOf(k)
    BY <1>1, <1>5, Sizes DEF Shown, IsMirrored
  <1>7. ASSUME NEW i \in 0..row_num-1
        PROVE  d.fb[First(k) + i] =
                 [k.fb[First(k) + i] EXCEPT ![k.shift_x] = IF i = RowOf(k) THEN s ELSE @]
    <2>1. PICK new : new = d.fb[First(k) + i]
      OBVIOUS
    <2>2. PICK old : old = k.fb[First(k) + i]
      OBVIOUS
    <2>3. new \in [FbCols -> Cell] /\ old \in [FbCols -> Cell]
      BY <1>1, <1>2, <1>5, <2>1, <2>2 DEF Image
    <2>4. \A c \in FbCols : new[c] = IF c = k.shift_x /\ i = RowOf(k) THEN s ELSE old[c]
      BY <1>4, <1>5, <1>6, <2>1, <2>2
    <2>5. new = [old EXCEPT ![k.shift_x] = IF i = RowOf(k) THEN s ELSE old[k.shift_x]]
      BY <1>1, <2>3, <2>4
    <2>6. QED
      BY <2>1, <2>2, <2>5
  <1>8. ScreenOf(k) \in [0..row_num-1 -> [FbCols -> Cell]]
    BY <1>1, <1>5 DEF ScreenOf, Image
  <1>9. RowOf(k) \in 0..row_num-1
    BY <1>1, <1>5, Sizes
  <1>10. ScreenOf(d) = [ScreenOf(k) EXCEPT ![RowOf(k)] = [@ EXCEPT ![k.shift_x] = s]]
    <2>1. ASSUME NEW i \in 0..row_num-1, i # RowOf(k)
          PROVE  d.fb[First(k) + i] = k.fb[First(k) + i]
      <3>1. k.fb[First(k) + i] \in [FbCols -> Cell]
        BY <1>1, <1>5 DEF Image
      <3>2. QED
        BY <1>1, <1>7, <2>1, <3>1
    <2>2. d.fb[First(k) + RowOf(k)] = [k.fb[First(k) + RowOf(k)] EXCEPT ![k.shift_x] = s]
      BY <1>7, <1>9
    <2>3. QED
      BY <1>3, <1>9, <2>1, <2>2 DEF ScreenOf
  <1>11. QED
    BY <1>3, <1>10

(* The end of a row moves the cursor down, or the screen up: also where    *)
(* the screen goes back to the copies at the start of the framebuffer.     *)
LEMMA EndedOnScreen ==
  ASSUME NEW d \in Consoles(col_num, LastRow), Follows(d), Cells(d),
         NEW r, Ended(r, d), Bounded(r)
  PROVE  /\ ScreenOf(r) =
              IF RowOf(d) < row_num - 1 THEN ScreenOf(d)
              ELSE [i \in 0..row_num-1 |-> IF i < RowOf(d) THEN ScreenOf(d)[i + 1]
                                           ELSE [c \in 0..col_num-1 |-> Blank]]
         /\ RowOf(r) = IF RowOf(d) < row_num - 1 THEN RowOf(d) + 1 ELSE RowOf(d)
  <1>1. /\ d.shift_y \in 0..LastRow /\ r.shift_y \in 0..LastRow
        /\ d.fb \in Image /\ r.fb \in Image /\ Follows(r)
        /\ r.shift_y = IF d.shift_y = LastRow THEN row_num - 1 ELSE d.shift_y + 1
    BY DEF Ended, Bounded, Counted, Consoles
  <1>2. /\ First(d) = IF d.shift_y < row_num THEN 0 ELSE d.shift_y - row_num + 1
        /\ RowOf(d) = IF d.shift_y < row_num THEN d.shift_y ELSE row_num - 1
        /\ \A i \in 0..row_num-1 : First(d) + i \in 0..LastRow /\ First(d) + i \in FbRows
    BY <1>1, FirstRow
  <1>3. /\ First(r) = IF r.shift_y < row_num THEN 0 ELSE r.shift_y - row_num + 1
        /\ RowOf(r) = IF r.shift_y < row_num THEN r.shift_y ELSE row_num - 1
        /\ \A i \in 0..row_num-1 : First(r) + i \in 0..LastRow /\ First(r) + i \in FbRows
    BY <1>1, FirstRow
  <1>4. ASSUME NEW q \in FbRows, NEW p \in FbRows,
               \A c \in FbCols : r.fb[q][c] = d.fb[p][c]
        PROVE  r.fb[q] = d.fb[p]
    <2>1. r.fb[q] \in [FbCols -> Cell] /\ d.fb[p] \in [FbCols -> Cell]
      BY <1>1 DEF Image
    <2>2. QED
      BY <1>4, <2>1
  <1>5. ASSUME NEW q \in FbRows, q # r.shift_y, q \in 0..LastRow,
               ~(q # d.shift_y /\ Shown(d, q))
        PROVE  r.fb[q] = d.fb[q]
    <2>1. \A c \in FbCols : r.fb[q][c] = d.fb[q][c]
      BY <1>5 DEF Ended
    <2>2. QED
      BY <1>4, <2>1
  <1>6. r.fb[r.shift_y] = [c \in 0..col_num-1 |-> Blank]
    <2>1. r.shift_y \in FbRows
      BY <1>1, Sizes DEF FbRows
    <2>2. r.fb[r.shift_y] \in [FbCols -> Cell] /\ \A c \in FbCols : r.fb[r.shift_y][c] = Blank
      BY <1>1, <2>1 DEF Image, Ended
    <2>3. QED
      BY <2>2 DEF FbCols
  <1>7. RowOf(r) = IF RowOf(d) < row_num - 1 THEN RowOf(d) + 1 ELSE RowOf(d)
    BY <1>1, <1>2, <1>3, Sizes
  <1>8. CASE RowOf(d) < row_num - 1
    <2>1. r.shift_y = d.shift_y + 1 /\ d.shift_y + 1 < row_num /\ First(d) = 0 /\ First(r) = 0
          /\ ~IsMirrored(d.shift_y)
      BY <1>1, <1>2, <1>3, <1>8, Sizes DEF IsMirrored
    <2>2. ASSUME NEW i \in 0..row_num-1
          PROVE  r.fb[First(r) + i] = d.fb[First(d) + i]
      <3>1. i \in FbRows /\ i \in 0..LastRow /\ First(r) + i = i /\ First(d) + i = i
        BY <1>3, <2>1, Sizes DEF FbRows
      <3>2. CASE i # r.shift_y
        <4>1. ~(i # d.shift_y /\ Shown(d, i))
          BY <2>1 DEF Shown
        <4>2. QED
          BY <1>5, <3>1, <3>2, <4>1
      <3>3. CASE i = r.shift_y
        <4>1. \A c \in FbCols : r.fb[i][c] = Blank
          BY <3>3 DEF Ended
        <4>2. i > d.shift_y /\ i < row_num
          BY <1>1, <2>1, <3>3, Sizes
        <4>3. \A c \in FbCols : d.fb[i][c] = Blank
          BY <3>1, <4>2 DEF Cells, BelowBlank
        <4>4. QED
          BY <1>4, <3>1, <4>1, <4>3
      <3>4. QED
        BY <3>2, <3>3
    <2>3. ScreenOf(r) = ScreenOf(d)
      BY <2>2 DEF ScreenOf
    <2>4. QED
      BY <1>7, <1>8, <2>3
  <1>9. CASE ~(RowOf(d) < row_num - 1)
    <2>1. RowOf(d) = row_num - 1 /\ d.shift_y >= row_num - 1
      BY <1>1, <1>2, <1>9, Sizes
    <2>2. First(r) + (row_num - 1) = r.shift_y
      BY <1>1, <1>3, <2>1, Sizes
    <2>3. ASSUME NEW i \in 0..row_num-1, i < row_num - 1
          PROVE  r.fb[First(r) + i] = d.fb[First(d) + (i + 1)]
      <3>1. CASE d.shift_y # LastRow
        <4>1. First(r) + i = First(d) + (i + 1)
          <5>1. d.shift_y \in Nat /\ i \in Nat /\ r.shift_y = d.shift_y + 1
            BY <1>1, <3>1, Sizes
          <5>2. First(r) = First(d) + 1
            BY <1>2, <1>3, <2>1, <5>1, Sizes
          <5>3. First(d) \in Int
            BY <1>2, <5>1, Sizes
          <5>4. QED
            BY <5>1, <5>2, <5>3
        <4>2. PICK q \in FbRows : q = First(r) + i /\ q \in 0..LastRow
          BY <1>3
        <4>3. q # r.shift_y /\ ~(q # d.shift_y /\ Shown(d, q))
          BY <1>1, <1>3, <2>1, <2>3, <3>1, <4>2, Sizes DEF Shown, IsMirrored
        <4>4. QED
          BY <1>5, <4>1, <4>2, <4>3
      <3>2. CASE d.shift_y = LastRow
        <4>1. First(r) + i = i /\ First(d) + (i + 1) = Mirrored + i
              /\ r.shift_y = row_num - 1
          BY <1>1, <1>2, <1>3, <3>2, Sizes
        <4>2. /\ i \in FbRows /\ i \in 0..LastRow /\ Mirrored + i \in FbRows
              /\ Mirrored + i \in Mirrored..d.shift_y /\ i # r.shift_y
              /\ IsMirrored(d.shift_y)
          BY <2>3, <3>2, <4>1, Sizes DEF FbRows, IsMirrored
        <4>3. CASE Mirrored + i = d.shift_y
          <5>1. i = d.shift_y - Mirrored
            BY <4>3, Sizes
          <5>2. \A c \in FbCols : r.fb[i][c] = d.fb[Mirrored + i][c]
            BY <4>2, <4>3, <5>1 DEF Ended
          <5>3. QED
            BY <1>4, <4>1, <4>2, <5>2
        <4>4. CASE Mirrored + i # d.shift_y
          <5>1. Mirrored + i < d.shift_y /\ ~Shown(d, i) /\ Mirrored + i - Mirrored = i
            BY <1>1, <2>3, <3>2, <4>4, Sizes DEF Shown
          <5>2. \A c \in FbCols : d.fb[i][c] = d.fb[Mirrored + i][c]
            <6>1. PICK q \in Mirrored..d.shift_y : q = Mirrored + i
              BY <4>2
            <6>2. \A c \in FbCols : d.fb[q - Mirrored][c] = d.fb[q][c]
              BY <5>1, <6>1 DEF Cells, Copied
            <6>3. q - Mirrored = i
              BY <6>1, Sizes
            <6>4. QED
              BY <6>1, <6>2, <6>3
          <5>3. r.fb[i] = d.fb[i]
            BY <1>5, <4>2, <5>1
          <5>4. QED
            BY <1>4, <4>1, <4>2, <5>2, <5>3
        <4>5. QED
          BY <4>3, <4>4
      <3>3. QED
        BY <3>1, <3>2
    <2>4. \A i \in 0..row_num-1 : i < row_num - 1 =>
            i + 1 \in 0..row_num-1 /\ ScreenOf(d)[i + 1] = d.fb[First(d) + (i + 1)]
      BY Sizes DEF ScreenOf
    <2>5. ASSUME NEW i \in 0..row_num-1
          PROVE  r.fb[First(r) + i] = IF i < row_num - 1 THEN ScreenOf(d)[i + 1]
                                      ELSE [c \in 0..col_num-1 |-> Blank]
      <3>1. CASE i < row_num - 1
        BY <2>3, <2>4, <3>1
      <3>2. CASE ~(i < row_num - 1)
        <4>1. i = row_num - 1
          BY <3>2, Sizes
        <4>2. QED
          BY <1>6, <2>2, <3>2, <4>1
      <3>3. QED
        BY <3>1, <3>2
    <2>6. ScreenOf(r) = [i \in 0..row_num-1 |-> IF i < RowOf(d) THEN ScreenOf(d)[i + 1]
                                                 ELSE [c \in 0..col_num-1 |-> Blank]]
      BY <2>1, <2>5 DEF ScreenOf
    <2>7. QED
      BY <1>7, <1>9, <2>6
  <1>10. QED
    BY <1>8, <1>9

(* The terminal's variables, as functions of the console. *)
Seen(k) == <<ScreenOf(k), RowOf(k), k.shift_x, k.src # NoRow, AboveOf(k)>>

LEMMA SeenIsMapped ==
  /\ [i \in 0..row_num-1 |-> con.fb[Top + i]] = ScreenOf(con)
  /\ con.shift_y - Top = RowOf(con)
  /\ InMargin = AboveOf(con)
  BY DEF ScreenOf, RowOf, First, Top, AboveOf, InMargin

(* The end of a row, of the screen t from a turn's drawing on. *)
LEMMA RowEndedRefines ==
  ASSUME NEW t, NEW y, con.shift_y - Top = y,
         NEW up, up = [i \in 0..row_num-1 |-> IF i < y THEN t[i + 1]
                                              ELSE [c \in 0..col_num-1 |-> Blank]],
         con' \in Consoles(col_num - 1, LastRow),
         ScreenOf(con)' = IF y < row_num - 1 THEN t ELSE up,
         RowOf(con)' = IF y < row_num - 1 THEN y + 1 ELSE y,
         y < row_num - 1 => con'.src = con.src /\ AboveOf(con)' = AboveOf(con),
         ~(y < row_num - 1) =>
           /\ con'.src # NoRow
           /\ AboveOf(con)' \in {t[0], [c \in FbCols |-> Blank]}
  PROVE  T!RowEnded(t)
  <1>1. /\ [i \in 0..row_num-1 |-> con.fb[Top + i]]' = ScreenOf(con)'
        /\ (con.shift_y - Top)' = RowOf(con)'
        /\ InMargin' = AboveOf(con)' /\ InMargin = AboveOf(con)
    BY DEF ScreenOf, RowOf, First, Top, AboveOf, InMargin
  <1>2. CASE y < row_num - 1
    BY <1>1, <1>2 DEF T!RowEnded
  <1>3. CASE ~(y < row_num - 1)
    <2>1. T!Scrolled(t) = up
      BY DEF T!Scrolled, T!Rows, T!BlankRow, T!Cols
    <2>2. T!BlankRow = [c \in FbCols |-> Blank]
      BY DEF T!BlankRow, T!Cols, FbCols
    <2>3. QED
      BY <1>1, <1>3, <2>1, <2>2 DEF T!RowEnded
  <1>4. QED
    BY <1>2, <1>3

(* One turn is one step of the terminal, or none. *)
LEMMA StepRefines ==
  ASSUME Plain, IInv, Next
  PROVE  T!Next \/ Seen(con)' = Seen(con)
  <1>1. PICK s \in Symbols : con' = console_render(con, s)
    BY DEF Next, Render
  <1>2. PICK k : k = con
    OBVIOUS
  <1>3. PICK r : r = con'
    OBVIOUS
  <1>4. PICK d : d = Drawn(k, s)
    OBVIOUS
  <1>5. Bounded(k) /\ Cells(k)
    BY <1>2 DEF IInv
  <1>6. /\ d \in Consoles(col_num, LastRow) /\ Counted(d) /\ Cells(d) /\ Bounded(r)
        /\ EndsRow(d, s) => Ended(r, d)
        /\ ~EndsRow(d, s) => r = d
    BY <1>1, <1>2, <1>3, <1>4, <1>5, RenderSplits
  <1>7. PICK y : y = RowOf(d)
    OBVIOUS
  <1>8. PICK t : t = ScreenOf(d)
    OBVIOUS
  <1>9. ASSUME EndsRow(d, s), d.src = k.src, AboveOf(d) = AboveOf(k), y = RowOf(k)
        PROVE  T!RowEnded(t) /\ con'.shift_x = 0
    <2>1. PICK up : up = [i \in 0..row_num-1 |-> IF i < y THEN t[i + 1]
                                                 ELSE [c \in 0..col_num-1 |-> Blank]]
      OBVIOUS
    <2>2. /\ ScreenOf(r) = IF y < row_num - 1 THEN t ELSE up
          /\ RowOf(r) = IF y < row_num - 1 THEN y + 1 ELSE y
      BY <1>6, <1>7, <1>8, <1>9, <2>1, EndedOnScreen DEF Counted
    <2>3. /\ y < row_num - 1 => r.src = k.src /\ AboveOf(r) = AboveOf(k)
          /\ ~(y < row_num - 1) =>
               r.src # NoRow /\ AboveOf(r) \in {t[0], [c \in FbCols |-> Blank]}
      BY <1>6, <1>7, <1>8, <1>9, EndedAbove DEF Counted
    <2>4. con.shift_y - Top = y
      BY <1>2, <1>9, SeenIsMapped
    <2>5. con' \in Consoles(col_num - 1, LastRow)
      BY <1>3, <1>6 DEF Bounded
    <2>6. /\ ScreenOf(con)' = IF y < row_num - 1 THEN t ELSE up
          /\ RowOf(con)' = IF y < row_num - 1 THEN y + 1 ELSE y
      BY <1>3, <2>2 DEF ScreenOf, RowOf, First
    <2>7. /\ y < row_num - 1 => con'.src = con.src /\ AboveOf(con)' = AboveOf(con)
          /\ ~(y < row_num - 1) =>
               con'.src # NoRow /\ AboveOf(con)' \in {t[0], [c \in FbCols |-> Blank]}
      BY <1>2, <1>3, <2>3 DEF AboveOf
    <2>8. T!RowEnded(t)
      BY <2>1, <2>4, <2>5, <2>6, <2>7, RowEndedRefines
    <2>9. QED
      BY <1>3, <1>6, <1>9, <2>8 DEF Ended
  <1>10. CASE s \in Glyph
    <2>1. /\ ScreenOf(d) = [ScreenOf(k) EXCEPT ![RowOf(k)][k.shift_x] = s]
          /\ RowOf(d) = RowOf(k) /\ d.shift_x = k.shift_x + 1
      BY <1>4, <1>5, <1>10, GlyphOnScreen, GlyphDrawn
    <2>2. d.src = k.src /\ AboveOf(d) = AboveOf(k)
      BY <1>4, <1>5, <1>10, GlyphNotAbove
    <2>3. EndsRow(d, s) <=> con.shift_x + 1 = col_num
      BY <1>2, <1>10, <2>1, SymbolAssumption DEF EndsRow
    <2>4. t = [[i \in 0..row_num-1 |-> con.fb[Top + i]] EXCEPT
                 ![con.shift_y - Top][con.shift_x] = s]
      BY <1>2, <1>8, <2>1, SeenIsMapped
    <2>5. CASE con.shift_x + 1 = col_num
      <3>1. T!RowEnded(t) /\ con'.shift_x = 0
        BY <1>7, <1>9, <2>1, <2>2, <2>3, <2>5
      <3>2. T!Put(s)
        BY <2>4, <2>5, <3>1 DEF T!Put, T!RowEnded
      <3>3. QED
        BY <1>10, <3>2 DEF T!Next
    <2>6. CASE con.shift_x + 1 # col_num
      <3>1. con' = d
        BY <1>3, <1>6, <2>3, <2>6
      <3>2. /\ [i \in 0..row_num-1 |-> con.fb[Top + i]]' = t
            /\ (con.shift_y - Top)' = con.shift_y - Top
            /\ InMargin' = InMargin
            /\ con'.shift_x = con.shift_x + 1 /\ con'.src = con.src
        <4>1. /\ [i \in 0..row_num-1 |-> con.fb[Top + i]]' = ScreenOf(d)
              /\ (con.shift_y - Top)' = RowOf(d) /\ InMargin' = AboveOf(d)
          BY <3>1 DEF ScreenOf, RowOf, First, Top, AboveOf, InMargin
        <4>2. con.shift_y - Top = RowOf(k) /\ InMargin = AboveOf(k)
          BY <1>2, SeenIsMapped
        <4>3. QED
          BY <1>2, <1>8, <2>1, <2>2, <3>1, <4>1, <4>2
      <3>3. T!Put(s)
        BY <2>4, <2>6, <3>2 DEF T!Put
      <3>4. QED
        BY <1>10, <3>3 DEF T!Next
    <2>7. QED
      BY <2>5, <2>6
  <1>11. CASE s \notin Glyph
    <2>1. d = k
      BY <1>4, <1>11, OthersNotDrawn
    <2>2. CASE EndsRow(d, s)
      <3>1. T!RowEnded(t) /\ con'.shift_x = 0
        BY <1>7, <1>9, <2>1, <2>2
      <3>2. t = [i \in 0..row_num-1 |-> con.fb[Top + i]]
        BY <1>2, <1>8, <2>1, SeenIsMapped
      <3>3. T!EndRow
        BY <3>1, <3>2 DEF T!EndRow, T!RowEnded
      <3>4. QED
        BY <3>3 DEF T!Next
    <2>3. CASE ~EndsRow(d, s)
      BY <1>2, <1>3, <1>6, <2>1, <2>3 DEF Seen, ScreenOf, RowOf, First, AboveOf
    <2>4. QED
      BY <2>2, <2>3
  <1>12. QED
    BY <1>10, <1>11

LEMMA InitRefines == Init => T!Init
  <1> SUFFICES ASSUME Init PROVE T!Init
    OBVIOUS
  <1>1. Top = 0 /\ con.shift_y = 0 /\ con.shift_x = 0
    BY DEF Init, Top
  <1>2. \A i \in 0..row_num-1 : con.fb[Top + i] = [c \in 0..col_num-1 |-> Blank]
    <2>1. \A i \in 0..row_num-1 : Top + i \in FbRows
      BY <1>1, Sizes DEF FbRows
    <2>2. QED
      BY <2>1 DEF Init, FbCols
  <1>3. [i \in 0..row_num-1 |-> con.fb[Top + i]]
           = [i \in 0..row_num-1 |-> [c \in 0..col_num-1 |-> Blank]]
    BY <1>2
  <1>4. con.shift_y - Top = 0
    BY <1>1
  <1>5. con.src = NoRow /\ InMargin = [c \in 0..col_num-1 |-> Blank]
    BY DEF Init, InMargin, FbCols
  <1>6. QED
    BY <1>1, <1>3, <1>4, <1>5 DEF T!Init, T!Rows, T!Cols, T!BlankRow

(* What the rotation shows of the framebuffer is a terminal, from the      *)
(* first scroll on: scrolling, following the text and going back to the    *)
(* start included.  Before it nothing is shown.                            *)
THEOREM IsATerminal ==
  ASSUME Plain
  PROVE  Spec => ImplementsTerminal
  <1>1. IInv /\ [Next]_con => T!Next \/ Seen(con)' = Seen(con)
    <2> SUFFICES ASSUME IInv, [Next]_con
                 PROVE  T!Next \/ Seen(con)' = Seen(con)
      OBVIOUS
    <2>1. CASE Next
      BY <2>1, StepRefines
    <2>2. CASE UNCHANGED con
      BY <2>2 DEF Seen, ScreenOf, RowOf, First, AboveOf
    <2>3. QED
      BY <2>1, <2>2
  <1>2. IInv /\ [Next]_con =>
          [T!Next]_<<[i \in 0..row_num-1 |-> con.fb[Top + i]], con.shift_y - Top, con.shift_x,
                     con.src # NoRow, InMargin>>
    BY <1>1 DEF Seen, ScreenOf, RowOf, First, Top, AboveOf, InMargin
  <1>3. QED
    BY <1>2, InitRefines, Inductive, PTL DEF Spec, ImplementsTerminal, T!Spec

===============================================================================
