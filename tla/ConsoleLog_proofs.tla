-------------------------- MODULE ConsoleLog_proofs --------------------------
(***************************************************************************)
(* Proofs about ConsoleLog, for every set of messages and every screen and *)
(* ring in which a turn fits.                                              *)
(***************************************************************************)
EXTENDS ConsoleLog, ByteFifo_proofs, FiniteSetTheorems

(* The bytes that were printed and are still to be shown. *)
Pending == owed \o todo

Mark == Byte \X {"skip", "show"}

LogTypes == /\ pc \in {"loop", "print", "render", "skip"}
            /\ todo \in Seq(Byte)
            /\ row \in 0..row_num_max-1
            /\ col \in 0..col_num-1
            /\ printed \in Seq(Byte)
            /\ Len(printed) <= TurnBytes /\ Cells(printed) <= TurnCells
            /\ due \in Seq(Mark)
            /\ pc # "print" => todo = <<>>

(* Nothing is missing from the ring, and what comes out next is due next.  *)
DueIsPending == /\ Len(due) = Len(Pending)
                /\ \A i \in 1..Len(due) : due[i][1] = Pending[i]

(* Position i of d is a byte of a color that goes on behind it.            *)
Open(d, i) == d[i][2] = "skip" /\ d[i][1] # EndOfColor

(* A byte is skipped if it follows one in an open color, or opens one; the *)
(* loop over a color is where the first one is in one; none is open at the *)
(* end.                                                                    *)
Chained(d, inside) ==
  /\ d # <<>> => d[1][2] = IF inside \/ d[1][1] = Esc THEN "skip" ELSE "show"
  /\ \A i \in 1..Len(d)-1 :
       d[i + 1][2] = IF Open(d, i) \/ d[i + 1][1] = Esc THEN "skip" ELSE "show"
  /\ d # <<>> => ~Open(d, Len(d))
  /\ inside => d # <<>>

DueIsChained == Chained(due, pc = "skip")

(* The cells from the cursor to the end of the framebuffer.                *)
Room == col_num * (row_num_max - row) - col

(* Of old and now, old is what one turn left over at the last row of the   *)
(* first screen.                                                           *)
LeftOver(old) == \/ old = <<>>
                 \/ /\ row = row_num - 1 /\ col = 0
                    /\ Len(old) < TurnBytes /\ Cells(old) < TurnCells

(* What is left of something older and now: all of now behind an end of    *)
(* the older part that fits into room, or an end of now.                   *)
Behind(left, now, room) ==
  \/ \E old \in Seq(Byte) : left = old \o now /\ (old = <<>> \/ Cells(old) < room)
  \/ \E gone \in Seq(Byte) : gone # <<>> /\ now = gone \o left

(* Outside of console_render what is still to be shown is what this turn   *)
(* printed, behind what a call left over when it came to the end of the    *)
(* framebuffer; inside, that older part is shown before the end of the     *)
(* framebuffer, so that what a call leaves over was all printed in its own *)
(* turn.                                                                   *)
Backlog ==
  IF pc \in {"loop", "print"}
  THEN \E old \in Seq(Byte) : Pending = old \o printed /\ LeftOver(old)
  ELSE Behind(owed, printed, Room)

LogInv == /\ IInv
          /\ NothingDamaged
          /\ LogTypes
          /\ DueIsPending
          /\ DueIsChained
          /\ Backlog
          /\ ShowsWhatWasPrinted

-------------------------------------------------------------------------------
(* How many cells a sequence takes. *)

LEMMA LinesFinite ==
  ASSUME NEW s \in Seq(Byte)
  PROVE  /\ IsFiniteSet(Lines(s))
         /\ Cardinality(Lines(s)) \in Nat
         /\ Lines(s) \subseteq 1..Len(s)
  <1>1. Len(s) \in Nat /\ DOMAIN s = 1..Len(s)
    BY LenProperties
  <1>2. IsFiniteSet(1..Len(s))
    BY <1>1, FS_Interval
  <1>3. Lines(s) \in SUBSET (1..Len(s))
    BY <1>1 DEF Lines
  <1>4. IsFiniteSet(Lines(s))
    BY <1>2, <1>3, FS_Subset
  <1>5. QED
    BY <1>3, <1>4, FS_CardinalityType

(* A set of positions moved along by n has as many elements. *)
LEMMA ShiftKeepsCardinality ==
  ASSUME NEW S \in SUBSET Int, IsFiniteSet(S), NEW n \in Int
  PROVE  /\ IsFiniteSet({i + n : i \in S})
         /\ Cardinality({i + n : i \in S}) = Cardinality(S)
  <1> DEFINE T == {i + n : i \in S}
             f == [i \in S |-> i + n]
  <1>1. /\ f \in [S -> T]
        /\ \A i, j \in S : f[i] = f[j] => i = j
        /\ \A t \in T : \E i \in S : f[i] = t
    OBVIOUS
  <1>2. f \in Bijection(S, T)
    BY <1>1 DEF Bijection, Injection, Surjection, IsInjective
  <1>3. QED
    BY <1>2, FS_Bijection DEF ExistsBijection

LEMMA CellsBounded ==
  ASSUME NEW s \in Seq(Byte)
  PROVE  Cells(s) \in Nat /\ Len(s) <= Cells(s)
  <1>1. Cardinality(Lines(s)) \in Nat /\ Len(s) \in Nat /\ col_num - 1 \in Nat
    BY LinesFinite, LenProperties, RowsAssumption
  <1>2. (col_num - 1) * Cardinality(Lines(s)) \in Nat
    BY <1>1
  <1>3. QED
    BY <1>1, <1>2 DEF Cells

LEMMA CellsOfConcat ==
  ASSUME NEW s \in Seq(Byte), NEW t \in Seq(Byte)
  PROVE  Cells(s \o t) = Cells(s) + Cells(t)
  <1> DEFINE T == {i + Len(s) : i \in Lines(t)}
  <1>1. /\ s \o t \in Seq(Byte)
        /\ Len(s) \in Nat /\ Len(t) \in Nat
        /\ Len(s \o t) = Len(s) + Len(t)
        /\ \A i \in 1..Len(s) + Len(t) : (s \o t)[i] = IF i <= Len(s) THEN s[i] ELSE t[i - Len(s)]
    BY ConcatProperties, LenProperties
  <1>2. DOMAIN s = 1..Len(s) /\ DOMAIN t = 1..Len(t) /\ DOMAIN (s \o t) = 1..Len(s) + Len(t)
    BY <1>1, LenProperties
  <1>3. Lines(s \o t) = Lines(s) \cup T
    <2>1. ASSUME NEW i \in Lines(s \o t) PROVE i \in Lines(s) \cup T
      <3>1. CASE i <= Len(s)
        BY <1>1, <1>2, <3>1 DEF Lines
      <3>2. CASE i > Len(s)
        <4>1. i - Len(s) \in Lines(t) /\ i = (i - Len(s)) + Len(s)
          BY <1>1, <1>2, <3>2 DEF Lines
        <4>2. QED
          BY <4>1
      <3>3. QED
        BY <1>1, <1>2, <3>1, <3>2 DEF Lines
    <2>2. ASSUME NEW i \in Lines(s) PROVE i \in Lines(s \o t)
      BY <1>1, <1>2 DEF Lines
    <2>3. ASSUME NEW i \in Lines(t) PROVE i + Len(s) \in Lines(s \o t)
      BY <1>1, <1>2 DEF Lines
    <2>4. QED
      BY <2>1, <2>2, <2>3
  <1>4. /\ IsFiniteSet(Lines(s)) /\ IsFiniteSet(T)
        /\ Cardinality(T) = Cardinality(Lines(t))
        /\ Cardinality(Lines(s)) \in Nat /\ Cardinality(Lines(t)) \in Nat
    <2>1. Lines(t) \in SUBSET Int
      BY LinesFinite, <1>1
    <2>2. IsFiniteSet(Lines(t)) /\ Len(s) \in Int
      BY <1>1, LinesFinite
    <2>3. IsFiniteSet(T) /\ Cardinality(T) = Cardinality(Lines(t))
      BY <2>1, <2>2, ShiftKeepsCardinality
    <2>4. QED
      BY <2>3, LinesFinite
  <1>5. Lines(s) \cap T = {}
    <2>1. Lines(s) \subseteq 1..Len(s) /\ Lines(t) \subseteq 1..Len(t)
      BY LinesFinite
    <2>2. QED
      BY <1>1, <2>1
  <1>6. Cardinality(Lines(s \o t)) = Cardinality(Lines(s)) + Cardinality(Lines(t))
    <2>1. Cardinality(Lines(s) \cup T) =
            Cardinality(Lines(s)) + Cardinality(T) - Cardinality(Lines(s) \cap T)
      BY <1>4, FS_Union
    <2>2. Cardinality(Lines(s) \cap T) = 0
      BY <1>5, FS_EmptySet
    <2>3. QED
      BY <1>3, <1>4, <2>1, <2>2
  <1>7. ASSUME NEW a \in Nat, NEW b \in Nat, NEW c \in Int
        PROVE  c * (a + b) = c * a + c * b
    OBVIOUS
  <1>8. col_num - 1 \in Int
    BY RowsAssumption
  <1>9. QED
    BY <1>1, <1>4, <1>6, <1>7, <1>8 DEF Cells

LEMMA FirstAndRest ==
  ASSUME NEW s \in Seq(Byte), s # <<>>
  PROVE  /\ s[1] \in Byte /\ Tail(s) \in Seq(Byte) /\ <<s[1]>> \in Seq(Byte)
         /\ s = <<s[1]>> \o Tail(s)
  <1>1. Head(s) = s[1] /\ s[1] \in Byte /\ Tail(s) \in Seq(Byte) /\ <<s[1]>> \in Seq(Byte)
    BY HeadTailProperties
  <1>2. /\ Len(Tail(s)) = Len(s) - 1 /\ Len(s) \in Nat
        /\ \A i \in 1..Len(Tail(s)) : Tail(s)[i] = s[i + 1]
    BY HeadTailProperties, LenProperties
  <1>3. /\ <<s[1]>> \o Tail(s) \in Seq(Byte)
        /\ Len(<<s[1]>> \o Tail(s)) = 1 + Len(Tail(s))
        /\ \A i \in 1..1 + Len(Tail(s)) :
             (<<s[1]>> \o Tail(s))[i] = IF i <= 1 THEN s[1] ELSE Tail(s)[i - 1]
    BY <1>1, ConcatProperties
  <1>4. s = <<s[1]>> \o Tail(s)
    BY <1>2, <1>3, SeqEqual
  <1>5. QED
    BY <1>1, <1>4

(* What the first byte takes. *)
LEMMA CellsOfFirst ==
  ASSUME NEW s \in Seq(Byte), s # <<>>
  PROVE  /\ Cells(Tail(s)) = Cells(s) - (IF s[1] = NewLine THEN col_num ELSE 1)
         /\ Tail(s) \in Seq(Byte)
  <1>1. s[1] \in Byte /\ Tail(s) \in Seq(Byte) /\ <<s[1]>> \in Seq(Byte)
    BY FirstAndRest
  <1>2. s = <<s[1]>> \o Tail(s)
    BY FirstAndRest
  <1>3. Cells(<<s[1]>>) = IF s[1] = NewLine THEN col_num ELSE 1
    <2>1. Lines(<<s[1]>>) = IF s[1] = NewLine THEN {1} ELSE {}
      BY DEF Lines
    <2>2. Cardinality({1}) = 1 /\ Cardinality({}) = 0
      BY FS_EmptySet, FS_Singleton
    <2>3. Len(<<s[1]>>) = 1
      OBVIOUS
    <2>4. (col_num - 1) * 0 = 0 /\ (col_num - 1) * 1 = col_num - 1
      BY RowsAssumption
    <2>5. col_num \in Int
      BY RowsAssumption
    <2>6. CASE s[1] = NewLine
      <3>1. Cells(<<s[1]>>) = 1 + (col_num - 1) * 1
        BY <2>1, <2>2, <2>3, <2>6 DEF Cells
      <3>2. QED
        BY <2>4, <2>5, <2>6, <3>1
    <2>7. CASE s[1] # NewLine
      <3>1. Cells(<<s[1]>>) = 1 + (col_num - 1) * 0
        BY <2>1, <2>2, <2>3, <2>7 DEF Cells
      <3>2. QED
        BY <2>4, <2>5, <2>7, <3>1
    <2>8. QED
      BY <2>6, <2>7
  <1>4. Cells(s) = Cells(<<s[1]>>) + Cells(Tail(s))
    BY <1>1, <1>2, CellsOfConcat
  <1>5. Cells(Tail(s)) \in Nat
    BY <1>1, CellsBounded
  <1>6. QED
    BY <1>1, <1>3, <1>4, <1>5, RowsAssumption

LEMMA CellsOfNone == Cells(<<>>) = 0
  <1>1. Lines(<<>>) = {}
    BY DEF Lines
  <1>2. Cardinality({}) = 0 /\ (col_num - 1) * 0 = 0
    BY FS_EmptySet, RowsAssumption
  <1>3. Len(<<>>) = 0
    OBVIOUS
  <1>4. QED
    BY <1>1, <1>2, <1>3 DEF Cells

LEMMA TailOfConcat ==
  ASSUME NEW s \in Seq(Byte), s # <<>>, NEW t \in Seq(Byte)
  PROVE  (s \o t)[1] = s[1] /\ Tail(s \o t) = Tail(s) \o t
  <1> DEFINE u == s \o t
             v == Tail(s)
  <1>1. /\ u \in Seq(Byte) /\ Len(u) = Len(s) + Len(t)
        /\ \A i \in 1..Len(s) + Len(t) : u[i] = IF i <= Len(s) THEN s[i] ELSE t[i - Len(s)]
        /\ Len(s) \in Nat \ {0} /\ Len(t) \in Nat
    BY ConcatProperties, LenProperties, EmptySeq
  <1>2. /\ v \in Seq(Byte) /\ Len(v) = Len(s) - 1
        /\ \A i \in 1..Len(v) : v[i] = s[i + 1]
    BY HeadTailProperties
  <1>3. /\ v \o t \in Seq(Byte) /\ Len(v \o t) = Len(v) + Len(t)
        /\ \A i \in 1..Len(v) + Len(t) : (v \o t)[i] = IF i <= Len(v) THEN v[i] ELSE t[i - Len(v)]
    <2> HIDE DEF v
    <2>1. QED
      BY <1>2, ConcatProperties
  <1> HIDE DEF u, v
  <1>4. u # <<>>
    BY <1>1
  <1>5. /\ Tail(u) \in Seq(Byte) /\ Len(Tail(u)) = Len(u) - 1
        /\ \A i \in 1..Len(Tail(u)) : Tail(u)[i] = u[i + 1]
    BY <1>1, <1>4, HeadTailProperties
  <1>6. ASSUME NEW i \in 1..Len(Tail(u)) PROVE Tail(u)[i] = (v \o t)[i]
    <2>1. CASE i + 1 <= Len(s)
      BY <1>1, <1>2, <1>3, <1>5, <2>1
    <2>2. CASE i + 1 > Len(s)
      BY <1>1, <1>2, <1>3, <1>5, <2>2
    <2>3. i \in Int /\ Len(s) \in Int
      BY <1>1, <1>5
    <2>4. i + 1 <= Len(s) \/ i + 1 > Len(s)
      BY <2>3
    <2>5. QED
      BY <2>1, <2>2, <2>4
  <1>7. Tail(u) = v \o t
    BY <1>1, <1>2, <1>3, <1>5, <1>6, SeqEqual
  <1>8. QED
    BY <1>1, <1>7 DEF u, v

(* What a byte takes. *)
Cost(b) == IF b = NewLine THEN col_num ELSE 1

(* The first byte of what is left belongs to the older part, or is the     *)
(* next to go of now.                                                      *)
LEMMA FirstOfBehind ==
  ASSUME NEW left \in Seq(Byte), left # <<>>, NEW now \in Seq(Byte), NEW room \in Int,
         Behind(left, now, room)
  PROVE  \/ \E old \in Seq(Byte) : /\ Tail(left) = old \o now
                                   /\ Cells(old) + Cost(left[1]) < room
         \/ \E gone \in Seq(Byte) : gone # <<>> /\ now = gone \o Tail(left)
  <1>1. /\ left = <<left[1]>> \o Tail(left)
        /\ <<left[1]>> \in Seq(Byte) /\ Tail(left) \in Seq(Byte)
    BY FirstAndRest
  <1>2. ASSUME NEW old \in Seq(Byte), left = old \o now, old # <<>>, Cells(old) < room
        PROVE  /\ Tail(old) \in Seq(Byte) /\ Tail(left) = Tail(old) \o now
               /\ Cells(Tail(old)) + Cost(left[1]) < room
    <2>1. left[1] = old[1] /\ Tail(left) = Tail(old) \o now
      BY <1>2, TailOfConcat
    <2>2. /\ Cells(Tail(old)) = Cells(old) - (IF old[1] = NewLine THEN col_num ELSE 1)
          /\ Tail(old) \in Seq(Byte)
      BY <1>2, CellsOfFirst
    <2>3. Cells(old) \in Nat /\ col_num \in Nat
      BY CellsBounded, RowsAssumption
    <2>4. QED
      BY <1>2, <2>1, <2>2, <2>3 DEF Cost
  <1>3. ASSUME NEW old \in Seq(Byte), left = old \o now, old = <<>>
        PROVE  now = <<left[1]>> \o Tail(left) /\ <<left[1]>> # <<>>
    <2>1. left = now
      BY <1>3, ConcatEmptySeq
    <2>2. QED
      BY <1>1, <2>1
  <1>4. ASSUME NEW gone \in Seq(Byte), gone # <<>>, now = gone \o left
        PROVE  /\ gone \o <<left[1]>> \in Seq(Byte) /\ gone \o <<left[1]>> # <<>>
               /\ now = (gone \o <<left[1]>>) \o Tail(left)
    <2> DEFINE a == <<left[1]>>
               b == Tail(left)
    <2>1. a \in Seq(Byte) /\ b \in Seq(Byte) /\ left = a \o b
      BY <1>1
    <2> HIDE DEF a, b
    <2>2. gone \o a \in Seq(Byte) /\ gone \o a # <<>>
      BY <1>4, <2>1, ConcatProperties, ConcatEqualIffEmpty
    <2>3. (gone \o a) \o b = gone \o (a \o b)
      BY <2>1, ConcatAssociative
    <2>4. now = (gone \o a) \o b
      BY <1>4, <2>1, <2>3
    <2>5. QED
      BY <2>2, <2>4 DEF a, b
  <1>5. QED
    BY <1>1, <1>2, <1>3, <1>4 DEF Behind

(* The cells of the rows from r to the end of the framebuffer. *)
LEMMA RowsLeft ==
  ASSUME NEW r \in 0..row_num_max-1
  PROVE  /\ col_num * (row_num_max - r) \in Nat
         /\ col_num * (row_num_max - r) >= col_num
         /\ col_num * (row_num_max - (r + 1)) = col_num * (row_num_max - r) - col_num
         /\ r = row_num_max - 1 => col_num * (row_num_max - r) = col_num
         /\ r = row_num - 1 => col_num * (row_num_max - r) = col_num * (row_num + 1)
  <1>1. /\ row_num_max - r \in Nat /\ row_num_max - r >= 1
        /\ row_num_max - (r + 1) = (row_num_max - r) - 1
        /\ r = row_num - 1 => row_num_max - r = row_num + 1
        /\ col_num \in Nat
    BY RowsAssumption DEF row_num_max
  <1>2. ASSUME NEW k \in Nat, k >= 1
        PROVE  /\ col_num * k \in Nat /\ col_num * k >= col_num
               /\ col_num * (k - 1) = col_num * k - col_num
               /\ k = 1 => col_num * k = col_num
    <2>1. ASSUME NEW c \in Nat PROVE c * k \in Nat /\ c * (k - 1) = c * k - c /\ c * 1 = c
      OBVIOUS
    <2>2. k - 1 \in Nat
      BY <1>2
    <2>3. col_num * k \in Nat /\ col_num * (k - 1) \in Nat
      BY <1>1, <2>1, <2>2
    <2>4. QED
      BY <1>1, <2>1, <2>3
  <1>3. row_num_max \in Int /\ (r = row_num_max - 1 => row_num_max - r = 1)
    BY RowsAssumption DEF row_num_max
  <1>4. QED
    BY <1>1, <1>2, <1>3

-------------------------------------------------------------------------------
(* Which bytes are skipped. *)

(* A position is in a color if the one before was and did not end it.      *)
LEMMA InColorStep ==
  ASSUME NEW s, NEW i \in Nat \ {0}
  PROVE  /\ InColor(s, 1) <=> s[1] = Esc
         /\ InColor(s, i + 1) <=> (s[i + 1] = Esc \/ (InColor(s, i) /\ s[i] # EndOfColor))
  <1>1. InColor(s, 1) <=> s[1] = Esc
    BY DEF InColor
  <1>2. ASSUME InColor(s, i + 1)
        PROVE  s[i + 1] = Esc \/ (InColor(s, i) /\ s[i] # EndOfColor)
    <2>1. PICK j \in 1..i + 1 : s[j] = Esc /\ \A k \in j..i : s[k] # EndOfColor
      BY <1>2 DEF InColor
    <2>2. CASE j = i + 1
      BY <2>1, <2>2
    <2>3. CASE j # i + 1
      BY <2>1, <2>3 DEF InColor
    <2>4. QED
      BY <2>2, <2>3
  <1>3. ASSUME s[i + 1] = Esc PROVE InColor(s, i + 1)
    BY <1>3 DEF InColor
  <1>4. ASSUME InColor(s, i), s[i] # EndOfColor PROVE InColor(s, i + 1)
    <2>1. PICK j \in 1..i : s[j] = Esc /\ \A k \in j..i-1 : s[k] # EndOfColor
      BY <1>4 DEF InColor
    <2>2. j \in 1..i + 1 /\ \A k \in j..i : s[k] # EndOfColor
      BY <1>4, <2>1
    <2>3. QED
      BY <2>1, <2>2 DEF InColor
  <1>5. QED
    BY <1>1, <1>2, <1>3, <1>4

(* A message whose colors end is a chain by itself. *)
LEMMA MessageIsChained ==
  ASSUME NEW s \in Seq(Byte), ColorsEnd(s)
  PROVE  /\ Marked(s) \in Seq(Mark) /\ Len(Marked(s)) = Len(s)
         /\ \A i \in 1..Len(s) : Marked(s)[i][1] = s[i]
         /\ Chained(Marked(s), FALSE)
  <1> DEFINE d == [i \in 1..Len(s) |-> <<s[i], Fate(s, i)>>]
  <1>1. Len(s) \in Nat /\ \A i \in 1..Len(s) : s[i] \in Byte
    BY LenProperties, ElementOfSeq
  <1>2. d \in Seq(Mark) /\ Len(d) = Len(s)
    <2>1. \A i \in 1..Len(s) : <<s[i], Fate(s, i)>> \in Mark
      BY <1>1 DEF Mark, Fate
    <2>2. d \in [1..Len(s) -> Mark]
      BY <2>1
    <2>3. QED
      BY <1>1, <2>2
  <1>3. \A i \in 1..Len(s) : d[i][1] = s[i] /\ d[i][2] = Fate(s, i)
    OBVIOUS
  <1>4. d # <<>> => d[1][2] = IF d[1][1] = Esc THEN "skip" ELSE "show"
    <2>1. d # <<>> => 1 \in 1..Len(s)
      BY <1>1, <1>2, EmptySeq
    <2>2. InColor(s, 1) <=> s[1] = Esc
      BY InColorStep
    <2>3. QED
      BY <1>3, <2>1, <2>2 DEF Fate
  <1>5. ASSUME NEW i \in 1..Len(s)-1
        PROVE  d[i + 1][2] = IF Open(d, i) \/ d[i + 1][1] = Esc THEN "skip" ELSE "show"
    <2>1. i \in 1..Len(s) /\ i + 1 \in 1..Len(s) /\ i \in Nat \ {0}
      BY <1>1
    <2>2. InColor(s, i + 1) <=> (s[i + 1] = Esc \/ (InColor(s, i) /\ s[i] # EndOfColor))
      BY <2>1, InColorStep
    <2>3. Open(d, i) <=> InColor(s, i) /\ s[i] # EndOfColor
      BY <1>3, <2>1 DEF Open, Fate
    <2>4. QED
      BY <1>3, <2>1, <2>2, <2>3 DEF Fate
  <1>6. d # <<>> => ~Open(d, Len(d))
    <2>1. d # <<>> => Len(s) \in 1..Len(s) /\ s # <<>>
      BY <1>1, <1>2, EmptySeq
    <2>2. QED
      BY <1>2, <1>3, <2>1 DEF Open, Fate, ColorsEnd
  <1>7. Chained(d, FALSE)
    BY <1>2, <1>4, <1>5, <1>6 DEF Chained
  <1>8. Marked(s) = d
    BY DEF Marked
  <1>9. QED
    BY <1>2, <1>3, <1>7, <1>8

(* Chains can be put one behind the other. *)
LEMMA ChainedConcat ==
  ASSUME NEW d \in Seq(Mark), NEW e \in Seq(Mark), NEW inside \in BOOLEAN,
         Chained(d, inside), Chained(e, FALSE)
  PROVE  Chained(d \o e, inside)
  <1> DEFINE c == d \o e
  <1>1. /\ c \in Seq(Mark) /\ Len(d) \in Nat /\ Len(e) \in Nat
        /\ Len(c) = Len(d) + Len(e)
        /\ \A i \in 1..Len(d) + Len(e) : c[i] = IF i <= Len(d) THEN d[i] ELSE e[i - Len(d)]
    BY ConcatProperties, LenProperties
  <1>2. /\ d = <<>> <=> Len(d) = 0
        /\ e = <<>> <=> Len(e) = 0
        /\ c = <<>> <=> Len(c) = 0
    BY <1>1, EmptySeq
  <1>3. /\ \A i \in 1..Len(d) : c[i] = d[i] /\ (Open(c, i) <=> Open(d, i))
        /\ \A i \in 1..Len(e) : c[i + Len(d)] = e[i] /\ (Open(c, i + Len(d)) <=> Open(e, i))
    BY <1>1 DEF Open
  <1>4. c # <<>> => c[1][2] = IF inside \/ c[1][1] = Esc THEN "skip" ELSE "show"
    <2>1. CASE d # <<>>
      BY <1>1, <1>2, <1>3, <2>1 DEF Chained
    <2>2. CASE d = <<>>
      BY <1>1, <1>2, <1>3, <2>2 DEF Chained
    <2>3. QED
      BY <2>1, <2>2
  <1>5. ASSUME NEW i \in 1..Len(c)-1
        PROVE  c[i + 1][2] = IF Open(c, i) \/ c[i + 1][1] = Esc THEN "skip" ELSE "show"
    <2>1. CASE i < Len(d)
      <3>1. i \in 1..Len(d)-1 /\ i \in 1..Len(d) /\ i + 1 \in 1..Len(d)
        BY <1>1, <2>1
      <3>2. QED
        BY <1>3, <3>1 DEF Chained
    <2>2. CASE i = Len(d)
      <3>1. /\ 1 \in 1..Len(e) /\ i \in 1..Len(d) /\ c[i + 1] = e[1]
            /\ d # <<>> /\ e # <<>>
        BY <1>1, <1>2, <2>2
      <3>2. ~Open(c, i)
        BY <1>3, <2>2, <3>1 DEF Chained
      <3>3. QED
        BY <3>1, <3>2 DEF Chained
    <2>3. CASE i > Len(d)
      <3>1. /\ i - Len(d) \in 1..Len(e)-1 /\ i - Len(d) \in 1..Len(e)
            /\ (i - Len(d)) + 1 \in 1..Len(e)
            /\ (i - Len(d)) + Len(d) = i /\ ((i - Len(d)) + 1) + Len(d) = i + 1
        BY <1>1, <2>3
      <3>2. e[(i - Len(d)) + 1][2] =
              IF Open(e, i - Len(d)) \/ e[(i - Len(d)) + 1][1] = Esc THEN "skip" ELSE "show"
        BY <3>1 DEF Chained
      <3>3. c[i + 1] = e[(i - Len(d)) + 1] /\ (Open(c, i) <=> Open(e, i - Len(d)))
        BY <1>3, <3>1
      <3>4. QED
        BY <3>2, <3>3
    <2>4. QED
      BY <1>1, <2>1, <2>2, <2>3
  <1>6. c # <<>> => ~Open(c, Len(c))
    <2>1. CASE e # <<>>
      <3>1. Len(e) \in 1..Len(e) /\ Len(e) + Len(d) = Len(c)
        BY <1>1, <1>2, <2>1
      <3>2. QED
        BY <1>3, <2>1, <3>1 DEF Chained
    <2>2. CASE e = <<>>
      <3>1. Len(c) = Len(d) /\ (c # <<>> => d # <<>> /\ Len(d) \in 1..Len(d))
        BY <1>1, <1>2, <2>2
      <3>2. QED
        BY <1>3, <3>1 DEF Chained
    <2>3. QED
      BY <2>1, <2>2
  <1>7. inside => c # <<>>
    BY <1>1, <1>2 DEF Chained
  <1>8. QED
    BY <1>4, <1>5, <1>6, <1>7 DEF Chained

(* Without its first byte a chain is inside a color if that left one open. *)
LEMMA ChainedTail ==
  ASSUME NEW d \in Seq(Mark), d # <<>>, NEW inside \in BOOLEAN, Chained(d, inside)
  PROVE  Chained(Tail(d), Open(d, 1))
  <1>1. /\ Tail(d) \in Seq(Mark) /\ Len(d) \in Nat /\ Len(d) >= 1
        /\ Len(Tail(d)) = Len(d) - 1
        /\ \A i \in 1..Len(Tail(d)) : Tail(d)[i] = d[i + 1]
        /\ Tail(d) = <<>> <=> Len(d) = 1
    <2>1. /\ Tail(d) \in Seq(Mark)
          /\ Len(Tail(d)) = Len(d) - 1
          /\ \A i \in 1..Len(Tail(d)) : Tail(d)[i] = d[i + 1]
      BY HeadTailProperties
    <2>2. Len(d) \in Nat \ {0}
      BY EmptySeq
    <2>3. Tail(d) = <<>> <=> Len(Tail(d)) = 0
      BY <2>1, EmptySeq
    <2>4. QED
      BY <2>1, <2>2, <2>3
  <1>2. \A i \in 1..Len(Tail(d)) : Open(Tail(d), i) <=> Open(d, i + 1)
    BY <1>1 DEF Open
  <1>3. Tail(d) # <<>> =>
          Tail(d)[1][2] = IF Open(d, 1) \/ Tail(d)[1][1] = Esc THEN "skip" ELSE "show"
    BY <1>1 DEF Chained
  <1>4. ASSUME NEW i \in 1..Len(Tail(d))-1
        PROVE  Tail(d)[i + 1][2] =
                 IF Open(Tail(d), i) \/ Tail(d)[i + 1][1] = Esc THEN "skip" ELSE "show"
    <2>1. /\ i \in 1..Len(Tail(d)) /\ i + 1 \in 1..Len(Tail(d)) /\ i + 1 \in 1..Len(d)-1
      BY <1>1
    <2>2. d[(i + 1) + 1][2] = IF Open(d, i + 1) \/ d[(i + 1) + 1][1] = Esc THEN "skip" ELSE "show"
      BY <2>1 DEF Chained
    <2>3. QED
      BY <1>1, <1>2, <2>1, <2>2
  <1>5. Tail(d) # <<>> => ~Open(Tail(d), Len(Tail(d)))
    <2>1. Tail(d) # <<>> => Len(Tail(d)) \in 1..Len(Tail(d)) /\ Len(Tail(d)) + 1 = Len(d)
      BY <1>1
    <2>2. QED
      BY <1>2, <2>1 DEF Chained
  <1>6. Open(d, 1) => Tail(d) # <<>>
    BY <1>1 DEF Chained
  <1>7. QED
    BY <1>3, <1>4, <1>5, <1>6 DEF Chained

-------------------------------------------------------------------------------
(* The steps. *)

LEMMA PendingType ==
  ASSUME LogInv
  PROVE  /\ owed \in Seq(Byte) /\ todo \in Seq(Byte) /\ Pending \in Seq(Byte)
         /\ Len(Pending) = Len(owed) + Len(todo)
         /\ Len(owed) \in Nat /\ Len(todo) \in Nat
         /\ Cells(Pending) = Cells(owed) + Cells(todo)
         /\ Cells(owed) \in Nat /\ Cells(todo) \in Nat
         /\ todo = <<>> => Pending = owed
  <1>1. owed \in Seq(Byte) /\ todo \in Seq(Byte)
    BY DEF LogInv, IInv, TypeOK, LogTypes
  <1>2. /\ Pending \in Seq(Byte) /\ Len(Pending) = Len(owed) + Len(todo)
        /\ todo = <<>> => Pending = owed
    BY <1>1, ConcatProperties, ConcatEmptySeq DEF Pending
  <1>3. Cells(Pending) = Cells(owed) + Cells(todo) /\ Cells(owed) \in Nat /\ Cells(todo) \in Nat
    BY <1>1, CellsOfConcat, CellsBounded DEF Pending
  <1>4. QED
    BY <1>1, <1>2, <1>3, LenProperties

(* A byte that goes from the head of one sequence to the end of another.   *)
LEMMA MovedOver ==
  ASSUME NEW s \in Seq(Byte), NEW t \in Seq(Byte), t # <<>>
  PROVE  Append(s, Head(t)) \o Tail(t) = s \o t
  <1> DEFINE u == Append(s, Head(t))
             v == Tail(t)
  <1>1. /\ Head(t) = t[1] /\ Head(t) \in Byte /\ v \in Seq(Byte)
        /\ Len(v) = Len(t) - 1 /\ \A i \in 1..Len(v) : v[i] = t[i + 1]
        /\ Len(s) \in Nat /\ Len(t) \in Nat
    BY HeadTailProperties, LenProperties
  <1>2. /\ u \in Seq(Byte) /\ Len(u) = Len(s) + 1 /\ u[Len(s) + 1] = t[1]
        /\ \A i \in 1..Len(s) : u[i] = s[i]
    BY <1>1, AppendProperties
  <1> HIDE DEF u, v
  <1>3. /\ u \o v \in Seq(Byte) /\ Len(u \o v) = Len(u) + Len(v)
        /\ \A i \in 1..Len(u) + Len(v) : (u \o v)[i] = IF i <= Len(u) THEN u[i] ELSE v[i - Len(u)]
    BY <1>1, <1>2, ConcatProperties
  <1>4. /\ s \o t \in Seq(Byte) /\ Len(s \o t) = Len(s) + Len(t)
        /\ \A i \in 1..Len(s) + Len(t) : (s \o t)[i] = IF i <= Len(s) THEN s[i] ELSE t[i - Len(s)]
    BY ConcatProperties
  <1>5. ASSUME NEW i \in 1..Len(s) + Len(t) PROVE (u \o v)[i] = (s \o t)[i]
    <2>1. CASE i <= Len(s)
      BY <1>1, <1>2, <1>3, <1>4, <2>1
    <2>2. CASE i = Len(s) + 1
      BY <1>1, <1>2, <1>3, <1>4, <2>2
    <2>3. CASE i > Len(s) + 1
      <3>1. (u \o v)[i] = v[i - Len(u)] /\ (s \o t)[i] = t[i - Len(s)]
        BY <1>1, <1>2, <1>3, <1>4, <2>3
      <3>2. i - Len(u) \in 1..Len(v) /\ (i - Len(u)) + 1 = i - Len(s)
        BY <1>1, <1>2, <2>3
      <3>3. QED
        BY <1>1, <3>1, <3>2
    <2>4. i \in Int /\ Len(s) \in Int
      BY <1>1
    <2>5. i <= Len(s) \/ i = Len(s) + 1 \/ i > Len(s) + 1
      BY <2>4
    <2>6. QED
      BY <2>1, <2>2, <2>3, <2>5
  <1>6. u \o v = s \o t
    <2>1. Len(u \o v) = Len(s) + Len(t)
      BY <1>1, <1>2, <1>3
    <2>2. \A i \in 1..Len(u \o v) : (u \o v)[i] = (s \o t)[i]
      BY <1>5, <2>1
    <2>3. QED
      BY <1>3, <1>4, <2>1, <2>2, SeqEqual
  <1>7. QED
    BY <1>6 DEF u, v

LEMMA InitLogInv == Init => LogInv
  <1> SUFFICES ASSUME Init PROVE LogInv
    OBVIOUS
  <1>1. IInv
    BY InitIInv DEF Init
  <1>2. owed = <<>> /\ todo = <<>> /\ due = <<>> /\ pc = "loop" /\ printed = <<>>
    BY DEF Init, InitRing
  <1>3. NothingDamaged
    BY <1>2 DEF NothingDamaged, Damaged
  <1>4. Pending = <<>> /\ Len(<<>>) = 0 /\ <<>> \in Seq(Byte)
    BY <1>2, EmptySeq DEF Pending
  <1>5. LogTypes
    BY <1>2, <1>4, CellsOfNone, RowsAssumption DEF LogTypes, Init, row_num_max
  <1>6. DueIsPending /\ DueIsChained
    BY <1>2, <1>4 DEF DueIsPending, DueIsChained, Chained
  <1>7. Backlog
    <2>1. Pending = <<>> \o printed
      BY <1>2, <1>4
    <2>2. QED
      BY <1>2, <1>4, <2>1 DEF Backlog, LeftOver
  <1>8. QED
    BY <1>1, <1>3, <1>5, <1>6, <1>7 DEF LogInv, Init, ShowsWhatWasPrinted

LEMMA PrintStarts ==
  ASSUME LogInv, small_printf
  PROVE  LogInv'
  <1>1. PICK s \in Messages : /\ todo' = s
                              /\ printed' = printed \o s
                              /\ Len(printed') <= TurnBytes /\ Cells(printed') <= TurnCells
                              /\ due' = due \o Marked(s)
    BY DEF small_printf
  <1>2. /\ pc = "loop" /\ pc' = "print"
        /\ UNCHANGED <<rd, wr, mem, owed, last, row, col, taken>>
    BY DEF small_printf, ring
  <1>3. s \in Seq(Byte) /\ ColorsEnd(s)
    <2>1. s \in Seq(Byte \ {Zero}) /\ ColorsEnd(s)
      BY MessagesAssumption
    <2>2. QED
      BY <2>1, SeqMonotonic
  <1>4. todo = <<>> /\ due \in Seq(Mark) /\ printed \in Seq(Byte)
    BY <1>2 DEF LogInv, LogTypes
  <1>5. owed \in Seq(Byte) /\ Pending = owed /\ Pending' = owed \o s
    <2>1. owed \in Seq(Byte) /\ Pending = owed
      BY <1>4, PendingType
    <2>2. Pending' = owed \o s
      BY <1>1, <1>2 DEF Pending
    <2>3. QED
      BY <2>1, <2>2
  <1>6. /\ Marked(s) \in Seq(Mark) /\ Len(Marked(s)) = Len(s)
        /\ \A i \in 1..Len(s) : Marked(s)[i][1] = s[i]
        /\ Chained(Marked(s), FALSE)
    BY <1>3, MessageIsChained
  <1>7. IInv' /\ NothingDamaged' /\ ShowsWhatWasPrinted'
    BY <1>2 DEF LogInv, IInv, TypeOK, SlotBySlot, Held, ReadsAreGenuine, NothingDamaged, Damaged,
                Contents, ShowsWhatWasPrinted
  <1>8. due' \in Seq(Mark)
    BY <1>1, <1>4, <1>6, ConcatProperties
  <1>9. LogTypes'
    <2>1. printed' \in Seq(Byte)
      BY <1>1, <1>3, <1>4, ConcatProperties
    <2>2. QED
      BY <1>1, <1>2, <1>3, <1>8, <2>1 DEF LogInv, LogTypes
  <1>10. DueIsPending'
    <2>1. /\ Len(due) = Len(owed) /\ \A i \in 1..Len(due) : due[i][1] = owed[i]
      BY <1>5 DEF LogInv, DueIsPending
    <2>2. /\ Len(due') = Len(due) + Len(s)
          /\ \A i \in 1..Len(due) + Len(s) :
               due'[i] = IF i <= Len(due) THEN due[i] ELSE Marked(s)[i - Len(due)]
      <3> DEFINE e == Marked(s)
      <3>1. e \in Seq(Mark) /\ Len(e) = Len(s)
        BY <1>6
      <3>2. /\ Len(due \o e) = Len(due) + Len(e)
            /\ \A i \in 1..Len(due) + Len(e) :
                 (due \o e)[i] = IF i <= Len(due) THEN due[i] ELSE e[i - Len(due)]
        <4> HIDE DEF e
        <4>1. QED
          BY <1>4, <3>1, ConcatProperties
      <3>3. due' = due \o e
        BY <1>1
      <3> HIDE DEF e
      <3>4. /\ Len(due') = Len(due) + Len(s)
            /\ \A i \in 1..Len(due) + Len(s) :
                 due'[i] = IF i <= Len(due) THEN due[i] ELSE e[i - Len(due)]
        BY <3>1, <3>2, <3>3
      <3>5. QED
        BY <3>4 DEF e
    <2>3. /\ Len(Pending') = Len(owed) + Len(s)
          /\ \A i \in 1..Len(owed) + Len(s) :
               Pending'[i] = IF i <= Len(owed) THEN owed[i] ELSE s[i - Len(owed)]
      BY <1>3, <1>5, ConcatProperties
    <2>4. Len(due) \in Nat /\ Len(s) \in Nat
      BY <1>3, <1>4, LenProperties
    <2>5. ASSUME NEW i \in 1..Len(due') PROVE due'[i][1] = Pending'[i]
      <3>1. CASE i <= Len(due)
        BY <2>1, <2>2, <2>3, <2>4, <3>1
      <3>2. CASE i > Len(due)
        <4>1. i - Len(due) \in 1..Len(s)
          BY <2>2, <2>4, <3>2
        <4>2. due'[i] = Marked(s)[i - Len(due)]
          BY <2>2, <2>4, <3>2
        <4>3. Pending'[i] = s[i - Len(due)]
          BY <2>1, <2>2, <2>3, <2>4, <3>2
        <4>4. Marked(s)[i - Len(due)][1] = s[i - Len(due)]
          BY <1>6, <4>1
        <4>5. QED
          BY <4>2, <4>3, <4>4
      <3>3. QED
        BY <2>2, <2>4, <3>1, <3>2
    <2>6. QED
      BY <2>1, <2>2, <2>3, <2>5 DEF DueIsPending
  <1>11. DueIsChained'
    <2>1. Chained(due, FALSE)
      BY <1>2 DEF LogInv, DueIsChained
    <2>2. Chained(due \o Marked(s), FALSE)
      BY <1>4, <1>6, <2>1, ChainedConcat
    <2>3. QED
      BY <1>1, <1>2, <2>2 DEF DueIsChained
  <1>12. Backlog'
    <2>1. PICK old \in Seq(Byte) : Pending = old \o printed /\ LeftOver(old)
      BY <1>2 DEF LogInv, Backlog
    <2>2. (old \o printed) \o s = old \o (printed \o s)
      BY <1>3, <1>4, ConcatAssociative
    <2>3. Pending' = old \o printed'
      BY <1>1, <1>5, <2>1, <2>2
    <2>4. LeftOver(old)'
      BY <1>2, <2>1 DEF LeftOver
    <2>5. QED
      BY <1>2, <2>3, <2>4 DEF Backlog
  <1>13. QED
    BY <1>7, <1>9, <1>10, <1>11, <1>12 DEF LogInv

LEMMA PrintMoves ==
  ASSUME TurnFits, LogInv, PrintByte
  PROVE  LogInv'
  <1>1. /\ pc = "print" /\ pc' = "print" /\ todo # <<>>
        /\ Write(Head(todo)) /\ todo' = Tail(todo)
        /\ UNCHANGED <<row, col, printed, due, taken>>
    BY DEF PrintByte
  <1>2. /\ owed \in Seq(Byte) /\ todo \in Seq(Byte)
        /\ Len(owed) \in Nat /\ Len(todo) \in Nat
        /\ Cells(Pending) = Cells(owed) + Cells(todo)
    BY PendingType
  <1>3. Head(todo) \in Byte /\ todo' \in Seq(Byte) /\ Len(todo) >= 1
    <2>1. Len(todo) # 0
      BY <1>1, <1>2, EmptySeq
    <2>2. QED
      BY <1>1, <1>2, <2>1, HeadTailProperties
  <1>4. Len(owed) = fifo_get_available(rd, wr)
    BY DEF LogInv, IInv, SlotBySlot
  <1>5. Len(owed) <= N - 4
    <2>1. PICK old \in Seq(Byte) : Pending = old \o printed /\ LeftOver(old)
      BY <1>1 DEF LogInv, Backlog
    <2>2. /\ Len(Pending) = Len(old) + Len(printed)
          /\ Len(old) \in Nat /\ Len(printed) \in Nat /\ Len(printed) <= TurnBytes
      BY <2>1, ConcatProperties, LenProperties DEF LogInv, LogTypes
    <2>3. old = <<>> => Len(old) = 0
      BY EmptySeq
    <2>4. old # <<>> => Len(old) < TurnBytes
      BY <2>1 DEF LeftOver
    <2>5. 2 * TurnBytes + 2 <= N /\ TurnBytes \in Nat /\ N \in Nat
      BY RowsAssumption, NAssumption DEF TurnFits
    <2>6. Len(owed) + Len(todo) = Len(old) + Len(printed)
      BY <2>2, PendingType
    <2>7. CASE old = <<>>
      BY <1>2, <1>3, <2>2, <2>3, <2>5, <2>6, <2>7
    <2>8. CASE old # <<>>
      BY <1>2, <1>3, <2>2, <2>4, <2>5, <2>6, <2>8
    <2>9. QED
      BY <2>7, <2>8
  <1>6. IInv'
    BY <1>1, <1>3, WriteStep DEF LogInv
  <1>7. NothingDamaged'
    <2>1. Damaged' = {}
      BY <1>1, <1>3, <1>4, <1>5, RoomyStep DEF LogInv, NothingDamaged
    <2>2. QED
      BY <2>1 DEF NothingDamaged
  <1>8. Pending' = Pending
    <2>1. rd \in Slot /\ wr \in Slot
      BY DEF LogInv, IInv, TypeOK
    <2>2. ~FIFO_FULL(rd, wr)
      BY <1>4, <1>5, <2>1, RoomyIsNotFull
    <2>3. owed' = Append(owed, Head(todo))
      BY <1>1, <2>2 DEF Write
    <2>4. Append(owed, Head(todo)) \o Tail(todo) = owed \o todo
      BY <1>1, <1>2, <1>3, MovedOver
    <2>5. QED
      BY <1>1, <2>3, <2>4 DEF Pending
  <1>9. LogTypes'
    BY <1>1, <1>3 DEF LogInv, LogTypes
  <1>10. DueIsPending' /\ DueIsChained' /\ Backlog' /\ ShowsWhatWasPrinted'
    BY <1>1, <1>8 DEF LogInv, DueIsPending, DueIsChained, Backlog, LeftOver,
                      ShowsWhatWasPrinted
  <1>11. QED
    BY <1>6, <1>7, <1>9, <1>10 DEF LogInv

(* The ring, the bytes and what is due stay as they are. *)
LEMMA RingStays ==
  ASSUME LogInv, UNCHANGED <<ring, todo, due, taken>>
  PROVE  /\ IInv' /\ NothingDamaged' /\ DueIsPending' /\ ShowsWhatWasPrinted'
         /\ Pending' = Pending
         /\ (pc' = "skip" <=> pc = "skip") => DueIsChained'
  <1>1. UNCHANGED <<rd, wr, mem, owed, last>>
    BY DEF ring
  <1>2. IInv' /\ NothingDamaged' /\ ShowsWhatWasPrinted' /\ Pending' = Pending
    BY <1>1 DEF LogInv, IInv, TypeOK, SlotBySlot, Held, ReadsAreGenuine, NothingDamaged, Damaged,
                Contents, ShowsWhatWasPrinted, Pending
  <1>3. DueIsPending'
    BY <1>2 DEF LogInv, DueIsPending
  <1>4. (pc' = "skip" <=> pc = "skip") => DueIsChained'
    BY DEF LogInv, DueIsChained
  <1>5. QED
    BY <1>2, <1>3, <1>4

LEMMA PrintEnds ==
  ASSUME LogInv, PrintDone
  PROVE  LogInv'
  <1>1. /\ pc = "print" /\ pc' = "loop" /\ todo = <<>>
        /\ UNCHANGED <<ring, todo, row, col, printed, due, taken>>
    BY DEF PrintDone
  <1>2. /\ IInv' /\ NothingDamaged' /\ DueIsPending' /\ ShowsWhatWasPrinted'
        /\ Pending' = Pending /\ DueIsChained'
    BY <1>1, RingStays
  <1>3. LogTypes'
    BY <1>1 DEF LogInv, LogTypes
  <1>4. Backlog'
    BY <1>1, <1>2 DEF LogInv, Backlog, LeftOver
  <1>5. QED
    BY <1>2, <1>3, <1>4 DEF LogInv

(* console_render starts with what a turn printed, wherever it is on the    *)
(* screen, or at the last visible row with two turns.                      *)
LEMMA RenderStarts ==
  ASSUME TurnFits, LogInv, Render
  PROVE  LogInv'
  <1>1. /\ pc = "loop" /\ pc' = "render"
        /\ UNCHANGED <<ring, todo, row, col, printed, due, taken>>
    BY DEF Render
  <1>2. /\ IInv' /\ NothingDamaged' /\ DueIsPending' /\ ShowsWhatWasPrinted'
        /\ Pending' = Pending /\ DueIsChained'
    BY <1>1, RingStays
  <1>3. todo = <<>> /\ LogTypes'
    BY <1>1 DEF LogInv, LogTypes
  <1>4. /\ row \in 0..row_num_max-1 /\ col \in 0..col_num-1 /\ Pending = owed
        /\ col_num \in Nat /\ TurnCells \in Nat
    BY <1>3, PendingType, RowsAssumption DEF LogInv, LogTypes
  <1>5. /\ col_num * (row_num_max - row) \in Nat
        /\ row = row_num - 1 => col_num * (row_num_max - row) = col_num * (row_num + 1)
    BY <1>4, RowsLeft
  <1>6. Backlog'
    <2>1. PICK old \in Seq(Byte) : Pending = old \o printed /\ LeftOver(old)
      BY <1>1 DEF LogInv, Backlog
    <2>2. old = <<>> \/ Cells(old) < Room
      <3>1. CASE row = row_num - 1 /\ col = 0 /\ Cells(old) < TurnCells
        <4>1. TurnCells <= Room
          BY <1>4, <1>5, <3>1 DEF TurnFits, Room
        <4>2. Cells(old) \in Nat /\ Room \in Int
          BY <1>4, <1>5, CellsBounded DEF Room
        <4>3. QED
          BY <1>4, <3>1, <4>1, <4>2
      <3>2. QED
        BY <2>1, <3>1 DEF LeftOver
    <2>3. Behind(owed, printed, Room)
      BY <1>4, <2>1, <2>2 DEF Behind
    <2>4. UNCHANGED owed
      BY <1>1 DEF ring
    <2>5. Room' = Room
      BY <1>1 DEF Room
    <2>6. QED
      BY <1>1, <2>3, <2>4, <2>5 DEF Backlog
  <1>7. QED
    BY <1>2, <1>3, <1>6 DEF LogInv

(* Inside console_render what is due is what the ring holds. *)
LEMMA DueIsInTheRing ==
  ASSUME LogInv, pc \in {"render", "skip"}
  PROVE  /\ todo = <<>> /\ Pending = owed
         /\ owed \in Seq(Byte) /\ due \in Seq(Mark)
         /\ Len(due) = Len(owed) /\ \A i \in 1..Len(due) : due[i][1] = owed[i]
         /\ due = <<>> <=> owed = <<>>
         /\ due = <<>> <=> FIFO_EMPTY(rd, wr)
  <1>1. todo = <<>> /\ due \in Seq(Mark)
    BY DEF LogInv, LogTypes
  <1>2. /\ Pending = owed /\ owed \in Seq(Byte)
        /\ Len(due) = Len(owed) /\ \A i \in 1..Len(due) : due[i][1] = owed[i]
    BY <1>1, PendingType DEF LogInv, DueIsPending
  <1>3. due = <<>> <=> owed = <<>>
    BY <1>1, <1>2, EmptySeq
  <1>4. Len(owed) = fifo_get_available(rd, wr) /\ rd \in Slot /\ wr \in Slot
    BY DEF LogInv, IInv, TypeOK, SlotBySlot
  <1>5. fifo_get_available(rd, wr) = 0 <=> FIFO_EMPTY(rd, wr)
    BY <1>4, NAssumption DEF FIFO_EMPTY, fifo_get_available, Slot
  <1>6. QED
    BY <1>1, <1>2, <1>3, <1>4, <1>5, EmptySeq

(* Taking the byte that is due next. *)
LEMMA TakeStep ==
  ASSUME LogInv, pc \in {"render", "skip"}, due # <<>>, UNCHANGED todo,
         NEW fate, Take(fate)
  PROVE  /\ IInv' /\ NothingDamaged' /\ DueIsPending'
         /\ fate = due[1][2] => ShowsWhatWasPrinted'
         /\ due' = Tail(due) /\ due' \in Seq(Mark)
         /\ Chained(due', Open(due, 1))
         /\ ReadByte = due[1][1]
         /\ owed \in Seq(Byte) /\ owed # <<>> /\ ReadByte = owed[1] /\ owed' = Tail(owed)
  <1>1. /\ todo = <<>> /\ Pending = owed
        /\ owed \in Seq(Byte) /\ due \in Seq(Mark) /\ owed # <<>>
        /\ Len(due) = Len(owed) /\ \A i \in 1..Len(due) : due[i][1] = owed[i]
        /\ ~FIFO_EMPTY(rd, wr)
    BY DueIsInTheRing
  <1>2. Read /\ due' = Tail(due) /\ taken' = <<<<ReadByte, fate>>, Head(due)>>
    BY <1>1 DEF Take
  <1>3. Damaged' = {} /\ ReadByte = owed[1]
    BY <1>2, ReadExact DEF LogInv, NothingDamaged
  <1>4. IInv'
    BY <1>2, ReadStep DEF LogInv
  <1>5. owed' = Tail(owed) /\ todo' = <<>>
    BY <1>1, <1>2 DEF Read
  <1>6. Len(due) \in Nat /\ Len(due) >= 1
    BY <1>1, EmptySeq, LenProperties
  <1>7. /\ Tail(due) \in Seq(Mark) /\ Len(Tail(due)) = Len(due) - 1
        /\ Head(due) = due[1] /\ Head(due) \in Mark
        /\ \A i \in 1..Len(Tail(due)) : Tail(due)[i] = due[i + 1]
    BY <1>1, HeadTailProperties
  <1>8. /\ Tail(owed) \in Seq(Byte) /\ Len(Tail(owed)) = Len(owed) - 1
        /\ \A i \in 1..Len(Tail(owed)) : Tail(owed)[i] = owed[i + 1]
    BY <1>1, HeadTailProperties
  <1>9. ReadByte = due[1][1]
    BY <1>1, <1>3, <1>6
  <1>10. ASSUME fate = due[1][2] PROVE ShowsWhatWasPrinted'
    <2>1. due[1] = <<due[1][1], due[1][2]>>
      BY <1>7 DEF Mark
    <2>2. taken'[1] = taken'[2]
      BY <1>2, <1>7, <1>9, <1>10, <2>1
    <2>3. QED
      BY <2>2 DEF ShowsWhatWasPrinted
  <1>11. DueIsPending'
    <2>1. Pending' = Tail(owed)
      BY <1>5, <1>8, ConcatEmptySeq DEF Pending
    <2>2. ASSUME NEW i \in 1..Len(Tail(due)) PROVE Tail(due)[i][1] = Tail(owed)[i]
      <3>1. i \in 1..Len(Tail(owed)) /\ i + 1 \in 1..Len(due)
        BY <1>1, <1>6, <1>7, <1>8
      <3>2. Tail(due)[i] = due[i + 1] /\ Tail(owed)[i] = owed[i + 1]
        BY <1>7, <1>8, <3>1
      <3>3. QED
        BY <1>1, <3>1, <3>2
    <2>3. Len(Tail(due)) = Len(Tail(owed))
      BY <1>1, <1>7, <1>8
    <2>4. QED
      BY <1>2, <2>1, <2>2, <2>3 DEF DueIsPending
  <1>12. Chained(due', Open(due, 1))
    <2>1. (pc = "skip") \in BOOLEAN /\ Open(due, 1) \in BOOLEAN
      BY DEF Open
    <2>2. Chained(due, pc = "skip")
      BY DEF LogInv, DueIsChained
    <2>3. QED
      BY <1>1, <1>2, <2>1, <2>2, ChainedTail
  <1>13. NothingDamaged'
    BY <1>3 DEF NothingDamaged
  <1>14. QED
    BY <1>1, <1>2, <1>3, <1>4, <1>5, <1>7, <1>9, <1>10, <1>11, <1>12, <1>13

(* Where a byte was taken and the cursor is not moved by more than the     *)
(* byte was counted with.                                                  *)
LEMMA BacklogTaken ==
  ASSUME LogInv, pc \in {"render", "skip"}, pc' \in {"render", "skip"}, UNCHANGED printed,
         owed \in Seq(Byte), owed # <<>>, owed' = Tail(owed),
         Room \in Int, Room' \in Int, Room' >= Room - Cost(owed[1])
  PROVE  Backlog'
  <1>1. Behind(owed, printed, Room) /\ printed \in Seq(Byte)
    BY DEF LogInv, Backlog, LogTypes
  <1>2. \/ \E old \in Seq(Byte) : /\ Tail(owed) = old \o printed
                                  /\ Cells(old) + Cost(owed[1]) < Room
        \/ \E gone \in Seq(Byte) : gone # <<>> /\ printed = gone \o Tail(owed)
    BY <1>1, FirstOfBehind
  <1>3. Cost(owed[1]) \in Int
    BY RowsAssumption DEF Cost
  <1>4. ASSUME NEW old \in Seq(Byte), Cells(old) + Cost(owed[1]) < Room
        PROVE  Cells(old) < Room'
    <2>1. Cells(old) \in Nat
      BY CellsBounded
    <2>2. QED
      BY <1>3, <1>4, <2>1
  <1>5. Behind(owed', printed', Room')
    BY <1>2, <1>4 DEF Behind
  <1>6. QED
    BY <1>5 DEF Backlog

LEMMA RoomType ==
  ASSUME LogInv
  PROVE  /\ row \in 0..row_num_max-1 /\ col \in 0..col_num-1
         /\ col_num \in Nat \ {0} /\ row_num \in Nat \ {0} /\ row_num_max = 2 * row_num
         /\ Room \in Int /\ Room = col_num * (row_num_max - row) - col
         /\ col_num * (row_num_max - row) \in Nat
  <1>1. /\ row \in 0..row_num_max-1 /\ col \in 0..col_num-1
        /\ col_num \in Nat \ {0} /\ row_num \in Nat \ {0} /\ row_num_max = 2 * row_num
    BY RowsAssumption DEF LogInv, LogTypes, row_num_max
  <1>2. col_num * (row_num_max - row) \in Nat
    BY <1>1, RowsLeft
  <1>3. QED
    BY <1>1, <1>2 DEF Room

(* A byte of a color leaves the place on the screen as it is. *)
LEMMA BacklogOnTheSpot ==
  ASSUME LogInv, pc \in {"render", "skip"}, pc' \in {"render", "skip"},
         UNCHANGED <<row, col, printed>>,
         owed \in Seq(Byte), owed # <<>>, owed' = Tail(owed)
  PROVE  Backlog'
  <1>1. Room' = Room /\ Room \in Int
    BY RoomType DEF Room
  <1>2. Cost(owed[1]) \in Nat
    BY RowsAssumption DEF Cost
  <1>3. Room' >= Room - Cost(owed[1])
    BY <1>1, <1>2
  <1>4. QED
    BY <1>1, <1>3, BacklogTaken

(* A color starts where one was printed, and goes on behind its Esc. *)
LEMMA StartSkipStep ==
  ASSUME LogInv, StartSkip
  PROVE  LogInv'
  <1>1. /\ pc = "render" /\ pc' = "skip" /\ ~FIFO_EMPTY(rd, wr)
        /\ ReadByte = Esc /\ Take("skip")
        /\ UNCHANGED <<todo, row, col, printed>>
    BY DEF StartSkip
  <1>2. due # <<>>
    BY <1>1, DueIsInTheRing
  <1>3. /\ IInv' /\ NothingDamaged' /\ DueIsPending'
        /\ "skip" = due[1][2] => ShowsWhatWasPrinted'
        /\ due' \in Seq(Mark) /\ Chained(due', Open(due, 1))
        /\ due[1][1] = Esc
        /\ owed \in Seq(Byte) /\ owed # <<>> /\ owed' = Tail(owed)
    BY <1>1, <1>2, TakeStep
  <1>4. due[1][2] = "skip"
    BY <1>1, <1>2, <1>3 DEF LogInv, DueIsChained, Chained
  <1>5. Open(due, 1)
    BY <1>3, <1>4, MessagesAssumption DEF Open
  <1>6. DueIsChained'
    BY <1>1, <1>3, <1>5 DEF DueIsChained
  <1>7. LogTypes'
    BY <1>1, <1>3 DEF LogInv, LogTypes
  <1>8. Backlog'
    BY <1>1, <1>3, BacklogOnTheSpot
  <1>9. QED
    BY <1>3, <1>4, <1>6, <1>7, <1>8 DEF LogInv

(* The loop over a color ends with it, before the ring is empty. *)
LEMMA SkipStep ==
  ASSUME LogInv, Skip
  PROVE  LogInv'
  <1>1. /\ pc = "skip" /\ pc' = IF ReadByte = EndOfColor THEN "render" ELSE "skip"
        /\ Take("skip")
        /\ UNCHANGED <<todo, row, col, printed>>
    BY DEF Skip
  <1>2. due # <<>> /\ due[1][2] = "skip"
    BY <1>1 DEF LogInv, DueIsChained, Chained
  <1>3. /\ IInv' /\ NothingDamaged' /\ DueIsPending' /\ ShowsWhatWasPrinted'
        /\ due' \in Seq(Mark) /\ Chained(due', Open(due, 1))
        /\ due[1][1] = ReadByte
        /\ owed \in Seq(Byte) /\ owed # <<>> /\ owed' = Tail(owed)
    BY <1>1, <1>2, TakeStep
  <1>4. Open(due, 1) <=> pc' = "skip"
    BY <1>1, <1>2, <1>3 DEF Open
  <1>5. DueIsChained'
    <2>1. Open(due, 1) = (pc' = "skip")
      BY <1>4 DEF Open
    <2>2. QED
      BY <1>3, <2>1 DEF DueIsChained
  <1>6. LogTypes'
    BY <1>1, <1>3 DEF LogInv, LogTypes
  <1>7. Backlog'
    BY <1>1, <1>3, BacklogOnTheSpot
  <1>8. QED
    BY <1>3, <1>5, <1>6, <1>7 DEF LogInv

(* A byte that is shown takes at most the cells it was counted with; the    *)
(* call that comes to the end of the framebuffer has shown all it must.    *)
LEMMA ShowStep ==
  ASSUME LogInv, ShowByte
  PROVE  LogInv'
  <1>1. /\ pc = "render" /\ ~FIFO_EMPTY(rd, wr)
        /\ ReadByte # Esc /\ Take("show")
        /\ UNCHANGED todo
    BY DEF ShowByte
  <1>2. due # <<>>
    BY <1>1, DueIsInTheRing
  <1>3. /\ IInv' /\ NothingDamaged' /\ DueIsPending'
        /\ "show" = due[1][2] => ShowsWhatWasPrinted'
        /\ due' \in Seq(Mark) /\ Chained(due', Open(due, 1))
        /\ due[1][1] = ReadByte
        /\ owed \in Seq(Byte) /\ owed # <<>> /\ ReadByte = owed[1] /\ owed' = Tail(owed)
    BY <1>1, <1>2, TakeStep
  <1>4. due[1][2] = "show"
    BY <1>1, <1>2, <1>3 DEF LogInv, DueIsChained, Chained
  <1>5. ~Open(due, 1)
    BY <1>4 DEF Open
  <1>6. /\ todo = <<>> /\ todo' = <<>>
        /\ row \in 0..row_num_max-1 /\ col \in 0..col_num-1
        /\ col_num \in Nat \ {0} /\ row_num \in Nat \ {0} /\ row_num_max = 2 * row_num
        /\ Room \in Int /\ Room = col_num * (row_num_max - row) - col
        /\ printed \in Seq(Byte) /\ Behind(owed, printed, Room)
    BY <1>1, RoomType DEF LogInv, LogTypes, Backlog
  <1>7. Pending' = owed' /\ owed' \in Seq(Byte)
    BY <1>3, <1>6, HeadTailProperties, ConcatEmptySeq DEF Pending
  <1>8. PICK c \in 0..col+1 :
          IF c = col_num \/ owed[1] = NewLine THEN col' = 0 /\ row' = NextRow(row)
          ELSE col' = c /\ row' = row
    BY <1>1, <1>3 DEF ShowByte, Moves
  <1>9. IF row' < row THEN pc' = "loop" /\ printed' = <<>> ELSE UNCHANGED <<pc, printed>>
    BY DEF ShowByte
  <1>10. pc' \in {"render", "loop"} /\ LogTypes' /\ Backlog'
    <2>1. CASE ~(c = col_num \/ owed[1] = NewLine)
      <3>1. /\ col' = c /\ c \in 0..col_num-1 /\ c <= col + 1
            /\ UNCHANGED <<pc, row, printed>>
        BY <1>6, <1>8, <1>9, <2>1
      <3>2. LogTypes'
        BY <1>1, <1>3, <1>6, <3>1 DEF LogInv, LogTypes
      <3>3. Room' \in Int /\ Room' >= Room - Cost(owed[1])
        <4>1. col_num * (row_num_max - row) \in Nat
          BY <1>6, RowsLeft
        <4>2. Room' = col_num * (row_num_max - row) - c
          BY <3>1 DEF Room
        <4>3. QED
          BY <1>6, <2>1, <3>1, <4>1, <4>2 DEF Cost
      <3>4. Backlog'
        BY <1>1, <1>3, <1>6, <3>1, <3>3, BacklogTaken
      <3>5. QED
        BY <1>1, <3>1, <3>2, <3>4
    <2>2. CASE c = col_num \/ owed[1] = NewLine
      <3>1. /\ col' = 0 /\ row' = NextRow(row)
            /\ owed[1] # NewLine => col = col_num - 1
        BY <1>6, <1>8, <2>2
      <3>2. CASE row + 1 = row_num_max
        <4>1. row' = row_num - 1 /\ pc' = "loop" /\ printed' = <<>>
          BY <1>6, <1>9, <3>1, <3>2 DEF NextRow
        <4>2. <<>> \in Seq(Byte) /\ Len(<<>>) = 0 /\ Cells(<<>>) = 0
          BY EmptySeq, CellsOfNone
        <4>3. LogTypes'
          BY <1>3, <1>6, <3>1, <4>1, <4>2, RowsAssumption DEF LogInv, LogTypes
        <4>4. Room <= Cost(owed[1])
          <5>1. Room = col_num - col
            BY <1>6, <3>2, RowsLeft
          <5>2. QED
            BY <1>6, <3>1, <5>1 DEF Cost
        <4>5. PICK gone \in Seq(Byte) : gone # <<>> /\ printed = gone \o owed'
          <5>1. \/ \E old \in Seq(Byte) : /\ Tail(owed) = old \o printed
                                          /\ Cells(old) + Cost(owed[1]) < Room
                \/ \E gone \in Seq(Byte) : gone # <<>> /\ printed = gone \o Tail(owed)
            BY <1>3, <1>6, FirstOfBehind
          <5>2. ASSUME NEW old \in Seq(Byte) PROVE ~(Cells(old) + Cost(owed[1]) < Room)
            <6>1. Cells(old) \in Nat /\ Cost(owed[1]) \in Int
              BY CellsBounded, RowsAssumption DEF Cost
            <6>2. QED
              BY <1>6, <4>4, <6>1
          <5>3. QED
            BY <1>3, <5>1, <5>2
        <4>6. Len(owed') < TurnBytes /\ Cells(owed') < TurnCells
          <5>1. Len(printed) <= TurnBytes /\ Cells(printed) <= TurnCells
            BY DEF LogInv, LogTypes
          <5>2. Len(printed) = Len(gone) + Len(owed') /\ Cells(printed) = Cells(gone) + Cells(owed')
            BY <1>7, <4>5, ConcatProperties, CellsOfConcat
          <5>3. /\ Len(gone) \in Nat \ {0} /\ Len(owed') \in Nat
                /\ Cells(gone) \in Nat /\ Cells(owed') \in Nat /\ Len(gone) <= Cells(gone)
            BY <1>7, <4>5, EmptySeq, LenProperties, CellsBounded
          <5>4. QED
            BY <5>1, <5>2, <5>3, RowsAssumption
        <4>7. Backlog'
          <5>1. PICK old \in Seq(Byte) : old = owed'
            BY <1>7
          <5>2. LeftOver(old)'
            BY <3>1, <4>1, <4>6, <5>1 DEF LeftOver
          <5>3. Pending' = old \o printed'
            BY <1>7, <4>1, <5>1, ConcatEmptySeq
          <5>4. QED
            BY <4>1, <5>2, <5>3 DEF Backlog
        <4>8. QED
          BY <4>1, <4>3, <4>7
      <3>3. CASE row + 1 # row_num_max
        <4>1. row' = row + 1 /\ pc' = "render" /\ printed' = printed
          BY <1>1, <1>6, <1>9, <3>1, <3>3 DEF NextRow
        <4>2. LogTypes'
          <5>1. row' \in 0..row_num_max-1 /\ col' \in 0..col_num-1
            BY <1>6, <3>1, <3>3, <4>1
          <5>2. QED
            BY <1>3, <1>6, <4>1, <5>1 DEF LogInv, LogTypes
        <4>3. Room' \in Int /\ Room' >= Room - Cost(owed[1])
          <5> DEFINE cells == col_num * (row_num_max - row)
          <5>1. cells \in Nat /\ col_num * (row_num_max - (row + 1)) = cells - col_num
            BY <1>6, RowsLeft
          <5>2. Room = cells - col
            BY <1>6
          <5>3. Room' = col_num * (row_num_max - (row + 1)) - 0
            BY <3>1, <4>1 DEF Room
          <5> HIDE DEF cells
          <5>4. QED
            BY <1>6, <3>1, <5>1, <5>2, <5>3 DEF Cost
        <4>4. Backlog'
          BY <1>1, <1>3, <1>6, <4>1, <4>3, BacklogTaken
        <4>5. QED
          BY <4>1, <4>2, <4>4
      <3>4. QED
        BY <3>2, <3>3
    <2>3. QED
      BY <2>1, <2>2
  <1>11. DueIsChained'
    <2>1. Chained(due', FALSE)
      BY <1>3, <1>5 DEF Open, Chained
    <2>2. pc' # "skip"
      BY <1>10
    <2>3. QED
      BY <2>1, <2>2 DEF DueIsChained, Chained
  <1>12. QED
    BY <1>3, <1>4, <1>10, <1>11 DEF LogInv

(* The ring is empty: nothing of a turn is left. *)
LEMMA RenderEnds ==
  ASSUME LogInv, RenderDone
  PROVE  LogInv'
  <1>1. /\ pc = "render" /\ pc' = "loop" /\ fifo_get_available(rd, wr) = 0
        /\ printed' = <<>>
        /\ UNCHANGED <<ring, todo, row, col, due, taken>>
    BY DEF RenderDone
  <1>2. /\ IInv' /\ NothingDamaged' /\ DueIsPending' /\ ShowsWhatWasPrinted'
        /\ Pending' = Pending /\ DueIsChained'
    BY <1>1, RingStays
  <1>3. Pending = <<>>
    <2>1. Pending = owed /\ owed \in Seq(Byte)
      BY <1>1, DueIsInTheRing
    <2>2. Len(owed) = 0
      BY <1>1 DEF LogInv, IInv, SlotBySlot
    <2>3. QED
      BY <2>1, <2>2, EmptySeq
  <1>4. LogTypes'
    BY <1>1, RowsAssumption, EmptySeq, CellsOfNone DEF LogInv, LogTypes
  <1>5. Backlog'
    <2>1. <<>> \in Seq(Byte) /\ <<>> \o <<>> = <<>>
      BY EmptySeq
    <2>2. QED
      BY <1>1, <1>2, <1>3, <2>1 DEF Backlog, LeftOver
  <1>6. QED
    BY <1>2, <1>4, <1>5 DEF LogInv

LEMMA NextLogInv == TurnFits /\ LogInv /\ [Next]_vars => LogInv'
  <1> SUFFICES ASSUME TurnFits, LogInv, [Next]_vars PROVE LogInv'
    OBVIOUS
  <1>1. CASE small_printf
    BY <1>1, PrintStarts
  <1>2. CASE PrintByte
    BY <1>2, PrintMoves
  <1>3. CASE PrintDone
    BY <1>3, PrintEnds
  <1>4. CASE Render
    BY <1>4, RenderStarts
  <1>5. CASE RenderDone
    BY <1>5, RenderEnds
  <1>6. CASE StartSkip
    BY <1>6, StartSkipStep
  <1>7. CASE Skip
    BY <1>7, SkipStep
  <1>8. CASE ShowByte
    BY <1>8, ShowStep
  <1>9. CASE UNCHANGED vars
    <2>1. UNCHANGED <<rd, wr, mem, owed, last, pc, todo, row, col, printed, due, taken>>
      BY <1>9 DEF vars
    <2>2. UNCHANGED ring
      BY <2>1 DEF ring
    <2>3. /\ IInv' /\ NothingDamaged' /\ DueIsPending' /\ ShowsWhatWasPrinted'
          /\ Pending' = Pending /\ DueIsChained'
      BY <2>1, <2>2, RingStays
    <2>4. LogTypes' /\ Backlog'
      BY <2>1, <2>3 DEF LogInv, LogTypes, Backlog, LeftOver, Room
    <2>5. QED
      BY <2>3, <2>4 DEF LogInv
  <1>10. QED
    BY <1>1, <1>2, <1>3, <1>4, <1>5, <1>6, <1>7, <1>8, <1>9 DEF Next

-------------------------------------------------------------------------------
(* What holds between the steps of the main loop as long as a turn fits.    *)
THEOREM LogInvariance == ASSUME TurnFits PROVE Spec => []LogInv
  <1>1. LogInv /\ [Next]_vars => LogInv'
    BY NextLogInv
  <1>2. QED
    BY <1>1, InitLogInv, PTL DEF Spec

(* As long as a turn fits, the word store of console_string_buf_write       *)
(* never zeroes a byte that was not shown yet, for every ring and screen.   *)
THEOREM NothingIsDamaged == ASSUME TurnFits PROVE Spec => []NothingDamaged
  <1>1. LogInv => NothingDamaged
    BY DEF LogInv
  <1>2. QED
    BY <1>1, LogInvariance, PTL

(* As long as a turn fits, what is shown is what was printed, in its order *)
(* and without its colors, for every set of messages.                      *)
THEOREM AllIsShown == ASSUME TurnFits PROVE Spec => []ShowsWhatWasPrinted
  <1>1. LogInv => ShowsWhatWasPrinted
    BY DEF LogInv
  <1>2. QED
    BY <1>1, LogInvariance, PTL

(* The loop over a color, which never asks, is never at an empty ring.      *)
THEOREM SkipHasMore == ASSUME TurnFits PROVE Spec => [](pc = "skip" => ~FIFO_EMPTY(rd, wr))
  <1>1. LogInv => (pc = "skip" => ~FIFO_EMPTY(rd, wr))
    <2>1. ASSUME LogInv, pc = "skip" PROVE due # <<>>
      BY <2>1 DEF LogInv, DueIsChained, Chained
    <2>2. QED
      BY <2>1, DueIsInTheRing
  <1>2. QED
    BY <1>1, LogInvariance, PTL

===============================================================================
