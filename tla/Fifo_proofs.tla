----------------------------- MODULE Fifo_proofs -----------------------------
(***************************************************************************)
(* Proofs about Fifo for every ring size N >= 2 and every set of elements. *)
(***************************************************************************)
EXTENDS Fifo, SequenceTheorems, TLAPS

-------------------------------------------------------------------------------
(* The inductive invariant.  The properties alone are not inductive: they  *)
(* say nothing of what a copy in progress has already stored, of the room  *)
(* its caller checked, or of what the reader has copied so far.            *)

Free(r) == fifo_get_free_space(r, wr)

WriterOne ==
  /\ ppc = "idle" => todo = <<>>
  /\ ppc \in {"store", "check", "advance"} => Len(todo) = 1
  /\ ppc \in {"check", "advance"} => buf[wr] = todo[1]
  /\ ppc = "advance" => ~FIFO_FULL(rd, wr)

WriterMore ==
  /\ ppc = "more" => todo # <<>> /\ Len(todo) <= Free(rd)
  /\ UsingSnapshot => Len(todo) <= Free(snap) /\ Free(snap) <= Free(rd)
  /\ ppc = "first" => todo # <<>>
  /\ ppc = "publish1" => /\ todo # <<>>
                         /\ snap <= wr
                         /\ \A i \in 1..First : buf[wr + i - 1] = todo[i]
  /\ ppc = "second" => todo = <<>> \/ snap > wr
  /\ ppc = "publish2" => /\ todo # <<>>
                         /\ snap > wr
                         /\ \A i \in 1..Second : buf[wr + i - 1] = todo[i]
  /\ ppc = "return" => todo = <<>>

ReaderInv ==
  /\ cpc = "idle" => held = <<>>
  /\ cpc # "idle" => /\ want \in 1..fifo_get_read_size_cont(rd, wr)
                     /\ Len(held) <= want
                     /\ \A i \in 1..Len(held) : held[i] = buf[rd + i - 1]
  /\ cpc = "one" => want = 1

IInv == TypeOK /\ WriterOne /\ WriterMore /\ ReaderInv

-------------------------------------------------------------------------------
(* Facts about the pure operators. *)

(* Advance goes round the end of the ring at most once. *)
LEMMA AdvanceOnce ==
  ASSUME NEW i \in Slot, NEW n \in 0..N
  PROVE  /\ Advance(i, n) = IF i + n < N THEN i + n ELSE i + n - N
         /\ Advance(i, n) \in Slot
  BY NAssumption DEF Advance, Slot

(* Full means no free space; the two indices always leave one slot unused. *)
LEMMA FullIsNoSpace ==
  ASSUME NEW r \in Slot, NEW w \in Slot
  PROVE  /\ FIFO_FULL(r, w) <=> fifo_get_free_space(r, w) = 0
         /\ fifo_get_free_space(r, w) \in 0..N-1
         /\ fifo_get_available(r, w) \in 0..N-1
  <1>1. (w + 1) % N = IF w + 1 < N THEN w + 1 ELSE w + 1 - N
    BY NAssumption DEF Slot
  <1>2. QED
    BY <1>1, NAssumption DEF Slot, FIFO_FULL, fifo_get_free_space, fifo_get_available

(* The writer's index moving on by n consumes exactly n of the free space; *)
(* the reader's index moving on by n creates exactly n.                    *)
LEMMA SpaceMoves ==
  ASSUME NEW r \in Slot, NEW w \in Slot, NEW n \in Nat
  PROVE  /\ n <= fifo_get_free_space(r, w) =>
              fifo_get_available(r, Advance(w, n)) = fifo_get_available(r, w) + n
         /\ n <= fifo_get_available(r, w) =>
              fifo_get_available(Advance(r, n), w) = fifo_get_available(r, w) - n
  <1>1. ASSUME n <= N PROVE Advance(w, n) = IF w + n < N THEN w + n ELSE w + n - N
    BY <1>1, AdvanceOnce
  <1>2. ASSUME n <= N PROVE Advance(r, n) = IF r + n < N THEN r + n ELSE r + n - N
    BY <1>2, AdvanceOnce
  <1>3. QED
    BY <1>1, <1>2, NAssumption DEF Slot, fifo_get_free_space, fifo_get_available

(* The contiguous run the reader may take never shrinks while the writer   *)
(* moves within the free space.                                            *)
LEMMA SpanGrows ==
  ASSUME NEW r \in Slot, NEW w \in Slot,
         NEW n \in Nat, n <= fifo_get_free_space(r, w)
  PROVE  fifo_get_read_size_cont(r, w) <= fifo_get_read_size_cont(r, Advance(w, n))
  <1>1. n <= N
    BY FullIsNoSpace, NAssumption
  <1>2. Advance(w, n) = IF w + n < N THEN w + n ELSE w + n - N
    BY <1>1, AdvanceOnce
  <1>3. QED
    BY <1>2, NAssumption
    DEF Slot, fifo_get_read_size_cont, fifo_get_free_space, fifo_get_available

(* No slot of that run is free. *)
LEMMA SpanInRing ==
  ASSUME NEW r \in Slot, NEW w \in Slot, NEW i \in 1..fifo_get_read_size_cont(r, w)
  PROVE  /\ r + i - 1 \in Slot
         /\ \A n \in Nat : /\ n < fifo_get_free_space(r, w)
                          /\ w + n < N
                          => r + i - 1 # w + n
         /\ r + i - 1 # w
         /\ fifo_get_read_size_cont(r, w) \in 0..N-1
         /\ fifo_get_read_size_cont(r, w) <= fifo_get_available(r, w)
  BY NAssumption DEF Slot, fifo_get_read_size_cont, fifo_get_free_space, fifo_get_available

(* The two blocks of fifo_write_more stay inside the memory and the room. *)
LEMMA BlocksFit ==
  ASSUME NEW r \in Slot, NEW w \in Slot,
         NEW c \in Nat, 0 < c, c <= fifo_get_free_space(r, w)
  PROVE  /\ w >= r => /\ FirstBlock(c, r, w) \in 1..c
                      /\ w + FirstBlock(c, r, w) <= N
                      /\ FirstBlock(c, r, w) < c => r > Advance(w, FirstBlock(c, r, w))
         /\ r > w => SecondBlock(c, r, w) = c
  <1>1. FirstBlock(c, r, w) \in 0..N => Advance(w, FirstBlock(c, r, w)) = 
          IF w + FirstBlock(c, r, w) < N THEN w + FirstBlock(c, r, w) 
          ELSE w + FirstBlock(c, r, w) - N
    BY AdvanceOnce
  <1>2. QED
    BY <1>1, NAssumption DEF Slot, FirstBlock, SecondBlock, Smaller, 
       fifo_get_free_space, fifo_get_available

-------------------------------------------------------------------------------
(* Type correctness and the inductive invariant. *)

LEMMA InitIInv == Init => IInv
  BY NAssumption DEF Init, IInv, TypeOK, WriterOne, WriterMore, ReaderInv, Slot,
     UsingSnapshot

(* The steps of a single write. *)
LEMMA WriteOneStep ==
  IInv /\ (WriteOne \/ StoreOne \/ WriteDoneFull \/ WriteDoneCheck \/ WriteDone) => IInv'
  <1> SUFFICES ASSUME IInv PROVE
        WriteOne \/ StoreOne \/ WriteDoneFull \/ WriteDoneCheck \/ WriteDone => IInv'
    OBVIOUS
  <1> USE NAssumption DEF IInv, TypeOK, WriterOne, WriterMore, ReaderInv, UsingSnapshot
  <1>1. CASE WriteOne
    BY <1>1 DEF WriteOne
  <1>2. CASE StoreOne
    <2> USE <1>2 DEF StoreOne
    <2>1. Len(todo) = 1 /\ todo \in Seq(Elem)
      OBVIOUS
    <2>a. todo[1] \in Elem
      BY ONLY <2>1
    <2>b. buf' \in [Slot -> Elem] /\ buf'[wr] = todo[1]
      BY <2>a
    <2>2. cpc # "idle" => \A i \in 1..Len(held) : held[i] = buf'[rd + i - 1]
      <3> SUFFICES ASSUME cpc # "idle", NEW i \in 1..Len(held)
                   PROVE  held[i] = buf'[rd + i - 1]
        OBVIOUS
      <3>1. i \in 1..fifo_get_read_size_cont(rd, wr)
        BY SpanInRing
      <3>2. rd + i - 1 # wr /\ rd + i - 1 \in Slot
        BY <3>1, SpanInRing
      <3>3. QED
        BY <3>2
    <2>3. TypeOK'
      BY <2>b
    <2>4. WriterOne' /\ WriterMore'
      BY <2>b
    <2>5. ReaderInv'
      BY <2>2
    <2>6. QED
      BY <2>3, <2>4, <2>5
  <1>3. CASE WriteDoneFull
    BY <1>3 DEF WriteDoneFull
  <1>4. CASE WriteDoneCheck
    BY <1>4 DEF WriteDoneCheck
  <1>5. CASE WriteDone
    <2>1. wr' \in Slot
      BY <1>5, AdvanceOnce DEF WriteDone
    <2>a. rd \in Slot /\ wr \in Slot /\ ~FIFO_FULL(rd, wr)
      BY <1>5 DEF WriteDone
    <2>2. 1 <= fifo_get_free_space(rd, wr)
      BY ONLY <2>a, FullIsNoSpace, NAssumption
    <2>3. cpc # "idle" => want \in 1..fifo_get_read_size_cont(rd, wr')
      <3>1. fifo_get_read_size_cont(rd, wr) <= fifo_get_read_size_cont(rd, wr')
        BY <1>5, <2>2, SpanGrows DEF WriteDone
      <3>2. cpc # "idle" => want \in Nat /\ 1 <= want /\ want <= fifo_get_read_size_cont(rd, wr)
        BY <2>a DEF fifo_get_read_size_cont, Slot
      <3>3. fifo_get_read_size_cont(rd, wr) \in Int /\ fifo_get_read_size_cont(rd, wr') \in Int
        BY <2>a, <2>1 DEF fifo_get_read_size_cont, Slot
      <3>4. QED
        BY ONLY <3>1, <3>2, <3>3
    <2>4. QED
      BY <1>5, <2>1, <2>3 DEF WriteDone
  <1>6. QED
    BY <1>1, <1>2, <1>3, <1>4, <1>5

(* The steps of fifo_write_more before its first block and after its last. *)
LEMMA WriteMoreStep ==
  IInv /\ (WriteMore \/ MoreSnapshot \/ MoreSkipFirst \/ MoreSkipSecond \/ MoreReturn)
  => IInv'
  <1> SUFFICES ASSUME IInv PROVE
        WriteMore \/ MoreSnapshot \/ MoreSkipFirst \/ MoreSkipSecond \/ MoreReturn => IInv'
    OBVIOUS
  <1> USE NAssumption DEF IInv, TypeOK, WriterOne, WriterMore, ReaderInv, UsingSnapshot
  <1>1. CASE WriteMore
    <2> PICK n \in 1..fifo_get_free_space(rd, wr) : todo' \in [1..n -> Elem]
      BY <1>1 DEF WriteMore
    <2>1. n \in Nat /\ n # 0 /\ n <= fifo_get_free_space(rd, wr)
      OBVIOUS
    <2>2. todo' \in Seq(Elem) /\ Len(todo') = n
      BY ONLY <2>1, todo' \in [1..n -> Elem]
    <2>3. QED
      BY <1>1, <2>1, <2>2 DEF WriteMore, Free
  <1>2. CASE MoreSnapshot
    <2>1. Free(rd) \in Int
      BY FullIsNoSpace DEF Free
    <2>2. QED
      BY <1>2, <2>1 DEF MoreSnapshot, Free
  <1>3. CASE MoreSkipFirst
    BY <1>3 DEF MoreSkipFirst, Free, Slot
  <1>4. CASE MoreSkipSecond
    BY <1>4 DEF MoreSkipSecond, Free, Slot
  <1>5. CASE MoreReturn
    BY <1>5 DEF MoreReturn
  <1>6. QED
    BY <1>1, <1>2, <1>3, <1>4, <1>5

(* A block copied to the slots from wr on, c of them all free, leaves the  *)
(* reader's run alone.                                                     *)
LEMMA CopyKeepsSpan ==
  ASSUME TypeOK, NEW c \in Nat, c <= fifo_get_free_space(rd, wr), wr + c <= N,
         NEW i \in 1..fifo_get_read_size_cont(rd, wr)
  PROVE  Memcpy(buf, wr, todo, c)[rd + i - 1] = buf[rd + i - 1]
  <1>1. rd + i - 1 \in Slot
    BY SpanInRing DEF TypeOK
  <1>2. ~(rd + i - 1 >= wr /\ rd + i - 1 < wr + c)
    BY NAssumption DEF TypeOK, Slot, fifo_get_read_size_cont, fifo_get_free_space,
       fifo_get_available
  <1>3. QED
    BY <1>1, <1>2 DEF Memcpy

(* What a copied block holds. *)
LEMMA CopyStores ==
  ASSUME TypeOK, NEW c \in Nat, c <= Len(todo), wr + c <= N
  PROVE  /\ Memcpy(buf, wr, todo, c) \in [Slot -> Elem]
         /\ \A i \in 1..c : Memcpy(buf, wr, todo, c)[wr + i - 1] = todo[i]
  <1> wr \in Nat /\ todo \in Seq(Elem) /\ Len(todo) \in Nat /\ buf \in [Slot -> Elem]
    BY DEF TypeOK, Slot
  <1>1. ASSUME NEW i \in Slot, i >= wr, i < wr + c
        PROVE  todo[i - wr + 1] \in Elem
    <2>1. i - wr + 1 \in 1..Len(todo)
      BY <1>1 DEF Slot
    <2>2. QED
      BY ONLY <2>1, todo \in Seq(Elem)
  <1>2. Memcpy(buf, wr, todo, c) \in [Slot -> Elem]
    BY <1>1 DEF Memcpy
  <1>3. ASSUME NEW i \in 1..c
        PROVE  Memcpy(buf, wr, todo, c)[wr + i - 1] = todo[i]
    <2>1. /\ wr + i - 1 \in Slot /\ wr + i - 1 >= wr /\ wr + i - 1 < wr + c
          /\ wr + i - 1 - wr + 1 = i
      BY NAssumption DEF Slot
    <2>2. QED
      BY <2>1 DEF Memcpy
  <1>4. QED
    BY <1>2, <1>3

(* What is left of the argument after a block of c elements. *)
LEMMA Remainder ==
  ASSUME NEW s \in Seq(Elem), NEW c \in 0..Len(s)
  PROVE  /\ SubSeq(s, c + 1, Len(s)) \in Seq(Elem)
         /\ Len(SubSeq(s, c + 1, Len(s))) = Len(s) - c
         /\ c = Len(s) => SubSeq(s, c + 1, Len(s)) = <<>>
  OBVIOUS

(* The blocks about to be copied stay inside the memory and the room. *)
LEMMA CopyBounds ==
  ASSUME IInv
  PROVE  /\ MoreCopyFirst =>  /\ First \in 1..Len(todo) /\ First \in Nat
                              /\ wr + First <= N
                              /\ First <= fifo_get_free_space(rd, wr)
         /\ MoreCopySecond => /\ Second = Len(todo) /\ snap > wr /\ Second \in Nat
                              /\ wr + Second <= N
                              /\ Second <= fifo_get_free_space(rd, wr)
  <1>t. TypeOK /\ wr \in Slot /\ rd \in Slot /\ snap \in Slot /\ todo \in Seq(Elem)
        /\ Len(todo) \in Nat
    BY DEF IInv, TypeOK
  <1>f. /\ fifo_get_free_space(rd, wr) \in 0..N-1
        /\ fifo_get_free_space(snap, wr) \in 0..N-1
    BY <1>t, FullIsNoSpace
  <1>u. UsingSnapshot => Len(todo) <= fifo_get_free_space(rd, wr)
    BY <1>t, <1>f, NAssumption DEF IInv, WriterMore, Free
  <1>1. ASSUME MoreCopyFirst
        PROVE  /\ First \in 1..Len(todo) /\ First \in Nat
               /\ wr + First <= N
               /\ First <= fifo_get_free_space(rd, wr)
    <2>1. 0 < Len(todo) /\ Len(todo) <= fifo_get_free_space(snap, wr) /\ wr >= snap
      BY <1>1, <1>t DEF IInv, WriterMore, MoreCopyFirst, MoreCopy, UsingSnapshot, Free
    <2>2. First \in 1..Len(todo) /\ wr + First <= N
      BY <2>1, <1>t, BlocksFit DEF First
    <2>3. QED
      BY <2>2, <1>t, <1>f, <1>u, <1>1, NAssumption DEF UsingSnapshot, MoreCopyFirst, MoreCopy
  <1>2. ASSUME MoreCopySecond
        PROVE  /\ Second = Len(todo) /\ snap > wr /\ Second \in Nat
               /\ wr + Second <= N
               /\ Second <= fifo_get_free_space(rd, wr)
    <2>1. 0 < Len(todo) /\ Len(todo) <= fifo_get_free_space(snap, wr) /\ snap > wr
      BY <1>2, <1>t DEF IInv, WriterMore, MoreCopySecond, MoreCopy, UsingSnapshot, Free, Slot
    <2>2. Second = Len(todo)
      BY <2>1, <1>t, BlocksFit DEF Second
    <2>3. wr + Len(todo) <= N
      BY <2>1, <1>t, NAssumption DEF Slot, fifo_get_free_space, fifo_get_available
    <2>4. QED
      BY <2>1, <2>2, <2>3, <1>t, <1>u, <1>2 DEF UsingSnapshot, MoreCopySecond, MoreCopy
  <1>3. QED
    BY <1>1, <1>2

(* The steps of the two blocks. *)
LEMMA BlockStep ==
  IInv /\ (MoreCopyFirst \/ MorePublishFirst \/ MoreCopySecond \/ MorePublishSecond) => IInv'
  <1> SUFFICES ASSUME IInv PROVE
        MoreCopyFirst \/ MorePublishFirst \/ MoreCopySecond \/ MorePublishSecond => IInv'
    OBVIOUS
  <1>t. TypeOK /\ wr \in Slot /\ rd \in Slot /\ snap \in Slot /\ todo \in Seq(Elem)
        /\ Len(todo) \in Nat
    BY DEF IInv, TypeOK
  <1>f. /\ fifo_get_free_space(rd, wr) \in 0..N-1
        /\ fifo_get_free_space(snap, wr) \in 0..N-1
    BY <1>t, FullIsNoSpace
  <1>u. UsingSnapshot => Len(todo) <= fifo_get_free_space(rd, wr)
    BY <1>t, <1>f, NAssumption DEF IInv, WriterMore, Free
  <1>1. CASE MoreCopyFirst
    <2>1. /\ First \in 1..Len(todo) /\ wr + First <= N
          /\ First \in Nat /\ First <= fifo_get_free_space(rd, wr)
      BY <1>1, CopyBounds
    <2> DEFINE b == Memcpy(buf, wr, todo, First)
    <2>2. b \in [Slot -> Elem] /\ \A i \in 1..First : b[wr + i - 1] = todo[i]
      BY <1>t, <2>1, CopyStores
    <2>3. \A i \in 1..fifo_get_read_size_cont(rd, wr) : b[rd + i - 1] = buf[rd + i - 1]
      BY <1>t, <2>1, CopyKeepsSpan
    <2>4. buf' = b /\ First' = First
      BY <1>1 DEF MoreCopyFirst, MoreCopy, First
    <2> HIDE DEF b
    <2>5. ReaderInv'
      <3>1. cpc # "idle" => \A i \in 1..Len(held) : i \in 1..fifo_get_read_size_cont(rd, wr)
        BY <1>t, SpanInRing DEF IInv, ReaderInv, TypeOK, fifo_get_read_size_cont, Slot
      <3>2. QED
        BY <1>1, <2>3, <2>4, <3>1 DEF IInv, ReaderInv, MoreCopyFirst, MoreCopy
    <2>6. TypeOK'
      BY <1>1, <2>2, <2>4 DEF IInv, TypeOK, MoreCopyFirst, MoreCopy
    <2>7. WriterOne' /\ WriterMore'
      BY <1>1, <2>2, <2>4 DEF IInv, WriterOne, WriterMore, MoreCopyFirst, MoreCopy,
         UsingSnapshot, Free
    <2>8. QED
      BY <2>5, <2>6, <2>7 DEF IInv
  <1>2. CASE MoreCopySecond
    <2>1. /\ Second = Len(todo) /\ snap > wr /\ wr + Second <= N
          /\ Second \in Nat /\ Second <= fifo_get_free_space(rd, wr)
      BY <1>2, CopyBounds
    <2> DEFINE b == Memcpy(buf, wr, todo, Second)
    <2>2. b \in [Slot -> Elem] /\ \A i \in 1..Second : b[wr + i - 1] = todo[i]
      BY <1>t, <2>1, CopyStores
    <2>3. \A i \in 1..fifo_get_read_size_cont(rd, wr) : b[rd + i - 1] = buf[rd + i - 1]
      BY <1>t, <2>1, CopyKeepsSpan
    <2>4. buf' = b /\ Second' = Second
      BY <1>2 DEF MoreCopySecond, MoreCopy, Second
    <2> HIDE DEF b
    <2>5. ReaderInv'
      <3>1. cpc # "idle" => \A i \in 1..Len(held) : i \in 1..fifo_get_read_size_cont(rd, wr)
        BY <1>t, SpanInRing DEF IInv, ReaderInv, TypeOK, fifo_get_read_size_cont, Slot
      <3>2. QED
        BY <1>2, <2>3, <2>4, <3>1 DEF IInv, ReaderInv, MoreCopySecond, MoreCopy
    <2>6. TypeOK'
      BY <1>2, <2>2, <2>4 DEF IInv, TypeOK, MoreCopySecond, MoreCopy
    <2>7. WriterOne' /\ WriterMore'
      BY <1>2, <2>1, <2>2, <2>4 DEF IInv, WriterOne, WriterMore, MoreCopySecond, MoreCopy,
         UsingSnapshot, Free
    <2>8. QED
      BY <2>5, <2>6, <2>7 DEF IInv
  <1>3. ASSUME NEW c \in 1..Len(todo), UsingSnapshot,
               wr' = Advance(wr, c), todo' = SubSeq(todo, c + 1, Len(todo)),
               ppc' \in {"second", "return"},
               ppc' = "second" => todo' = <<>> \/ snap > wr',
               ppc' = "return" => todo' = <<>>,
               UNCHANGED <<rd, buf, snap, cpc, want, held, got>>
        PROVE  IInv'
    <2>1. c \in Nat /\ c <= fifo_get_free_space(rd, wr) /\ c <= fifo_get_free_space(snap, wr)
          /\ c <= N
      BY <1>3, <1>t, <1>f, <1>u, NAssumption DEF IInv, WriterMore, Free
    <2>2. wr' \in Slot
      BY <1>3, <1>t, <2>1, AdvanceOnce
    <2>3. /\ fifo_get_free_space(rd, wr') = fifo_get_free_space(rd, wr) - c
          /\ fifo_get_free_space(snap, wr') = fifo_get_free_space(snap, wr) - c
      <3>1. /\ fifo_get_available(rd, wr') = fifo_get_available(rd, wr) + c
            /\ fifo_get_available(snap, wr') = fifo_get_available(snap, wr) + c
        BY <1>3, <1>t, <2>1, SpaceMoves
      <3>2. /\ fifo_get_available(rd, wr) \in 0..N-1
            /\ fifo_get_available(snap, wr) \in 0..N-1
        BY <1>t, FullIsNoSpace
      <3>3. QED
        BY <3>1, <3>2, NAssumption DEF fifo_get_free_space
    <2>4. todo' \in Seq(Elem) /\ Len(todo') = Len(todo) - c
      BY <1>3, <1>t, Remainder
    <2>5. TypeOK'
      BY <1>3, <2>2, <2>4 DEF IInv, TypeOK
    <2>6. WriterOne'
      BY <1>3 DEF WriterOne
    <2>7. WriterMore'
      BY <1>3, <1>t, <1>f, <2>1, <2>3, <2>4, NAssumption
      DEF IInv, WriterMore, UsingSnapshot, Free
    <2>8. ReaderInv'
      <3>1. fifo_get_read_size_cont(rd, wr) <= fifo_get_read_size_cont(rd, wr')
        BY <1>3, <1>t, <2>1, SpanGrows
      <3>2. /\ fifo_get_read_size_cont(rd, wr) \in Int
            /\ fifo_get_read_size_cont(rd, wr') \in Int
        BY <1>t, <2>2, NAssumption DEF fifo_get_read_size_cont, Slot
      <3>3. cpc # "idle" => want \in 1..fifo_get_read_size_cont(rd, wr')
        BY <3>1, <3>2 DEF IInv, ReaderInv
      <3>4. QED
        BY <1>3, <3>3 DEF IInv, ReaderInv
    <2>9. QED
      BY <2>5, <2>6, <2>7, <2>8 DEF IInv
  <1>4. CASE MorePublishFirst
    <2>1. 0 < Len(todo) /\ Len(todo) <= fifo_get_free_space(snap, wr) /\ wr >= snap
          /\ UsingSnapshot
      BY <1>4, <1>t DEF IInv, WriterMore, MorePublishFirst, MorePublish, UsingSnapshot, Free,
         Slot
    <2>2. First \in 1..Len(todo) /\ (First < Len(todo) => snap > Advance(wr, First))
      BY <2>1, <1>t, BlocksFit DEF First
    <2>3. First = Len(todo) => SubSeq(todo, First + 1, Len(todo)) = <<>>
      BY <2>2, <1>t, Remainder
    <2>4. QED
      BY <1>3, <1>4, <1>t, <2>1, <2>2, <2>3 DEF MorePublishFirst, MorePublish
  <1>5. CASE MorePublishSecond
    <2>1. 0 < Len(todo) /\ Len(todo) <= fifo_get_free_space(snap, wr) /\ snap > wr
          /\ UsingSnapshot
      BY <1>5, <1>t DEF IInv, WriterMore, MorePublishSecond, MorePublish, UsingSnapshot, Free
    <2>2. Second = Len(todo)
      BY <2>1, <1>t, BlocksFit DEF Second
    <2>3. SubSeq(todo, Second + 1, Len(todo)) = <<>>
      BY <2>1, <2>2, <1>t, Remainder
    <2>4. QED
      BY <1>3, <1>5, <1>t, <2>1, <2>2, <2>3 DEF MorePublishSecond, MorePublish
  <1>6. QED
    BY <1>1, <1>2, <1>4, <1>5

(* The reader's index moving on by n <= the run it was given. *)
LEMMA Release ==
  ASSUME IInv, NEW n \in 1..fifo_get_read_size_cont(rd, wr),
         cpc # "idle",
         rd' = Advance(rd, n), got' = held, held' = <<>>, cpc' = "idle",
         UNCHANGED <<wr, buf, ppc, todo, snap, want>>
  PROVE  IInv'
  <1>t. rd \in Slot /\ wr \in Slot /\ snap \in Slot /\ Len(todo) \in Nat
    BY DEF IInv, TypeOK
  <1>1. n \in Nat /\ n <= N /\ n <= fifo_get_available(rd, wr)
    <2>1. /\ fifo_get_read_size_cont(rd, wr) \in 0..N-1
          /\ fifo_get_read_size_cont(rd, wr) <= fifo_get_available(rd, wr)
      BY <1>t, SpanInRing
    <2>2. fifo_get_available(rd, wr) \in 0..N-1
      BY <1>t, FullIsNoSpace
    <2>3. QED
      BY ONLY <2>1, <2>2, NAssumption, n \in 1..fifo_get_read_size_cont(rd, wr)
  <1>2. rd' \in Slot
    BY <1>t, <1>1, AdvanceOnce
  <1>3. fifo_get_free_space(rd', wr) = fifo_get_free_space(rd, wr) + n
        /\ fifo_get_free_space(rd, wr) \in 0..N-1
        /\ fifo_get_free_space(snap, wr) \in 0..N-1
    <2>1. fifo_get_available(rd', wr) = fifo_get_available(rd, wr) - n
      BY <1>1, <1>t, SpaceMoves
    <2>2. /\ fifo_get_available(rd, wr) \in 0..N-1
          /\ fifo_get_available(snap, wr) \in 0..N-1
      BY <1>t, FullIsNoSpace
    <2>3. QED
      BY ONLY <2>1, <2>2, <1>1, NAssumption DEF fifo_get_free_space
  <1>4. TypeOK'
    BY <1>2 DEF IInv, TypeOK
  <1>5. WriterOne'
    <2>1. ~FIFO_FULL(rd', wr)
      BY <1>2, <1>3, <1>t, <1>1, FullIsNoSpace, NAssumption
    <2>2. QED
      BY <2>1 DEF IInv, WriterOne
  <1>6. WriterMore'
    BY <1>3, <1>1, <1>t, NAssumption DEF IInv, WriterMore, Free, UsingSnapshot, First, Second
  <1>7. ReaderInv'
    BY DEF ReaderInv
  <1>8. QED
    BY <1>4, <1>5, <1>6, <1>7 DEF IInv

LEMMA ReaderStep == IInv /\ Reader => IInv'
  <1> SUFFICES ASSUME IInv PROVE Reader => IInv'
    OBVIOUS
  <1>t. /\ rd \in Slot /\ wr \in Slot /\ held \in Seq(Elem) /\ Len(held) \in Nat
        /\ buf \in [Slot -> Elem]
    BY DEF IInv, TypeOK
  <1>s. fifo_get_read_size_cont(rd, wr) \in 0..N-1
    BY <1>t, NAssumption DEF fifo_get_read_size_cont, Slot
  <1>1. CASE ReadOne
    <2>1. 1 \in 1..fifo_get_read_size_cont(rd, wr)
      BY <1>1, <1>t, NAssumption DEF ReadOne, FIFO_EMPTY, fifo_get_read_size_cont, Slot
    <2>2. ReaderInv'
      BY <1>1, <2>1 DEF ReadOne, IInv, ReaderInv
    <2>3. TypeOK' /\ WriterOne' /\ WriterMore'
      BY <1>1, NAssumption DEF ReadOne, IInv, TypeOK, WriterOne, WriterMore, UsingSnapshot,
         Free, First, Second
    <2>4. QED
      BY <2>2, <2>3 DEF IInv
  <1>2. CASE ReadMany
    <2>1. ReaderInv'
      BY <1>2 DEF ReadMany, IInv, ReaderInv
    <2>2. TypeOK'
      BY <1>2, <1>s, NAssumption DEF ReadMany, IInv, TypeOK
    <2>3. WriterOne' /\ WriterMore'
      BY <1>2 DEF ReadMany, IInv, WriterOne, WriterMore, UsingSnapshot, Free, First, Second
    <2>4. QED
      BY <2>1, <2>2, <2>3 DEF IInv
  <1>3. CASE CopyOut
    <2>1. /\ want \in 1..fifo_get_read_size_cont(rd, wr) /\ Len(held) < want
      BY <1>3 DEF CopyOut, IInv, ReaderInv
    <2>2. rd + Len(held) \in Slot
      BY <2>1, <1>t, <1>s, NAssumption DEF fifo_get_read_size_cont, Slot
    <2>3. /\ held' \in Seq(Elem) /\ Len(held') = Len(held) + 1
          /\ \A i \in 1..Len(held) : held'[i] = held[i]
          /\ held'[Len(held) + 1] = buf[rd + Len(held)]
      BY <1>3, <2>2, <1>t DEF CopyOut
    <2>4. \A i \in 1..Len(held') : held'[i] = buf[rd + i - 1]
      <3> SUFFICES ASSUME NEW i \in 1..Len(held') PROVE held'[i] = buf[rd + i - 1]
        OBVIOUS
      <3>1. CASE i \in 1..Len(held)
        BY <3>1, <2>3, <1>3 DEF CopyOut, IInv, ReaderInv
      <3>2. CASE i = Len(held) + 1
        <4>1. rd + i - 1 = rd + Len(held)
          BY <3>2, <1>t DEF Slot
        <4>2. QED
          BY <4>1, <3>2, <2>3
      <3>3. QED
        BY <3>1, <3>2, <2>3, <1>t
    <2>5. ReaderInv'
      BY <1>3, <2>1, <2>3, <2>4, <1>t, <1>s DEF CopyOut, IInv, ReaderInv
    <2>6. TypeOK' /\ WriterOne' /\ WriterMore'
      BY <1>3, <2>3 DEF CopyOut, IInv, TypeOK, WriterOne, WriterMore, UsingSnapshot, Free,
         First, Second
    <2>7. QED
      BY <2>5, <2>6 DEF IInv
  <1>4. CASE ReadDone
    <2>1. 1 \in 1..fifo_get_read_size_cont(rd, wr)
      BY <1>4, <1>t, NAssumption DEF ReadDone, FIFO_EMPTY, fifo_get_read_size_cont, Slot
    <2>2. QED
      BY <1>4, <2>1, Release DEF ReadDone
  <1>5. CASE ReadDoneSize
    BY <1>5, Release DEF ReadDoneSize, IInv, ReaderInv
  <1>6. QED
    BY <1>1, <1>2, <1>3, <1>4, <1>5 DEF Reader

LEMMA ResetStep == IInv /\ Reset => IInv'
  BY NAssumption DEF IInv, TypeOK, WriterOne, WriterMore, ReaderInv, Reset, UsingSnapshot, Slot

LEMMA StutterStep == IInv /\ UNCHANGED vars => IInv'
  BY DEF IInv, TypeOK, WriterOne, WriterMore, ReaderInv, UsingSnapshot, vars, Free, First,
     Second

LEMMA NextIInv == IInv /\ [Next]_vars => IInv'
  BY WriteOneStep, WriteMoreStep, BlockStep, ReaderStep, ResetStep, StutterStep
  DEF Next, Writer

THEOREM Invariance == Spec => []IInv
  BY InitIInv, NextIInv, PTL DEF Spec

(* The indices never leave the ring and the locals keep their ranges,      *)
(* whatever the size of the ring and however the two sides interleave.     *)
THEOREM TypeCorrect == Spec => []TypeOK
  <1>1. IInv => TypeOK
    BY DEF IInv
  <1>2. QED
    BY <1>1, Invariance, PTL

(* fifo_write_more writes everything its caller was told would fit.        *)
THEOREM NothingLeftOver == Spec => []MoreWritesAll
  <1>1. IInv => MoreWritesAll
    BY DEF IInv, WriterMore, MoreWritesAll
  <1>2. QED
    BY <1>1, Invariance, PTL

(* Room computed from a stale reader's index is never overestimated.       *)
THEOREM StaleRoomIsSafe == Spec => []StaleIsSafe
  <1>1. IInv => StaleIsSafe
    BY DEF IInv, WriterMore, StaleIsSafe, Free
  <1>2. QED
    BY <1>1, Invariance, PTL

-------------------------------------------------------------------------------
(* What the reader copies from. *)

LEMMA StoresMissTheSpan ==
  ASSUME IInv, NEW s \in Reading
  PROVE  /\ StoreOne => buf'[s] = buf[s]
         /\ MoreCopyFirst => buf'[s] = buf[s]
         /\ MoreCopySecond => buf'[s] = buf[s]
  <1> DEFINE i == s - rd + 1
  <1>t. TypeOK /\ rd \in Slot /\ wr \in Slot
    BY DEF IInv, TypeOK
  <1>1. i \in 1..fifo_get_read_size_cont(rd, wr) /\ rd + i - 1 = s
    BY <1>t, NAssumption DEF Reading, IInv, ReaderInv, Slot, fifo_get_read_size_cont
  <1> HIDE DEF i
  <1>2. s \in Slot /\ s # wr
    BY <1>t, <1>1, SpanInRing
  <1>3. StoreOne => buf'[s] = buf[s]
    BY <1>2, <1>t DEF StoreOne, TypeOK
  <1>4. MoreCopyFirst => buf'[s] = buf[s]
    BY <1>1, <1>t, CopyBounds, CopyKeepsSpan DEF MoreCopyFirst, MoreCopy
  <1>5. MoreCopySecond => buf'[s] = buf[s]
    BY <1>1, <1>t, CopyBounds, CopyKeepsSpan DEF MoreCopySecond, MoreCopy
  <1>6. QED
    BY <1>3, <1>4, <1>5

(* No step changes a slot the reader is copying from, for any ring size.   *)
THEOREM ReadsAreStable == Spec => SpanStable
  <1>1. ASSUME IInv, [Next]_vars, NEW s \in Reading
        PROVE  buf'[s] = buf[s]
    <2>1. CASE StoreOne \/ MoreCopyFirst \/ MoreCopySecond
      BY <1>1, <2>1, StoresMissTheSpan
    <2>2. CASE UNCHANGED buf
      BY <2>2
    <2>3. QED
      BY <1>1, <2>1, <2>2
      DEF Next, Writer, Reader, WriteOne, WriteDoneFull, WriteDoneCheck, WriteDone, WriteMore,
          MoreSnapshot, MorePublishFirst, MorePublishSecond, MorePublish, MoreSkipFirst,
          MoreSkipSecond, MoreReturn, ReadOne, ReadMany, CopyOut, ReadDone, ReadDoneSize,
          Reset, vars
  <1>2. IInv /\ [Next]_vars => [\A s \in Reading : buf'[s] = buf[s]]_vars
    BY <1>1
  <1>3. QED
    BY <1>2, Invariance, PTL DEF Spec, SpanStable

-------------------------------------------------------------------------------
(* The ring implements the bounded queue. *)

LEMMA WindowIsSeq ==
  ASSUME NEW r \in Slot, NEW w \in Slot, NEW b \in [Slot -> Elem]
  PROVE  /\ Window(r, w, b) \in Seq(Elem)
         /\ Len(Window(r, w, b)) = fifo_get_available(r, w)
         /\ \A k \in 1..fifo_get_available(r, w) : Window(r, w, b)[k] = b[Advance(r, k - 1)]
         /\ fifo_get_available(r, w) \in Nat
  <1>1. fifo_get_available(r, w) \in 0..N-1
    BY FullIsNoSpace
  <1>2. ASSUME NEW k \in 1..fifo_get_available(r, w)
        PROVE  b[Advance(r, k - 1)] \in Elem
    <2>1. k - 1 \in 0..N
      BY <1>1, NAssumption
    <2>2. QED
      BY <2>1, AdvanceOnce
  <1>3. Window(r, w, b) \in [1..fifo_get_available(r, w) -> Elem]
    BY <1>2 DEF Window
  <1>4. fifo_get_available(r, w) \in Nat
    BY <1>1, NAssumption
  <1>5. Window(r, w, b) \in Seq(Elem) /\ Len(Window(r, w, b)) = fifo_get_available(r, w)
    BY ONLY <1>3, <1>4
  <1>6. QED
    BY <1>4, <1>5 DEF Window

(* Stores outside the window do not show. *)
LEMMA WindowKept ==
  ASSUME NEW r \in Slot, NEW w \in Slot, NEW b \in [Slot -> Elem], NEW c \in [Slot -> Elem],
         \A k \in 1..fifo_get_available(r, w) : b[Advance(r, k - 1)] = c[Advance(r, k - 1)]
  PROVE  Window(r, w, b) = Window(r, w, c)
  BY DEF Window

(* Publishing n stored slots appends them. *)
LEMMA WindowPut ==
  ASSUME NEW r \in Slot, NEW w \in Slot, NEW b \in [Slot -> Elem], NEW s \in Seq(Elem),
         NEW n \in 1..Len(s), n <= fifo_get_free_space(r, w), w + n <= N,
         \A i \in 1..n : b[w + i - 1] = s[i]
  PROVE  Window(r, Advance(w, n), b) = Window(r, w, b) \o SubSeq(s, 1, n)
  <1> DEFINE a == fifo_get_available(r, w)
             v == Window(r, Advance(w, n), b)
             u == Window(r, w, b)
             t == SubSeq(s, 1, n)
  <1>1. a \in 0..N-1 /\ n \in Nat /\ n <= N - a - 1
    BY FullIsNoSpace DEF fifo_get_free_space
  <1>2. n \in 0..N /\ Advance(w, n) \in Slot
    BY <1>1, AdvanceOnce, NAssumption
  <1>3. fifo_get_available(r, Advance(w, n)) = a + n
    BY <1>1, SpaceMoves
  <1>4. /\ v \in Seq(Elem) /\ Len(v) = a + n
        /\ \A k \in 1..a + n : v[k] = b[Advance(r, k - 1)]
        /\ u \in Seq(Elem) /\ Len(u) = a
        /\ \A k \in 1..a : u[k] = b[Advance(r, k - 1)]
    BY <1>2, <1>3, WindowIsSeq
  <1>5. t \in Seq(Elem) /\ Len(t) = n /\ \A i \in 1..n : t[i] = s[i]
    OBVIOUS
  <1>6. ASSUME NEW i \in 1..n PROVE Advance(r, a + i - 1) = w + i - 1
    <2>1. a + i - 1 \in 0..N /\ i \in Nat /\ i <= n
      BY <1>1, NAssumption
    <2>2. Advance(r, a + i - 1) =
            IF r + (a + i - 1) < N THEN r + (a + i - 1) ELSE r + (a + i - 1) - N
      BY <2>1, AdvanceOnce
    <2>3. QED
      BY <2>1, <2>2, NAssumption DEF fifo_get_available, Slot
  <1> HIDE DEF a, v, u, t
  <1>7. u \o t \in Seq(Elem) /\ Len(u \o t) = a + n
        /\ \A k \in 1..a + n : (u \o t)[k] = IF k <= a THEN u[k] ELSE t[k - a]
    BY <1>4, <1>5, ConcatProperties
  <1>8. ASSUME NEW k \in 1..a + n PROVE v[k] = (u \o t)[k]
    <2>1. CASE k <= a
      <3>1. k \in 1..a
        BY <2>1, <1>1
      <3>2. QED
        BY ONLY <3>1, <2>1, <1>4, <1>7, k \in 1..a + n
    <2>2. CASE k > a
      <3>1. k - a \in 1..n /\ a + (k - a) - 1 = k - 1 /\ ~(k <= a)
        BY <2>2, <1>1
      <3>2. Advance(r, k - 1) = w + (k - a) - 1
        <4>1. Advance(r, a + (k - a) - 1) = w + (k - a) - 1
          BY <3>1, <1>6
        <4>2. QED
          BY <3>1, <4>1
      <3>3. t[k - a] = b[w + (k - a) - 1]
        BY <3>1, <1>5
      <3>4. v[k] = b[w + (k - a) - 1]
        BY <3>2, <1>4
      <3>5. (u \o t)[k] = t[k - a]
        BY <3>1, <1>7
      <3>6. QED
        BY <3>3, <3>4, <3>5
    <2>3. k <= a \/ k > a
      BY ONLY <1>1, k \in 1..a + n, NAssumption
    <2>4. QED
      BY <2>1, <2>2, <2>3
  <1>9. v = u \o t
    BY <1>4, <1>7, <1>8, SeqEqual
  <1>10. QED
    BY <1>9 DEF u, v, t

(* Releasing n slots removes the n oldest. *)
LEMMA WindowTake ==
  ASSUME NEW r \in Slot, NEW w \in Slot, NEW b \in [Slot -> Elem],
         NEW n \in 1..fifo_get_available(r, w)
  PROVE  Window(Advance(r, n), w, b) = SubSeq(Window(r, w, b), n + 1, Len(Window(r, w, b)))
  <1> DEFINE a == fifo_get_available(r, w)
             v == Window(Advance(r, n), w, b)
             u == Window(r, w, b)
             t == SubSeq(u, n + 1, a)
  <1>1. a \in 0..N-1 /\ n \in Nat /\ n <= a /\ n \in 0..N
    BY FullIsNoSpace, NAssumption
  <1>2. Advance(r, n) \in Slot /\ Advance(r, n) = IF r + n < N THEN r + n ELSE r + n - N
    BY <1>1, AdvanceOnce
  <1>3. fifo_get_available(Advance(r, n), w) = a - n
    BY <1>1, SpaceMoves
  <1>4. /\ v \in Seq(Elem) /\ Len(v) = a - n
        /\ \A k \in 1..a - n : v[k] = b[Advance(Advance(r, n), k - 1)]
        /\ u \in Seq(Elem) /\ Len(u) = a
        /\ \A k \in 1..a : u[k] = b[Advance(r, k - 1)]
    <2>1. /\ v \in Seq(Elem) /\ Len(v) = fifo_get_available(Advance(r, n), w)
          /\ \A k \in 1..fifo_get_available(Advance(r, n), w) :
                v[k] = b[Advance(Advance(r, n), k - 1)]
      BY <1>2, WindowIsSeq
    <2>2. QED
      BY <2>1, <1>3, WindowIsSeq
  <1>5. ASSUME NEW k \in 1..a - n
        PROVE  Advance(Advance(r, n), k - 1) = Advance(r, n + k - 1)
    <2>1. k - 1 \in 0..N /\ n + k - 1 \in 0..N
      BY <1>1, NAssumption
    <2>2. /\ Advance(r, n + k - 1) =
              IF r + (n + k - 1) < N THEN r + (n + k - 1) ELSE r + (n + k - 1) - N
          /\ Advance(Advance(r, n), k - 1) =
              IF Advance(r, n) + (k - 1) < N THEN Advance(r, n) + (k - 1)
              ELSE Advance(r, n) + (k - 1) - N
      BY <2>1, <1>2, AdvanceOnce
    <2>3. QED
      BY <2>1, <2>2, <1>1, <1>2, NAssumption DEF Slot
  <1> HIDE DEF a, v, u
  <1>6. t \in Seq(Elem) /\ Len(t) = a - n /\ \A k \in 1..a - n : t[k] = u[n + k]
    BY <1>1, <1>4
  <1> HIDE DEF t
  <1>7. ASSUME NEW k \in 1..a - n PROVE v[k] = t[k]
    <2>1. n + k \in 1..a
      BY <1>1
    <2>2. v[k] = b[Advance(r, n + k - 1)] /\ u[n + k] = b[Advance(r, n + k - 1)]
      BY ONLY <2>1, <1>4, <1>5, k \in 1..a - n
    <2>3. QED
      BY <2>2, <1>6
  <1>8. v = t
    BY <1>4, <1>6, <1>7, SeqEqual
  <1>9. QED
    BY <1>8, <1>4 DEF t, u, v

(* The steps that leave the queue alone: Contents is unchanged. *)
LEMMA StoresDoNotShow ==
  ASSUME IInv, StoreOne \/ MoreCopyFirst \/ MoreCopySecond
  PROVE  Contents' = Contents
  <1>t. TypeOK /\ rd \in Slot /\ wr \in Slot /\ buf \in [Slot -> Elem]
        /\ fifo_get_available(rd, wr) \in 0..N-1
    BY FullIsNoSpace DEF IInv, TypeOK
  <1>1. ASSUME NEW k \in 1..fifo_get_available(rd, wr)
        PROVE  buf'[Advance(rd, k - 1)] = buf[Advance(rd, k - 1)]
    <2> DEFINE j == Advance(rd, k - 1)
    <2>1. j \in Slot /\ j = IF rd + (k - 1) < N THEN rd + (k - 1) ELSE rd + (k - 1) - N
      <3>1. k - 1 \in 0..N
        BY <1>t, NAssumption
      <3>2. QED
        BY <3>1, <1>t, AdvanceOnce
    <2> HIDE DEF j
    <2>2. /\ j # wr
          /\ \A c \in Nat : c <= fifo_get_free_space(rd, wr) /\ wr + c <= N
                            => ~(j >= wr /\ j < wr + c)
      BY <2>1, <1>t, NAssumption DEF Slot, fifo_get_available, fifo_get_free_space
    <2>3. CASE StoreOne
      BY <2>1, <2>2, <2>3, <1>t DEF StoreOne, j
    <2>4. CASE MoreCopyFirst
      <3>1. ~(j >= wr /\ j < wr + First)
        BY <2>2, <2>4, CopyBounds
      <3>2. QED
        BY <2>1, <2>4, <3>1 DEF MoreCopyFirst, MoreCopy, Memcpy, j
    <2>5. CASE MoreCopySecond
      <3>1. ~(j >= wr /\ j < wr + Second)
        BY <2>2, <2>5, CopyBounds
      <3>2. QED
        BY <2>1, <2>5, <3>1 DEF MoreCopySecond, MoreCopy, Memcpy, j
    <2>6. QED
      BY <2>3, <2>4, <2>5
  <1>2. rd' = rd /\ wr' = wr
    BY DEF StoreOne, MoreCopyFirst, MoreCopySecond, MoreCopy
  <1>3. Contents' = Window(rd, wr, buf')
    BY <1>2 DEF Contents, Window, fifo_get_available, Advance
  <1>4. Window(rd, wr, buf') = Window(rd, wr, buf)
    BY <1>1 DEF Window
  <1>5. QED
    BY <1>3, <1>4 DEF Contents

(* Publishing a block is Put, releasing one is Take. *)
LEMMA PublishIsPut ==
  ASSUME IInv, NEW n \in 1..Len(todo), n <= fifo_get_free_space(rd, wr), wr + n <= N,
         \A i \in 1..n : buf[wr + i - 1] = todo[i],
         wr' = Advance(wr, n), todo' = SubSeq(todo, n + 1, Len(todo)),
         UNCHANGED <<rd, buf, got>>
  PROVE  Q!Put
  <1>t. /\ rd \in Slot /\ wr \in Slot /\ buf \in [Slot -> Elem] /\ todo \in Seq(Elem)
        /\ fifo_get_free_space(rd, wr) \in 0..N-1
        /\ fifo_get_available(rd, wr) \in 0..N-1
    BY FullIsNoSpace DEF IInv, TypeOK
  <1>1. Contents' = Window(rd, Advance(wr, n), buf)
    BY DEF Contents, Window, fifo_get_available, Advance
  <1>2. Contents' = Contents \o SubSeq(todo, 1, n)
    BY <1>1, <1>t, WindowPut DEF Contents
  <1>3. Len(Contents) + n <= N - 1
    <2>1. Len(Contents) = fifo_get_available(rd, wr)
      BY <1>t, WindowIsSeq DEF Contents
    <2>2. QED
      BY <2>1, <1>t, NAssumption DEF fifo_get_free_space
  <1>4. QED
    BY <1>2, <1>3 DEF Q!Put

LEMMA ReleaseIsTake ==
  ASSUME IInv, cpc # "idle", Len(held) = want,
         rd' = Advance(rd, want), got' = held, UNCHANGED <<wr, buf, todo>>
  PROVE  Q!Take
  <1>t. /\ rd \in Slot /\ wr \in Slot /\ buf \in [Slot -> Elem] /\ held \in Seq(Elem)
        /\ fifo_get_available(rd, wr) \in 0..N-1
        /\ want \in 1..fifo_get_read_size_cont(rd, wr)
        /\ \A i \in 1..want : held[i] = buf[rd + i - 1]
    BY FullIsNoSpace DEF IInv, TypeOK, ReaderInv
  <1>s. /\ fifo_get_read_size_cont(rd, wr) \in 0..N-1
        /\ fifo_get_read_size_cont(rd, wr) <= fifo_get_available(rd, wr)
    BY <1>t, SpanInRing
  <1>1. want \in 1..fifo_get_available(rd, wr) /\ want \in Nat
    BY <1>t, <1>s, NAssumption
  <1>2. /\ Contents \in Seq(Elem) /\ Len(Contents) = fifo_get_available(rd, wr)
        /\ \A k \in 1..fifo_get_available(rd, wr) : Contents[k] = buf[Advance(rd, k - 1)]
    BY <1>t, WindowIsSeq DEF Contents
  <1>3. Contents' = Window(Advance(rd, want), wr, buf)
    BY DEF Contents, Window, fifo_get_available, Advance
  <1>4. Contents' = SubSeq(Contents, want + 1, Len(Contents))
    BY <1>1, <1>3, <1>t, WindowTake DEF Contents
  <1>5. got' = SubSeq(Contents, 1, want)
    <2>1. /\ SubSeq(Contents, 1, want) \in Seq(Elem)
          /\ Len(SubSeq(Contents, 1, want)) = want
          /\ \A i \in 1..want : SubSeq(Contents, 1, want)[i] = Contents[i]
      BY ONLY <1>1, <1>2, <1>t, NAssumption
    <2>2. ASSUME NEW i \in 1..want PROVE held[i] = SubSeq(Contents, 1, want)[i]
      <3>1. rd + i - 1 \in Slot /\ i \in 1..fifo_get_available(rd, wr)
        <4>1. i \in 1..fifo_get_read_size_cont(rd, wr) /\ i \in 1..fifo_get_available(rd, wr)
          BY <1>t, <1>s, <1>1, NAssumption
        <4>2. QED
          BY <4>1, <1>t, SpanInRing
      <3>2. Advance(rd, i - 1) = rd + i - 1
        <4>1. i - 1 \in 0..N
          BY <3>1, <1>t, NAssumption
        <4>2. Advance(rd, i - 1) = IF rd + (i - 1) < N THEN rd + (i - 1) ELSE rd + (i - 1) - N
          BY <4>1, <1>t, AdvanceOnce
        <4>3. QED
          BY <4>2, <3>1, NAssumption DEF Slot
      <3>3. Contents[i] = buf[rd + i - 1]
        BY <3>1, <3>2, <1>2
      <3>4. QED
        BY <3>3, <2>1, <1>t
    <2>3. held = SubSeq(Contents, 1, want)
      BY <2>1, <2>2, <1>t, SeqEqual
    <2>4. QED
      BY <2>3
  <1>6. QED
    BY <1>1, <1>2, <1>4, <1>5 DEF Q!Take

LEMMA EmptyWindow ==
  ASSUME NEW r \in Slot, NEW b
  PROVE  Window(r, r, b) = <<>>
  BY NAssumption DEF Window, fifo_get_available, Slot

(* A call hands over between one element and as many as the ring can hold. *)
LEMMA CallStep ==
  ASSUME IInv, WriteOne \/ WriteMore
  PROVE  Q!Call
  <1>t. fifo_get_free_space(rd, wr) \in 0..N-1
    BY FullIsNoSpace DEF IInv, TypeOK
  <1>1. todo = <<>> /\ UNCHANGED <<Contents, got>>
    BY DEF IInv, WriterOne, WriteOne, WriteMore, Contents, Window, fifo_get_available, Advance
  <1>2. \E n \in 1..N-1 : todo' \in [1..n -> Elem]
    <2>1. CASE WriteOne
      <3>1. PICK x \in Elem : todo' = <<x>>
        BY <2>1 DEF WriteOne
      <3>2. todo' \in [1..1 -> Elem]
        BY <3>1
      <3>3. 1 \in 1..N-1
        BY NAssumption
      <3>4. QED
        BY <3>2, <3>3
    <2>2. CASE WriteMore
      <3>1. PICK n \in 1..fifo_get_free_space(rd, wr) : todo' \in [1..n -> Elem]
        BY <2>2 DEF WriteMore
      <3>2. n \in 1..N-1
        BY <1>t, NAssumption
      <3>3. QED
        BY <3>1, <3>2
    <2>3. QED
      BY <2>1, <2>2
  <1>3. QED
    BY <1>1, <1>2 DEF Q!Call

LEMMA WriterRefines ==
  ASSUME IInv, Writer
  PROVE  [Q!Next]_<<Contents, todo, got>>
  <1>t. /\ rd \in Slot /\ wr \in Slot /\ buf \in [Slot -> Elem] /\ todo \in Seq(Elem)
        /\ snap \in Slot /\ Len(todo) \in Nat
        /\ fifo_get_free_space(rd, wr) \in 0..N-1
        /\ fifo_get_free_space(snap, wr) \in 0..N-1
    <2>1. /\ rd \in Slot /\ wr \in Slot /\ buf \in [Slot -> Elem] /\ todo \in Seq(Elem)
          /\ snap \in Slot /\ Len(todo) \in Nat
      BY DEF IInv, TypeOK
    <2>2. QED
      BY <2>1, FullIsNoSpace
  <1>1. CASE WriteOne \/ WriteMore
    BY <1>1, CallStep DEF Q!Next
  <1>2. CASE StoreOne \/ MoreCopyFirst \/ MoreCopySecond
    BY <1>2, StoresDoNotShow DEF StoreOne, MoreCopyFirst, MoreCopySecond, MoreCopy
  <1>3. CASE WriteDoneFull
    <2>1. Len(Contents) = N - 1 /\ UNCHANGED <<Contents, got>> /\ todo' = <<>>
      <3>1. fifo_get_free_space(rd, wr) = 0
        BY <1>3, <1>t, FullIsNoSpace DEF WriteDoneFull
      <3>2. Len(Contents) = fifo_get_available(rd, wr)
        BY <1>t, WindowIsSeq DEF Contents
      <3>3. fifo_get_available(rd, wr) \in 0..N-1
        BY <1>t, FullIsNoSpace
      <3>4. Len(Contents) = N - 1
        BY <3>1, <3>2, <3>3, NAssumption DEF fifo_get_free_space
      <3>5. QED
        BY <1>3, <3>4 DEF WriteDoneFull, Contents, Window, fifo_get_available, Advance
    <2>2. Len(todo) = 1
      BY <1>3 DEF IInv, WriterOne, WriteDoneFull
    <2>3. QED
      BY <2>1, <2>2 DEF Q!Next, Q!Refuse
  <1>4. CASE WriteDone
    <2>1. Len(todo) = 1 /\ buf[wr] = todo[1] /\ ~FIFO_FULL(rd, wr)
      BY <1>4 DEF IInv, WriterOne, WriteDone
    <2>2. 1 <= fifo_get_free_space(rd, wr)
      BY ONLY <2>1, <1>t, FullIsNoSpace, NAssumption
    <2>3. wr + 1 <= N /\ 1 \in 1..Len(todo) /\ \A i \in 1..1 : buf[wr + i - 1] = todo[i]
      BY <2>1, <1>t, NAssumption DEF Slot
    <2>4. todo' = SubSeq(todo, 1 + 1, Len(todo))
      BY <1>4, <2>1, <1>t, Remainder DEF WriteDone
    <2>5. wr' = Advance(wr, 1) /\ UNCHANGED <<rd, buf, got>>
      BY <1>4 DEF WriteDone
    <2>6. Q!Put
      BY <2>2, <2>3, <2>4, <2>5, PublishIsPut
    <2>7. QED
      BY <2>6 DEF Q!Next
  <1>5. CASE MorePublishFirst
    <2>1. /\ 0 < Len(todo) /\ Len(todo) <= fifo_get_free_space(snap, wr) /\ wr >= snap
          /\ Len(todo) <= fifo_get_free_space(rd, wr)
          /\ \A i \in 1..First : buf[wr + i - 1] = todo[i]
      BY <1>5, <1>t, NAssumption DEF IInv, WriterMore, MorePublishFirst, MorePublish,
         UsingSnapshot, Free, Slot
    <2>2. First \in 1..Len(todo) /\ wr + First <= N
      BY <2>1, <1>t, BlocksFit DEF First
    <2>3. First <= fifo_get_free_space(rd, wr)
      BY <2>1, <2>2, <1>t
    <2>4. Q!Put
      BY <1>5, <2>1, <2>2, <2>3, PublishIsPut DEF MorePublishFirst, MorePublish
    <2>5. QED
      BY <2>4 DEF Q!Next
  <1>6. CASE MorePublishSecond
    <2>1. /\ 0 < Len(todo) /\ Len(todo) <= fifo_get_free_space(snap, wr) /\ snap > wr
          /\ Len(todo) <= fifo_get_free_space(rd, wr)
          /\ \A i \in 1..Second : buf[wr + i - 1] = todo[i]
      BY <1>6, <1>t, NAssumption DEF IInv, WriterMore, MorePublishSecond, MorePublish,
         UsingSnapshot, Free
    <2>2. Second = Len(todo)
      BY <2>1, <1>t, BlocksFit DEF Second
    <2>3. wr + Len(todo) <= N
      BY <2>1, <1>t, NAssumption DEF Slot, fifo_get_free_space, fifo_get_available
    <2>4. Second \in 1..Len(todo) /\ Second <= fifo_get_free_space(rd, wr) /\ wr + Second <= N
      BY <2>1, <2>2, <2>3, <1>t
    <2>5. Q!Put
      BY <1>6, <2>1, <2>4, PublishIsPut DEF MorePublishSecond, MorePublish
    <2>6. QED
      BY <2>5 DEF Q!Next
  <1>7. CASE WriteDoneCheck \/ MoreSnapshot \/ MoreSkipFirst \/ MoreSkipSecond
    BY <1>7 DEF WriteDoneCheck, MoreSnapshot, MoreSkipFirst, MoreSkipSecond, Contents, Window,
       fifo_get_available, Advance
  <1>8. CASE MoreReturn
    <2>1. todo = <<>>
      BY <1>8 DEF IInv, WriterMore, MoreReturn
    <2>2. QED
      BY <1>8, <2>1 DEF MoreReturn, Contents, Window, fifo_get_available, Advance
  <1>9. QED
    BY <1>1, <1>2, <1>3, <1>4, <1>5, <1>6, <1>7, <1>8 DEF Writer

LEMMA ReaderRefines ==
  ASSUME IInv, Reader
  PROVE  [Q!Next]_<<Contents, todo, got>>
  <1>1. CASE ReadOne \/ ReadMany \/ CopyOut
    BY <1>1 DEF ReadOne, ReadMany, CopyOut, Contents, Window, fifo_get_available, Advance
  <1>2. CASE ReadDone
    <2>1. want = 1
      BY <1>2 DEF ReadDone, IInv, ReaderInv
    <2>2. Q!Take
      BY <1>2, <2>1, ReleaseIsTake DEF ReadDone
    <2>3. QED
      BY <2>2 DEF Q!Next
  <1>3. CASE ReadDoneSize
    <2>1. Q!Take
      BY <1>3, ReleaseIsTake DEF ReadDoneSize
    <2>2. QED
      BY <2>1 DEF Q!Next
  <1>4. QED
    BY <1>1, <1>2, <1>3 DEF Reader

(* fifo.c implements a bounded queue of e_num - 1 elements: whatever the   *)
(* ring size, and however writer and reader preempt each other, elements   *)
(* come out once, in order, untorn, and one is refused only when full.     *)
THEOREM RingIsAQueue == Spec => ImplementsQueue
  <1>1. Init => Q!Init
    <2> SUFFICES ASSUME Init PROVE Q!Init
      OBVIOUS
    <2>1. 0 \in Slot
      BY NAssumption DEF Slot
    <2>2. Contents = <<>>
      BY <2>1, EmptyWindow DEF Init, Contents
    <2>3. QED
      BY <2>2 DEF Init, Q!Init
  <1>2. ASSUME IInv, [Next]_vars
        PROVE  [Q!Next]_<<Contents, todo, got>>
    <2>1. CASE Writer
      BY <1>2, <2>1, WriterRefines
    <2>2. CASE Reader
      BY <1>2, <2>2, ReaderRefines
    <2>3. CASE Reset
      <3>1. 0 \in Slot
        BY NAssumption DEF Slot
      <3>2. Contents' = Window(0, 0, buf)
        BY <2>3 DEF Reset, Contents, Window, fifo_get_available, Advance
      <3>3. Contents' = <<>>
        BY <3>1, <3>2, EmptyWindow
      <3>4. todo = <<>>
        BY <1>2, <2>3 DEF IInv, WriterOne, Reset
      <3>5. QED
        BY <2>3, <3>3, <3>4 DEF Reset, Q!Next, Q!Clear
    <2>4. CASE UNCHANGED vars
      BY <2>4 DEF vars, Contents, Window, fifo_get_available, Advance
    <2>5. QED
      BY <1>2, <2>1, <2>2, <2>3, <2>4 DEF Next
  <1>3. QED
    BY <1>1, <1>2, Invariance, PTL DEF Spec, ImplementsQueue, Q!Spec

===============================================================================
