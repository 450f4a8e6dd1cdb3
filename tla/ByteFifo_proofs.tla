--------------------------- MODULE ByteFifo_proofs ---------------------------
(***************************************************************************)
(* Proofs about ByteFifo for every ring size N >= 2 and every set of bytes.*)
(***************************************************************************)
EXTENDS ByteFifo, SequenceTheorems, TLAPS

(* DamageBounded slot by slot: the kth oldest byte is in its slot, or is   *)
(* one of the three oldest and reads as 0.                                 *)
Held(k) == \/ mem[Advance(rd, k - 1)] = owed[k]
           \/ k <= 3 /\ mem[Advance(rd, k - 1)] = Zero

SlotBySlot == /\ Len(owed) = fifo_get_available(rd, wr)
              /\ \A k \in 1..Len(owed) : Held(k)

IInv == TypeOK /\ SlotBySlot /\ ReadsAreGenuine

-------------------------------------------------------------------------------
(* Facts about the pure operators. *)

(* Advance goes round the end of the ring at most once. *)
LEMMA AdvanceOnce ==
  ASSUME NEW i \in Slot, NEW n \in 0..N
  PROVE  /\ Advance(i, n) = IF i + n < N THEN i + n ELSE i + n - N
         /\ Advance(i, n) \in Slot
  BY NAssumption DEF Advance, Slot

(* One slot is always unused; a ring that is not full takes one more byte, *)
(* one that is not empty gives one back.                                   *)
LEMMA CountMoves ==
  ASSUME NEW r \in Slot, NEW w \in Slot
  PROVE  /\ fifo_get_available(r, w) \in 0..N-1
         /\ ~FIFO_FULL(r, w) =>
              /\ fifo_get_available(r, Advance(w, 1)) = fifo_get_available(r, w) + 1
              /\ Advance(r, fifo_get_available(r, w)) = w
         /\ ~FIFO_EMPTY(r, w) =>
              /\ fifo_get_available(Advance(r, 1), w) = fifo_get_available(r, w) - 1
              /\ fifo_get_available(r, w) >= 1
  <1>1. /\ Advance(w, 1) = IF w + 1 < N THEN w + 1 ELSE w + 1 - N
        /\ Advance(r, 1) = IF r + 1 < N THEN r + 1 ELSE r + 1 - N
    BY AdvanceOnce, NAssumption
  <1>2. fifo_get_available(r, w) \in 0..N-1
    BY NAssumption DEF Slot, fifo_get_available
  <1>3. Advance(r, fifo_get_available(r, w)) = w
    <2>1. fifo_get_available(r, w) \in 0..N
      BY <1>2, NAssumption
    <2>2. Advance(r, fifo_get_available(r, w)) =
            IF r + fifo_get_available(r, w) < N THEN r + fifo_get_available(r, w)
            ELSE r + fifo_get_available(r, w) - N
      BY <2>1, AdvanceOnce
    <2>3. QED
      BY <2>2, NAssumption DEF Slot, fifo_get_available
  <1>4. FIFO_FULL(r, w) <=> Advance(w, 1) = r
    BY DEF FIFO_FULL, Advance
  <1>5. QED
    BY <1>1, <1>2, <1>3, <1>4, NAssumption DEF Slot, fifo_get_available, FIFO_EMPTY

(* A word store at the writer's slot reaches no more than the three oldest *)
(* bytes: the slots after wr+3, the end of the ring and rd come in the way.*)
LEMMA StoreReach ==
  ASSUME NEW r \in Slot, NEW w \in Slot, NEW m \in [Memory -> Byte], NEW ch \in Byte,
         NEW k \in 1..fifo_get_available(r, w)
  PROVE  \/ StoreWord(m, w, ch)[Advance(r, k - 1)] = m[Advance(r, k - 1)]
         \/ k <= 3 /\ StoreWord(m, w, ch)[Advance(r, k - 1)] = Zero
  <1>1. fifo_get_available(r, w) \in 0..N-1
    BY CountMoves
  <1>2. k - 1 \in 0..N
    BY <1>1, NAssumption
  <1>3. /\ Advance(r, k - 1) = IF r + (k - 1) < N THEN r + (k - 1) ELSE r + (k - 1) - N
        /\ Advance(r, k - 1) \in Slot
    BY <1>2, AdvanceOnce
  <1>4. Advance(r, k - 1) # w
    BY <1>3, NAssumption DEF Slot, fifo_get_available
  <1>5. Advance(r, k - 1) \in w+1..w+3 => k <= 3
    BY <1>3, NAssumption DEF Slot, fifo_get_available
  <1>6. Advance(r, k - 1) \in Memory
    BY <1>3, NAssumption DEF Slot, Memory
  <1>7. QED
    BY <1>4, <1>5, <1>6 DEF StoreWord

(* With four slots unused, a word store reaches no byte at all. *)
LEMMA StoreMisses ==
  ASSUME NEW r \in Slot, NEW w \in Slot, NEW m \in [Memory -> Byte], NEW ch \in Byte,
         NEW k \in 1..fifo_get_available(r, w), fifo_get_available(r, w) <= N - 4
  PROVE  StoreWord(m, w, ch)[Advance(r, k - 1)] = m[Advance(r, k - 1)]
  <1>1. k - 1 \in 0..N
    <2>1. fifo_get_available(r, w) \in 0..N-1
      BY CountMoves
    <2>2. QED
      BY <2>1, NAssumption
  <1>2. /\ Advance(r, k - 1) = IF r + (k - 1) < N THEN r + (k - 1) ELSE r + (k - 1) - N
        /\ Advance(r, k - 1) \in Slot
    BY <1>1, AdvanceOnce
  <1>3. Advance(r, k - 1) # w /\ Advance(r, k - 1) \notin w+1..w+3
    BY <1>2, NAssumption DEF Slot, fifo_get_available
  <1>4. Advance(r, k - 1) \in Memory
    BY <1>2, NAssumption DEF Slot, Memory
  <1>5. QED
    BY <1>3, <1>4 DEF StoreWord

(* What a word store leaves in memory. *)
LEMMA StoreType ==
  ASSUME NEW w \in Slot, NEW m \in [Memory -> Byte], NEW ch \in Byte
  PROVE  /\ StoreWord(m, w, ch) \in [Memory -> Byte]
         /\ StoreWord(m, w, ch)[w] = ch
  <1>1. w \in Memory
    BY NAssumption DEF Slot, Memory
  <1>2. QED
    BY <1>1, ByteAssumption DEF StoreWord

-------------------------------------------------------------------------------
LEMMA InitIInv == InitRing => IInv
  BY NAssumption, ByteAssumption
  DEF InitRing, IInv, TypeOK, SlotBySlot, ReadsAreGenuine, Slot, fifo_get_available

LEMMA WriteStep ==
  ASSUME IInv, NEW ch \in Byte, Write(ch)
  PROVE  IInv'
  <1> USE DEF IInv, TypeOK
  <1>1. /\ mem' = StoreWord(mem, wr, ch)
        /\ mem' \in [Memory -> Byte]
        /\ mem'[wr] = ch
    BY StoreType DEF Write
  <1>2. rd' = rd /\ last' = last
    BY DEF Write
  <1>3. ASSUME NEW k \in 1..Len(owed)
        PROVE  \/ mem'[Advance(rd, k - 1)] = owed[k]
               \/ k <= 3 /\ mem'[Advance(rd, k - 1)] = Zero
    <2>1. Held(k) /\ k \in 1..fifo_get_available(rd, wr)
      BY DEF SlotBySlot
    <2>2. QED
      BY <1>1, <2>1, StoreReach DEF Held
  <1>4. CASE FIFO_FULL(rd, wr)
    <2>1. wr' = wr /\ owed' = owed
      BY <1>4 DEF Write
    <2>2. SlotBySlot'
      BY <1>2, <1>3, <2>1 DEF SlotBySlot, Held
    <2>3. QED
      BY <1>1, <1>2, <2>1, <2>2 DEF ReadsAreGenuine
  <1>5. CASE ~FIFO_FULL(rd, wr)
    <2>1. wr' = Advance(wr, 1) /\ owed' = Append(owed, ch)
      BY <1>5 DEF Write
    <2>2. wr' \in Slot /\ owed' \in Seq(Byte)
      BY <2>1, AdvanceOnce, NAssumption
    <2>3. /\ Len(owed') = Len(owed) + 1
          /\ Len(owed) \in Nat
          /\ owed'[Len(owed) + 1] = ch
          /\ \A k \in 1..Len(owed) : owed'[k] = owed[k]
      BY <2>1
    <2>4. Len(owed') = fifo_get_available(rd', wr')
      BY <1>2, <1>5, <2>1, <2>3, CountMoves DEF SlotBySlot
    <2>5. ASSUME NEW k \in 1..Len(owed') PROVE Held(k)'
      <3>1. CASE k \in 1..Len(owed)
        BY <1>2, <1>3, <2>3, <3>1 DEF Held
      <3>2. CASE k = Len(owed) + 1
        <4>1. Advance(rd, k - 1) = wr
          <5>1. k - 1 = fifo_get_available(rd, wr)
            BY <2>3, <3>2 DEF SlotBySlot
          <5>2. QED
            BY <1>5, <5>1, CountMoves
        <4>2. QED
          BY <1>1, <1>2, <2>3, <3>2, <4>1 DEF Held
      <3>3. QED
        BY <2>3, <3>1, <3>2
    <2>6. QED
      BY <1>1, <1>2, <2>2, <2>4, <2>5 DEF SlotBySlot, ReadsAreGenuine
  <1>6. QED
    BY <1>4, <1>5

LEMMA RoomyIsNotFull ==
  ASSUME NEW r \in Slot, NEW w \in Slot, fifo_get_available(r, w) <= N - 4
  PROVE  ~FIFO_FULL(r, w)
  <1>1. Advance(w, 1) = IF w + 1 < N THEN w + 1 ELSE w + 1 - N
    BY AdvanceOnce, NAssumption
  <1>2. QED
    BY <1>1, NAssumption DEF Advance, FIFO_FULL, fifo_get_available, Slot

(* A write into four unused slots or more damages nothing. *)
LEMMA RoomyStep ==
  ASSUME IInv, NEW ch \in Byte, Damaged = {}, fifo_get_available(rd, wr) <= N - 4,
         Write(ch)
  PROVE  Damaged' = {}
  <1> USE DEF IInv, TypeOK
  <1>0. /\ DOMAIN owed = 1..Len(owed)
        /\ Len(owed) = fifo_get_available(rd, wr)
        /\ Len(owed) \in Nat
    BY DEF SlotBySlot
  <1>1. ~FIFO_FULL(rd, wr)
    BY RoomyIsNotFull
  <1>2. /\ rd' = rd /\ wr' = Advance(wr, 1)
        /\ mem' = StoreWord(mem, wr, ch)
        /\ owed' = Append(owed, ch)
    BY <1>1 DEF Write
  <1>3. /\ Len(owed') = Len(owed) + 1
        /\ DOMAIN owed' = 1..Len(owed) + 1
        /\ owed'[Len(owed) + 1] = ch
        /\ \A k \in 1..Len(owed) : owed'[k] = owed[k]
    BY <1>0, <1>2
  <1>4. fifo_get_available(rd', wr') = Len(owed) + 1
    BY <1>0, <1>1, <1>2, CountMoves
  <1>5. ASSUME NEW k \in 1..Len(owed) + 1 PROVE mem'[Advance(rd, k - 1)] = owed'[k]
    <2>1. CASE k \in 1..Len(owed)
      <3>1. mem[Advance(rd, k - 1)] = owed[k]
        BY <1>0, <2>1 DEF Damaged, Contents
      <3>2. QED
        BY <1>0, <1>2, <1>3, <2>1, <3>1, StoreMisses
    <2>2. CASE k = Len(owed) + 1
      <3>1. Advance(rd, k - 1) = wr
        <4>1. k - 1 = fifo_get_available(rd, wr)
          BY <1>0, <2>2
        <4>2. QED
          BY <1>1, <4>1, CountMoves
      <3>2. QED
        BY <1>2, <1>3, <2>2, <3>1, StoreType
    <2>3. QED
      BY <1>0, <2>1, <2>2
  <1>6. \A k \in 1..Len(owed) + 1 : Contents'[k] = owed'[k]
    BY <1>2, <1>4, <1>5 DEF Contents
  <1>7. QED
    BY <1>3, <1>6 DEF Damaged

LEMMA ReadStep ==
  ASSUME IInv, Read
  PROVE  IInv'
  <1> USE DEF IInv, TypeOK
  <1>1. /\ rd' = Advance(rd, 1) /\ owed' = Tail(owed)
        /\ wr' = wr /\ mem' = mem
        /\ last' = <<mem[rd], Head(owed)>>
    BY DEF Read, ReadByte
  <1>2. /\ fifo_get_available(rd', wr') = fifo_get_available(rd, wr) - 1
        /\ Len(owed) = fifo_get_available(rd, wr)
        /\ fifo_get_available(rd, wr) \in 1..N-1
    BY <1>1, CountMoves, NAssumption DEF Read, SlotBySlot
  <1>3. /\ owed # <<>>
        /\ owed' \in Seq(Byte)
        /\ Len(owed') = Len(owed) - 1
        /\ Head(owed) = owed[1]
        /\ \A k \in 1..Len(owed') : owed'[k] = owed[k + 1]
    BY <1>1, <1>2, NAssumption, HeadTailProperties
  <1>4. rd' \in Slot /\ Advance(rd, 0) = rd
    BY <1>1, AdvanceOnce, NAssumption DEF Slot
  <1>5. last' \in Byte \X Byte /\ ReadsAreGenuine'
    <2>1. 1 \in 1..Len(owed) /\ Held(1)
      BY <1>2, NAssumption DEF SlotBySlot
    <2>2. mem[rd] \in {owed[1], Zero}
      BY <1>4, <2>1 DEF Held
    <2>3. owed[1] \in Byte
      BY <2>1
    <2>4. QED
      BY <1>1, <1>3, <2>2, <2>3, ByteAssumption DEF ReadsAreGenuine
  <1>6. ASSUME NEW k \in 1..Len(owed') PROVE Held(k)'
    <2>1. k + 1 \in 1..Len(owed) /\ Held(k + 1)
      BY <1>2, <1>3, NAssumption DEF SlotBySlot
    <2>2. Advance(rd', k - 1) = Advance(rd, k)
      <3>1. k \in 0..N /\ k - 1 \in 0..N
        BY <1>2, <2>1, NAssumption
      <3>2. Advance(rd, 1) = IF rd + 1 < N THEN rd + 1 ELSE rd + 1 - N
        BY AdvanceOnce, NAssumption
      <3>3. Advance(rd, k) = IF rd + k < N THEN rd + k ELSE rd + k - N
        BY <3>1, AdvanceOnce
      <3>4. Advance(rd', k - 1) =
              IF rd' + (k - 1) < N THEN rd' + (k - 1) ELSE rd' + (k - 1) - N
        BY <1>4, <3>1, AdvanceOnce
      <3>5. QED
        BY <1>1, <1>2, <2>1, <3>1, <3>2, <3>3, <3>4, NAssumption DEF Slot
    <2>3. (k + 1) - 1 = k
      OBVIOUS
    <2>4. QED
      BY <1>1, <1>3, <2>1, <2>2, <2>3 DEF Held
  <1>7. QED
    BY <1>1, <1>2, <1>3, <1>4, <1>5, <1>6 DEF SlotBySlot

(* A read leaves what it does not take, and takes what is due. *)
LEMMA ReadExact ==
  ASSUME IInv, Damaged = {}, Read
  PROVE  Damaged' = {} /\ ReadByte = owed[1] /\ owed # <<>>
  <1> USE DEF IInv, TypeOK
  <1>1. /\ rd' = Advance(rd, 1) /\ owed' = Tail(owed)
        /\ wr' = wr /\ mem' = mem
    BY DEF Read
  <1>2. /\ Len(owed) = fifo_get_available(rd, wr)
        /\ fifo_get_available(rd', wr') = Len(owed) - 1
        /\ Len(owed) \in 1..N-1
        /\ DOMAIN owed = 1..Len(owed)
    BY <1>1, CountMoves, NAssumption DEF Read, SlotBySlot
  <1>3. /\ owed # <<>>
        /\ Len(owed') = Len(owed) - 1
        /\ DOMAIN owed' = 1..Len(owed) - 1
        /\ \A k \in 1..Len(owed) - 1 : owed'[k] = owed[k + 1]
    BY <1>1, <1>2, NAssumption, HeadTailProperties
  <1>4. \A k \in 1..Len(owed) : mem[Advance(rd, k - 1)] = owed[k]
    BY <1>2 DEF Damaged, Contents
  <1>5. ASSUME NEW k \in 1..Len(owed) - 1 PROVE Contents'[k] = owed'[k]
    <2>1. k \in 0..N /\ k - 1 \in 0..N /\ k + 1 \in 1..Len(owed) /\ (k + 1) - 1 = k
      BY <1>2, NAssumption
    <2>2. Advance(rd', k - 1) = Advance(rd, k)
      <3>1. rd' = IF rd + 1 < N THEN rd + 1 ELSE rd + 1 - N
        BY <1>1, AdvanceOnce, NAssumption
      <3>2. Advance(rd, k) = IF rd + k < N THEN rd + k ELSE rd + k - N
        BY <2>1, AdvanceOnce
      <3>3. rd' \in Slot
        BY <1>1, AdvanceOnce, NAssumption
      <3>4. Advance(rd', k - 1) =
              IF rd' + (k - 1) < N THEN rd' + (k - 1) ELSE rd' + (k - 1) - N
        BY <2>1, <3>3, AdvanceOnce
      <3>5. QED
        BY <1>2, <2>1, <3>1, <3>2, <3>4, NAssumption DEF Slot
    <2>3. Contents'[k] = mem'[Advance(rd', k - 1)]
      BY <1>2 DEF Contents
    <2>4. QED
      BY <1>1, <1>3, <1>4, <2>1, <2>2, <2>3
  <1>6. Advance(rd, 0) = rd
    BY AdvanceOnce, NAssumption DEF Slot
  <1>7. ReadByte = owed[1]
    <2>1. 1 \in 1..Len(owed) /\ 1 - 1 = 0
      BY <1>2
    <2>2. QED
      BY <1>4, <1>6, <2>1 DEF ReadByte
  <1>8. QED
    BY <1>3, <1>5, <1>7 DEF Damaged

(* The invariant is kept by every step. *)
LEMMA NextIInv == IInv /\ [NextRing]_ring => IInv'
  <1> SUFFICES ASSUME IInv, [NextRing]_ring PROVE IInv'
    OBVIOUS
  <1>1. CASE \E ch \in Byte : Write(ch)
    BY <1>1, WriteStep
  <1>2. CASE Read
    BY <1>2, ReadStep
  <1>3. CASE UNCHANGED ring
    BY <1>3 DEF ring, IInv, TypeOK, SlotBySlot, Held, ReadsAreGenuine
  <1>4. QED
    BY <1>1, <1>2, <1>3 DEF NextRing, ReadEmpty

(* SlotBySlot is DamageBounded in other words. *)
LEMMA SlotsBoundDamage == IInv => DamageBounded
  <1> SUFFICES ASSUME IInv PROVE DamageBounded
    OBVIOUS
  <1> USE DEF IInv, TypeOK
  <1>1. Len(owed) = fifo_get_available(rd, wr) /\ DOMAIN owed = 1..Len(owed)
    BY DEF SlotBySlot
  <1>2. ASSUME NEW k \in Damaged PROVE k <= 3 /\ Contents[k] = Zero
    <2>1. k \in 1..Len(owed) /\ Contents[k] # owed[k]
      BY <1>1 DEF Damaged
    <2>2. Contents[k] = mem[Advance(rd, k - 1)]
      BY <1>1, <2>1 DEF Contents
    <2>3. QED
      BY <2>1, <2>2 DEF SlotBySlot, Held
  <1>3. QED
    BY <1>1, <1>2 DEF DamageBounded

-------------------------------------------------------------------------------
(* The ring implements ByteQueue. *)

(* How many of the oldest bytes a store at the writer's slot w sets to 0:  *)
(* what of its reach lies beyond the free slots and before the array's end.*)
Hits(r, w) ==
  IF w < r /\ 3 - fifo_get_free_space(r, w) > 0
  THEN Smaller(3 - fifo_get_free_space(r, w), N - r)
  ELSE 0

LEMMA HitsBounded ==
  ASSUME NEW r \in Slot, NEW w \in Slot
  PROVE  /\ Hits(r, w) \in 0..3
         /\ Hits(r, w) <= fifo_get_available(r, w)
         /\ Hits(r, w) = 0 \/ Hits(r, w) <= 3 - fifo_get_free_space(r, w)
  BY NAssumption DEF Hits, Smaller, Slot, fifo_get_free_space, fifo_get_available

LEMMA StoreHits ==
  ASSUME NEW r \in Slot, NEW w \in Slot, NEW m \in [Memory -> Byte], NEW ch \in Byte,
         NEW k \in 1..fifo_get_available(r, w)
  PROVE  StoreWord(m, w, ch)[Advance(r, k - 1)] =
           IF k <= Hits(r, w) THEN Zero ELSE m[Advance(r, k - 1)]
  <1>1. k - 1 \in 0..N
    <2>1. fifo_get_available(r, w) \in 0..N-1
      BY CountMoves
    <2>2. QED
      BY <2>1, NAssumption
  <1>2. /\ Advance(r, k - 1) = IF r + (k - 1) < N THEN r + (k - 1) ELSE r + (k - 1) - N
        /\ Advance(r, k - 1) \in Slot
    BY <1>1, AdvanceOnce
  <1>3. Advance(r, k - 1) # w
    BY <1>2, NAssumption DEF Slot, fifo_get_available
  <1>4. Advance(r, k - 1) \in w+1..w+3 <=> k <= Hits(r, w)
    BY <1>2, NAssumption DEF Slot, fifo_get_available, fifo_get_free_space, Hits, Smaller
  <1>5. Advance(r, k - 1) \in Memory
    BY <1>2, NAssumption DEF Slot, Memory
  <1>6. QED
    BY <1>3, <1>4, <1>5 DEF StoreWord

LEMMA ContentsType ==
  ASSUME TypeOK
  PROVE  /\ Contents \in Seq(Byte)
         /\ Len(Contents) = fifo_get_available(rd, wr)
         /\ \A k \in 1..fifo_get_available(rd, wr) :
              Contents[k] = mem[Advance(rd, k - 1)]
  <1>1. fifo_get_available(rd, wr) \in 0..N-1 /\ fifo_get_available(rd, wr) \in Nat
    BY CountMoves, NAssumption DEF TypeOK
  <1>2. ASSUME NEW k \in 1..fifo_get_available(rd, wr)
        PROVE  mem[Advance(rd, k - 1)] \in Byte
    <2>1. k - 1 \in 0..N
      BY <1>1, NAssumption
    <2>2. Advance(rd, k - 1) \in Slot
      BY <2>1, AdvanceOnce DEF TypeOK
    <2>3. QED
      BY <2>2, NAssumption DEF TypeOK, Slot, Memory
  <1>3. QED
    BY <1>1, <1>2 DEF Contents

(* The tail of a sequence, as a function. *)
LEMMA TailAsFunction ==
  ASSUME NEW s \in Seq(Byte), s # <<>>
  PROVE  Tail(s) = [k \in 1..Len(s) - 1 |-> s[k + 1]]
  <1> DEFINE t == [k \in 1..Len(s) - 1 |-> s[k + 1]]
  <1>1. /\ Tail(s) \in Seq(Byte) /\ Len(Tail(s)) = Len(s) - 1
        /\ Len(s) \in Nat /\ Len(s) >= 1
    OBVIOUS
  <1>2. \A k \in 1..Len(s) - 1 : s[k + 1] \in Byte
    BY <1>1
  <1>3. t \in Seq(Byte) /\ Len(t) = Len(s) - 1
    BY <1>1, <1>2
  <1>4. \A k \in 1..Len(s) - 1 : Tail(s)[k] = t[k]
    BY HeadTailProperties
  <1>5. Tail(s) = t
    BY ONLY <1>1, <1>3, <1>4, SeqEqual
  <1>6. QED
    BY <1>5

LEMMA InitMaps == InitRing => Q!Init
  <1> SUFFICES ASSUME InitRing PROVE Q!Init
    OBVIOUS
  <1>1. fifo_get_available(rd, wr) = 0
    BY DEF InitRing, fifo_get_available
  <1>2. QED
    BY <1>1 DEF InitRing, Q!Init, Contents

LEMMA WriteMaps ==
  ASSUME IInv, NEW ch \in Byte, Write(ch)
  PROVE  Q!Put(ch)
  <1> DEFINE a == fifo_get_available(rd, wr)
             h == Hits(rd, wr)
             z == [k \in 1..Len(Contents) |-> IF k <= h THEN Zero ELSE Contents[k]]
  <1> USE DEF IInv, TypeOK
  <1>1. /\ a \in 0..N-1 /\ a \in Nat
        /\ Contents \in Seq(Byte) /\ Len(Contents) = a
        /\ \A k \in 1..a : Contents[k] = mem[Advance(rd, k - 1)]
    BY CountMoves, ContentsType, NAssumption
  <1>2. mem' = StoreWord(mem, wr, ch) /\ rd' = rd /\ last' = last
    BY DEF Write
  <1>3. \A k \in 1..a : mem'[Advance(rd, k - 1)] = z[k]
    BY <1>1, <1>2, StoreHits
  <1>4. /\ h \in 0..3
        /\ h = 0 \/ (h <= 3 - (N - 1 - Len(Contents)) /\ h <= Len(Contents))
    BY <1>1, HitsBounded, NAssumption DEF fifo_get_free_space
  <1>5. FIFO_FULL(rd, wr) <=> N - 1 - Len(Contents) = 0
    <2>1. Advance(wr, 1) = IF wr + 1 < N THEN wr + 1 ELSE wr + 1 - N
      BY AdvanceOnce, NAssumption
    <2>2. FIFO_FULL(rd, wr) <=> a = N - 1
      BY <2>1, NAssumption DEF Advance, FIFO_FULL, fifo_get_available, Slot
    <2>3. QED
      BY <1>1, <2>2, NAssumption
  <1>6. Contents' = IF N - 1 - Len(Contents) = 0 THEN z ELSE Append(z, ch)
    <2>1. CASE FIFO_FULL(rd, wr)
      <3>1. wr' = wr /\ fifo_get_available(rd', wr') = a
        BY <1>2, <2>1 DEF Write
      <3>2. Contents' = [k \in 1..a |-> mem'[Advance(rd, k - 1)]]
        BY <1>2, <3>1 DEF Contents
      <3>3. z = [k \in 1..a |-> z[k]]
        BY <1>1
      <3>4. QED
        BY <1>3, <1>5, <2>1, <3>2, <3>3
    <2>2. CASE ~FIFO_FULL(rd, wr)
      <3>1. wr' = Advance(wr, 1)
        BY <2>2 DEF Write
      <3>2. fifo_get_available(rd', wr') = a + 1 /\ Advance(rd, a) = wr
        BY <1>2, <2>2, <3>1, CountMoves
      <3>3. Contents' = [k \in 1..a + 1 |-> mem'[Advance(rd, k - 1)]]
        BY <1>2, <3>2 DEF Contents
      <3>4. mem'[wr] = ch
        BY <1>2, StoreType
      <3>5. z \in Seq(Byte) /\ Len(z) = a
        <4>1. \A k \in 1..a : Contents[k] \in Byte
          BY <1>1
        <4>2. z = [k \in 1..a |-> IF k <= h THEN Zero ELSE Contents[k]]
          BY <1>1
        <4>3. QED
          BY ONLY <1>1, <4>1, <4>2, ByteAssumption
      <3>6. Append(z, ch) = [k \in 1..a + 1 |-> IF k = a + 1 THEN ch ELSE z[k]]
        BY ONLY <3>5, <1>1
      <3>7. \A k \in 1..a + 1 : mem'[Advance(rd, k - 1)] = IF k = a + 1 THEN ch ELSE z[k]
        <4>1. ASSUME NEW k \in 1..a + 1
              PROVE  mem'[Advance(rd, k - 1)] = IF k = a + 1 THEN ch ELSE z[k]
          <5>1. CASE k = a + 1
            <6>1. k - 1 = a
              BY <1>1, <5>1
            <6>2. QED
              BY <3>2, <3>4, <5>1, <6>1
          <5>2. CASE k # a + 1
            <6>1. k \in 1..a
              BY <1>1, <5>2
            <6>2. QED
              BY <1>3, <5>2, <6>1
          <5>3. QED
            BY <5>1, <5>2
        <4>2. QED
          BY <4>1
      <3>8. Contents' = Append(z, ch)
        BY ONLY <3>3, <3>6, <3>7
      <3>9. QED
        BY <1>5, <2>2, <3>8
    <2>3. QED
      BY <2>1, <2>2
  <1>7. QED
    BY <1>2, <1>4, <1>6 DEF Q!Put, Q!Room, Q!Zeroed

LEMMA ReadMaps ==
  ASSUME IInv, Read
  PROVE  Q!Take
  <1> DEFINE a == fifo_get_available(rd, wr)
  <1> USE DEF IInv, TypeOK
  <1>1. /\ a \in 1..N-1 /\ a \in Nat
        /\ Contents \in Seq(Byte) /\ Len(Contents) = a
        /\ \A k \in 1..a : Contents[k] = mem[Advance(rd, k - 1)]
    BY CountMoves, ContentsType, NAssumption DEF Read
  <1>2. /\ rd' = Advance(rd, 1) /\ mem' = mem /\ wr' = wr
        /\ last'[1] = mem[rd]
    BY DEF Read, ReadByte
  <1>3. fifo_get_available(rd', wr') = a - 1
    BY <1>2, CountMoves DEF Read
  <1>4. Advance(rd, 0) = rd
    BY AdvanceOnce, NAssumption DEF Slot
  <1>5. Contents # <<>> /\ Head(Contents) = mem[rd]
    <2>1. Contents[1] = mem[Advance(rd, 0)]
      BY <1>1, NAssumption
    <2>2. QED
      BY <1>1, <1>4, <2>1, HeadTailProperties
  <1>6. ASSUME NEW k \in 1..a - 1
        PROVE  mem[Advance(rd', k - 1)] = Contents[k + 1]
    <2>1. k \in 0..N /\ k - 1 \in 0..N /\ k + 1 \in 1..a
      BY <1>1, NAssumption
    <2>2. Advance(rd, 1) = IF rd + 1 < N THEN rd + 1 ELSE rd + 1 - N
      BY AdvanceOnce, NAssumption
    <2>3. Advance(rd, k) = IF rd + k < N THEN rd + k ELSE rd + k - N
      BY <2>1, AdvanceOnce
    <2>4. rd' \in Slot
      BY <1>2, AdvanceOnce, NAssumption
    <2>5. Advance(rd', k - 1) = IF rd' + (k - 1) < N THEN rd' + (k - 1) ELSE rd' + (k - 1) - N
      BY <2>1, <2>4, AdvanceOnce
    <2>6. Advance(rd', k - 1) = Advance(rd, k)
      BY <1>1, <1>2, <2>1, <2>2, <2>3, <2>5, NAssumption DEF Slot
    <2>7. (k + 1) - 1 = k
      OBVIOUS
    <2>8. QED
      BY <1>1, <2>1, <2>6, <2>7
  <1>7. Contents' = [k \in 1..a - 1 |-> mem[Advance(rd', k - 1)]]
    BY <1>2, <1>3 DEF Contents
  <1>8. Tail(Contents) = [k \in 1..a - 1 |-> Contents[k + 1]]
    BY <1>1, <1>5, TailAsFunction
  <1>9. Contents' = Tail(Contents)
    BY ONLY <1>6, <1>7, <1>8
  <1>10. QED
    BY <1>2, <1>5, <1>9 DEF Q!Take

-------------------------------------------------------------------------------
(* The inductive invariant holds of every reachable state of the ring.     *)
THEOREM Invariance == SpecRing => []IInv
  BY InitIInv, NextIInv, PTL DEF SpecRing

(* The indices stay inside the ring and the memory holds bytes, whatever   *)
(* the order of the console's reads and writes.                            *)
THEOREM TypeCorrect == SpecRing => []TypeOK
  <1>1. IInv => TypeOK
    BY DEF IInv
  <1>2. QED
    BY Invariance, <1>1, PTL

(* The word-wide store of console_string_buf_write costs at most the three *)
(* oldest bytes, and never the count of bytes, for every size of the ring. *)
THEOREM DamageIsBounded == SpecRing => []DamageBounded
  BY Invariance, SlotsBoundDamage, PTL

(* The bound up to which the word-wide store is harmless: four slots.      *)
THEOREM RoomyWritesExact == SpecRing => RoomyWriteIsExact
  <1>1. IInv /\ [NextRing]_ring =>
          [\A ch \in Byte :
             (Damaged = {} /\ fifo_get_available(rd, wr) <= N - 4 /\ Write(ch))
               => Damaged' = {}]_ring
    BY RoomyStep
  <1>2. QED
    BY Invariance, <1>1, PTL DEF SpecRing, RoomyWriteIsExact

(* A read returns the byte written in its turn, or 0 in its place.         *)
THEOREM ReadsGenuine == SpecRing => []ReadsAreGenuine
  <1>1. IInv => ReadsAreGenuine
    BY DEF IInv
  <1>2. QED
    BY Invariance, <1>1, PTL

(* To its users, a ring of bytes of any size is the queue of ByteQueue.    *)
THEOREM RingIsAByteQueue == SpecRing => ImplementsByteQueue
  <1>1. IInv /\ [NextRing]_ring => [Q!Next]_<<Contents, last[1]>>
    <2> SUFFICES ASSUME IInv, [NextRing]_ring
                 PROVE  [Q!Next]_<<Contents, last[1]>>
      OBVIOUS
    <2>1. CASE \E ch \in Byte : Write(ch)
      BY <2>1, WriteMaps DEF Q!Next
    <2>2. CASE Read
      BY <2>2, ReadMaps DEF Q!Next
    <2>3. CASE UNCHANGED ring
      BY <2>3 DEF ring, Contents
    <2>4. QED
      BY <2>1, <2>2, <2>3 DEF NextRing, ReadEmpty
  <1>2. QED
    BY Invariance, <1>1, InitMaps, PTL DEF SpecRing, ImplementsByteQueue, Q!Spec
===============================================================================
