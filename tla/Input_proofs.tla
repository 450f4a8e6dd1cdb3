------------------------------ MODULE Input_proofs ------------------------------
(***************************************************************************)
(* Proofs about Input for every set of keys, table of characters, list of  *)
(* commands and size of the buffers.                                       *)
(***************************************************************************)
EXTENDS Input, SequenceTheorems, FiniteSetTheorems, TLAPS

(* The keys of a report are looked at once each, and while that goes on    *)
(* they are the keys that are down.                                        *)
NamesKeys == /\ report = down[from]
             /\ \A i \in 1..Len(todo) : todo[i] \in report
             /\ \A i, j \in 1..Len(todo) : todo[i] = todo[j] => i = j

(* A report of too many keys names none: those down count as released.     *)
NamesNone == /\ report = {ErrorRollOver}
             /\ \A i \in 1..Len(todo) : todo[i] = ErrorRollOver
             /\ \A k \in down[from] : <<from, k>> \notin typed

ReportOfNow == pc = "report" => NamesKeys \/ NamesNone

(* A key that was typed and is still down was in the last report, or was   *)
(* typed from this one.                                                    *)
TypedOnce ==
  /\ ~again
  /\ \A d \in Keyboards : \A k \in down[d] : <<d, k>> \in typed =>
       IF pc = "report" THEN k \in prev \/ \A i \in 1..Len(todo) : todo[i] # k
       ELSE k \in prev

(* There is one prev_report for all keyboards: what is known of one is     *)
(* known for one only.                                                     *)
OneKeyboard == \A d, e \in Keyboards : d = e

Once == ReportOfNow /\ TypedOnce

(* Only finitely many keys are down. *)
FiniteDown == \A d \in Keyboards : IsFiniteSet(down[d])

IInv == TypeOK /\ FiniteDown

-------------------------------------------------------------------------------
(* What ByteQueue's operations do to the types. *)
LEMMA PutKeepsType ==
  ASSUME RingTypes, NEW ch \in Byte, Q!Put(ch)
  PROVE  RingTypes'
  <1>1. PICK h \in 0..3 :
          /\ h = 0 \/ (h <= 3 - Q!Room /\ h <= Len(ring))
          /\ ring' = IF Q!Room = 0 THEN Q!Zeroed(h) ELSE Append(Q!Zeroed(h), ch)
          /\ symbol' = symbol
    BY DEF Q!Put
  <1>2. Q!Zeroed(h) \in Seq(Byte) /\ Len(Q!Zeroed(h)) = Len(ring)
    <2>1. \A k \in 1..Len(ring) : (IF k <= h THEN Zero ELSE ring[k]) \in Byte
      BY InputAssumption DEF RingTypes
    <2>2. Q!Zeroed(h) \in [1..Len(ring) -> Byte] /\ Len(ring) \in Nat
      BY <2>1 DEF Q!Zeroed, RingTypes
    <2>3. QED
      BY <2>2
  <1>3. Capacity \in Nat
    BY InputAssumption
  <1>4. Q!Room = Capacity - Len(ring)
    BY DEF Q!Room
  <1>5. CASE Q!Room = 0
    BY <1>1, <1>2, <1>5 DEF RingTypes
  <1>6. CASE Q!Room # 0
    <2>1. ring' = Append(Q!Zeroed(h), ch)
      BY <1>1, <1>6
    <2>2. ring' \in Seq(Byte) /\ Len(ring') = Len(ring) + 1
      BY <2>1, <1>2
    <2>3. QED
      BY <2>2, <1>1, <1>3, <1>4, <1>6 DEF RingTypes
  <1>7. QED
    BY <1>5, <1>6

LEMMA TakeKeepsType ==
  ASSUME RingTypes, Q!Take
  PROVE  RingTypes'
  <1>1. ring # <<>> /\ symbol' = Head(ring) /\ ring' = Tail(ring) /\ ring \in Seq(Byte)
    BY DEF Q!Take, RingTypes
  <1>2. Head(ring) \in Byte /\ Tail(ring) \in Seq(Byte) /\ Len(Tail(ring)) = Len(ring) - 1
    BY <1>1, HeadTailProperties
  <1>3. Len(ring) \in Nat /\ Capacity \in Nat
    BY <1>1, InputAssumption
  <1>4. QED
    BY <1>1, <1>2, <1>3 DEF RingTypes

LEMMA NoByte == <<>> \in Seq(Byte) /\ Len(<<>>) = 0 /\ 0 <= BUFF_SIZE
  <1>1. BUFF_SIZE \in Nat
    BY InputAssumption
  <1>2. QED
    BY <1>1

LEMMA PressKeeps ==
  ASSUME IInv, NEW d \in Keyboards, NEW k \in Key, Press(d, k)
  PROVE  IInv'
  <1>1. KeyTypes'
    BY DEF IInv, TypeOK, KeyTypes, Press
  <1>2. RingTypes'
    BY DEF IInv, TypeOK, RingTypes, Press, queue
  <1>3. ShellTypes'
    BY DEF IInv, TypeOK, ShellTypes, Press, shell
  <1>4. DoomTypes'
    BY DEF IInv, TypeOK, DoomTypes, Press, doom
  <1>5. FlowTypes'
    BY DEF IInv, TypeOK, FlowTypes, Press, shell, doom
  <1>6. FiniteDown'
    <2>1. IsFiniteSet(down[d] \cup {k})
      BY FS_AddElement DEF IInv, FiniteDown
    <2>2. down' = [down EXCEPT ![d] = down[d] \cup {k}] /\ down \in [Keyboards -> SUBSET Key]
      BY DEF IInv, TypeOK, KeyTypes, Press
    <2>3. QED
      BY <2>1, <2>2 DEF IInv, FiniteDown
  <1>7. QED
    BY <1>1, <1>2, <1>3, <1>4, <1>5, <1>6 DEF IInv, TypeOK

LEMMA ReleaseKeeps ==
  ASSUME IInv, NEW d \in Keyboards, NEW k \in Key, Release(d, k)
  PROVE  IInv'
  <1>1. KeyTypes'
    <2>1. down \in [Keyboards -> SUBSET Key]
      BY DEF IInv, TypeOK, KeyTypes
    <2>2. down' = [down EXCEPT ![d] = down[d] \ {k}]
      BY DEF Release
    <2>3. down' \in [Keyboards -> SUBSET Key]
      BY <2>1, <2>2
    <2>4. QED
      BY <2>3 DEF IInv, TypeOK, KeyTypes, Release, hid
  <1>2. RingTypes'
    BY DEF IInv, TypeOK, RingTypes, Release, queue
  <1>3. ShellTypes'
    BY DEF IInv, TypeOK, ShellTypes, Release, shell
  <1>4. DoomTypes'
    BY DEF IInv, TypeOK, DoomTypes, Release, doom
  <1>5. FlowTypes'
    BY DEF IInv, TypeOK, FlowTypes, Release, shell, doom
  <1>6. FiniteDown'
    <2>1. IsFiniteSet(down[d] \ {k})
      BY FS_Subset DEF IInv, FiniteDown
    <2>2. down' = [down EXCEPT ![d] = down[d] \ {k}] /\ down \in [Keyboards -> SUBSET Key]
      BY DEF IInv, TypeOK, KeyTypes, Release
    <2>3. QED
      BY <2>1, <2>2 DEF IInv, FiniteDown
  <1>7. QED
    BY <1>1, <1>2, <1>3, <1>4, <1>5, <1>6 DEF IInv, TypeOK

LEMMA UnplugKeeps ==
  ASSUME IInv, NEW d \in Keyboards, Unplug(d)
  PROVE  IInv'
  <1>1. KeyTypes'
    BY DEF IInv, TypeOK, KeyTypes, Unplug
  <1>2. RingTypes'
    BY DEF IInv, TypeOK, RingTypes, Unplug, queue
  <1>3. ShellTypes'
    BY DEF IInv, TypeOK, ShellTypes, Unplug, shell
  <1>4. DoomTypes'
    BY DEF IInv, TypeOK, DoomTypes, Unplug, doom
  <1>5. FlowTypes'
    BY DEF IInv, TypeOK, FlowTypes, Unplug, shell, doom
  <1>6. FiniteDown'
    <2>1. IsFiniteSet({})
      BY FS_EmptySet
    <2>2. down' = [down EXCEPT ![d] = {}] /\ down \in [Keyboards -> SUBSET Key]
      BY DEF IInv, TypeOK, KeyTypes, Unplug
    <2>3. QED
      BY <2>1, <2>2 DEF IInv, FiniteDown
  <1>7. QED
    BY <1>1, <1>2, <1>3, <1>4, <1>5, <1>6 DEF IInv, TypeOK

LEMMA MountKeeps ==
  ASSUME IInv, NEW d \in Keyboards, Mount(d)
  PROVE  IInv'
  <1>1. KeyTypes'
    BY DEF IInv, TypeOK, KeyTypes, Mount
  <1>2. RingTypes'
    BY DEF IInv, TypeOK, RingTypes, Mount, queue
  <1>3. ShellTypes'
    BY DEF IInv, TypeOK, ShellTypes, Mount, shell
  <1>4. DoomTypes'
    BY DEF IInv, TypeOK, DoomTypes, Mount, doom
  <1>5. FlowTypes'
    BY DEF IInv, TypeOK, FlowTypes, Mount, shell, doom
  <1>6. FiniteDown'
    BY DEF IInv, FiniteDown, Mount
  <1>7. QED
    BY <1>1, <1>2, <1>3, <1>4, <1>5, <1>6 DEF IInv, TypeOK

LEMMA ReportReceivedKeeps ==
  ASSUME IInv, NEW d \in Keyboards, ReportReceived(d)
  PROVE  IInv'
  <1>1. KeyTypes'
    <2>1. IsFiniteSet(down[d]) /\ down[d] \subseteq Key /\ down[d] \subseteq Code
      BY DEF IInv, FiniteDown, TypeOK, KeyTypes, Code
    <2>2. Cardinality(down[d]) \in Nat /\ Rollover \in Nat
      BY <2>1, FS_CardinalityType, InputAssumption
    <2>3. todo' \in Seq(Code) /\ report' \subseteq Code /\ typed' \subseteq Keyboards \X Key
      <3>1. typed \subseteq Keyboards \X Key
        BY DEF IInv, TypeOK, KeyTypes
      <3>2. CASE KeysOf(d)
        <4>1. todo' \in [1..Cardinality(down[d]) -> Code]
          BY <2>1, <3>2 DEF KeysOf, Orders
        <4>2. QED
          BY <2>1, <2>2, <3>1, <3>2, <4>1 DEF KeysOf
      <3>3. CASE TooManyOf(d)
        <4>1. todo' \in [1..Rollover -> Code]
          BY <3>3 DEF TooManyOf, Code
        <4>2. QED
          BY <2>2, <3>1, <3>3, <4>1 DEF TooManyOf, Code
      <3>4. QED
        BY <3>2, <3>3 DEF ReportReceived
    <2>4. served' \in 0..Served
      BY InputAssumption DEF IInv, TypeOK, KeyTypes, ReportReceived
    <2>5. QED
      BY <2>3, <2>4 DEF IInv, TypeOK, KeyTypes, ReportReceived
  <1>2. RingTypes'
    BY DEF IInv, TypeOK, RingTypes, ReportReceived, queue
  <1>3. ShellTypes'
    BY DEF IInv, TypeOK, ShellTypes, ReportReceived, shell
  <1>4. DoomTypes'
    BY DEF IInv, TypeOK, DoomTypes, ReportReceived, doom
  <1>5. FlowTypes'
    BY DEF IInv, TypeOK, FlowTypes, ReportReceived, shell, doom
  <1>6. FiniteDown'
    BY DEF IInv, FiniteDown, ReportReceived
  <1>7. QED
    BY <1>1, <1>2, <1>3, <1>4, <1>5, <1>6 DEF IInv, TypeOK

LEMMA KeyHeldKeeps ==
  ASSUME IInv, KeyHeld
  PROVE  IInv'
  <1>1. KeyTypes'
    BY DEF IInv, TypeOK, KeyTypes, KeyHeld
  <1>2. RingTypes'
    BY DEF IInv, TypeOK, RingTypes, KeyHeld, queue
  <1>3. ShellTypes'
    BY DEF IInv, TypeOK, ShellTypes, KeyHeld, shell
  <1>4. DoomTypes'
    BY DEF IInv, TypeOK, DoomTypes, KeyHeld, doom
  <1>5. FlowTypes'
    BY DEF IInv, TypeOK, FlowTypes, KeyHeld, shell, doom
  <1>6. FiniteDown'
    BY DEF IInv, FiniteDown, KeyHeld
  <1>7. QED
    BY <1>1, <1>2, <1>3, <1>4, <1>5, <1>6 DEF IInv, TypeOK

LEMMA KeyPressedKeeps ==
  ASSUME IInv, KeyPressed
  PROVE  IInv'
  <1>1. KeyTypes'
    <2>1. Head(todo) \in Code /\ Tail(todo) \in Seq(Code)
      BY HeadTailProperties DEF IInv, TypeOK, KeyTypes, KeyPressed
    <2>2. Head(todo) \in Key => <<from, Head(todo)>> \in Keyboards \X Key
      BY <2>1 DEF IInv, TypeOK, KeyTypes
    <2>3. QED
      BY <2>1, <2>2 DEF IInv, TypeOK, KeyTypes, KeyPressed, shell
  <1>2. RingTypes'
    <2>1. \E shift \in BOOLEAN :
            Ascii[Head(todo), shift] \in Byte /\ Q!Put(Ascii[Head(todo), shift])
      BY InputAssumption, HeadTailProperties DEF IInv, TypeOK, KeyTypes, ShellTypes, KeyPressed
    <2>2. RingTypes
      BY DEF IInv, TypeOK
    <2>3. QED
      BY <2>1, <2>2, PutKeepsType
  <1>3. ShellTypes'
    BY DEF IInv, TypeOK, ShellTypes, KeyPressed, shell
  <1>4. DoomTypes'
    BY DEF IInv, TypeOK, DoomTypes, KeyPressed, doom
  <1>5. FlowTypes'
    BY DEF IInv, TypeOK, FlowTypes, KeyPressed, shell, doom
  <1>6. FiniteDown'
    BY DEF IInv, FiniteDown, KeyPressed
  <1>7. QED
    BY <1>1, <1>2, <1>3, <1>4, <1>5, <1>6 DEF IInv, TypeOK

LEMMA ReportDoneKeeps ==
  ASSUME IInv, ReportDone
  PROVE  IInv'
  <1>1. KeyTypes'
    BY DEF IInv, TypeOK, KeyTypes, ReportDone
  <1>2. RingTypes'
    BY DEF IInv, TypeOK, RingTypes, ReportDone, hid, queue, shell, doom
  <1>3. ShellTypes'
    BY InputAssumption, HeadTailProperties DEF IInv, TypeOK, RingTypes, ShellTypes, ReportDone,
       hid, queue, shell, doom
  <1>4. DoomTypes'
    BY InputAssumption, <1>2 DEF IInv, TypeOK, RingTypes, DoomTypes, ReportDone, hid, queue,
       shell, doom
  <1>5. FlowTypes'
    BY DEF IInv, TypeOK, FlowTypes, ReportDone, hid, queue, shell, doom
  <1>6. FiniteDown'
    BY DEF IInv, TypeOK, KeyTypes, FiniteDown, ReportDone, hid, queue, shell, doom
  <1>7. QED
    BY <1>1, <1>2, <1>3, <1>4, <1>5, <1>6 DEF IInv, TypeOK

LEMMA MouseReportKeeps ==
  ASSUME IInv, MouseReport
  PROVE  IInv'
  <1>1. KeyTypes'
    BY InputAssumption, HeadTailProperties DEF IInv, TypeOK, KeyTypes, MouseReport, hid, queue,
       shell, doom
  <1>2. RingTypes'
    <2>1. Ctrl \in Byte /\ Q!Put(Ctrl)
      BY InputAssumption, HeadTailProperties DEF IInv, TypeOK, KeyTypes, ShellTypes,
         MouseReport
    <2>2. QED
      BY <2>1, PutKeepsType DEF IInv, TypeOK
  <1>3. ShellTypes'
    BY InputAssumption, HeadTailProperties DEF IInv, TypeOK, RingTypes, ShellTypes,
       MouseReport, hid, queue, shell, doom
  <1>4. DoomTypes'
    BY InputAssumption, <1>2 DEF IInv, TypeOK, RingTypes, DoomTypes, MouseReport, hid, queue,
       shell, doom
  <1>5. FlowTypes'
    BY DEF IInv, TypeOK, FlowTypes, MouseReport, hid, queue, shell, doom
  <1>6. FiniteDown'
    BY DEF IInv, TypeOK, KeyTypes, FiniteDown, MouseReport, hid, queue, shell, doom
  <1>7. QED
    BY <1>1, <1>2, <1>3, <1>4, <1>5, <1>6 DEF IInv, TypeOK

LEMMA RunCommandKeeps ==
  ASSUME IInv, RunCommand
  PROVE  IInv'
  <1>1. KeyTypes'
    BY InputAssumption, HeadTailProperties DEF IInv, TypeOK, KeyTypes, RunCommand, hid, queue,
       shell, doom
  <1>2. RingTypes'
    BY DEF IInv, TypeOK, RingTypes, RunCommand, hid, queue, shell, doom
  <1>3. ShellTypes'
    BY InputAssumption, HeadTailProperties DEF IInv, TypeOK, RingTypes, ShellTypes, RunCommand,
       hid, queue, shell, doom
  <1>4. DoomTypes'
    BY InputAssumption, <1>2 DEF IInv, TypeOK, RingTypes, DoomTypes, RunCommand, hid, queue,
       shell, doom
  <1>5. FlowTypes'
    BY DEF IInv, TypeOK, FlowTypes, RunCommand, hid, queue, shell, doom
  <1>6. FiniteDown'
    BY DEF IInv, TypeOK, KeyTypes, FiniteDown, RunCommand, hid, queue, shell, doom
  <1>7. QED
    BY <1>1, <1>2, <1>3, <1>4, <1>5, <1>6 DEF IInv, TypeOK

LEMMA TextByteKeeps ==
  ASSUME IInv, TextByte
  PROVE  IInv'
  <1>1. KeyTypes'
    BY InputAssumption, HeadTailProperties DEF IInv, TypeOK, KeyTypes, TextByte, hid, queue,
       shell, doom
  <1>2. RingTypes'
    <2>1. Head(text) \in Byte /\ Q!Put(Head(text))
      BY InputAssumption, HeadTailProperties DEF IInv, TypeOK, KeyTypes, ShellTypes, TextByte
    <2>2. QED
      BY <2>1, PutKeepsType DEF IInv, TypeOK
  <1>3. ShellTypes'
    BY InputAssumption, HeadTailProperties DEF IInv, TypeOK, RingTypes, ShellTypes, TextByte,
       hid, queue, shell, doom
  <1>4. DoomTypes'
    BY InputAssumption, <1>2 DEF IInv, TypeOK, RingTypes, DoomTypes, TextByte, hid, queue,
       shell, doom
  <1>5. FlowTypes'
    BY DEF IInv, TypeOK, FlowTypes, TextByte, hid, queue, shell, doom
  <1>6. FiniteDown'
    BY DEF IInv, TypeOK, KeyTypes, FiniteDown, TextByte, hid, queue, shell, doom
  <1>7. QED
    BY <1>1, <1>2, <1>3, <1>4, <1>5, <1>6 DEF IInv, TypeOK

LEMMA TextDoneKeeps ==
  ASSUME IInv, TextDone
  PROVE  IInv'
  <1>1. KeyTypes'
    BY InputAssumption, HeadTailProperties DEF IInv, TypeOK, KeyTypes, TextDone, hid, queue,
       shell, doom
  <1>2. RingTypes'
    BY DEF IInv, TypeOK, RingTypes, TextDone, hid, queue, shell, doom
  <1>3. ShellTypes'
    BY InputAssumption, HeadTailProperties DEF IInv, TypeOK, RingTypes, ShellTypes, TextDone,
       hid, queue, shell, doom
  <1>4. DoomTypes'
    BY InputAssumption, <1>2 DEF IInv, TypeOK, RingTypes, DoomTypes, TextDone, hid, queue,
       shell, doom
  <1>5. FlowTypes'
    BY DEF IInv, TypeOK, FlowTypes, TextDone, hid, queue, shell, doom
  <1>6. FiniteDown'
    BY DEF IInv, TypeOK, KeyTypes, FiniteDown, TextDone, hid, queue, shell, doom
  <1>7. QED
    BY <1>1, <1>2, <1>3, <1>4, <1>5, <1>6 DEF IInv, TypeOK

LEMMA TurnStartsKeeps ==
  ASSUME IInv, TurnStarts
  PROVE  IInv'
  <1>1. KeyTypes'
    BY InputAssumption, HeadTailProperties DEF IInv, TypeOK, KeyTypes, TurnStarts, hid, queue,
       shell, doom
  <1>2. RingTypes'
    BY DEF IInv, TypeOK, RingTypes, TurnStarts, hid, queue, shell, doom
  <1>3. ShellTypes'
    BY InputAssumption, HeadTailProperties DEF IInv, TypeOK, RingTypes, ShellTypes, TurnStarts,
       hid, queue, shell, doom
  <1>4. DoomTypes'
    BY InputAssumption, <1>2 DEF IInv, TypeOK, RingTypes, DoomTypes, TurnStarts, hid, queue,
       shell, doom
  <1>5. FlowTypes'
    BY DEF IInv, TypeOK, FlowTypes, TurnStarts, hid, queue, shell, doom
  <1>6. FiniteDown'
    BY DEF IInv, TypeOK, KeyTypes, FiniteDown, TurnStarts, hid, queue, shell, doom
  <1>7. QED
    BY <1>1, <1>2, <1>3, <1>4, <1>5, <1>6 DEF IInv, TypeOK

LEMMA UsbDoneKeeps ==
  ASSUME IInv, UsbDone
  PROVE  IInv'
  <1>1. KeyTypes'
    BY InputAssumption, HeadTailProperties DEF IInv, TypeOK, KeyTypes, UsbDone, hid, queue,
       shell, doom
  <1>2. RingTypes'
    BY DEF IInv, TypeOK, RingTypes, UsbDone, hid, queue, shell, doom
  <1>3. ShellTypes'
    BY InputAssumption, HeadTailProperties DEF IInv, TypeOK, RingTypes, ShellTypes, UsbDone,
       hid, queue, shell, doom
  <1>4. DoomTypes'
    BY InputAssumption, <1>2 DEF IInv, TypeOK, RingTypes, DoomTypes, UsbDone, hid, queue,
       shell, doom
  <1>5. FlowTypes'
    BY DEF IInv, TypeOK, FlowTypes, UsbDone, hid, queue, shell, doom
  <1>6. FiniteDown'
    BY DEF IInv, TypeOK, KeyTypes, FiniteDown, UsbDone, hid, queue, shell, doom
  <1>7. QED
    BY <1>1, <1>2, <1>3, <1>4, <1>5, <1>6 DEF IInv, TypeOK

LEMMA HandlerEnterKeeps ==
  ASSUME IInv, HandlerEnter
  PROVE  IInv'
  <1>1. KeyTypes'
    BY InputAssumption, HeadTailProperties DEF IInv, TypeOK, KeyTypes, HandlerEnter, hid,
       queue, shell, doom
  <1>2. RingTypes'
    BY TakeKeepsType DEF IInv, TypeOK, HandlerEnter
  <1>3. ShellTypes'
    <2>1. line' = line \/ line' = <<>>
      BY DEF HandlerEnter
    <2>2. QED
      BY <2>1, NoByte DEF IInv, TypeOK, ShellTypes, HandlerEnter, hid, queue, shell, doom
  <1>4. DoomTypes'
    BY InputAssumption, <1>2 DEF IInv, TypeOK, RingTypes, DoomTypes, HandlerEnter, hid, queue,
       shell, doom
  <1>5. FlowTypes'
    BY DEF IInv, TypeOK, FlowTypes, HandlerEnter, hid, queue, shell, doom
  <1>6. FiniteDown'
    BY DEF IInv, TypeOK, KeyTypes, FiniteDown, HandlerEnter, hid, queue, shell, doom
  <1>7. QED
    BY <1>1, <1>2, <1>3, <1>4, <1>5, <1>6 DEF IInv, TypeOK

LEMMA HandlerBackspaceKeeps ==
  ASSUME IInv, HandlerBackspace
  PROVE  IInv'
  <1>1. KeyTypes'
    BY InputAssumption, HeadTailProperties DEF IInv, TypeOK, KeyTypes, HandlerBackspace, hid,
       queue, shell, doom
  <1>2. RingTypes'
    BY TakeKeepsType DEF IInv, TypeOK, HandlerBackspace
  <1>3. ShellTypes'
    BY InputAssumption, HeadTailProperties DEF IInv, TypeOK, RingTypes, ShellTypes,
       HandlerBackspace, hid, queue, shell, doom
  <1>4. DoomTypes'
    BY InputAssumption, <1>2 DEF IInv, TypeOK, RingTypes, DoomTypes, HandlerBackspace, hid,
       queue, shell, doom
  <1>5. FlowTypes'
    BY DEF IInv, TypeOK, FlowTypes, HandlerBackspace, hid, queue, shell, doom
  <1>6. FiniteDown'
    BY DEF IInv, TypeOK, KeyTypes, FiniteDown, HandlerBackspace, hid, queue, shell, doom
  <1>7. QED
    BY <1>1, <1>2, <1>3, <1>4, <1>5, <1>6 DEF IInv, TypeOK

LEMMA HandlerSymbolKeeps ==
  ASSUME IInv, HandlerSymbol
  PROVE  IInv'
  <1>1. KeyTypes'
    BY InputAssumption, HeadTailProperties DEF IInv, TypeOK, KeyTypes, HandlerSymbol, hid,
       queue, shell, doom
  <1>2. RingTypes'
    BY TakeKeepsType DEF IInv, TypeOK, HandlerSymbol
  <1>3. ShellTypes'
    <2>1. PICK c \in Byte : line' = IF Len(line) < BUFF_SIZE THEN Append(line, c) ELSE line
      BY <1>2, InputAssumption DEF HandlerSymbol, RingTypes
    <2>2. line' \in Seq(Byte) /\ Len(line') <= BUFF_SIZE
      <3>1. line \in Seq(Byte) /\ Len(line) <= BUFF_SIZE /\ BUFF_SIZE \in Nat
        BY InputAssumption DEF IInv, TypeOK, ShellTypes
      <3>2. QED
        BY <2>1, <3>1
    <2>3. QED
      BY <2>2 DEF IInv, TypeOK, ShellTypes, HandlerSymbol
  <1>4. DoomTypes'
    BY InputAssumption, <1>2 DEF IInv, TypeOK, RingTypes, DoomTypes, HandlerSymbol, hid, queue,
       shell, doom
  <1>5. FlowTypes'
    BY DEF IInv, TypeOK, FlowTypes, HandlerSymbol, hid, queue, shell, doom
  <1>6. FiniteDown'
    BY DEF IInv, TypeOK, KeyTypes, FiniteDown, HandlerSymbol, hid, queue, shell, doom
  <1>7. QED
    BY <1>1, <1>2, <1>3, <1>4, <1>5, <1>6 DEF IInv, TypeOK

LEMMA HandlerDoneKeeps ==
  ASSUME IInv, HandlerDone
  PROVE  IInv'
  <1>1. KeyTypes'
    BY InputAssumption, HeadTailProperties DEF IInv, TypeOK, KeyTypes, HandlerDone, hid, queue,
       shell, doom
  <1>2. RingTypes'
    BY DEF IInv, TypeOK, RingTypes, HandlerDone, hid, queue, shell, doom
  <1>3. ShellTypes'
    BY InputAssumption, HeadTailProperties DEF IInv, TypeOK, RingTypes, ShellTypes,
       HandlerDone, hid, queue, shell, doom
  <1>4. DoomTypes'
    BY InputAssumption, <1>2 DEF IInv, TypeOK, RingTypes, DoomTypes, HandlerDone, hid, queue,
       shell, doom
  <1>5. FlowTypes'
    BY DEF IInv, TypeOK, FlowTypes, HandlerDone, hid, queue, shell, doom
  <1>6. FiniteDown'
    BY DEF IInv, TypeOK, KeyTypes, FiniteDown, HandlerDone, hid, queue, shell, doom
  <1>7. QED
    BY <1>1, <1>2, <1>3, <1>4, <1>5, <1>6 DEF IInv, TypeOK

LEMMA DoomKeyKeeps ==
  ASSUME IInv, DoomKey
  PROVE  IInv'
  <1>1. KeyTypes'
    BY InputAssumption, HeadTailProperties DEF IInv, TypeOK, KeyTypes, DoomKey, hid, queue,
       shell, doom
  <1>2. RingTypes'
    <2>1. Q!Take \/ UNCHANGED queue
      BY DEF DoomKey
    <2>2. QED
      BY <2>1, TakeKeepsType DEF IInv, TypeOK, RingTypes, queue
  <1>3. ShellTypes'
    BY InputAssumption, HeadTailProperties DEF IInv, TypeOK, RingTypes, ShellTypes, DoomKey,
       hid, queue, shell, doom
  <1>4. DoomTypes'
    BY InputAssumption, <1>2 DEF IInv, TypeOK, RingTypes, DoomTypes, DoomKey, hid, queue,
       shell, doom
  <1>5. FlowTypes'
    BY DEF IInv, TypeOK, FlowTypes, DoomKey, hid, queue, shell, doom
  <1>6. FiniteDown'
    BY DEF IInv, TypeOK, KeyTypes, FiniteDown, DoomKey, hid, queue, shell, doom
  <1>7. QED
    BY <1>1, <1>2, <1>3, <1>4, <1>5, <1>6 DEF IInv, TypeOK

LEMMA DoomUpdateKeeps ==
  ASSUME IInv, DoomUpdate
  PROVE  IInv'
  <1>1. KeyTypes'
    BY InputAssumption, HeadTailProperties DEF IInv, TypeOK, KeyTypes, DoomUpdate, Releases,
       hid, queue, shell, doom
  <1>2. RingTypes'
    BY DEF IInv, TypeOK, RingTypes, DoomUpdate, Releases, hid, queue, shell, doom
  <1>3. ShellTypes'
    <2>1. line' = line \/ line' = <<>>
      BY DEF DoomUpdate
    <2>2. QED
      BY <2>1, NoByte DEF IInv, TypeOK, ShellTypes, DoomUpdate, Releases, hid, queue, shell,
         doom
  <1>4. DoomTypes'
    <2>1. frame_cnt' \in 0..1
      <3>1. /\ frame_cnt \in 0..1
            /\ frame_cnt' = frame_cnt \/ frame_cnt' = IF Second THEN 0 ELSE frame_cnt + 1
        BY DEF IInv, TypeOK, DoomTypes, DoomUpdate
      <3>2. QED
        BY <3>1 DEF Second
    <2>2. key' \in Byte /\ previous_key' \in Byte /\ held' \subseteq Byte
      BY DEF IInv, TypeOK, DoomTypes, DoomUpdate
    <2>3. QED
      BY <2>1, <2>2 DEF DoomTypes
  <1>5. FlowTypes'
    BY DEF IInv, TypeOK, FlowTypes, DoomUpdate, Releases, hid, queue, shell, doom
  <1>6. FiniteDown'
    BY DEF IInv, TypeOK, KeyTypes, FiniteDown, DoomUpdate, Releases, hid, queue, shell, doom
  <1>7. QED
    BY <1>1, <1>2, <1>3, <1>4, <1>5, <1>6 DEF IInv, TypeOK

LEMMA InitHolds == Init => IInv
  <1> SUFFICES ASSUME Init PROVE IInv
    OBVIOUS
  <1>1. KeyTypes
    <2>1. <<>> \in Seq(Key) /\ 0 \in 0..Served
      BY InputAssumption
    <2>2. QED
      BY <2>1 DEF Init, KeyTypes
  <1>2. RingTypes
    <2>1. <<>> \in Seq(Byte) /\ Len(<<>>) = 0 /\ 0 <= Capacity /\ Zero \in Byte
      BY InputAssumption
    <2>2. QED
      BY <2>1 DEF Init, RingTypes
  <1>3. ShellTypes
    BY NoByte DEF Init, ShellTypes
  <1>4. DoomTypes
    BY InputAssumption DEF Init, DoomTypes
  <1>5. FlowTypes
    BY DEF Init, FlowTypes
  <1>6. FiniteDown
    BY FS_EmptySet DEF Init, FiniteDown
  <1>7. QED
    BY <1>1, <1>2, <1>3, <1>4, <1>5, <1>6 DEF IInv, TypeOK

LEMMA StutterKeeps ==
  ASSUME IInv, UNCHANGED vars
  PROVE  IInv'
  <1>1. KeyTypes' /\ FiniteDown'
    BY DEF IInv, TypeOK, KeyTypes, FiniteDown, vars
  <1>2. RingTypes'
    BY DEF IInv, TypeOK, RingTypes, vars
  <1>3. ShellTypes'
    BY DEF IInv, TypeOK, ShellTypes, vars
  <1>4. DoomTypes'
    BY DEF IInv, TypeOK, DoomTypes, vars
  <1>5. FlowTypes'
    BY DEF IInv, TypeOK, FlowTypes, vars
  <1>6. QED
    BY <1>1, <1>2, <1>3, <1>4, <1>5 DEF IInv, TypeOK

LEMMA Inductive == IInv /\ [Next]_vars => IInv'
  <1> SUFFICES ASSUME IInv, [Next]_vars PROVE IInv'
    OBVIOUS
  <1>1. CASE User
    BY <1>1, PressKeeps, ReleaseKeeps, UnplugKeeps, MountKeeps DEF User
  <1>2. CASE Reports
    BY <1>2, ReportReceivedKeeps, MouseReportKeeps, RunCommandKeeps DEF Reports
  <1>3. CASE Thread
    BY <1>3, KeyHeldKeeps, KeyPressedKeeps, ReportDoneKeeps, TextByteKeeps, TextDoneKeeps,
       TurnStartsKeeps, UsbDoneKeeps, HandlerEnterKeeps, HandlerBackspaceKeeps,
       HandlerSymbolKeeps, HandlerDoneKeeps, DoomKeyKeeps, DoomUpdateKeeps DEF Thread
  <1>4. CASE UNCHANGED vars
    BY <1>4, StutterKeeps
  <1>5. QED
    BY <1>1, <1>2, <1>3, <1>4 DEF Next

LEMMA InvariantHolds == Spec => []IInv
  <1>1. QED
    BY InitHolds, Inductive, PTL DEF Spec

(* The variables keep their types; above all the command line and the ring *)
(* never outgrow their buffers.                                            *)
THEOREM TypeCorrect == Spec => []TypeOK
  <1>1. IInv => TypeOK
    BY DEF IInv
  <1>2. QED
    BY <1>1, InvariantHolds, PTL

-------------------------------------------------------------------------------
(* One byte for one press.  Nothing is pressed or let go while a report is *)
(* looked at, so that the keys of the report are the keys that are down.   *)

LEMMA OnceAtFirst == Init => Once
  BY DEF Init, Once, ReportOfNow, TypedOnce

(* What neither presses, nor reports, nor looks at a report leaves it so. *)
LEMMA OnceElsewhere ==
  ASSUME Once, UNCHANGED <<down, prev, typed, again, todo, from, report>>,
         pc' = "report" <=> pc = "report"
  PROVE  Once'
  BY DEF Once, ReportOfNow, NamesKeys, NamesNone, TypedOnce

LEMMA OnceFrame ==
  ASSUME Once, pc # "report",
         \/ RunCommand \/ MouseReport \/ TextByte \/ TextDone \/ TurnStarts \/ UsbDone
         \/ HandlerEnter \/ HandlerBackspace \/ HandlerSymbol \/ HandlerDone
         \/ DoomKey \/ DoomUpdate
  PROVE  Once'
  <1>1. UNCHANGED hid /\ pc' # "report"
    BY DEF RunCommand, MouseReport, TextByte, TextDone, TurnStarts, UsbDone, HandlerEnter,
       HandlerBackspace, HandlerSymbol, HandlerDone, DoomKey, DoomUpdate
  <1>2. QED
    BY <1>1, OnceElsewhere DEF hid

LEMMA OnceKeepsUser ==
  ASSUME TypeOK, Once, User
  PROVE  Once'
  <1>1. pc = "usb" /\ pc' = "usb" /\ again' = again /\ prev' = prev
    BY DEF User, Press, Release, Unplug, Mount
  <1>2. ASSUME NEW d \in Keyboards, NEW k \in down'[d], <<d, k>> \in typed'
        PROVE  k \in down[d] /\ <<d, k>> \in typed
    BY <1>2 DEF User, Press, Release, Unplug, Mount, TypeOK, KeyTypes
  <1>3. QED
    BY <1>1, <1>2 DEF Once, ReportOfNow, TypedOnce

LEMMA OnceKeepsReport ==
  ASSUME TypeOK, FiniteDown, Once, NEW d \in Keyboards, ReportReceived(d)
  PROVE  Once'
  <1>1. /\ pc = "usb" /\ pc' = "report" /\ from' = d
        /\ UNCHANGED <<down, prev, again>>
    BY DEF ReportReceived
  <1>2. Cardinality(down[d]) \in Nat /\ Rollover \in Nat
    BY FS_CardinalityType, InputAssumption DEF FiniteDown
  <1>3. typed' \subseteq typed
    BY DEF ReportReceived, KeysOf, TooManyOf
  <1>4. CASE KeysOf(d)
    <2>1. /\ report' = down[d] /\ Len(todo') = Cardinality(down[d])
          /\ todo' \in Orders(down[d])
      BY <1>2, <1>4 DEF KeysOf, Orders
    <2>2. NamesKeys'
      BY <1>1, <2>1 DEF Orders, NamesKeys
    <2>3. QED
      BY <1>1, <1>3, <2>2 DEF Once, ReportOfNow, TypedOnce
  <1>5. CASE TooManyOf(d)
    <2>1. /\ report' = {ErrorRollOver} /\ typed' = {t \in typed : t[1] # d}
          /\ todo' = [i \in 1..Rollover |-> ErrorRollOver] /\ Len(todo') = Rollover
      BY <1>2, <1>5 DEF TooManyOf
    <2>2. \A i \in 1..Len(todo') : todo'[i] = ErrorRollOver
      BY <2>1
    <2>3. \A k \in down'[d] : <<d, k>> \notin typed'
      BY <2>1
    <2>4. NamesNone'
      BY <1>1, <2>1, <2>2, <2>3 DEF NamesNone
    <2>5. QED
      BY <1>1, <1>3, <2>4 DEF Once, ReportOfNow, TypedOnce
  <1>6. QED
    BY <1>4, <1>5 DEF ReportReceived

LEMMA OnceKeepsKey ==
  ASSUME TypeOK, Once, KeyHeld \/ KeyPressed
  PROVE  Once'
  <1>1. /\ pc = "report" /\ pc' = "report" /\ todo # <<>> /\ todo \in Seq(Code)
        /\ todo' = Tail(todo) /\ from \in Keyboards
        /\ UNCHANGED <<down, prev, from, report>>
    BY DEF KeyHeld, KeyPressed, TypeOK, KeyTypes, shell, doom
  <1>2. /\ Len(todo) \in Nat /\ Len(todo) >= 1
        /\ Len(todo') = Len(todo) - 1
        /\ \A i \in 1..Len(todo') : todo'[i] = todo[i + 1] /\ i + 1 \in 1..Len(todo)
        /\ Head(todo) = todo[1] /\ 1 \in 1..Len(todo)
    BY <1>1, HeadTailProperties
  <1>3. ASSUME NamesKeys PROVE NamesKeys'
    <2>1. report' = down'[from'] /\ \A i \in 1..Len(todo') : todo'[i] \in report'
      BY <1>1, <1>2, <1>3 DEF NamesKeys
    <2>2. ASSUME NEW i \in 1..Len(todo'), NEW j \in 1..Len(todo'), todo'[i] = todo'[j]
          PROVE  i = j
      <3>1. i + 1 = j + 1
        BY <1>2, <1>3, <2>2 DEF NamesKeys
      <3>2. QED
        BY <3>1
    <2>3. QED
      BY <2>1, <2>2 DEF NamesKeys
  <1>4. CASE KeyHeld
    <2>1. again' = again /\ typed' = typed /\ Head(todo) \in prev
      BY <1>4 DEF KeyHeld
    <2>2. TypedOnce'
      BY <1>1, <1>2, <2>1 DEF Once, TypedOnce
    <2>3. NamesNone => NamesNone'
      BY <1>1, <1>2, <2>1 DEF NamesNone
    <2>4. QED
      BY <1>1, <1>3, <2>2, <2>3 DEF Once, ReportOfNow
  <1>5. CASE KeyPressed /\ NamesNone
    <2>1. Head(todo) = ErrorRollOver /\ Head(todo) \notin Key
      BY <1>2, <1>5, InputAssumption DEF NamesNone
    <2>2. typed' = typed /\ again' = (again \/ <<from, Head(todo)>> \in typed)
      BY <1>5, <2>1 DEF KeyPressed
    <2>3. again' = again
      BY <2>1, <2>2 DEF TypeOK, KeyTypes, FlowTypes
    <2>4. TypedOnce'
      BY <1>1, <1>2, <2>2, <2>3 DEF Once, TypedOnce
    <2>5. NamesNone'
      BY <1>1, <1>2, <1>5, <2>2 DEF NamesNone
    <2>6. QED
      BY <2>4, <2>5 DEF Once, ReportOfNow
  <1>6. CASE KeyPressed /\ NamesKeys
    <2>1. Head(todo) \notin prev /\ again' = (again \/ <<from, Head(todo)>> \in typed)
      BY <1>6 DEF KeyPressed
    <2>2. Head(todo) \in down[from] /\ Head(todo) \in Key
      BY <1>1, <1>2, <1>6 DEF NamesKeys, TypeOK, KeyTypes
    <2>3. typed' = typed \cup {<<from, Head(todo)>>}
      BY <1>6, <2>2 DEF KeyPressed
    <2>4. <<from, Head(todo)>> \notin typed
      BY <1>1, <1>2, <2>1, <2>2 DEF Once, TypedOnce
    <2>5. \A i \in 1..Len(todo') : todo'[i] # Head(todo)
      <3>1. ASSUME NEW i \in 1..Len(todo'), todo'[i] = Head(todo)
            PROVE  FALSE
        <4>1. i + 1 = 1
          BY <1>2, <1>6, <3>1 DEF NamesKeys
        <4>2. QED
          BY <4>1
      <3>2. QED
        BY <3>1
    <2>6. ASSUME NEW d \in Keyboards, NEW k \in down'[d], <<d, k>> \in typed'
          PROVE  k \in prev' \/ \A i \in 1..Len(todo') : todo'[i] # k
      <3>1. CASE <<d, k>> \in typed
        BY <1>1, <1>2, <2>6, <3>1 DEF Once, TypedOnce
      <3>2. CASE <<d, k>> \notin typed
        BY <2>3, <2>5, <2>6, <3>2
      <3>3. QED
        BY <3>1, <3>2
    <2>7. ~again'
      BY <2>1, <2>4 DEF Once, TypedOnce
    <2>8. TypedOnce'
      BY <1>1, <2>6, <2>7 DEF TypedOnce
    <2>9. QED
      BY <1>3, <1>6, <2>8 DEF Once, ReportOfNow
  <1>7. QED
    BY <1>1, <1>4, <1>5, <1>6 DEF Once, ReportOfNow

LEMMA OnceKeepsDone ==
  ASSUME OneKeyboard, TypeOK, Once, ReportDone
  PROVE  Once'
  <1>1. /\ pc = "report" /\ pc' = "usb" /\ prev' = report
        /\ UNCHANGED <<down, typed, again>>
    BY DEF ReportDone
  <1>2. from \in Keyboards /\ \A d \in Keyboards : d = from
    BY DEF OneKeyboard, TypeOK, KeyTypes
  <1>3. CASE NamesKeys
    BY <1>1, <1>2, <1>3 DEF NamesKeys, Once, ReportOfNow, TypedOnce
  <1>4. CASE NamesNone
    <2>1. \A d \in Keyboards : \A k \in down'[d] : <<d, k>> \notin typed'
      BY <1>1, <1>2, <1>4 DEF NamesNone
    <2>2. QED
      BY <1>1, <2>1 DEF Once, ReportOfNow, TypedOnce
  <1>5. QED
    BY <1>1, <1>3, <1>4 DEF Once, ReportOfNow

LEMMA OnceInductive ==
  ASSUME OneKeyboard, IInv, Once, [Next]_vars
  PROVE  Once'
  <1> USE DEF IInv
  <1>1. CASE User
    BY <1>1, OnceKeepsUser
  <1>2. CASE \E d \in Keyboards : ReportReceived(d)
    BY <1>2, OnceKeepsReport
  <1>3. CASE KeyHeld \/ KeyPressed
    BY <1>3, OnceKeepsKey
  <1>4. CASE ReportDone
    BY <1>4, OnceKeepsDone
  <1>5. CASE UNCHANGED vars
    BY <1>5, OnceElsewhere DEF vars
  <1>6. CASE \/ RunCommand \/ MouseReport \/ TextByte \/ TextDone \/ TurnStarts \/ UsbDone
             \/ HandlerEnter \/ HandlerBackspace \/ HandlerSymbol \/ HandlerDone
             \/ DoomKey \/ DoomUpdate
    <2>1. pc # "report"
      BY <1>6 DEF RunCommand, MouseReport, TextByte, TextDone, TurnStarts, UsbDone,
         HandlerEnter, HandlerBackspace, HandlerSymbol, HandlerDone, DoomKey, DoomUpdate
    <2>2. QED
      BY <1>6, <2>1, OnceFrame
  <1>7. QED
    BY <1>1, <1>2, <1>3, <1>4, <1>5, <1>6 DEF Next, Reports, Thread

(* With one keyboard a press types at most one byte, however often and in  *)
(* whatever order its keys are reported, as long as no report of too many  *)
(* keys replaces prev_report: after one every key still held is typed once *)
(* more, and again only once (process_kbd_report's find_key_in_report).    *)
THEOREM TypedOncePerPress ==
  ASSUME OneKeyboard
  PROVE  Spec => []OncePerPress
  <1>1. Init => Once
    BY OnceAtFirst
  <1>2. IInv /\ IInv' /\ Once /\ [Next]_vars => Once'
    BY OnceInductive
  <1>3. Once => OncePerPress
    BY DEF Once, TypedOnce, OncePerPress
  <1>4. QED
    BY <1>1, <1>2, <1>3, InvariantHolds, PTL DEF Spec

-------------------------------------------------------------------------------
(* Doom lets the last key go within three frames, if no other byte comes.  *)

(* The frames in which the last key may still be down.                     *)
FramesLeft == IF previous_key = key THEN 2 - frame_cnt ELSE 3

(* A byte follows in the place of the last key. *)
NextByteComes == pc = "frame" /\ ring # <<>>

(* Each frame releases the last key or brings its release nearer.          *)
KeyIsLetGo ==
  /\ [](FramesLeft \in 1..3)
  /\ [][/\ pc = "update" /\ key # Zero /\ key \in held =>
             key \notin held' \/ FramesLeft' < FramesLeft
        /\ pc # "update" /\ ~NextByteComes => UNCHANGED <<key, held, FramesLeft>>]_vars

LEMMA FramesLeftType == ASSUME TypeOK PROVE FramesLeft \in 1..3
  BY DEF TypeOK, DoomTypes, FramesLeft

(* The frame counter may run for the key before: it is not started afresh  *)
(* for the next one.                                                       *)
LEMMA FrameCounts ==
  ASSUME TypeOK, DoomUpdate, key # Zero, key \in held
  PROVE  key \notin held' \/ FramesLeft' < FramesLeft
  <1>1. /\ frame_cnt \in 0..1 /\ key' = key /\ previous_key' = key
        /\ FramesLeft' = 2 - frame_cnt'
    BY DEF TypeOK, DoomTypes, DoomUpdate, FramesLeft
  <1>2. CASE previous_key = key
    <2>1. /\ frame_cnt' = IF Second THEN 0 ELSE frame_cnt + 1
          /\ held' = IF Second THEN held \ {key} ELSE held
          /\ FramesLeft = 2 - frame_cnt
      BY <1>2 DEF DoomUpdate, Releases, FramesLeft
    <2>2. CASE frame_cnt = 1
      BY <2>1, <2>2 DEF Second
    <2>3. CASE frame_cnt = 0
      BY <1>1, <2>1, <2>3 DEF Second
    <2>4. QED
      BY <1>1, <2>2, <2>3
  <1>3. CASE previous_key # key
    <2>1. frame_cnt' = 0 \/ frame_cnt' = 1
      BY <1>1, <1>3 DEF DoomUpdate, Second
    <2>2. FramesLeft' = 1 \/ FramesLeft' = 2
      BY <1>1, <2>1
    <2>3. FramesLeft = 3
      BY <1>3 DEF FramesLeft
    <2>4. QED
      BY <2>2, <2>3
  <1>4. QED
    BY <1>2, <1>3

LEMMA OnlyFramesRelease ==
  ASSUME [Next]_vars, pc # "update", ~NextByteComes
  PROVE  UNCHANGED <<key, held, FramesLeft>>
  <1>1. UNCHANGED <<key, held, previous_key, frame_cnt>>
    <2>1. CASE User
      BY <2>1 DEF User, Press, Release, Unplug, Mount, doom
    <2>2. CASE Reports
      BY <2>2 DEF Reports, ReportReceived, MouseReport, RunCommand, doom
    <2>3. CASE KeyHeld \/ KeyPressed \/ ReportDone
      BY <2>3 DEF KeyHeld, KeyPressed, ReportDone, doom
    <2>4. CASE TextByte \/ TextDone \/ TurnStarts \/ UsbDone \/ HandlerDone
      BY <2>4 DEF TextByte, TextDone, TurnStarts, UsbDone, HandlerDone, doom
    <2>5. CASE HandlerEnter \/ HandlerBackspace \/ HandlerSymbol
      BY <2>5 DEF HandlerEnter, HandlerBackspace, HandlerSymbol, doom
    <2>6. CASE DoomKey
      BY <2>6 DEF DoomKey, NextByteComes, Q!Take
    <2>7. CASE DoomUpdate
      BY <2>7 DEF DoomUpdate
    <2>8. CASE UNCHANGED vars
      BY <2>8 DEF vars
    <2>9. QED
      BY <2>1, <2>2, <2>3, <2>4, <2>5, <2>6, <2>7, <2>8 DEF Next, Thread
  <1>2. QED
    BY <1>1 DEF FramesLeft

(* The safety half of LastKeyReleased: whatever the keys before it were    *)
(* and wherever frame_cnt stands, each of doom_task_exec's frames either   *)
(* releases the last key or brings its release nearer, three of them at    *)
(* most are needed, and nothing but a next byte puts it off                *)
(* (doom_task.c:123-168).                                                  *)
THEOREM LastKeyLetGo == Spec => KeyIsLetGo
  <1>1. IInv => FramesLeft \in 1..3
    BY FramesLeftType DEF IInv
  <1>2. ASSUME IInv, [Next]_vars, pc = "update"
        PROVE  DoomUpdate \/ UNCHANGED vars
    <2>1. ~User /\ ~Reports
      BY <1>2 DEF User, Press, Release, Unplug, Mount, Reports, ReportReceived,
                  MouseReport, RunCommand
    <2>2. /\ ~KeyHeld /\ ~KeyPressed /\ ~ReportDone /\ ~TextByte /\ ~TextDone
          /\ ~TurnStarts /\ ~UsbDone /\ ~HandlerDone /\ ~DoomKey
      BY <1>2 DEF KeyHeld, KeyPressed, ReportDone, TextByte, TextDone, TurnStarts, UsbDone,
                  HandlerDone, DoomKey
    <2>3. ~HandlerEnter /\ ~HandlerBackspace /\ ~HandlerSymbol
      BY <1>2 DEF HandlerEnter, HandlerBackspace, HandlerSymbol
    <2>4. QED
      BY <1>2, <2>1, <2>2, <2>3 DEF Next, Thread
  <1>3. IInv /\ [Next]_vars =>
          [/\ pc = "update" /\ key # Zero /\ key \in held =>
                key \notin held' \/ FramesLeft' < FramesLeft
           /\ pc # "update" /\ ~NextByteComes => UNCHANGED <<key, held, FramesLeft>>]_vars
    BY <1>2, FrameCounts, OnlyFramesRelease DEF IInv
  <1>4. QED
    BY <1>1, <1>3, InvariantHolds, PTL DEF Spec, KeyIsLetGo

===============================================================================
