------------------------------ MODULE Twi_proofs ------------------------------
(***************************************************************************)
(* Proofs about Twi for every set of registers and bits and every program. *)
(***************************************************************************)
EXTENDS Twi, SequenceTheorems, TLAPS

Starts == {"start", "stop and start"}

(* In a call there is a change to make, and a byte of the message to go.   *)
InCall == pc # "next" => todo # <<>> /\ n < MessageBytes /\ (msg = 1 => kind = "get")

(* What the controller is asked for in a phase. *)
Asked == CASE phase = "start" -> Starts
           [] phase = "addr" -> {"addr"}
           [] phase = "byte" -> IF msg = 1 THEN {"read"} ELSE {"write"}

Through == IF phase = "byte" /\ msg = 0 THEN n + 1 ELSE n

(* Controller, chip and driver count the bytes of a message alike. *)
InStep == /\ pc \in {"addr", "byte"} => op = "none" /\ got = n
          /\ pc = "addr" => n = 0
          /\ pc = "wait" =>
               /\ int => op = "none"
               /\ ~int => op \in Asked /\ (phase # "start" => got = n)
               /\ int /\ stat = Expected => got = IF phase = "start" THEN 0 ELSE Through
               /\ phase = "addr" => n = 0
          /\ op = "write" => pc \in {"wait", "stop"} /\ msg = 0 /\ got = n
          /\ op \in {"addr", "read"} => pc \in {"wait", "stop"}

(* Only a start that failed can come later. *)
NoLateStart == ~startlost =>
  /\ op \in Starts => pc = "wait" /\ phase = "start"
  /\ pc \in {"next", "stopped"} \/ (pc = "start" /\ msg = 0) => bus = "free" \/ op = "stop"

TheChange == Head(todo)

(* The value travels from the register through data and back. *)
Faithful == ~failed =>
  /\ pc = "stop" => op # "write"
  /\ kind = "set" /\ pc \in {"start", "addr", "byte", "wait"} =>
       data = Changed(TheChange, regs[TheChange.reg])
  /\ kind = "get" /\ pc \in {"stop", "stopped"} => data = regs[TheChange.reg]
  /\ kind = "set" /\ pc = "next" => todo # <<>> /\ data = regs[TheChange.reg]
  /\ msg = 1 /\ pc \in {"start", "addr", "byte", "wait"} => ptr = TheChange.reg
  /\ pc = "byte" /\ n > 0 => ptr = TheChange.reg
  /\ pc = "wait" /\ phase = "byte" /\ got > 0 => ptr = TheChange.reg

IInv == TypeOK /\ InCall /\ InStep /\ NoLateStart /\ Faithful

(* The head of what is still to do is a change, and so is what follows it. *)
LEMMA ChangesToDo ==
  ASSUME TypeOK, todo # <<>>
  PROVE  TheChange \in Change /\ Tail(todo) \in Seq(Change)
  BY HeadTailProperties DEF TypeOK, TheChange

(* A change of a value is a value, and made twice is made once.            *)
LEMMA ChangedOnce ==
  ASSUME NEW c \in Change, NEW v \in Value
  PROVE  Changed(c, v) \in Value /\ Changed(c, Changed(c, v)) = Changed(c, v)
  BY DEF Changed, Change, Value

-------------------------------------------------------------------------------
(* A start: the chip counts from nothing. *)
LEMMA FinishStartKeeps ==
  ASSUME IInv, Finish /\ FinishStart
  PROVE  IInv'
  <1>1. todo # <<>> => TheChange \in Change /\ Tail(todo) \in Seq(Change)
    BY ChangesToDo DEF IInv
  <1>2. got' \in 0..2
    <2>1. got' = 0
      BY DEF FinishStart
    <2>2. QED
      BY <2>1
  <1>3. TypeOK'
    BY <1>2 DEF IInv, TypeOK, Finish, FinishStart, call, auxiliary
  <1>4. InCall'
    BY DEF IInv, InCall, MessageBytes, Finish, call
  <1>5. InStep'
    BY DEF IInv, TypeOK, InStep, Asked, Finish, FinishStart
  <1>6. NoLateStart'
    BY DEF IInv, NoLateStart, Starts, Finish, FinishStart, auxiliary
  <1>7. Faithful'
    BY DEF IInv, InStep, Faithful, Asked, TheChange, Finish, FinishStart, call, auxiliary
  <1>8. QED
    BY <1>3, <1>4, <1>5, <1>6, <1>7 DEF IInv

(* An address is acknowledged or not. *)
LEMMA FinishAddressKeeps ==
  ASSUME IInv, Finish /\ FinishAddress
  PROVE  IInv'
  <1>1. todo # <<>> => TheChange \in Change /\ Tail(todo) \in Seq(Change)
    BY ChangesToDo DEF IInv
  <1>2. TypeOK'
    BY DEF IInv, TypeOK, Finish, FinishAddress, chip, call, auxiliary
  <1>3. InCall'
    BY DEF IInv, InCall, MessageBytes, Finish, call
  <1>4. InStep'
    BY DEF IInv, InStep, Asked, Through, Starts, Finish, FinishAddress, chip, call
  <1>5. NoLateStart'
    BY DEF IInv, InStep, NoLateStart, Starts, Finish, FinishAddress
  <1>6. Faithful'
    BY DEF IInv, Faithful, TheChange, Finish, FinishAddress, chip, call, auxiliary
  <1>7. QED
    BY <1>2, <1>3, <1>4, <1>5, <1>6 DEF IInv

(* A byte of a write: the number of the register, or the value. *)
LEMMA FinishWriteKeeps ==
  ASSUME IInv, Finish /\ FinishWrite
  PROVE  IInv'
  <1>1. todo # <<>> => TheChange \in Change /\ Tail(todo) \in Seq(Change)
    BY ChangesToDo DEF IInv
  <1>2. got' \in 0..2
    <2>1. got = n /\ n \in 0..1 /\ (got' = got \/ got' = got + 1)
      BY DEF IInv, TypeOK, InStep, FinishWrite, chip
    <2>2. QED
      BY <2>1
  <1>3. TypeOK'
    BY <1>1 DEF IInv, TypeOK, InCall, InStep, TheChange, Change, Finish, FinishWrite, chip,
       call, auxiliary
  <1>4. InCall'
    BY DEF IInv, InCall, MessageBytes, Finish, call
  <1>5. InStep'
    BY DEF IInv, TypeOK, InStep, Asked, Through, Expected, Finish, FinishWrite, call
  <1>6. NoLateStart'
    BY DEF IInv, InStep, NoLateStart, Starts, Finish, FinishWrite
  <1>7. Faithful'
    BY <1>1, ChangedOnce DEF IInv, TypeOK, InCall, Faithful, TheChange, Change, Finish,
       FinishWrite, chip, call, auxiliary
  <1>8. QED
    BY <1>3, <1>4, <1>5, <1>6, <1>7 DEF IInv

(* A byte of a read. *)
LEMMA FinishReadKeeps ==
  ASSUME IInv, Finish /\ FinishRead
  PROVE  IInv'
  <1>1. todo # <<>> => TheChange \in Change /\ Tail(todo) \in Seq(Change)
    BY ChangesToDo DEF IInv
  <1>2. TypeOK'
    BY DEF IInv, TypeOK, Finish, FinishRead, chip, call, auxiliary
  <1>3. InCall'
    BY DEF IInv, InCall, MessageBytes, Finish, call
  <1>4. InStep'
    BY DEF IInv, InStep, Asked, Through, Starts, Finish, FinishRead, chip, call
  <1>5. NoLateStart'
    BY DEF IInv, InStep, NoLateStart, Starts, Finish, FinishRead
  <1>6. Faithful'
    BY DEF IInv, Faithful, TheChange, Finish, FinishRead, chip, call, auxiliary
  <1>7. QED
    BY <1>2, <1>3, <1>4, <1>5, <1>6 DEF IInv

(* A stop. *)
LEMMA FinishStopKeeps ==
  ASSUME IInv, FinishStop
  PROVE  IInv'
  <1>1. todo # <<>> => TheChange \in Change /\ Tail(todo) \in Seq(Change)
    BY ChangesToDo DEF IInv
  <1>2. TypeOK'
    BY DEF IInv, TypeOK, FinishStop, chip, call, auxiliary
  <1>3. InCall'
    BY DEF IInv, InCall, MessageBytes, FinishStop, call
  <1>4. InStep'
    BY DEF IInv, TypeOK, InStep, Asked, Starts, FinishStop
  <1>5. NoLateStart'
    BY DEF NoLateStart, Starts, FinishStop
  <1>6. Faithful'
    BY DEF IInv, Faithful, TheChange, FinishStop, chip, call, auxiliary
  <1>7. QED
    BY <1>2, <1>3, <1>4, <1>5, <1>6 DEF IInv

(* A new program. *)
LEMMA ControlCallKeeps ==
  ASSUME IInv, ControlCall
  PROVE  IInv'
  <1>1. todo # <<>> => TheChange \in Change /\ Tail(todo) \in Seq(Change)
    BY ChangesToDo DEF IInv
  <1>2. TypeOK'
    BY TwiAssumption DEF IInv, TypeOK, ControlCall, controller, chip, auxiliary
  <1>3. InCall'
    BY DEF InCall, ControlCall
  <1>4. InStep'
    BY DEF IInv, InStep, ControlCall, controller
  <1>5. NoLateStart'
    BY DEF IInv, NoLateStart, ControlCall, controller, auxiliary
  <1>6. Faithful'
    BY DEF Faithful, ControlCall
  <1>7. QED
    BY <1>2, <1>3, <1>4, <1>5, <1>6 DEF IInv

(* The start of a call. *)
LEMMA TransferKeeps ==
  ASSUME IInv, Transfer
  PROVE  IInv'
  <1>1. todo # <<>> => TheChange \in Change /\ Tail(todo) \in Seq(Change)
    BY ChangesToDo DEF IInv
  <1>2. msg' \in 0..1 /\ n' \in 0..1 /\ n' < MessageBytes' /\ msg' # 1
    <2>1. msg' = 0 /\ n' = 0
      BY DEF Transfer
    <2>2. QED
      BY <2>1 DEF MessageBytes
  <1>3. TypeOK'
    BY <1>1, <1>2, TwiAssumption, ChangedOnce DEF IInv, TypeOK, TheChange, Change, Transfer,
       controller, chip, auxiliary
  <1>4. InCall'
    BY <1>2 DEF InCall, Transfer
  <1>5. InStep'
    BY DEF IInv, InStep, Transfer, controller
  <1>6. NoLateStart'
    BY DEF IInv, NoLateStart, Transfer, controller, auxiliary
  <1>7. Faithful'
    BY DEF IInv, Faithful, TheChange, Transfer, chip, auxiliary
  <1>8. QED
    BY <1>3, <1>4, <1>5, <1>6, <1>7 DEF IInv

(* The end of a call. *)
LEMMA CallEndsKeeps ==
  ASSUME IInv, CallEnds
  PROVE  IInv'
  <1>1. todo # <<>> => TheChange \in Change /\ Tail(todo) \in Seq(Change)
    BY ChangesToDo DEF IInv
  <1>2. TypeOK'
    BY <1>1 DEF IInv, TypeOK, InCall, CallEnds, controller, chip, auxiliary
  <1>3. InCall'
    BY DEF InCall, CallEnds
  <1>4. InStep'
    BY DEF IInv, InStep, CallEnds, controller
  <1>5. NoLateStart'
    BY DEF IInv, NoLateStart, CallEnds, controller, auxiliary
  <1>6. Faithful'
    BY DEF IInv, InCall, Faithful, TheChange, CallEnds, chip, auxiliary
  <1>7. QED
    BY <1>2, <1>3, <1>4, <1>5, <1>6 DEF IInv

(* A start is asked for. *)
LEMMA i2c_startKeeps ==
  ASSUME IInv, i2c_start
  PROVE  IInv'
  <1>1. todo # <<>> => TheChange \in Change /\ Tail(todo) \in Seq(Change)
    BY ChangesToDo DEF IInv
  <1>2. TypeOK'
    BY DEF IInv, TypeOK, i2c_start, chip, call, auxiliary, Ask
  <1>3. InCall'
    BY DEF IInv, InCall, MessageBytes, i2c_start, call
  <1>4. InStep'
    BY DEF InStep, Asked, Starts, i2c_start, Ask
  <1>5. NoLateStart'
    BY DEF NoLateStart, i2c_start, Ask
  <1>6. Faithful'
    BY DEF IInv, Faithful, TheChange, i2c_start, chip, call, auxiliary, Ask
  <1>7. QED
    BY <1>2, <1>3, <1>4, <1>5, <1>6 DEF IInv

(* The address is asked for. *)
LEMMA SendAddressKeeps ==
  ASSUME IInv, SendAddress
  PROVE  IInv'
  <1>1. todo # <<>> => TheChange \in Change /\ Tail(todo) \in Seq(Change)
    BY ChangesToDo DEF IInv
  <1>2. TypeOK'
    BY DEF IInv, TypeOK, SendAddress, chip, call, auxiliary, Ask
  <1>3. InCall'
    BY DEF IInv, InCall, MessageBytes, SendAddress, call
  <1>4. InStep'
    BY DEF IInv, InStep, Asked, SendAddress, chip, call, Ask
  <1>5. NoLateStart'
    BY DEF NoLateStart, Starts, SendAddress, Ask
  <1>6. Faithful'
    BY DEF IInv, Faithful, TheChange, SendAddress, chip, call, auxiliary, Ask
  <1>7. QED
    BY <1>2, <1>3, <1>4, <1>5, <1>6 DEF IInv

(* A byte is asked for. *)
LEMMA SendOrReadByteKeeps ==
  ASSUME IInv, SendOrReadByte
  PROVE  IInv'
  <1>1. todo # <<>> => TheChange \in Change /\ Tail(todo) \in Seq(Change)
    BY ChangesToDo DEF IInv
  <1>2. TypeOK'
    BY DEF IInv, TypeOK, SendOrReadByte, chip, call, auxiliary, Ask
  <1>3. InCall'
    BY DEF IInv, InCall, MessageBytes, SendOrReadByte, call
  <1>4. InStep'
    BY DEF IInv, TypeOK, InStep, Asked, SendOrReadByte, chip, call, Ask
  <1>5. NoLateStart'
    BY DEF NoLateStart, Starts, SendOrReadByte, Ask
  <1>6. Faithful'
    BY DEF IInv, InStep, Faithful, TheChange, SendOrReadByte, chip, call, auxiliary, Ask
  <1>7. QED
    BY <1>2, <1>3, <1>4, <1>5, <1>6 DEF IInv

(* On to the next byte. *)
LEMMA NextByteKeeps ==
  ASSUME IInv, NextByte
  PROVE  IInv'
  <1>1. todo # <<>> => TheChange \in Change /\ Tail(todo) \in Seq(Change)
    BY ChangesToDo DEF IInv
  <1>2. n' < MessageBytes'
    <2>1. kind' = kind /\ (n' = 0 \/ (n' = n + 1 /\ n + 1 < MessageBytes))
      BY DEF NextByte
    <2>2. QED
      BY <2>1 DEF MessageBytes
  <1>3. TypeOK'
    BY DEF IInv, TypeOK, InStep, MessageBytes, NextByte, controller, chip, auxiliary, Answered
  <1>4. InCall'
    BY <1>2 DEF IInv, InCall, NextByte, Answered
  <1>5. InStep'
    BY DEF IInv, TypeOK, InCall, InStep, MessageBytes, Through, NextByte, controller, chip,
       Answered
  <1>6. NoLateStart'
    BY DEF IInv, InStep, NoLateStart, Starts, NextByte, controller, Answered
  <1>7. Faithful'
    BY DEF IInv, TypeOK, InStep, Faithful, Through, TheChange, NextByte, chip, auxiliary,
       Answered
  <1>8. QED
    BY <1>3, <1>4, <1>5, <1>6, <1>7 DEF IInv

(* The end of a message. *)
LEMMA MessageDoneKeeps ==
  ASSUME IInv, MessageDone
  PROVE  IInv'
  <1>1. todo # <<>> => TheChange \in Change /\ Tail(todo) \in Seq(Change)
    BY ChangesToDo DEF IInv
  <1>2. TypeOK'
    BY DEF IInv, TypeOK, InStep, MessageDone, controller, chip, auxiliary, Answered
  <1>3. InCall'
    BY DEF IInv, InCall, MessageBytes, MessageDone, Answered
  <1>4. InStep'
    BY DEF IInv, InStep, MessageDone, controller, Answered
  <1>5. NoLateStart'
    BY DEF IInv, InStep, NoLateStart, MessageDone, controller, auxiliary
  <1>6. Faithful'
    BY <1>1, ChangedOnce DEF IInv, TypeOK, InCall, InStep, Faithful, MessageBytes, Asked,
       Through, Expected, Starts, TheChange, Change, MessageDone, controller, chip, call,
       auxiliary, Answered
  <1>7. QED
    BY <1>2, <1>3, <1>4, <1>5, <1>6 DEF IInv

(* The wait is over without the status. *)
LEMMA FailedKeeps ==
  ASSUME IInv, Failed
  PROVE  IInv'
  <1>1. todo # <<>> => TheChange \in Change /\ Tail(todo) \in Seq(Change)
    BY ChangesToDo DEF IInv
  <1>2. TypeOK'
    BY <1>1, TwiAssumption, ChangedOnce DEF IInv, TypeOK, InCall, InStep, MessageBytes,
       TheChange, Change, Failed, controller, chip, call, auxiliary
  <1>3. InCall'
    BY DEF IInv, TypeOK, InCall, MessageBytes, Failed, controller, chip, call, auxiliary
  <1>4. InStep'
    BY DEF IInv, TypeOK, InCall, InStep, MessageBytes, Asked, Through, Expected, Starts,
       Failed, controller, chip, call, auxiliary
  <1>5. NoLateStart'
    BY DEF IInv, TypeOK, InStep, NoLateStart, Asked, Starts, Failed, controller, chip, call,
       auxiliary
  <1>6. Faithful'
    BY <1>1, ChangedOnce DEF IInv, TypeOK, InCall, InStep, Faithful, MessageBytes, Asked,
       Through, Expected, Starts, TheChange, Change, Failed, controller, chip, call, auxiliary
  <1>7. QED
    BY <1>2, <1>3, <1>4, <1>5, <1>6 DEF IInv

(* A stop is asked for. *)
LEMMA i2c_stopKeeps ==
  ASSUME IInv, i2c_stop
  PROVE  IInv'
  <1>1. todo # <<>> => TheChange \in Change /\ Tail(todo) \in Seq(Change)
    BY ChangesToDo DEF IInv
  <1>2. TypeOK'
    BY <1>1, TwiAssumption, ChangedOnce DEF IInv, TypeOK, InCall, InStep, MessageBytes,
       TheChange, Change, i2c_stop, controller, chip, call, auxiliary
  <1>3. InCall'
    BY DEF IInv, TypeOK, InCall, MessageBytes, i2c_stop, controller, chip, call, auxiliary
  <1>4. InStep'
    BY DEF IInv, TypeOK, InCall, InStep, MessageBytes, Asked, Through, Expected, Starts,
       i2c_stop, controller, chip, call, auxiliary
  <1>5. NoLateStart'
    BY DEF IInv, TypeOK, InStep, NoLateStart, Asked, Starts, i2c_stop, controller, chip, call,
       auxiliary
  <1>6. Faithful'
    BY <1>1, ChangedOnce DEF IInv, TypeOK, InCall, InStep, Faithful, MessageBytes, Asked,
       Through, Expected, Starts, TheChange, Change, i2c_stop, controller, chip, call,
       auxiliary
  <1>7. QED
    BY <1>2, <1>3, <1>4, <1>5, <1>6 DEF IInv

-------------------------------------------------------------------------------
LEMMA InitHolds == Init => IInv
  <1>1. ASSUME Init
        PROVE  TypeOK
    <2>1. got \in 0..2 /\ n \in 0..1 /\ msg \in 0..1 /\ todo \in Seq(Change)
      BY <1>1 DEF Init
    <2>2. QED
      BY <1>1, <2>1, TwiAssumption DEF Init, TypeOK, Value
  <1>2. Init => InCall /\ InStep /\ NoLateStart /\ Faithful
    BY DEF Init, InCall, InStep, NoLateStart, Faithful, Starts
  <1>3. QED
    BY <1>1, <1>2 DEF IInv

LEMMA StutterKeeps ==
  ASSUME IInv, UNCHANGED vars
  PROVE  IInv'
  <1>1. TypeOK'
    BY DEF IInv, TypeOK, vars
  <1>2. InCall'
    BY DEF IInv, InCall, MessageBytes, vars
  <1>3. InStep'
    BY DEF IInv, InStep, Asked, Through, Expected, Starts, vars
  <1>4. NoLateStart' /\ Faithful'
    BY DEF IInv, NoLateStart, Faithful, Starts, TheChange, vars
  <1>5. QED
    BY <1>1, <1>2, <1>3, <1>4 DEF IInv

LEMMA Inductive == Spec => []IInv
  <1>1. ASSUME IInv, [Next]_vars
        PROVE  IInv'
    <2>1. CASE Finish
      <3>1. FinishStart \/ FinishAddress \/ FinishWrite \/ FinishRead
        BY <2>1 DEF Finish
      <3>2. QED
        BY <1>1, <2>1, <3>1, FinishStartKeeps, FinishAddressKeeps, FinishWriteKeeps,
           FinishReadKeeps
    <2>2. CASE FinishStop
      BY <1>1, <2>2, FinishStopKeeps
    <2>3. CASE Driver
      BY <1>1, <2>3, ControlCallKeeps, TransferKeeps, CallEndsKeeps, i2c_startKeeps,
         SendAddressKeeps, SendOrReadByteKeeps, NextByteKeeps, MessageDoneKeeps, FailedKeeps,
         i2c_stopKeeps DEF Driver
    <2>4. CASE UNCHANGED vars
      BY <1>1, <2>4, StutterKeeps
    <2>5. QED
      BY <1>1, <2>1, <2>2, <2>3, <2>4 DEF Next
  <1>2. QED
    BY <1>1, InitHolds, PTL DEF Spec

(* The variables keep their types (twi.c, axp228.c).                       *)
THEOREM TypeCorrect == Spec => []TypeOK
  BY Inductive, PTL DEF IInv

(* Whatever registers and programs there are, a call that ends after no    *)
(* start has failed has given the bus back or is about to (twi.c:184-195). *)
THEOREM BusIsGivenBack == Spec => []BusGivenBack
  <1>1. IInv => BusGivenBack
    BY DEF IInv, NoLateStart, BusGivenBack
  <1>2. QED
    BY <1>1, Inductive, PTL

(* A register changes only when the value of a write arrives.              *)
LEMMA OnlyWrites ==
  ASSUME Next, regs' # regs
  PROVE  op = "write" /\ got # 0 /\ regs' = [regs EXCEPT ![ptr] = data]
  BY DEF Next, Finish, FinishStart, FinishAddress, FinishWrite, FinishRead, FinishStop, Driver,
     ControlCall, Transfer, CallEnds, i2c_start, SendAddress, SendOrReadByte, NextByte,
     MessageDone, Failed, i2c_stop, chip

(* While no call has failed, a change of any register alters exactly the   *)
(* bits of the program's change (axp228.c:163-184).                        *)
THEOREM OnlyItsBitsChange == Spec => WritesOnlyItsBits
  <1>1. ASSUME IInv, [Next]_vars, regs' # regs, ~failed
        PROVE  regs' = [regs EXCEPT ![Head(todo).reg] = Changed(Head(todo), @)]
    <2>1. op = "write" /\ got # 0 /\ regs' = [regs EXCEPT ![ptr] = data]
      BY <1>1, OnlyWrites DEF vars
    <2>2. pc = "wait" /\ ~int /\ phase = "byte" /\ msg = 0 /\ got = n
      <3>1. pc = "wait" /\ msg = 0 /\ got = n
        BY <1>1, <2>1 DEF IInv, InStep, Faithful
      <3>2. ~int /\ op \in Asked
        BY <1>1, <2>1, <3>1 DEF IInv, TypeOK, InStep
      <3>3. phase = "byte"
        BY <1>1, <2>1, <3>2 DEF IInv, TypeOK, Asked, Starts
      <3>4. QED
        BY <3>1, <3>2, <3>3
    <2>3. got \in 1..2 /\ n < MessageBytes
      BY <1>1, <2>1, <2>2 DEF IInv, TypeOK, InCall
    <2>4. kind = "set" /\ got > 0
      <3>1. kind \in {"get", "set"}
        BY <1>1 DEF IInv, TypeOK
      <3>2. QED
        BY <2>2, <2>3, <3>1 DEF MessageBytes
    <2>5. ptr = TheChange.reg /\ data = Changed(TheChange, regs[TheChange.reg])
      BY <1>1, <2>2, <2>4 DEF IInv, Faithful
    <2>6. QED
      BY <2>1, <2>5 DEF TheChange
  <1>2. IInv /\ [Next]_vars => [regs' # regs /\ ~failed =>
          regs' = [regs EXCEPT ![Head(todo).reg] = Changed(Head(todo), @)]]_vars
    BY <1>1
  <1>3. QED
    BY <1>2, Inductive, PTL DEF Spec, WritesOnlyItsBits
-------------------------------------------------------------------------------
(* A call takes a bounded number of the driver's steps. *)

(* What is left of a message at a place, in a phase, at a byte: a start,   *)
(* its address and two bytes at most, each asked for and waited for.       *)
LeftOfMessage(at, ph, i) == CASE at = "start" -> 8
                              [] at = "addr" -> 6
                              [] at = "byte" -> 4 - 2 * i
                              [] OTHER -> CASE ph = "start" -> 7
                                            [] ph = "addr" -> 5
                                            [] OTHER -> 3 - 2 * i

(* Of a call: its messages, the stop and the return. *)
LeftOfCall(at, ph, m, i) == CASE at = "next" -> 0
                              [] at = "stopped" -> 1
                              [] at = "stop" -> 2
                              [] OTHER -> 2 + LeftOfMessage(at, ph, i) + 8 * (1 - m)

StepsLeft == LeftOfCall(pc, phase, msg, n)

LEMMA StepsLeftType ==
  ASSUME NEW at \in {"next", "start", "addr", "byte", "wait", "stop", "stopped"},
         NEW ph \in {"start", "addr", "byte"}, NEW m \in 0..1, NEW i \in 0..1
  PROVE  /\ LeftOfCall(at, ph, m, i) \in 0..18
         /\ LeftOfCall(at, ph, m, i) = 0 <=> at = "next"
         /\ LeftOfMessage(at, ph, i) \in 1..8
  <1>1. i = 0 \/ i = 1
    OBVIOUS
  <1>2. m = 0 \/ m = 1
    OBVIOUS
  <1>3. LeftOfMessage(at, ph, i) \in 1..8
    BY <1>1 DEF LeftOfMessage
  <1>4. QED
    BY <1>2, <1>3 DEF LeftOfCall

(* Each step of a call leaves fewer of them. *)
LEMMA DriverGoesOn ==
  ASSUME IInv, IInv', pc # "next", Driver
  PROVE  StepsLeft' < StepsLeft
  <1>1. /\ pc \in {"start", "addr", "byte", "wait", "stop", "stopped"}
        /\ phase \in {"start", "addr", "byte"} /\ msg \in 0..1 /\ n \in 0..1
        /\ pc' \in {"next", "start", "addr", "byte", "wait", "stop", "stopped"}
        /\ phase' \in {"start", "addr", "byte"} /\ msg' \in 0..1 /\ n' \in 0..1
    BY DEF IInv, TypeOK
  <1>2. (n = 0 \/ n = 1) /\ (n' = 0 \/ n' = 1) /\ (msg = 0 \/ msg = 1)
    BY <1>1
  <1>3. /\ StepsLeft = LeftOfCall(pc, phase, msg, n)
        /\ StepsLeft' = LeftOfCall(pc', phase', msg', n')
    BY DEF StepsLeft
  <1>4. CASE pc \in {"start", "addr", "byte"}
    <2>1. pc' = "wait" /\ phase' = pc /\ msg' = msg /\ n' = n
      BY <1>4 DEF Driver, ControlCall, Transfer, CallEnds, i2c_start, SendAddress,
         SendOrReadByte, NextByte, MessageDone, Failed, i2c_stop, Answered, Ask, call
    <2>2. LeftOfMessage(pc', phase', n') < LeftOfMessage(pc, phase, n)
      BY <1>2, <1>4, <2>1 DEF LeftOfMessage
    <2>3. /\ StepsLeft = 2 + LeftOfMessage(pc, phase, n) + 8 * (1 - msg)
          /\ StepsLeft' = 2 + LeftOfMessage(pc', phase', n') + 8 * (1 - msg)
      BY <1>3, <1>4, <2>1 DEF LeftOfCall
    <2>4. /\ LeftOfMessage(pc, phase, n) \in 1..8 /\ LeftOfMessage(pc', phase', n') \in 1..8
      BY <1>1, StepsLeftType
    <2>5. QED
      BY <1>1, <2>2, <2>3, <2>4
  <1>5. CASE pc = "wait"
    <2>1. StepsLeft = 2 + LeftOfMessage(pc, phase, n) + 8 * (1 - msg)
      BY <1>3, <1>5 DEF LeftOfCall
    <2>2. LeftOfMessage(pc, phase, n) \in 1..8 /\ LeftOfMessage(pc', phase', n') \in 1..8
      BY <1>1, StepsLeftType
    <2>3. NextByte \/ MessageDone \/ Failed
      BY <1>5 DEF Driver, ControlCall, Transfer, CallEnds, i2c_start, SendAddress,
         SendOrReadByte, i2c_stop
    <2>4. CASE NextByte
      <3>1. /\ msg' = msg
            /\ phase = "start" => pc' = "addr"
            /\ phase = "addr" => pc' = "byte" /\ n' = 0
            /\ phase = "byte" => pc' = "byte" /\ n' = n + 1
        BY <2>4 DEF NextByte
      <3>2. LeftOfMessage(pc', phase', n') < LeftOfMessage(pc, phase, n)
        BY <1>1, <1>2, <1>5, <3>1 DEF LeftOfMessage
      <3>3. StepsLeft' = 2 + LeftOfMessage(pc', phase', n') + 8 * (1 - msg)
        BY <1>1, <1>3, <3>1 DEF LeftOfCall
      <3>4. QED
        BY <1>1, <2>1, <2>2, <3>2, <3>3
    <2>5. CASE MessageDone
      <3>1. pc' = "stop" \/ (pc' = "start" /\ msg = 0 /\ msg' = 1)
        <4>1. msg \in {0, 1}
          BY <1>2
        <4>2. QED
          BY <2>5, <4>1 DEF MessageDone
      <3>2. CASE pc' = "stop"
        <4>1. StepsLeft' = 2
          BY <1>3, <3>2 DEF LeftOfCall
        <4>2. QED
          BY <1>1, <2>1, <2>2, <4>1
      <3>3. CASE pc' = "start" /\ msg = 0 /\ msg' = 1
        <4>1. StepsLeft' = 10
          BY <1>3, <3>3 DEF LeftOfCall, LeftOfMessage
        <4>2. QED
          BY <2>1, <2>2, <3>3, <4>1
      <3>4. QED
        BY <3>1, <3>2, <3>3
    <2>6. CASE Failed
      <3>1. pc' \in {"stop", "stopped"}
        BY <2>6 DEF Failed
      <3>2. StepsLeft' \in 1..2
        BY <1>3, <3>1 DEF LeftOfCall
      <3>3. QED
        BY <1>1, <2>1, <2>2, <3>2
    <2>7. QED
      BY <2>3, <2>4, <2>5, <2>6
  <1>6. CASE pc = "stop"
    <2>1. pc' = "stopped"
      BY <1>6 DEF Driver, ControlCall, Transfer, CallEnds, i2c_start, SendAddress,
         SendOrReadByte, NextByte, MessageDone, Failed, i2c_stop, Answered
    <2>2. QED
      BY <1>3, <1>6, <2>1 DEF LeftOfCall
  <1>7. CASE pc = "stopped"
    <2>1. pc' = "next"
      BY <1>7 DEF Driver, ControlCall, Transfer, CallEnds, i2c_start, SendAddress,
         SendOrReadByte, NextByte, MessageDone, Failed, i2c_stop, Answered
    <2>2. QED
      BY <1>3, <1>7, <2>1 DEF LeftOfCall
  <1>8. QED
    BY <1>1, <1>4, <1>5, <1>6, <1>7

(* Neither the controller nor the chip can make a call longer. *)
LEMMA OthersLeaveSteps ==
  ASSUME Finish \/ FinishStop
  PROVE  StepsLeft' = StepsLeft
  <1>1. UNCHANGED <<pc, phase, msg, n>>
    BY DEF Finish, FinishStop, call
  <1>2. QED
    BY <1>1 DEF StepsLeft

(* What is left of a call is bounded, and shrinks.                         *)
CallsAreBounded ==
  /\ [](StepsLeft \in 0..18 /\ (StepsLeft = 0 <=> pc = "next"))
  /\ [][pc # "next" => IF Driver THEN StepsLeft' < StepsLeft ELSE StepsLeft' = StepsLeft]_vars

(* Every call is over after 18 steps of the driver at most, whatever the   *)
(* controller and the chip do between them and whether they answer or not  *)
(* (twi.c:150-220): what CallsEnd needs besides the driver going on.       *)
THEOREM CallsTakeFewSteps == Spec => CallsAreBounded
  <1>1. IInv => StepsLeft \in 0..18 /\ (StepsLeft = 0 <=> pc = "next")
    BY StepsLeftType DEF IInv, TypeOK, StepsLeft
  <1>2. IInv /\ IInv' /\ [Next]_vars =>
          [pc # "next" => IF Driver THEN StepsLeft' < StepsLeft
                          ELSE StepsLeft' = StepsLeft]_vars
    BY DriverGoesOn, OthersLeaveSteps DEF Next
  <1>3. QED
    BY <1>1, <1>2, Inductive, PTL DEF Spec, CallsAreBounded
===============================================================================
