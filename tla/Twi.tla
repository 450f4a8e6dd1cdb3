--------------------------------- MODULE Twi ---------------------------------
(***************************************************************************)
(* awh_lib/twi.c and drivers/axp228.c : the polled I2C master and the      *)
(* power chip behind it, whose registers are only ever changed by reading, *)
(* altering bits and writing back.                                         *)
(*                                                                         *)
(* Every operation is asked for by a store to TWI_CNTR and waited for for  *)
(* one millisecond at most; the controller may come later than that, or    *)
(* never.  What was asked for and is not finished yet is op.               *)
(*                                                                         *)
(* op, int, stat, bus : the controller: its operation, bit 3 of TWI_CNTR,  *)
(*        TWI_STAT, and whether the master holds the bus                   *)
(* regs, ptr, got : the chip: its registers, the one addressed, and how    *)
(*        many bytes of the running write it has taken                     *)
(* todo : the changes of registers axp228.c has still to make, head first  *)
(* kind, msg, n, data : the call: i2c_master_get or _set, the message      *)
(*        i2c_xfer is at, the bytes of it that are through, and the buffer *)
(* pc : "next" between calls, "start", "addr", "byte" about to ask,        *)
(*        "wait" for the operation in phase, "stop", "stopped"             *)
(* failed, startlost : a call has failed; one has failed at a start, which *)
(*        may then come after all (auxiliary)                              *)
(***************************************************************************)
EXTENDS Integers, Sequences

CONSTANTS Reg, Bit,
          Address,     \* Address[r] : the number of register r, as a value
          Programs,    \* what axp_LCD_control, axp_USB_control,
                       \* axp_battery_get_soc do: sequences of Change
          RegsAtReset

Value == SUBSET Bit

(* A read, and for a change what is then written. *)
Change == [reg : Reg, write : BOOLEAN, on : Value, off : Value]

ASSUME TwiAssumption == /\ Address \in [Reg -> Value]
                        /\ Programs \subseteq Seq(Change)
                        /\ RegsAtReset \in [Reg -> Value]

VARIABLES op, int, stat, bus, regs, ptr, got,
          todo, kind, msg, n, data, pc, phase, failed, startlost

controller == <<op, int, stat, bus>>
chip == <<regs, ptr, got>>
call == <<todo, kind, msg, n, data>>
auxiliary == <<failed, startlost>>
vars == <<op, int, stat, bus, regs, ptr, got, todo, kind, msg, n, data, pc, phase,
          failed, startlost>>

Changed(c, v) == (v \cup c.on) \ c.off

-------------------------------------------------------------------------------
(* The controller and the chip finish what was asked for, in time or not.  *)

(* A start on a bus that is held is a repeated start. *)
FinishStart == /\ op \in {"start", "stop and start"}
               /\ bus' = "held"
               /\ stat' = IF op = "start" /\ bus = "held" THEN "restarted" ELSE "started"
               /\ got' = 0
               /\ UNCHANGED <<regs, ptr>>

FinishAddress == /\ op = "addr"
                 /\ stat' \in {"ack", "nak"}
                 /\ UNCHANGED <<bus, chip>>

(* The bytes a write sends: the register's number, then the value. *)
FinishWrite == /\ op = "write"
               /\ stat' \in {"ack", "nak"}
               /\ IF stat' = "nak" THEN UNCHANGED chip
                  ELSE /\ got' = got + 1
                       /\ ptr' = IF got = 0 THEN Head(todo).reg ELSE ptr
                       /\ regs' = IF got = 0 THEN regs ELSE [regs EXCEPT ![ptr] = data]
               /\ UNCHANGED bus

(* The byte read stays in TWI_DATA until i2c_read takes it. *)
FinishRead == op = "read" /\ stat' = "ack" /\ UNCHANGED <<bus, chip>>

Finish == /\ FinishStart \/ FinishAddress \/ FinishWrite \/ FinishRead
          /\ op' = "none"
          /\ int' = TRUE
          /\ UNCHANGED <<call, pc, phase, auxiliary>>

(* A stop gives the bus back and raises no interrupt. *)
FinishStop == /\ op = "stop"
              /\ op' = "none"
              /\ bus' = "free"
              /\ UNCHANGED <<int, stat, chip, call, pc, phase, auxiliary>>

-------------------------------------------------------------------------------
(* axp228.c *)

ControlCall == /\ pc = "next"
               /\ todo = <<>>
               /\ \E p \in Programs : todo' = p
               /\ kind' = "get"
               /\ UNCHANGED <<controller, chip, msg, n, data, pc, phase, auxiliary>>

(* i2c_master_get, i2c_master_set up to i2c_xfer's first start. *)
Transfer == /\ pc = "next"
            /\ todo # <<>>
            /\ msg' = 0
            /\ n' = 0
            /\ data' = IF kind = "get" THEN Address[Head(todo).reg]
                       ELSE Changed(Head(todo), data)
            /\ pc' = "start"
            /\ UNCHANGED <<controller, chip, todo, kind, phase, auxiliary>>

(* What axp_get_reg returned goes into axp_set_reg, failed or not. *)
CallEnds == /\ pc = "stopped"
            /\ pc' = "next"
            /\ IF kind = "get" /\ Head(todo).write
               THEN kind' = "set" /\ UNCHANGED todo
               ELSE kind' = "get" /\ todo' = Tail(todo)
            /\ UNCHANGED <<controller, chip, msg, n, data, phase, auxiliary>>

-------------------------------------------------------------------------------
(* twi.c *)

Ask(o, ph) == /\ op' = o
              /\ int' = FALSE
              /\ phase' = ph
              /\ pc' = "wait"

i2c_start == /\ pc = "start"
             /\ Ask(IF op = "stop" THEN "stop and start" ELSE "start", "start")
             /\ UNCHANGED <<stat, bus, chip, call, auxiliary>>

(* The address and the next TWI_CNTR in one step: the read-modify-write    *)
(* with the interrupt bit still set (twi.c:129) is no step of its own.     *)
SendAddress == /\ pc = "addr"
               /\ Ask("addr", "addr")
               /\ UNCHANGED <<stat, bus, chip, call, auxiliary>>

SendOrReadByte == /\ pc = "byte"
                  /\ Ask(IF msg = 1 THEN "read" ELSE "write", "byte")
                  /\ UNCHANGED <<stat, bus, chip, call, auxiliary>>

(* The status the phase waits for: TX_START and TX_RSTART, an acknowledge. *)
Expected == IF phase = "start" THEN (IF msg = 0 THEN "started" ELSE "restarted") ELSE "ack"

MessageBytes == IF kind = "set" THEN 2 ELSE 1

Answered == pc = "wait" /\ int /\ stat = Expected

(* Seeded fault: the loop over a message's bytes sends one too many. *)
OneByteMore == /\ Answered
               /\ phase = "start" \/ (phase = "byte" /\ n + 1 <= MessageBytes) \/ phase = "addr"
               /\ pc' = IF phase = "start" THEN "addr" ELSE "byte"
               /\ n' = IF phase = "byte" THEN n + 1 ELSE 0
               /\ UNCHANGED <<controller, chip, todo, kind, msg, data, phase, auxiliary>>

NextByte == /\ Answered
            /\ phase = "start" \/ (phase = "byte" /\ n + 1 < MessageBytes) \/ phase = "addr"
            /\ pc' = IF phase = "start" THEN "addr" ELSE "byte"
            /\ n' = IF phase = "byte" THEN n + 1 ELSE 0
            /\ UNCHANGED <<controller, chip, todo, kind, msg, data, phase, auxiliary>>

(* Seeded fault: the loop over the messages stops one too early. *)
NumberOnly == /\ Answered
              /\ phase = "byte"
              /\ n + 1 = MessageBytes
              /\ pc' = "stop"
              /\ UNCHANGED <<controller, chip, call, phase, auxiliary>>

(* The last byte of a message: the next one, or the end. *)
MessageDone == /\ Answered
               /\ phase = "byte"
               /\ n + 1 = MessageBytes
               /\ IF kind = "get" /\ msg = 0
                  THEN msg' = 1 /\ pc' = "start" /\ UNCHANGED data
                  ELSE /\ pc' = "stop"
                       /\ data' = IF kind = "get" THEN regs[ptr] ELSE data
                       /\ UNCHANGED msg
               /\ UNCHANGED <<controller, chip, todo, kind, n, phase, auxiliary>>

(* Seeded fault: only a call that succeeded ends with a stop. *)
FailedUnstopped == /\ pc = "wait"
                   /\ ~int \/ stat # Expected
                   /\ failed' = TRUE
                   /\ startlost' = (startlost \/ phase = "start")
                   /\ pc' = "stopped"
                   /\ UNCHANGED <<controller, chip, call, phase>>

(* Seeded fault: a status that never comes is waited for. *)
FailedByAnswer == /\ pc = "wait"
                  /\ int
                  /\ stat # Expected
                  /\ failed' = TRUE
                  /\ startlost' = (startlost \/ phase = "start")
                  /\ pc' = IF phase = "start" /\ msg = 0 THEN "stopped" ELSE "stop"
                  /\ UNCHANGED <<controller, chip, call, phase>>

(* Another status, or none within the millisecond.  A first start that     *)
(* fails returns without a stop.                                           *)
Failed == /\ pc = "wait"
          /\ ~int \/ stat # Expected
          /\ failed' = TRUE
          /\ startlost' = (startlost \/ phase = "start")
          /\ pc' = IF phase = "start" /\ msg = 0 THEN "stopped" ELSE "stop"
          /\ UNCHANGED <<controller, chip, call, phase>>

(* i2c_stop's own waits end with or without the stop, and its status is    *)
(* not looked at.  A stop ends what was still running, but a start that is *)
(* still asked for comes after it.                                         *)
i2c_stop == /\ pc = "stop"
            /\ op' = IF op \in {"start", "stop and start"} THEN "stop and start" ELSE "stop"
            /\ int' = FALSE
            /\ pc' = "stopped"
            /\ UNCHANGED <<stat, bus, chip, call, phase, auxiliary>>

-------------------------------------------------------------------------------
Init == /\ op = "none" /\ int = FALSE /\ stat = "none" /\ bus = "free"
        /\ regs = RegsAtReset /\ ptr \in Reg /\ got = 0
        /\ todo = <<>> /\ kind = "get" /\ msg = 0 /\ n = 0 /\ data = {}
        /\ pc = "next" /\ phase = "start"
        /\ failed = FALSE /\ startlost = FALSE

Driver == \/ ControlCall \/ Transfer \/ CallEnds
          \/ i2c_start \/ SendAddress \/ SendOrReadByte
          \/ NextByte \/ MessageDone \/ Failed \/ i2c_stop

Next == Finish \/ FinishStop \/ Driver

(* The driver goes on; of the controller and the chip nothing is assumed. *)
Spec == Init /\ [][Next]_vars /\ WF_vars(Driver)

-------------------------------------------------------------------------------
(* The values of the variables, of the call, the controller and the chip. *)
TypeOK == /\ op \in {"none", "start", "stop and start", "addr", "write", "read", "stop"}
          /\ {int, failed, startlost} \subseteq BOOLEAN
          /\ stat \in {"none", "started", "restarted", "ack", "nak"}
          /\ bus \in {"free", "held"}
          /\ regs \in [Reg -> Value]
          /\ ptr \in Reg
          /\ got \in 0..2
          /\ todo \in Seq(Change)
          /\ kind \in {"get", "set"}
          /\ msg \in 0..1
          /\ n \in 0..1
          /\ data \in Value
          /\ pc \in {"next", "start", "addr", "byte", "wait", "stop", "stopped"}
          /\ phase \in {"start", "addr", "byte"}

(* While no call has failed, a change of a register alters the bits it is  *)
(* meant to alter and no other (axp228.c:163-184): what was read is what   *)
(* the register held, and nothing came between.                            *)
WritesOnlyItsBits ==
  [][regs' # regs /\ ~failed =>
       regs' = [regs EXCEPT ![Head(todo).reg] = Changed(Head(todo), @)]]_vars

(* Until a start fails, every call gives the bus back, however it ends     *)
(* (i2c_xfer's break and i2c_stop, twi.c:184-195).                         *)
BusGivenBack == pc = "next" /\ ~startlost => bus = "free" \/ op = "stop"

(* Whatever the chip does, a call ends: no wait is without its deadline.   *)
CallsEnd == pc # "next" ~> pc = "next"
===============================================================================
