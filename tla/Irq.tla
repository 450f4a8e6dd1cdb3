--------------------------------- MODULE Irq ---------------------------------
(***************************************************************************)
(* awh_lib/irq.c and the trap of board_start.s : the interrupt controller  *)
(* (PLIC) and what the hart does with it.  Interrupts do not nest: a trap  *)
(* turns them off until mret.  What a device asks for and what its handler *)
(* does belongs to the module of the device.                               *)
(*                                                                         *)
(* pending, enabled : the interrupts of PLIC_IP_REGn and PLIC_MIE_REGn     *)
(* in_service : claimed and not completed; such an interrupt is not        *)
(*              latched again                                              *)
(* handlers : irq_handlers_array, "dummy" for dummy_irq_handler            *)
(* hart : "thread" in main, "claim", "handler" and "complete" inside       *)
(*        handle_interrupt, "stuck" in its while(1)                        *)
(* irq : the claimed interrupt                                             *)
(***************************************************************************)
CONSTANTS Irqs,   \* those in use, all between IRQ_NUM_MIN and IRQ_NUM_MAX
          NoIrq   \* what PLIC_MCLAIM_REG reads when nothing is pending

ASSUME IrqAssumption == NoIrq \notin Irqs

VARIABLES pending, enabled, in_service, handlers, hart, irq

irqvars == <<pending, enabled, in_service, handlers, hart, irq>>

InitIrq == /\ pending = {}
           /\ enabled = {}
           /\ in_service = {}
           /\ handlers = [i \in Irqs |-> "dummy"]
           /\ hart = "thread"
           /\ irq = NoIrq

irq_assign(i, handler) == handlers' = [handlers EXCEPT ![i] = handler]

(* Seeded fault: the interrupt last claimed instead of the argument. *)
irq_enable_last(i) == /\ pending' \in {pending, pending \cup {i}}
                      /\ enabled' = enabled \cup {irq}

(* The pending bit is set as well; whether the PLIC takes a store to it is *)
(* the hardware's.                                                         *)
irq_enable(i) == /\ pending' \in {pending, pending \cup {i}}
                 /\ enabled' = enabled \cup {i}

(* A store to the PLIC has taken effect when the next instruction begins:   *)
(* no trap is taken on the strength of what it withdraws.                  *)
irq_disable(i) == enabled' = enabled \ {i}

(* The gateway forwards a device's request. *)
Latch(i) == /\ i \notin in_service \cup pending
            /\ pending' = pending \cup {i}
            /\ UNCHANGED <<enabled, in_service, handlers, hart, irq>>

Claimable == pending \cap enabled

Trap == /\ hart = "thread"
        /\ Claimable # {}
        /\ hart' = "claim"
        /\ UNCHANGED <<pending, enabled, in_service, handlers, irq>>

(* handle_interrupt; a claim of nothing ends in "Unknown irq".  Every      *)
(* interrupt has the same priority.                                        *)
Claim(i) == /\ hart = "claim"
            /\ i \in IF Claimable = {} THEN {NoIrq} ELSE Claimable
            /\ irq' = i
            /\ pending' = pending \ {i}
            /\ in_service' = in_service \cup ({i} \cap Irqs)
            /\ hart' = IF i = NoIrq THEN "stuck" ELSE "handler"
            /\ UNCHANGED <<enabled, handlers>>

Complete == /\ hart = "complete"
            /\ in_service' = in_service \ {irq}
            /\ hart' = "thread"
            /\ UNCHANGED <<pending, enabled, handlers, irq>>
===============================================================================
