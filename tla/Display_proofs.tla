----------------------------- MODULE Display_proofs -----------------------------
(***************************************************************************)
(* Proofs about the way to the screen: Display, with the interrupt         *)
(* controller and the scan-out it is built from, and at the end the        *)
(* headers of the packets the DSI host sends to the panel.                 *)
(***************************************************************************)
EXTENDS Display, DsiHeader, FiniteSetTheorems, TLAPS

(* Where the thread can be: in the start, in a rotation, or between them.  *)
InPlace == /\ pc \in InitSteps => task = "init"
           /\ pc \in {"usb", "usb_irq", "idle", "locked", "loop"} => task \in {"turn", "doom"}
           /\ pc \in {"clear", "arm", "start", "wait"} => task \notin {"init", "turn"}

(* An interrupt that is enabled has its handler, and one whose enabling is *)
(* next.                                                                   *)
Assigned == /\ \A i \in enabled : handlers[i] # "dummy"
            /\ pc = "tcon_irq" => handlers[LCD_IRQn] # "dummy"
            /\ pc = "g2d_irq" => handlers[G2D_IRQn] # "dummy"
            /\ task \notin InitTasks /\ pc # "usb" => handlers[USB_IRQn] # "dummy"

(* Between a trap and its claim nothing is withdrawn. *)
Claimed == /\ hart # "stuck"
           /\ hart = "claim" => Claimable # {}
           /\ hart = "handler" => irq \in Irqs /\ handlers[irq] # "dummy"

(* No update is asked for while the layers are being written. *)
HalfUnasked == /\ pc \in {"layer", "layer_rest"} => ~dbuffer
               /\ regs = "layers_part" => pc = "layer_rest"
               /\ shown # "layers_part"

(* A rotation asked of an engine at rest: nothing, at work, or complete;   *)
(* and of the last only one sign, the flag or the variable.                *)
Exact == quiet =>
  /\ pc \in {"arm", "start"} => engine = "idle" /\ ~flag /\ ~finished
  /\ pc = "wait" => \/ engine = "current" /\ ~flag /\ ~finished
                    \/ engine = "idle" /\ done /\ (flag => ~finished)

IInv == TypeOK /\ InPlace /\ Assigned /\ Claimed /\ HalfUnasked /\ Exact /\ DoomLayerOff

-------------------------------------------------------------------------------
LEMMA EngineFinishKeeps ==
  ASSUME IInv, EngineFinish
  PROVE  IInv'
  <1>1. IrqTypes' /\ ThreadTypes'
    BY DEF IInv, TypeOK, IrqTypes, ThreadTypes, EngineFinish, irqvars, thread
  <1>2. DeviceTypes' /\ FlagTypes'
    BY DEF IInv, TypeOK, DeviceTypes, FlagTypes, EngineFinish, doomvars, scanvars, devices
  <1>3. InPlace'
    BY DEF IInv, InPlace, EngineFinish, thread
  <1>4. Assigned'
    BY DEF IInv, Assigned, EngineFinish, irqvars, thread
  <1>5. Claimed'
    BY DEF IInv, Claimed, Claimable, EngineFinish, irqvars
  <1>6. HalfUnasked'
    BY DEF IInv, HalfUnasked, EngineFinish, thread, scanvars, devices
  <1>7. Exact'
    BY DEF IInv, Exact, EngineFinish, thread
  <1>8. DoomLayerOff'
    BY DEF IInv, DoomLayerOff, EngineFinish, thread, doomvars
  <1>9. QED
    BY <1>1, <1>2, <1>3, <1>4, <1>5, <1>6, <1>7, <1>8 DEF IInv, TypeOK

LEMMA EngineRequestKeeps ==
  ASSUME IInv, EngineRequest
  PROVE  IInv'
  <1>1. IrqTypes' /\ ThreadTypes'
    BY DeviceAssumption DEF IInv, TypeOK, IrqTypes, ThreadTypes, EngineRequest, Latch, thread
  <1>2. DeviceTypes' /\ FlagTypes'
    BY DEF IInv, TypeOK, DeviceTypes, FlagTypes, EngineRequest, doomvars, enginevars, scanvars,
       rotvars, devices
  <1>3. InPlace'
    BY DEF IInv, InPlace, EngineRequest, thread
  <1>4. Assigned'
    BY DEF IInv, Assigned, EngineRequest, Latch, thread
  <1>5. Claimed'
    BY DEF IInv, Claimed, Claimable, EngineRequest, Latch
  <1>6. HalfUnasked'
    BY DEF IInv, HalfUnasked, EngineRequest, thread, scanvars, devices
  <1>7. Exact'
    BY DEF IInv, Exact, EngineRequest, thread, enginevars, rotvars
  <1>8. DoomLayerOff'
    BY DEF IInv, DoomLayerOff, EngineRequest, thread, doomvars, rotvars
  <1>9. QED
    BY <1>1, <1>2, <1>3, <1>4, <1>5, <1>6, <1>7, <1>8 DEF IInv, TypeOK

LEMMA BlankKeeps ==
  ASSUME IInv, Blank
  PROVE  IInv'
  <1>1. IrqTypes' /\ ThreadTypes'
    BY DEF IInv, TypeOK, IrqTypes, ThreadTypes, Blank, irqvars, thread
  <1>2. DeviceTypes' /\ FlagTypes'
    BY DEF IInv, TypeOK, DeviceTypes, FlagTypes, Blank, VBlank, doomvars, enginevars, rotvars
  <1>3. InPlace'
    BY DEF IInv, InPlace, Blank, thread
  <1>4. Assigned'
    BY DEF IInv, Assigned, Blank, irqvars, thread
  <1>5. Claimed'
    BY DEF IInv, Claimed, Claimable, Blank, irqvars
  <1>6. HalfUnasked'
    BY DEF IInv, HalfUnasked, Blank, VBlank, thread
  <1>7. Exact'
    BY DEF IInv, Exact, Blank, thread, enginevars, rotvars
  <1>8. DoomLayerOff'
    BY DEF IInv, DoomLayerOff, Blank, thread, doomvars, rotvars
  <1>9. QED
    BY <1>1, <1>2, <1>3, <1>4, <1>5, <1>6, <1>7, <1>8 DEF IInv, TypeOK

LEMMA LcdRequestKeeps ==
  ASSUME IInv, LcdRequest
  PROVE  IInv'
  <1>1. IrqTypes' /\ ThreadTypes'
    BY DeviceAssumption DEF IInv, TypeOK, IrqTypes, ThreadTypes, LcdRequest, Latch, thread
  <1>2. DeviceTypes' /\ FlagTypes'
    BY DEF IInv, TypeOK, DeviceTypes, FlagTypes, LcdRequest, doomvars, enginevars, scanvars,
       rotvars, devices
  <1>3. InPlace'
    BY DEF IInv, InPlace, LcdRequest, thread
  <1>4. Assigned'
    BY DEF IInv, Assigned, LcdRequest, Latch, thread
  <1>5. Claimed'
    BY DEF IInv, Claimed, Claimable, LcdRequest, Latch
  <1>6. HalfUnasked'
    BY DEF IInv, HalfUnasked, LcdRequest, thread, scanvars, devices
  <1>7. Exact'
    BY DEF IInv, Exact, LcdRequest, thread, enginevars, rotvars
  <1>8. DoomLayerOff'
    BY DEF IInv, DoomLayerOff, LcdRequest, thread, doomvars, rotvars
  <1>9. QED
    BY <1>1, <1>2, <1>3, <1>4, <1>5, <1>6, <1>7, <1>8 DEF IInv, TypeOK

LEMMA UsbEventKeeps ==
  ASSUME IInv, UsbEvent
  PROVE  IInv'
  <1>1. IrqTypes' /\ ThreadTypes'
    BY DEF IInv, TypeOK, IrqTypes, ThreadTypes, UsbEvent, irqvars, thread
  <1>2. DeviceTypes' /\ FlagTypes'
    BY DEF IInv, TypeOK, DeviceTypes, FlagTypes, UsbEvent, doomvars, enginevars, scanvars,
       rotvars
  <1>3. InPlace'
    BY DEF IInv, InPlace, UsbEvent, thread
  <1>4. Assigned'
    BY DEF IInv, Assigned, UsbEvent, irqvars, thread
  <1>5. Claimed'
    BY DEF IInv, Claimed, Claimable, UsbEvent, irqvars
  <1>6. HalfUnasked'
    BY DEF IInv, HalfUnasked, UsbEvent, thread, scanvars
  <1>7. Exact'
    BY DEF IInv, Exact, UsbEvent, thread, enginevars, rotvars
  <1>8. DoomLayerOff'
    BY DEF IInv, DoomLayerOff, UsbEvent, thread, doomvars, rotvars
  <1>9. QED
    BY <1>1, <1>2, <1>3, <1>4, <1>5, <1>6, <1>7, <1>8 DEF IInv, TypeOK

LEMMA UsbRequestKeeps ==
  ASSUME IInv, UsbRequest
  PROVE  IInv'
  <1>1. IrqTypes' /\ ThreadTypes'
    BY DeviceAssumption, IrqAssumption DEF IInv, TypeOK, IrqTypes, ThreadTypes, Tasks,
       InitTasks, InitSteps, UsbRequest, Latch, irqvars, thread, doomvars, enginevars,
       scanvars, rotvars, devices, tconvars, devars
  <1>2. DeviceTypes' /\ FlagTypes'
    BY DEF IInv, TypeOK, DeviceTypes, FlagTypes, Registers, UsbRequest, Latch, irqvars, thread,
       doomvars, enginevars, scanvars, rotvars, devices, tconvars, devars
  <1>3. InPlace'
    BY DEF IInv, InPlace, InitSteps, UsbRequest, Latch, irqvars, thread, doomvars, enginevars,
       scanvars, rotvars, devices, tconvars, devars
  <1>4. Assigned'
    BY DeviceAssumption, IrqAssumption DEF IInv, TypeOK, IrqTypes, Assigned, InPlace,
       InitTasks, InitSteps, UsbRequest, Latch, irqvars, thread, doomvars, enginevars,
       scanvars, rotvars, devices, tconvars, devars
  <1>5. Claimed'
    BY DeviceAssumption, IrqAssumption DEF IInv, TypeOK, IrqTypes, Assigned, Claimed,
       Claimable, UsbRequest, Latch, irqvars, thread, doomvars, enginevars, scanvars, rotvars,
       devices, tconvars, devars
  <1>6. HalfUnasked'
    BY DEF IInv, HalfUnasked, UsbRequest, Latch, irqvars, thread, doomvars, enginevars,
       scanvars, rotvars, devices, tconvars, devars
  <1>7. Exact'
    BY DEF IInv, TypeOK, DeviceTypes, FlagTypes, Exact, InPlace, UsbRequest, Latch, irqvars,
       thread, doomvars, enginevars, scanvars, rotvars, devices, tconvars, devars
  <1>8. DoomLayerOff'
    BY DEF IInv, InPlace, InitSteps, DoomLayerOff, UsbRequest, Latch, irqvars, thread,
       doomvars, enginevars, scanvars, rotvars, devices, tconvars, devars
  <1>9. QED
    BY <1>1, <1>2, <1>3, <1>4, <1>5, <1>6, <1>7, <1>8 DEF IInv, TypeOK

LEMMA TakeTrapKeeps ==
  ASSUME IInv, TakeTrap
  PROVE  IInv'
  <1>1. IrqTypes' /\ ThreadTypes'
    BY DeviceAssumption, IrqAssumption DEF IInv, TypeOK, IrqTypes, ThreadTypes, Tasks,
       InitTasks, InitSteps, TakeTrap, Trap, Complete, irqvars, thread, doomvars, enginevars,
       scanvars, rotvars, devices, tconvars, devars
  <1>2. DeviceTypes' /\ FlagTypes'
    BY DEF IInv, TypeOK, DeviceTypes, FlagTypes, Registers, TakeTrap, Trap, Complete, irqvars,
       thread, doomvars, enginevars, scanvars, rotvars, devices, tconvars, devars
  <1>3. InPlace'
    BY DEF IInv, InPlace, InitSteps, TakeTrap, Trap, Complete, irqvars, thread, doomvars,
       enginevars, scanvars, rotvars, devices, tconvars, devars
  <1>4. Assigned'
    BY DeviceAssumption, IrqAssumption DEF IInv, TypeOK, IrqTypes, Assigned, InPlace,
       InitTasks, InitSteps, TakeTrap, Trap, Complete, irqvars, thread, doomvars, enginevars,
       scanvars, rotvars, devices, tconvars, devars
  <1>5. Claimed'
    BY DeviceAssumption, IrqAssumption DEF IInv, TypeOK, IrqTypes, Assigned, Claimed,
       Claimable, TakeTrap, Trap, Complete, irqvars, thread, doomvars, enginevars, scanvars,
       rotvars, devices, tconvars, devars
  <1>6. HalfUnasked'
    BY DEF IInv, HalfUnasked, TakeTrap, Trap, Complete, irqvars, thread, doomvars, enginevars,
       scanvars, rotvars, devices, tconvars, devars
  <1>7. Exact'
    BY DEF IInv, TypeOK, DeviceTypes, FlagTypes, Exact, InPlace, TakeTrap, Trap, Complete,
       irqvars, thread, doomvars, enginevars, scanvars, rotvars, devices, tconvars, devars
  <1>8. DoomLayerOff'
    BY DEF IInv, InPlace, InitSteps, DoomLayerOff, TakeTrap, Trap, Complete, irqvars, thread,
       doomvars, enginevars, scanvars, rotvars, devices, tconvars, devars
  <1>9. QED
    BY <1>1, <1>2, <1>3, <1>4, <1>5, <1>6, <1>7, <1>8 DEF IInv, TypeOK

LEMMA TakeClaimKeeps ==
  ASSUME IInv, NEW i \in Irqs \cup {NoIrq}, TakeClaim(i)
  PROVE  IInv'
  <1>1. IrqTypes' /\ ThreadTypes'
    BY DeviceAssumption, IrqAssumption DEF IInv, TypeOK, IrqTypes, ThreadTypes, Tasks,
       InitTasks, InitSteps, TakeClaim, Claim, irqvars, thread, doomvars, enginevars, scanvars,
       rotvars, devices, tconvars, devars
  <1>2. DeviceTypes' /\ FlagTypes'
    BY DEF IInv, TypeOK, DeviceTypes, FlagTypes, Registers, TakeClaim, Claim, irqvars, thread,
       doomvars, enginevars, scanvars, rotvars, devices, tconvars, devars
  <1>3. InPlace'
    BY DEF IInv, InPlace, InitSteps, TakeClaim, Claim, irqvars, thread, doomvars, enginevars,
       scanvars, rotvars, devices, tconvars, devars
  <1>4. Assigned'
    BY DeviceAssumption, IrqAssumption DEF IInv, TypeOK, IrqTypes, Assigned, InPlace,
       InitTasks, InitSteps, TakeClaim, Claim, irqvars, thread, doomvars, enginevars, scanvars,
       rotvars, devices, tconvars, devars
  <1>5. Claimed'
    BY DeviceAssumption, IrqAssumption DEF IInv, TypeOK, IrqTypes, Assigned, Claimed,
       Claimable, TakeClaim, Claim, irqvars, thread, doomvars, enginevars, scanvars, rotvars,
       devices, tconvars, devars
  <1>6. HalfUnasked'
    BY DEF IInv, HalfUnasked, TakeClaim, Claim, irqvars, thread, doomvars, enginevars,
       scanvars, rotvars, devices, tconvars, devars
  <1>7. Exact'
    BY DEF IInv, TypeOK, DeviceTypes, FlagTypes, Exact, InPlace, TakeClaim, Claim, irqvars,
       thread, doomvars, enginevars, scanvars, rotvars, devices, tconvars, devars
  <1>8. DoomLayerOff'
    BY DEF IInv, InPlace, InitSteps, DoomLayerOff, TakeClaim, Claim, irqvars, thread, doomvars,
       enginevars, scanvars, rotvars, devices, tconvars, devars
  <1>9. QED
    BY <1>1, <1>2, <1>3, <1>4, <1>5, <1>6, <1>7, <1>8 DEF IInv, TypeOK

LEMMA RotationHandlerKeeps ==
  ASSUME IInv, RotationHandler
  PROVE  IInv'
  <1>1. IrqTypes' /\ ThreadTypes'
    BY DeviceAssumption, IrqAssumption DEF IInv, TypeOK, IrqTypes, ThreadTypes, Tasks,
       InitTasks, InitSteps, RotationHandler, Handles, irqvars, thread, doomvars, enginevars,
       scanvars, rotvars, devices, tconvars, devars
  <1>2. DeviceTypes' /\ FlagTypes'
    BY DEF IInv, TypeOK, DeviceTypes, FlagTypes, Registers, RotationHandler, Handles, irqvars,
       thread, doomvars, enginevars, scanvars, rotvars, devices, tconvars, devars
  <1>3. InPlace'
    BY DEF IInv, InPlace, InitSteps, RotationHandler, Handles, irqvars, thread, doomvars,
       enginevars, scanvars, rotvars, devices, tconvars, devars
  <1>4. Assigned'
    BY DeviceAssumption, IrqAssumption DEF IInv, TypeOK, IrqTypes, Assigned, InPlace,
       InitTasks, InitSteps, RotationHandler, Handles, irqvars, thread, doomvars, enginevars,
       scanvars, rotvars, devices, tconvars, devars
  <1>5. Claimed'
    BY DeviceAssumption, IrqAssumption DEF IInv, TypeOK, IrqTypes, Assigned, Claimed,
       Claimable, RotationHandler, Handles, irqvars, thread, doomvars, enginevars, scanvars,
       rotvars, devices, tconvars, devars
  <1>6. HalfUnasked'
    BY DEF IInv, HalfUnasked, RotationHandler, Handles, irqvars, thread, doomvars, enginevars,
       scanvars, rotvars, devices, tconvars, devars
  <1>7. Exact'
    BY DEF IInv, TypeOK, DeviceTypes, FlagTypes, Exact, InPlace, RotationHandler, Handles,
       irqvars, thread, doomvars, enginevars, scanvars, rotvars, devices, tconvars, devars
  <1>8. DoomLayerOff'
    BY DEF IInv, InPlace, InitSteps, DoomLayerOff, RotationHandler, Handles, irqvars, thread,
       doomvars, enginevars, scanvars, rotvars, devices, tconvars, devars
  <1>9. QED
    BY <1>1, <1>2, <1>3, <1>4, <1>5, <1>6, <1>7, <1>8 DEF IInv, TypeOK

LEMMA LcdHandlerKeeps ==
  ASSUME IInv, LcdHandler
  PROVE  IInv'
  <1>1. IrqTypes' /\ ThreadTypes'
    BY DeviceAssumption, IrqAssumption DEF IInv, TypeOK, IrqTypes, ThreadTypes, Tasks,
       InitTasks, InitSteps, LcdHandler, Handles, tcon_int_handler, irqvars, thread, doomvars,
       enginevars, scanvars, rotvars, devices, tconvars, devars
  <1>2. DeviceTypes' /\ FlagTypes'
    BY DEF IInv, TypeOK, DeviceTypes, FlagTypes, Registers, LcdHandler, Handles,
       tcon_int_handler, irqvars, thread, doomvars, enginevars, scanvars, rotvars, devices,
       tconvars, devars
  <1>3. InPlace'
    BY DEF IInv, InPlace, InitSteps, LcdHandler, Handles, tcon_int_handler, irqvars, thread,
       doomvars, enginevars, scanvars, rotvars, devices, tconvars, devars
  <1>4. Assigned'
    BY DeviceAssumption, IrqAssumption DEF IInv, TypeOK, IrqTypes, Assigned, InPlace,
       InitTasks, InitSteps, LcdHandler, Handles, tcon_int_handler, irqvars, thread, doomvars,
       enginevars, scanvars, rotvars, devices, tconvars, devars
  <1>5. Claimed'
    BY DeviceAssumption, IrqAssumption DEF IInv, TypeOK, IrqTypes, Assigned, Claimed,
       Claimable, LcdHandler, Handles, tcon_int_handler, irqvars, thread, doomvars, enginevars,
       scanvars, rotvars, devices, tconvars, devars
  <1>6. HalfUnasked'
    BY DEF IInv, HalfUnasked, LcdHandler, Handles, tcon_int_handler, irqvars, thread, doomvars,
       enginevars, scanvars, rotvars, devices, tconvars, devars
  <1>7. Exact'
    BY DEF IInv, TypeOK, DeviceTypes, FlagTypes, Exact, InPlace, LcdHandler, Handles,
       tcon_int_handler, irqvars, thread, doomvars, enginevars, scanvars, rotvars, devices,
       tconvars, devars
  <1>8. DoomLayerOff'
    BY DEF IInv, InPlace, InitSteps, DoomLayerOff, LcdHandler, Handles, tcon_int_handler,
       irqvars, thread, doomvars, enginevars, scanvars, rotvars, devices, tconvars, devars
  <1>9. QED
    BY <1>1, <1>2, <1>3, <1>4, <1>5, <1>6, <1>7, <1>8 DEF IInv, TypeOK

LEMMA UsbHandlerKeeps ==
  ASSUME IInv, UsbHandler
  PROVE  IInv'
  <1>1. IrqTypes' /\ ThreadTypes'
    BY DeviceAssumption, IrqAssumption DEF IInv, TypeOK, IrqTypes, ThreadTypes, Tasks,
       InitTasks, InitSteps, UsbHandler, Handles, irqvars, thread, doomvars, enginevars,
       scanvars, rotvars, devices, tconvars, devars
  <1>2. DeviceTypes' /\ FlagTypes'
    BY DEF IInv, TypeOK, DeviceTypes, FlagTypes, Registers, UsbHandler, Handles, irqvars,
       thread, doomvars, enginevars, scanvars, rotvars, devices, tconvars, devars
  <1>3. InPlace'
    BY DEF IInv, InPlace, InitSteps, UsbHandler, Handles, irqvars, thread, doomvars,
       enginevars, scanvars, rotvars, devices, tconvars, devars
  <1>4. Assigned'
    BY DeviceAssumption, IrqAssumption DEF IInv, TypeOK, IrqTypes, Assigned, InPlace,
       InitTasks, InitSteps, UsbHandler, Handles, irqvars, thread, doomvars, enginevars,
       scanvars, rotvars, devices, tconvars, devars
  <1>5. Claimed'
    BY DeviceAssumption, IrqAssumption DEF IInv, TypeOK, IrqTypes, Assigned, Claimed,
       Claimable, UsbHandler, Handles, irqvars, thread, doomvars, enginevars, scanvars,
       rotvars, devices, tconvars, devars
  <1>6. HalfUnasked'
    BY DEF IInv, HalfUnasked, UsbHandler, Handles, irqvars, thread, doomvars, enginevars,
       scanvars, rotvars, devices, tconvars, devars
  <1>7. Exact'
    BY DEF IInv, TypeOK, DeviceTypes, FlagTypes, Exact, InPlace, UsbHandler, Handles, irqvars,
       thread, doomvars, enginevars, scanvars, rotvars, devices, tconvars, devars
  <1>8. DoomLayerOff'
    BY DEF IInv, InPlace, InitSteps, DoomLayerOff, UsbHandler, Handles, irqvars, thread,
       doomvars, enginevars, scanvars, rotvars, devices, tconvars, devars
  <1>9. QED
    BY <1>1, <1>2, <1>3, <1>4, <1>5, <1>6, <1>7, <1>8 DEF IInv, TypeOK

LEMMA TconInitKeeps ==
  ASSUME IInv, hart = "thread", TconInit
  PROVE  IInv'
  <1>1. IrqTypes' /\ ThreadTypes'
    BY DeviceAssumption, IrqAssumption DEF IInv, TypeOK, IrqTypes, ThreadTypes, Tasks,
       InitTasks, InitSteps, TconInit, Screen, Go, Assign, Enable, irq_assign, irq_enable,
       GintEnable, tcon_lcd_enable, irqvars, thread, doomvars, enginevars, scanvars, rotvars,
       devices, tconvars, devars
  <1>2. DeviceTypes' /\ FlagTypes'
    BY DEF IInv, TypeOK, DeviceTypes, FlagTypes, Registers, TconInit, Screen, Go, Assign,
       Enable, irq_assign, irq_enable, GintEnable, tcon_lcd_enable, irqvars, thread, doomvars,
       enginevars, scanvars, rotvars, devices, tconvars, devars
  <1>3. InPlace'
    BY DEF IInv, InPlace, InitSteps, TconInit, Screen, Go, Assign, Enable, irq_assign,
       irq_enable, GintEnable, tcon_lcd_enable, irqvars, thread, doomvars, enginevars,
       scanvars, rotvars, devices, tconvars, devars
  <1>4. Assigned'
    BY DeviceAssumption, IrqAssumption DEF IInv, TypeOK, IrqTypes, Assigned, InPlace,
       InitTasks, InitSteps, TconInit, Screen, Go, Assign, Enable, irq_assign, irq_enable,
       GintEnable, tcon_lcd_enable, irqvars, thread, doomvars, enginevars, scanvars, rotvars,
       devices, tconvars, devars
  <1>5. Claimed'
    BY DeviceAssumption, IrqAssumption DEF IInv, TypeOK, IrqTypes, Assigned, Claimed,
       Claimable, TconInit, Screen, Go, Assign, Enable, irq_assign, irq_enable, GintEnable,
       tcon_lcd_enable, irqvars, thread, doomvars, enginevars, scanvars, rotvars, devices,
       tconvars, devars
  <1>6. HalfUnasked'
    BY DEF IInv, HalfUnasked, TconInit, Screen, Go, Assign, Enable, irq_assign, irq_enable,
       GintEnable, tcon_lcd_enable, irqvars, thread, doomvars, enginevars, scanvars, rotvars,
       devices, tconvars, devars
  <1>7. Exact'
    BY DEF IInv, TypeOK, DeviceTypes, FlagTypes, Exact, InPlace, TconInit, Screen, Go, Assign,
       Enable, irq_assign, irq_enable, GintEnable, tcon_lcd_enable, irqvars, thread, doomvars,
       enginevars, scanvars, rotvars, devices, tconvars, devars
  <1>8. DoomLayerOff'
    BY DEF IInv, InPlace, InitSteps, DoomLayerOff, TconInit, Screen, Go, Assign, Enable,
       irq_assign, irq_enable, GintEnable, tcon_lcd_enable, irqvars, thread, doomvars,
       enginevars, scanvars, rotvars, devices, tconvars, devars
  <1>9. QED
    BY <1>1, <1>2, <1>3, <1>4, <1>5, <1>6, <1>7, <1>8 DEF IInv, TypeOK

LEMMA DeInitKeeps ==
  ASSUME IInv, hart = "thread", DeInit
  PROVE  IInv'
  <1>1. IrqTypes' /\ ThreadTypes'
    BY DeviceAssumption, IrqAssumption DEF IInv, TypeOK, IrqTypes, ThreadTypes, Tasks,
       InitTasks, InitSteps, DeInit, Screen, Go, de_commit, WriteRegs, irqvars, thread,
       doomvars, enginevars, scanvars, rotvars, devices, tconvars, devars
  <1>2. DeviceTypes' /\ FlagTypes'
    BY DEF IInv, TypeOK, DeviceTypes, FlagTypes, Registers, DeInit, Screen, Go, de_commit,
       WriteRegs, irqvars, thread, doomvars, enginevars, scanvars, rotvars, devices, tconvars,
       devars
  <1>3. InPlace'
    BY DEF IInv, InPlace, InitSteps, DeInit, Screen, Go, de_commit, WriteRegs, irqvars, thread,
       doomvars, enginevars, scanvars, rotvars, devices, tconvars, devars
  <1>4. Assigned'
    BY DeviceAssumption, IrqAssumption DEF IInv, TypeOK, IrqTypes, Assigned, InPlace,
       InitTasks, InitSteps, DeInit, Screen, Go, de_commit, WriteRegs, irqvars, thread,
       doomvars, enginevars, scanvars, rotvars, devices, tconvars, devars
  <1>5. Claimed'
    BY DeviceAssumption, IrqAssumption DEF IInv, TypeOK, IrqTypes, Assigned, Claimed,
       Claimable, DeInit, Screen, Go, de_commit, WriteRegs, irqvars, thread, doomvars,
       enginevars, scanvars, rotvars, devices, tconvars, devars
  <1>6. HalfUnasked'
    BY DEF IInv, HalfUnasked, DeInit, Screen, Go, de_commit, WriteRegs, irqvars, thread,
       doomvars, enginevars, scanvars, rotvars, devices, tconvars, devars
  <1>7. Exact'
    BY DEF IInv, TypeOK, DeviceTypes, FlagTypes, Exact, InPlace, DeInit, Screen, Go, de_commit,
       WriteRegs, irqvars, thread, doomvars, enginevars, scanvars, rotvars, devices, tconvars,
       devars
  <1>8. DoomLayerOff'
    BY DEF IInv, InPlace, InitSteps, DoomLayerOff, DeInit, Screen, Go, de_commit, WriteRegs,
       irqvars, thread, doomvars, enginevars, scanvars, rotvars, devices, tconvars, devars
  <1>9. QED
    BY <1>1, <1>2, <1>3, <1>4, <1>5, <1>6, <1>7, <1>8 DEF IInv, TypeOK

LEMMA G2dInitKeeps ==
  ASSUME IInv, hart = "thread", G2dInit
  PROVE  IInv'
  <1>1. IrqTypes' /\ ThreadTypes'
    BY DeviceAssumption, IrqAssumption DEF IInv, TypeOK, IrqTypes, ThreadTypes, Tasks,
       InitTasks, InitSteps, G2dInit, Assign, Go, irq_assign, irq_enable, Rotate, irqvars,
       thread, doomvars, enginevars, scanvars, rotvars, devices, tconvars, devars
  <1>2. DeviceTypes' /\ FlagTypes'
    BY DEF IInv, TypeOK, DeviceTypes, FlagTypes, Registers, G2dInit, Assign, Go, irq_assign,
       irq_enable, Rotate, irqvars, thread, doomvars, enginevars, scanvars, rotvars, devices,
       tconvars, devars
  <1>3. InPlace'
    BY DEF IInv, InPlace, InitSteps, G2dInit, Assign, Go, irq_assign, irq_enable, Rotate,
       irqvars, thread, doomvars, enginevars, scanvars, rotvars, devices, tconvars, devars
  <1>4. Assigned'
    BY DeviceAssumption, IrqAssumption DEF IInv, TypeOK, IrqTypes, Assigned, InPlace,
       InitTasks, InitSteps, G2dInit, Assign, Go, irq_assign, irq_enable, Rotate, irqvars,
       thread, doomvars, enginevars, scanvars, rotvars, devices, tconvars, devars
  <1>5. Claimed'
    BY DeviceAssumption, IrqAssumption DEF IInv, TypeOK, IrqTypes, Assigned, Claimed,
       Claimable, G2dInit, Assign, Go, irq_assign, irq_enable, Rotate, irqvars, thread,
       doomvars, enginevars, scanvars, rotvars, devices, tconvars, devars
  <1>6. HalfUnasked'
    BY DEF IInv, HalfUnasked, G2dInit, Assign, Go, irq_assign, irq_enable, Rotate, irqvars,
       thread, doomvars, enginevars, scanvars, rotvars, devices, tconvars, devars
  <1>7. Exact'
    BY DEF IInv, TypeOK, DeviceTypes, FlagTypes, Exact, InPlace, G2dInit, Assign, Go,
       irq_assign, irq_enable, Rotate, irqvars, thread, doomvars, enginevars, scanvars,
       rotvars, devices, tconvars, devars
  <1>8. DoomLayerOff'
    BY DEF IInv, InPlace, InitSteps, DoomLayerOff, G2dInit, Assign, Go, irq_assign, irq_enable,
       Rotate, irqvars, thread, doomvars, enginevars, scanvars, rotvars, devices, tconvars,
       devars
  <1>9. QED
    BY <1>1, <1>2, <1>3, <1>4, <1>5, <1>6, <1>7, <1>8 DEF IInv, TypeOK

LEMMA LayerSetKeeps ==
  ASSUME IInv, hart = "thread", LayerSet
  PROVE  IInv'
  <1>1. IrqTypes' /\ ThreadTypes'
    BY DeviceAssumption, IrqAssumption DEF IInv, TypeOK, IrqTypes, ThreadTypes, Tasks,
       InitTasks, InitSteps, LayerSet, Screen, Go, de_commit_wait, de_commit, WriteRegs,
       irqvars, thread, doomvars, enginevars, scanvars, rotvars, devices, tconvars, devars
  <1>2. DeviceTypes' /\ FlagTypes'
    BY DEF IInv, TypeOK, DeviceTypes, FlagTypes, Registers, LayerSet, Screen, Go,
       de_commit_wait, de_commit, WriteRegs, irqvars, thread, doomvars, enginevars, scanvars,
       rotvars, devices, tconvars, devars
  <1>3. InPlace'
    BY DEF IInv, InPlace, InitSteps, LayerSet, Screen, Go, de_commit_wait, de_commit,
       WriteRegs, irqvars, thread, doomvars, enginevars, scanvars, rotvars, devices, tconvars,
       devars
  <1>4. Assigned'
    BY DeviceAssumption, IrqAssumption DEF IInv, TypeOK, IrqTypes, Assigned, InPlace,
       InitTasks, InitSteps, LayerSet, Screen, Go, de_commit_wait, de_commit, WriteRegs,
       irqvars, thread, doomvars, enginevars, scanvars, rotvars, devices, tconvars, devars
  <1>5. Claimed'
    BY DeviceAssumption, IrqAssumption DEF IInv, TypeOK, IrqTypes, Assigned, Claimed,
       Claimable, LayerSet, Screen, Go, de_commit_wait, de_commit, WriteRegs, irqvars, thread,
       doomvars, enginevars, scanvars, rotvars, devices, tconvars, devars
  <1>6. HalfUnasked'
    BY DEF IInv, HalfUnasked, LayerSet, Screen, Go, de_commit_wait, de_commit, WriteRegs,
       irqvars, thread, doomvars, enginevars, scanvars, rotvars, devices, tconvars, devars
  <1>7. Exact'
    BY DEF IInv, TypeOK, DeviceTypes, FlagTypes, Exact, InPlace, LayerSet, Screen, Go,
       de_commit_wait, de_commit, WriteRegs, irqvars, thread, doomvars, enginevars, scanvars,
       rotvars, devices, tconvars, devars
  <1>8. DoomLayerOff'
    BY DEF IInv, InPlace, InitSteps, DoomLayerOff, LayerSet, Screen, Go, de_commit_wait,
       de_commit, WriteRegs, irqvars, thread, doomvars, enginevars, scanvars, rotvars, devices,
       tconvars, devars
  <1>9. QED
    BY <1>1, <1>2, <1>3, <1>4, <1>5, <1>6, <1>7, <1>8 DEF IInv, TypeOK

LEMMA UsbInitKeeps ==
  ASSUME IInv, hart = "thread", UsbInit
  PROVE  IInv'
  <1>1. IrqTypes' /\ ThreadTypes'
    BY DeviceAssumption, IrqAssumption DEF IInv, TypeOK, IrqTypes, ThreadTypes, Tasks,
       InitTasks, InitSteps, UsbInit, Assign, Enable, Go, irq_assign, irq_enable, irqvars,
       thread, doomvars, enginevars, scanvars, rotvars, devices, tconvars, devars
  <1>2. DeviceTypes' /\ FlagTypes'
    BY DEF IInv, TypeOK, DeviceTypes, FlagTypes, Registers, UsbInit, Assign, Enable, Go,
       irq_assign, irq_enable, irqvars, thread, doomvars, enginevars, scanvars, rotvars,
       devices, tconvars, devars
  <1>3. InPlace'
    BY DEF IInv, InPlace, InitSteps, UsbInit, Assign, Enable, Go, irq_assign, irq_enable,
       irqvars, thread, doomvars, enginevars, scanvars, rotvars, devices, tconvars, devars
  <1>4. Assigned'
    BY DeviceAssumption, IrqAssumption DEF IInv, TypeOK, IrqTypes, Assigned, InPlace,
       InitTasks, InitSteps, UsbInit, Assign, Enable, Go, irq_assign, irq_enable, irqvars,
       thread, doomvars, enginevars, scanvars, rotvars, devices, tconvars, devars
  <1>5. Claimed'
    BY DeviceAssumption, IrqAssumption DEF IInv, TypeOK, IrqTypes, Assigned, Claimed,
       Claimable, UsbInit, Assign, Enable, Go, irq_assign, irq_enable, irqvars, thread,
       doomvars, enginevars, scanvars, rotvars, devices, tconvars, devars
  <1>6. HalfUnasked'
    BY DEF IInv, HalfUnasked, UsbInit, Assign, Enable, Go, irq_assign, irq_enable, irqvars,
       thread, doomvars, enginevars, scanvars, rotvars, devices, tconvars, devars
  <1>7. Exact'
    BY DEF IInv, TypeOK, DeviceTypes, FlagTypes, Exact, InPlace, UsbInit, Assign, Enable, Go,
       irq_assign, irq_enable, irqvars, thread, doomvars, enginevars, scanvars, rotvars,
       devices, tconvars, devars
  <1>8. DoomLayerOff'
    BY DEF IInv, InPlace, InitSteps, DoomLayerOff, UsbInit, Assign, Enable, Go, irq_assign,
       irq_enable, irqvars, thread, doomvars, enginevars, scanvars, rotvars, devices, tconvars,
       devars
  <1>9. QED
    BY <1>1, <1>2, <1>3, <1>4, <1>5, <1>6, <1>7, <1>8 DEF IInv, TypeOK

LEMMA UsbTaskKeeps ==
  ASSUME IInv, hart = "thread", UsbTask
  PROVE  IInv'
  <1>1. IrqTypes' /\ ThreadTypes'
    BY DeviceAssumption, IrqAssumption DEF IInv, TypeOK, IrqTypes, ThreadTypes, Tasks,
       InitTasks, InitSteps, UsbTask, Enable, Go, irq_disable, irq_enable, irqvars, thread,
       doomvars, enginevars, scanvars, rotvars, devices, tconvars, devars
  <1>2. DeviceTypes' /\ FlagTypes'
    BY DEF IInv, TypeOK, DeviceTypes, FlagTypes, Registers, UsbTask, Enable, Go, irq_disable,
       irq_enable, irqvars, thread, doomvars, enginevars, scanvars, rotvars, devices, tconvars,
       devars
  <1>3. InPlace'
    BY DEF IInv, InPlace, InitSteps, UsbTask, Enable, Go, irq_disable, irq_enable, irqvars,
       thread, doomvars, enginevars, scanvars, rotvars, devices, tconvars, devars
  <1>4. Assigned'
    BY DeviceAssumption, IrqAssumption DEF IInv, TypeOK, IrqTypes, Assigned, InPlace,
       InitTasks, InitSteps, UsbTask, Enable, Go, irq_disable, irq_enable, irqvars, thread,
       doomvars, enginevars, scanvars, rotvars, devices, tconvars, devars
  <1>5. Claimed'
    BY DeviceAssumption, IrqAssumption DEF IInv, TypeOK, IrqTypes, Assigned, Claimed,
       Claimable, UsbTask, Enable, Go, irq_disable, irq_enable, irqvars, thread, doomvars,
       enginevars, scanvars, rotvars, devices, tconvars, devars
  <1>6. HalfUnasked'
    BY DEF IInv, HalfUnasked, UsbTask, Enable, Go, irq_disable, irq_enable, irqvars, thread,
       doomvars, enginevars, scanvars, rotvars, devices, tconvars, devars
  <1>7. Exact'
    BY DEF IInv, TypeOK, DeviceTypes, FlagTypes, Exact, InPlace, UsbTask, Enable, Go,
       irq_disable, irq_enable, irqvars, thread, doomvars, enginevars, scanvars, rotvars,
       devices, tconvars, devars
  <1>8. DoomLayerOff'
    BY DEF IInv, InPlace, InitSteps, DoomLayerOff, UsbTask, Enable, Go, irq_disable,
       irq_enable, irqvars, thread, doomvars, enginevars, scanvars, rotvars, devices, tconvars,
       devars
  <1>9. QED
    BY <1>1, <1>2, <1>3, <1>4, <1>5, <1>6, <1>7, <1>8 DEF IInv, TypeOK

LEMMA ClearKeeps ==
  ASSUME IInv, hart = "thread", Clear
  PROVE  IInv'
  <1>1. IrqTypes' /\ ThreadTypes'
    BY DeviceAssumption, IrqAssumption DEF IInv, TypeOK, IrqTypes, ThreadTypes, Tasks,
       InitTasks, InitSteps, Clear, irqvars, thread, doomvars, enginevars, scanvars, rotvars,
       devices, tconvars, devars
  <1>2. DeviceTypes' /\ FlagTypes'
    BY DEF IInv, TypeOK, DeviceTypes, FlagTypes, Registers, Clear, irqvars, thread, doomvars,
       enginevars, scanvars, rotvars, devices, tconvars, devars
  <1>3. InPlace'
    BY DEF IInv, InPlace, InitSteps, Clear, irqvars, thread, doomvars, enginevars, scanvars,
       rotvars, devices, tconvars, devars
  <1>4. Assigned'
    BY DeviceAssumption, IrqAssumption DEF IInv, TypeOK, IrqTypes, Assigned, InPlace,
       InitTasks, InitSteps, Clear, irqvars, thread, doomvars, enginevars, scanvars, rotvars,
       devices, tconvars, devars
  <1>5. Claimed'
    BY DeviceAssumption, IrqAssumption DEF IInv, TypeOK, IrqTypes, Assigned, Claimed,
       Claimable, Clear, irqvars, thread, doomvars, enginevars, scanvars, rotvars, devices,
       tconvars, devars
  <1>6. HalfUnasked'
    BY DEF IInv, HalfUnasked, Clear, irqvars, thread, doomvars, enginevars, scanvars, rotvars,
       devices, tconvars, devars
  <1>7. Exact'
    BY DEF IInv, TypeOK, DeviceTypes, FlagTypes, Exact, InPlace, Clear, irqvars, thread,
       doomvars, enginevars, scanvars, rotvars, devices, tconvars, devars
  <1>8. DoomLayerOff'
    BY DEF IInv, InPlace, InitSteps, DoomLayerOff, Clear, irqvars, thread, doomvars,
       enginevars, scanvars, rotvars, devices, tconvars, devars
  <1>9. QED
    BY <1>1, <1>2, <1>3, <1>4, <1>5, <1>6, <1>7, <1>8 DEF IInv, TypeOK

LEMMA ArmKeeps ==
  ASSUME IInv, hart = "thread", Arm
  PROVE  IInv'
  <1>1. IrqTypes' /\ ThreadTypes'
    BY DeviceAssumption, IrqAssumption DEF IInv, TypeOK, IrqTypes, ThreadTypes, Tasks,
       InitTasks, InitSteps, Arm, irqvars, thread, doomvars, enginevars, scanvars, rotvars,
       devices, tconvars, devars
  <1>2. DeviceTypes' /\ FlagTypes'
    BY DEF IInv, TypeOK, DeviceTypes, FlagTypes, Registers, Arm, irqvars, thread, doomvars,
       enginevars, scanvars, rotvars, devices, tconvars, devars
  <1>3. InPlace'
    BY DEF IInv, InPlace, InitSteps, Arm, irqvars, thread, doomvars, enginevars, scanvars,
       rotvars, devices, tconvars, devars
  <1>4. Assigned'
    BY DeviceAssumption, IrqAssumption DEF IInv, TypeOK, IrqTypes, Assigned, InPlace,
       InitTasks, InitSteps, Arm, irqvars, thread, doomvars, enginevars, scanvars, rotvars,
       devices, tconvars, devars
  <1>5. Claimed'
    BY DeviceAssumption, IrqAssumption DEF IInv, TypeOK, IrqTypes, Assigned, Claimed,
       Claimable, Arm, irqvars, thread, doomvars, enginevars, scanvars, rotvars, devices,
       tconvars, devars
  <1>6. HalfUnasked'
    BY DEF IInv, HalfUnasked, Arm, irqvars, thread, doomvars, enginevars, scanvars, rotvars,
       devices, tconvars, devars
  <1>7. Exact'
    BY DEF IInv, TypeOK, DeviceTypes, FlagTypes, Exact, InPlace, Arm, irqvars, thread,
       doomvars, enginevars, scanvars, rotvars, devices, tconvars, devars
  <1>8. DoomLayerOff'
    BY DEF IInv, InPlace, InitSteps, DoomLayerOff, Arm, irqvars, thread, doomvars, enginevars,
       scanvars, rotvars, devices, tconvars, devars
  <1>9. QED
    BY <1>1, <1>2, <1>3, <1>4, <1>5, <1>6, <1>7, <1>8 DEF IInv, TypeOK

LEMMA StartKeeps ==
  ASSUME IInv, hart = "thread", Start
  PROVE  IInv'
  <1>1. IrqTypes' /\ ThreadTypes'
    BY DeviceAssumption, IrqAssumption DEF IInv, TypeOK, IrqTypes, ThreadTypes, Tasks,
       InitTasks, InitSteps, Start, irqvars, thread, doomvars, enginevars, scanvars, rotvars,
       devices, tconvars, devars
  <1>2. DeviceTypes' /\ FlagTypes'
    BY DEF IInv, TypeOK, DeviceTypes, FlagTypes, Registers, Start, irqvars, thread, doomvars,
       enginevars, scanvars, rotvars, devices, tconvars, devars
  <1>3. InPlace'
    BY DEF IInv, InPlace, InitSteps, Start, irqvars, thread, doomvars, enginevars, scanvars,
       rotvars, devices, tconvars, devars
  <1>4. Assigned'
    BY DeviceAssumption, IrqAssumption DEF IInv, TypeOK, IrqTypes, Assigned, InPlace,
       InitTasks, InitSteps, Start, irqvars, thread, doomvars, enginevars, scanvars, rotvars,
       devices, tconvars, devars
  <1>5. Claimed'
    BY DeviceAssumption, IrqAssumption DEF IInv, TypeOK, IrqTypes, Assigned, Claimed,
       Claimable, Start, irqvars, thread, doomvars, enginevars, scanvars, rotvars, devices,
       tconvars, devars
  <1>6. HalfUnasked'
    BY DEF IInv, HalfUnasked, Start, irqvars, thread, doomvars, enginevars, scanvars, rotvars,
       devices, tconvars, devars
  <1>7. Exact'
    BY DEF IInv, TypeOK, DeviceTypes, FlagTypes, Exact, InPlace, Start, irqvars, thread,
       doomvars, enginevars, scanvars, rotvars, devices, tconvars, devars
  <1>8. DoomLayerOff'
    BY DEF IInv, InPlace, InitSteps, DoomLayerOff, Start, irqvars, thread, doomvars,
       enginevars, scanvars, rotvars, devices, tconvars, devars
  <1>9. QED
    BY <1>1, <1>2, <1>3, <1>4, <1>5, <1>6, <1>7, <1>8 DEF IInv, TypeOK

LEMMA InitRotatedKeeps ==
  ASSUME IInv, hart = "thread", InitRotated
  PROVE  IInv'
  <1>1. IrqTypes' /\ ThreadTypes'
    BY DeviceAssumption, IrqAssumption DEF IInv, TypeOK, IrqTypes, ThreadTypes, Tasks,
       InitTasks, InitSteps, InitRotated, Waited, WaitOver, Inverted, irqvars, thread,
       doomvars, enginevars, scanvars, rotvars, devices, tconvars, devars
  <1>2. DeviceTypes' /\ FlagTypes'
    BY DEF IInv, TypeOK, DeviceTypes, FlagTypes, Registers, InitRotated, Waited, WaitOver,
       Inverted, irqvars, thread, doomvars, enginevars, scanvars, rotvars, devices, tconvars,
       devars
  <1>3. InPlace'
    BY DEF IInv, InPlace, InitSteps, InitRotated, Waited, WaitOver, Inverted, irqvars, thread,
       doomvars, enginevars, scanvars, rotvars, devices, tconvars, devars
  <1>4. Assigned'
    BY DeviceAssumption, IrqAssumption DEF IInv, TypeOK, IrqTypes, Assigned, InPlace,
       InitTasks, InitSteps, InitRotated, Waited, WaitOver, Inverted, irqvars, thread,
       doomvars, enginevars, scanvars, rotvars, devices, tconvars, devars
  <1>5. Claimed'
    BY DeviceAssumption, IrqAssumption DEF IInv, TypeOK, IrqTypes, Assigned, Claimed,
       Claimable, InitRotated, Waited, WaitOver, Inverted, irqvars, thread, doomvars,
       enginevars, scanvars, rotvars, devices, tconvars, devars
  <1>6. HalfUnasked'
    BY DEF IInv, HalfUnasked, InitRotated, Waited, WaitOver, Inverted, irqvars, thread,
       doomvars, enginevars, scanvars, rotvars, devices, tconvars, devars
  <1>7. Exact'
    BY DEF IInv, TypeOK, DeviceTypes, FlagTypes, Exact, InPlace, InitRotated, Waited, WaitOver,
       Inverted, irqvars, thread, doomvars, enginevars, scanvars, rotvars, devices, tconvars,
       devars
  <1>8. DoomLayerOff'
    BY DEF IInv, InPlace, InitSteps, DoomLayerOff, InitRotated, Waited, WaitOver, Inverted,
       irqvars, thread, doomvars, enginevars, scanvars, rotvars, devices, tconvars, devars
  <1>9. QED
    BY <1>1, <1>2, <1>3, <1>4, <1>5, <1>6, <1>7, <1>8 DEF IInv, TypeOK

LEMMA TurnEndsKeeps ==
  ASSUME IInv, hart = "thread", TurnEnds
  PROVE  IInv'
  <1>1. IrqTypes' /\ ThreadTypes'
    BY DeviceAssumption, IrqAssumption DEF IInv, TypeOK, IrqTypes, ThreadTypes, Tasks,
       InitTasks, InitSteps, TurnEnds, Waited, WaitOver, Inverted, de_commit, irqvars, thread,
       doomvars, enginevars, scanvars, rotvars, devices, tconvars, devars
  <1>2. DeviceTypes' /\ FlagTypes'
    BY DEF IInv, TypeOK, DeviceTypes, FlagTypes, Registers, TurnEnds, Waited, WaitOver,
       Inverted, de_commit, irqvars, thread, doomvars, enginevars, scanvars, rotvars, devices,
       tconvars, devars
  <1>3. InPlace'
    BY DEF IInv, InPlace, InitSteps, TurnEnds, Waited, WaitOver, Inverted, de_commit, irqvars,
       thread, doomvars, enginevars, scanvars, rotvars, devices, tconvars, devars
  <1>4. Assigned'
    BY DeviceAssumption, IrqAssumption DEF IInv, TypeOK, IrqTypes, Assigned, InPlace,
       InitTasks, InitSteps, TurnEnds, Waited, WaitOver, Inverted, de_commit, irqvars, thread,
       doomvars, enginevars, scanvars, rotvars, devices, tconvars, devars
  <1>5. Claimed'
    BY DeviceAssumption, IrqAssumption DEF IInv, TypeOK, IrqTypes, Assigned, Claimed,
       Claimable, TurnEnds, Waited, WaitOver, Inverted, de_commit, irqvars, thread, doomvars,
       enginevars, scanvars, rotvars, devices, tconvars, devars
  <1>6. HalfUnasked'
    BY DEF IInv, HalfUnasked, TurnEnds, Waited, WaitOver, Inverted, de_commit, irqvars, thread,
       doomvars, enginevars, scanvars, rotvars, devices, tconvars, devars
  <1>7. Exact'
    BY DEF IInv, TypeOK, DeviceTypes, FlagTypes, Exact, InPlace, TurnEnds, Waited, WaitOver,
       Inverted, de_commit, irqvars, thread, doomvars, enginevars, scanvars, rotvars, devices,
       tconvars, devars
  <1>8. DoomLayerOff'
    BY DEF IInv, InPlace, InitSteps, DoomLayerOff, TurnEnds, Waited, WaitOver, Inverted,
       de_commit, irqvars, thread, doomvars, enginevars, scanvars, rotvars, devices, tconvars,
       devars
  <1>9. QED
    BY <1>1, <1>2, <1>3, <1>4, <1>5, <1>6, <1>7, <1>8 DEF IInv, TypeOK

LEMMA ExecKeeps ==
  ASSUME IInv, hart = "thread", Exec
  PROVE  IInv'
  <1>1. IrqTypes' /\ ThreadTypes'
    BY DeviceAssumption, IrqAssumption DEF IInv, TypeOK, IrqTypes, ThreadTypes, Tasks,
       InitTasks, InitSteps, Exec, Rotate, irqvars, thread, doomvars, enginevars, scanvars,
       rotvars, devices, tconvars, devars
  <1>2. DeviceTypes' /\ FlagTypes'
    BY DEF IInv, TypeOK, DeviceTypes, FlagTypes, Registers, Exec, Rotate, irqvars, thread,
       doomvars, enginevars, scanvars, rotvars, devices, tconvars, devars
  <1>3. InPlace'
    BY DEF IInv, InPlace, InitSteps, Exec, Rotate, irqvars, thread, doomvars, enginevars,
       scanvars, rotvars, devices, tconvars, devars
  <1>4. Assigned'
    BY DeviceAssumption, IrqAssumption DEF IInv, TypeOK, IrqTypes, Assigned, InPlace,
       InitTasks, InitSteps, Exec, Rotate, irqvars, thread, doomvars, enginevars, scanvars,
       rotvars, devices, tconvars, devars
  <1>5. Claimed'
    BY DeviceAssumption, IrqAssumption DEF IInv, TypeOK, IrqTypes, Assigned, Claimed,
       Claimable, Exec, Rotate, irqvars, thread, doomvars, enginevars, scanvars, rotvars,
       devices, tconvars, devars
  <1>6. HalfUnasked'
    BY DEF IInv, HalfUnasked, Exec, Rotate, irqvars, thread, doomvars, enginevars, scanvars,
       rotvars, devices, tconvars, devars
  <1>7. Exact'
    BY DEF IInv, TypeOK, DeviceTypes, FlagTypes, Exact, InPlace, Exec, Rotate, irqvars, thread,
       doomvars, enginevars, scanvars, rotvars, devices, tconvars, devars
  <1>8. DoomLayerOff'
    BY DEF IInv, InPlace, InitSteps, DoomLayerOff, Exec, Rotate, irqvars, thread, doomvars,
       enginevars, scanvars, rotvars, devices, tconvars, devars
  <1>9. QED
    BY <1>1, <1>2, <1>3, <1>4, <1>5, <1>6, <1>7, <1>8 DEF IInv, TypeOK

LEMMA TurnKeeps ==
  ASSUME IInv, hart = "thread",
         NEW t \in {"init_main", "exec_main"}, NEW next \in {"init_gui", "exec_gui"},
         (t \in InitTasks <=> next \in InitTasks), Turn(t, next)
  PROVE  IInv'
  <1>1. IrqTypes' /\ ThreadTypes'
    BY DeviceAssumption, IrqAssumption DEF IInv, TypeOK, IrqTypes, ThreadTypes, Tasks,
       InitTasks, InitSteps, Turn, Waited, Rotate, irqvars, thread, doomvars, enginevars,
       scanvars, rotvars, devices, tconvars, devars
  <1>2. DeviceTypes' /\ FlagTypes'
    BY DEF IInv, TypeOK, DeviceTypes, FlagTypes, Registers, Turn, Waited, Rotate, irqvars,
       thread, doomvars, enginevars, scanvars, rotvars, devices, tconvars, devars
  <1>3. InPlace'
    BY DEF IInv, InPlace, InitSteps, Turn, Waited, Rotate, irqvars, thread, doomvars,
       enginevars, scanvars, rotvars, devices, tconvars, devars
  <1>4. Assigned'
    BY DeviceAssumption, IrqAssumption DEF IInv, TypeOK, IrqTypes, Assigned, InPlace,
       InitTasks, InitSteps, Turn, Waited, Rotate, irqvars, thread, doomvars, enginevars,
       scanvars, rotvars, devices, tconvars, devars
  <1>5. Claimed'
    BY DeviceAssumption, IrqAssumption DEF IInv, TypeOK, IrqTypes, Assigned, Claimed,
       Claimable, Turn, Waited, Rotate, irqvars, thread, doomvars, enginevars, scanvars,
       rotvars, devices, tconvars, devars
  <1>6. HalfUnasked'
    BY DEF IInv, HalfUnasked, Turn, Waited, Rotate, irqvars, thread, doomvars, enginevars,
       scanvars, rotvars, devices, tconvars, devars
  <1>7. Exact'
    BY DEF IInv, TypeOK, DeviceTypes, FlagTypes, Exact, InPlace, Turn, Waited, Rotate, irqvars,
       thread, doomvars, enginevars, scanvars, rotvars, devices, tconvars, devars
  <1>8. DoomLayerOff'
    BY DEF IInv, InPlace, InitSteps, DoomLayerOff, Turn, Waited, Rotate, irqvars, thread,
       doomvars, enginevars, scanvars, rotvars, devices, tconvars, devars
  <1>9. QED
    BY <1>1, <1>2, <1>3, <1>4, <1>5, <1>6, <1>7, <1>8 DEF IInv, TypeOK

LEMMA DoomRunKeeps ==
  ASSUME IInv, hart = "thread", DoomRun
  PROVE  IInv'
  <1>1. IrqTypes' /\ ThreadTypes'
    BY DeviceAssumption, IrqAssumption DEF IInv, TypeOK, IrqTypes, ThreadTypes, Tasks,
       InitTasks, InitSteps, DoomRun, irqvars, thread, doomvars, enginevars, scanvars, rotvars,
       devices, tconvars, devars
  <1>2. DeviceTypes' /\ FlagTypes'
    BY DEF IInv, TypeOK, DeviceTypes, FlagTypes, Registers, DoomRun, irqvars, thread, doomvars,
       enginevars, scanvars, rotvars, devices, tconvars, devars
  <1>3. InPlace'
    BY DEF IInv, InPlace, InitSteps, DoomRun, irqvars, thread, doomvars, enginevars, scanvars,
       rotvars, devices, tconvars, devars
  <1>4. Assigned'
    BY DeviceAssumption, IrqAssumption DEF IInv, TypeOK, IrqTypes, Assigned, InPlace,
       InitTasks, InitSteps, DoomRun, irqvars, thread, doomvars, enginevars, scanvars, rotvars,
       devices, tconvars, devars
  <1>5. Claimed'
    BY DeviceAssumption, IrqAssumption DEF IInv, TypeOK, IrqTypes, Assigned, Claimed,
       Claimable, DoomRun, irqvars, thread, doomvars, enginevars, scanvars, rotvars, devices,
       tconvars, devars
  <1>6. HalfUnasked'
    BY DEF IInv, HalfUnasked, DoomRun, irqvars, thread, doomvars, enginevars, scanvars,
       rotvars, devices, tconvars, devars
  <1>7. Exact'
    BY DEF IInv, TypeOK, DeviceTypes, FlagTypes, Exact, InPlace, DoomRun, irqvars, thread,
       doomvars, enginevars, scanvars, rotvars, devices, tconvars, devars
  <1>8. DoomLayerOff'
    BY DEF IInv, InPlace, InitSteps, DoomLayerOff, DoomRun, irqvars, thread, doomvars,
       enginevars, scanvars, rotvars, devices, tconvars, devars
  <1>9. QED
    BY <1>1, <1>2, <1>3, <1>4, <1>5, <1>6, <1>7, <1>8 DEF IInv, TypeOK

LEMMA DoomFrameKeeps ==
  ASSUME IInv, hart = "thread", DoomFrame
  PROVE  IInv'
  <1>1. IrqTypes' /\ ThreadTypes'
    BY DeviceAssumption, IrqAssumption DEF IInv, TypeOK, IrqTypes, ThreadTypes, Tasks,
       InitTasks, InitSteps, DoomFrame, Rotate, irqvars, thread, doomvars, enginevars,
       scanvars, rotvars, devices, tconvars, devars
  <1>2. DeviceTypes' /\ FlagTypes'
    BY DEF IInv, TypeOK, DeviceTypes, FlagTypes, Registers, DoomFrame, Rotate, irqvars, thread,
       doomvars, enginevars, scanvars, rotvars, devices, tconvars, devars
  <1>3. InPlace'
    BY DEF IInv, InPlace, InitSteps, DoomFrame, Rotate, irqvars, thread, doomvars, enginevars,
       scanvars, rotvars, devices, tconvars, devars
  <1>4. Assigned'
    BY DeviceAssumption, IrqAssumption DEF IInv, TypeOK, IrqTypes, Assigned, InPlace,
       InitTasks, InitSteps, DoomFrame, Rotate, irqvars, thread, doomvars, enginevars,
       scanvars, rotvars, devices, tconvars, devars
  <1>5. Claimed'
    BY DeviceAssumption, IrqAssumption DEF IInv, TypeOK, IrqTypes, Assigned, Claimed,
       Claimable, DoomFrame, Rotate, irqvars, thread, doomvars, enginevars, scanvars, rotvars,
       devices, tconvars, devars
  <1>6. HalfUnasked'
    BY DEF IInv, HalfUnasked, DoomFrame, Rotate, irqvars, thread, doomvars, enginevars,
       scanvars, rotvars, devices, tconvars, devars
  <1>7. Exact'
    BY DEF IInv, TypeOK, DeviceTypes, FlagTypes, Exact, InPlace, DoomFrame, Rotate, irqvars,
       thread, doomvars, enginevars, scanvars, rotvars, devices, tconvars, devars
  <1>8. DoomLayerOff'
    BY DEF IInv, InPlace, InitSteps, DoomLayerOff, DoomFrame, Rotate, irqvars, thread,
       doomvars, enginevars, scanvars, rotvars, devices, tconvars, devars
  <1>9. QED
    BY <1>1, <1>2, <1>3, <1>4, <1>5, <1>6, <1>7, <1>8 DEF IInv, TypeOK

LEMMA DoomWaitedKeeps ==
  ASSUME IInv, hart = "thread", DoomWaited
  PROVE  IInv'
  <1>1. IrqTypes' /\ ThreadTypes'
    BY DeviceAssumption, IrqAssumption DEF IInv, TypeOK, IrqTypes, ThreadTypes, Tasks,
       InitTasks, InitSteps, DoomWaited, Waited, irqvars, thread, doomvars, enginevars,
       scanvars, rotvars, devices, tconvars, devars
  <1>2. DeviceTypes' /\ FlagTypes'
    BY DEF IInv, TypeOK, DeviceTypes, FlagTypes, Registers, DoomWaited, Waited, irqvars,
       thread, doomvars, enginevars, scanvars, rotvars, devices, tconvars, devars
  <1>3. InPlace'
    BY DEF IInv, InPlace, InitSteps, DoomWaited, Waited, irqvars, thread, doomvars, enginevars,
       scanvars, rotvars, devices, tconvars, devars
  <1>4. Assigned'
    BY DeviceAssumption, IrqAssumption DEF IInv, TypeOK, IrqTypes, Assigned, InPlace,
       InitTasks, InitSteps, DoomWaited, Waited, irqvars, thread, doomvars, enginevars,
       scanvars, rotvars, devices, tconvars, devars
  <1>5. Claimed'
    BY DeviceAssumption, IrqAssumption DEF IInv, TypeOK, IrqTypes, Assigned, Claimed,
       Claimable, DoomWaited, Waited, irqvars, thread, doomvars, enginevars, scanvars, rotvars,
       devices, tconvars, devars
  <1>6. HalfUnasked'
    BY DEF IInv, HalfUnasked, DoomWaited, Waited, irqvars, thread, doomvars, enginevars,
       scanvars, rotvars, devices, tconvars, devars
  <1>7. Exact'
    BY DEF IInv, TypeOK, DeviceTypes, FlagTypes, Exact, InPlace, DoomWaited, Waited, irqvars,
       thread, doomvars, enginevars, scanvars, rotvars, devices, tconvars, devars
  <1>8. DoomLayerOff'
    BY DEF IInv, InPlace, InitSteps, DoomLayerOff, DoomWaited, Waited, irqvars, thread,
       doomvars, enginevars, scanvars, rotvars, devices, tconvars, devars
  <1>9. QED
    BY <1>1, <1>2, <1>3, <1>4, <1>5, <1>6, <1>7, <1>8 DEF IInv, TypeOK

LEMMA DoomReturnsKeeps ==
  ASSUME IInv, hart = "thread", DoomReturns
  PROVE  IInv'
  <1>1. IrqTypes' /\ ThreadTypes'
    BY DeviceAssumption, IrqAssumption DEF IInv, TypeOK, IrqTypes, ThreadTypes, Tasks,
       InitTasks, InitSteps, DoomReturns, irqvars, thread, doomvars, enginevars, scanvars,
       rotvars, devices, tconvars, devars
  <1>2. DeviceTypes' /\ FlagTypes'
    BY DEF IInv, TypeOK, DeviceTypes, FlagTypes, Registers, DoomReturns, irqvars, thread,
       doomvars, enginevars, scanvars, rotvars, devices, tconvars, devars
  <1>3. InPlace'
    BY DEF IInv, InPlace, InitSteps, DoomReturns, irqvars, thread, doomvars, enginevars,
       scanvars, rotvars, devices, tconvars, devars
  <1>4. Assigned'
    BY DeviceAssumption, IrqAssumption DEF IInv, TypeOK, IrqTypes, Assigned, InPlace,
       InitTasks, InitSteps, DoomReturns, irqvars, thread, doomvars, enginevars, scanvars,
       rotvars, devices, tconvars, devars
  <1>5. Claimed'
    BY DeviceAssumption, IrqAssumption DEF IInv, TypeOK, IrqTypes, Assigned, Claimed,
       Claimable, DoomReturns, irqvars, thread, doomvars, enginevars, scanvars, rotvars,
       devices, tconvars, devars
  <1>6. HalfUnasked'
    BY DEF IInv, HalfUnasked, DoomReturns, irqvars, thread, doomvars, enginevars, scanvars,
       rotvars, devices, tconvars, devars
  <1>7. Exact'
    BY DEF IInv, TypeOK, DeviceTypes, FlagTypes, Exact, InPlace, DoomReturns, irqvars, thread,
       doomvars, enginevars, scanvars, rotvars, devices, tconvars, devars
  <1>8. DoomLayerOff'
    BY DEF IInv, InPlace, InitSteps, DoomLayerOff, DoomReturns, irqvars, thread, doomvars,
       enginevars, scanvars, rotvars, devices, tconvars, devars
  <1>9. QED
    BY <1>1, <1>2, <1>3, <1>4, <1>5, <1>6, <1>7, <1>8 DEF IInv, TypeOK

-------------------------------------------------------------------------------
LEMMA InitHolds == Init => IInv
  <1>1. Init => IrqTypes
    BY DEF Init, InitIrq, IrqTypes
  <1>2. Init => ThreadTypes
    BY DEF Init, ThreadTypes, Tasks, InitTasks, InitSteps
  <1>3. Init => DeviceTypes /\ FlagTypes
    BY DEF Init, InitScanout, DeviceTypes, FlagTypes, Registers
  <1>4. Init => InPlace /\ Assigned /\ Claimed
    BY DEF Init, InitIrq, InPlace, Assigned, Claimed, InitTasks
  <1>5. Init => HalfUnasked /\ Exact /\ DoomLayerOff
    BY DEF Init, InitScanout, HalfUnasked, Exact, DoomLayerOff
  <1>6. QED
    BY <1>1, <1>2, <1>3, <1>4, <1>5 DEF IInv, TypeOK

LEMMA StutterKeeps ==
  ASSUME IInv, UNCHANGED vars
  PROVE  IInv'
  <1>1. IrqTypes' /\ ThreadTypes'
    BY DEF IInv, TypeOK, IrqTypes, ThreadTypes, vars
  <1>2. DeviceTypes' /\ FlagTypes'
    BY DEF IInv, TypeOK, DeviceTypes, FlagTypes, vars
  <1>3. InPlace' /\ Assigned' /\ Claimed'
    BY DEF IInv, InPlace, Assigned, Claimed, Claimable, vars
  <1>4. HalfUnasked' /\ Exact' /\ DoomLayerOff'
    BY DEF IInv, HalfUnasked, Exact, DoomLayerOff, vars
  <1>5. QED
    BY <1>1, <1>2, <1>3, <1>4 DEF IInv, TypeOK

LEMMA Inductive == Spec => []IInv
  <1>1. ASSUME IInv, [Next]_vars
        PROVE  IInv'
    <2>1. CASE Device
      BY <1>1, <2>1, EngineFinishKeeps, EngineRequestKeeps, BlankKeeps, LcdRequestKeeps,
         UsbEventKeeps, UsbRequestKeeps DEF Device
    <2>2. CASE Interrupt
      BY <1>1, <2>2, TakeTrapKeeps, RotationHandlerKeeps, LcdHandlerKeeps, UsbHandlerKeeps DEF
         Interrupt
    <2>3. CASE \E i \in Irqs \cup {NoIrq} : TakeClaim(i)
      BY <1>1, <2>3, TakeClaimKeeps
    <2>4. CASE Thread
      <3>1. hart = "thread"
        BY <2>4 DEF Thread
      <3>2. CASE TconInit \/ DeInit \/ G2dInit \/ LayerSet \/ UsbInit \/ UsbTask
        BY <1>1, <3>1, <3>2, TconInitKeeps, DeInitKeeps, G2dInitKeeps, LayerSetKeeps,
           UsbInitKeeps, UsbTaskKeeps
      <3>3. CASE Clear \/ Arm \/ Start \/ InitRotated \/ TurnEnds \/ Exec
        BY <1>1, <3>1, <3>3, ClearKeeps, ArmKeeps, StartKeeps, InitRotatedKeeps, TurnEndsKeeps,
           ExecKeeps
      <3>4. CASE Turn("init_main", "init_gui")
        <4>1. "init_main" \in InitTasks <=> "init_gui" \in InitTasks
          BY DEF InitTasks
        <4>2. QED
          BY <1>1, <3>1, <3>4, <4>1, TurnKeeps
      <3>5. CASE Turn("exec_main", "exec_gui")
        <4>1. "exec_main" \in InitTasks <=> "exec_gui" \in InitTasks
          BY DEF InitTasks
        <4>2. QED
          BY <1>1, <3>1, <3>5, <4>1, TurnKeeps
      <3>6. CASE DoomRun \/ DoomFrame \/ DoomWaited \/ DoomReturns
        BY <1>1, <3>1, <3>6, DoomRunKeeps, DoomFrameKeeps, DoomWaitedKeeps, DoomReturnsKeeps
      <3>7. QED
        BY <2>4, <3>2, <3>3, <3>4, <3>5, <3>6 DEF Thread
    <2>5. CASE UNCHANGED vars
      BY <1>1, <2>5, StutterKeeps
    <2>6. QED
      BY <1>1, <2>1, <2>2, <2>3, <2>4, <2>5 DEF Next
  <1>2. QED
    BY <1>1, InitHolds, PTL DEF Spec

(* The variables keep their types (dispaly_task.c, g2d.c, irq.c, de.c).    *)
THEOREM TypeCorrect == Spec => []TypeOK
  BY Inductive, PTL DEF IInv

(* Neither of the two endless cases of handle_interrupt is reached         *)
(* (irq.c:109-113, 144-147), from the order in which the start assigns and *)
(* enables: an interrupt is enabled only when it has its handler.          *)
THEOREM NoInterruptIsStray == Spec => []NoStrayInterrupt
  <1>1. IInv => NoStrayInterrupt
    BY DEF IInv, Claimed, NoStrayInterrupt
  <1>2. QED
    BY <1>1, Inductive, PTL

(* Doom's layer is on only while doom runs (doom_task.c:107-112, 180).     *)
THEOREM DoomIsTakenOff == Spec => []DoomLayerOff
  BY Inductive, PTL DEF IInv

(* The mixer never takes over half of de_layer_set's writes                *)
(* (de.c:135-148, 231).                                                    *)
THEOREM NothingHalfIsShown == Spec => []LatchedWhole
  <1>1. IInv => LatchedWhole
    BY DEF IInv, HalfUnasked, LatchedWhole
  <1>2. QED
    BY <1>1, Inductive, PTL

(* A wait is left by one of the five places that wait. *)
LEMMA WaitLeft ==
  ASSUME IInv, Next, pc = "wait", pc' # "wait"
  PROVE  WaitOver(task)
  <1>1. hart = "thread" /\ (InitRotated \/ TurnEnds \/ Turn("init_main", "init_gui")
                              \/ Turn("exec_main", "exec_gui") \/ DoomWaited)
    BY DEF Next, Device, EngineFinish, EngineRequest, Blank, LcdRequest, UsbEvent, UsbRequest,
       Interrupt, TakeTrap, TakeClaim, RotationHandler, LcdHandler, UsbHandler, Handles,
       Thread, TconInit, DeInit, G2dInit, LayerSet, UsbInit, UsbTask, Clear, Arm, Start, Exec,
       DoomRun, DoomFrame, DoomReturns, Screen, Assign, Enable, Go, thread
  <1>2. QED
    BY <1>1 DEF InitRotated, TurnEnds, Turn, DoomWaited, Waited

(* A wait of the right sense that began with the engine at rest ends when  *)
(* the rotation is complete and acknowledged, and not before (g2d.c:10-24).*)
THEOREM WaitsAreExact == Spec => WaitIsExact
  <1>1. ASSUME IInv, [Next]_vars, pc = "wait", pc' # "wait", ~Inverted(task), quiet
        PROVE  done /\ engine = "idle" /\ ~flag
    <2>1. finished
      BY <1>1, WaitLeft DEF WaitOver, vars
    <2>2. QED
      BY <1>1, <2>1 DEF IInv, Exact
  <1>2. IInv /\ [Next]_vars =>
          [pc = "wait" /\ pc' # "wait" /\ ~Inverted(task) /\ quiet
             => done /\ engine = "idle" /\ ~flag]_vars
    BY <1>1
  <1>3. QED
    BY <1>2, Inductive, PTL DEF Spec, WaitIsExact

-------------------------------------------------------------------------------
(* What a wait needs to end: somebody who will still end it. *)

AfterG2d == task # "init" \/ pc \in {"layers", "layer", "layer_rest", "layer_commit"}

(* The rotation engine at work, or its completion not yet acknowledged, is *)
(* connected all the way: its interrupt switched on, enabled, and with its *)
(* handler.                                                                *)
Heard == /\ AfterG2d => G2D_IRQn \in enabled
         /\ AfterG2d \/ pc = "g2d_irq" => handlers[G2D_IRQn] = "g2d_int_handler"
         /\ engine # "idle" \/ flag => AfterG2d /\ armed
         /\ pc \in {"start", "wait"} => armed

(* An interrupt is in service only while its handler runs. *)
Served == in_service = IF hart \in {"handler", "complete"} THEN {irq} ELSE {}

(* A rotation that is waited for and not reported is running, or its flag  *)
(* is set.                                                                 *)
Woken == pc = "wait" /\ ~finished => engine # "idle" \/ flag

(* Whoever waits for a commit has switched the frames on.                  *)
Scans == scanning \/ pc \in {"tcon", "tcon_assign", "tcon_irq", "tcon_on"}

Awake == Heard /\ Served /\ Woken /\ Scans

LEMMA AwakeAtFirst == Init => Awake
  BY DEF Init, InitIrq, InitScanout, Awake, Heard, AfterG2d, Served, Woken, Scans

LEMMA DeviceKeepsAwake ==
  ASSUME IInv, Awake, Device
  PROVE  Awake'
  <1>1. CASE EngineFinish
    BY <1>1 DEF Awake, Heard, AfterG2d, Served, Woken, Scans, EngineFinish, irqvars, thread,
       scanvars, devices
  <1>2. CASE EngineRequest
    BY <1>2 DEF Awake, Heard, AfterG2d, Served, Woken, Scans, EngineRequest, Latch, thread,
       enginevars, rotvars, scanvars, devices
  <1>3. CASE Blank
    BY <1>3 DEF Awake, Heard, AfterG2d, Served, Woken, Scans, Blank, VBlank, irqvars, thread,
       enginevars, rotvars
  <1>4. CASE LcdRequest
    BY <1>4 DEF Awake, Heard, AfterG2d, Served, Woken, Scans, LcdRequest, Latch, thread,
       enginevars, rotvars, scanvars, devices
  <1>5. CASE UsbEvent
    BY <1>5 DEF Awake, Heard, AfterG2d, Served, Woken, Scans, UsbEvent, irqvars, thread,
       enginevars, rotvars, scanvars
  <1>6. CASE UsbRequest
    BY <1>6 DEF Awake, Heard, AfterG2d, Served, Woken, Scans, UsbRequest, Latch, thread,
       enginevars, rotvars, scanvars, devices
  <1>7. QED
    BY <1>1, <1>2, <1>3, <1>4, <1>5, <1>6 DEF Device

LEMMA HartKeepsAwake ==
  ASSUME IInv, Awake, Interrupt \/ \E i \in Irqs \cup {NoIrq} : TakeClaim(i)
  PROVE  Awake'
  <1>1. CASE TakeTrap
    BY <1>1 DEF IInv, Claimed, Awake, Heard, AfterG2d, Served, Woken, Scans, TakeTrap, Trap,
       Complete, thread, enginevars, rotvars, scanvars, devices
  <1>2. CASE RotationHandler
    BY <1>2 DEF IInv, TypeOK, FlagTypes, Awake, Heard, AfterG2d, Served, Woken, Scans,
       RotationHandler, Handles, thread, scanvars, devices
  <1>3. CASE LcdHandler
    BY <1>3 DEF Awake, Heard, AfterG2d, Served, Woken, Scans, LcdHandler, tcon_int_handler,
       Handles, thread, enginevars, rotvars
  <1>4. CASE UsbHandler
    BY <1>4 DEF Awake, Heard, AfterG2d, Served, Woken, Scans, UsbHandler, Handles, thread,
       enginevars, rotvars, scanvars
  <1>5. ASSUME NEW i \in Irqs \cup {NoIrq}, TakeClaim(i) PROVE Awake'
    BY <1>5, IrqAssumption DEF IInv, Claimed, Claimable, Awake, Heard, AfterG2d, Served, Woken,
       Scans, TakeClaim, Claim, thread, enginevars, rotvars, scanvars, devices
  <1>6. QED
    BY <1>1, <1>2, <1>3, <1>4, <1>5 DEF Interrupt

(* The steps of the start: what is enabled stays so. *)
LEMMA StartKeepsAwake ==
  ASSUME IInv, Awake, hart = "thread",
         TconInit \/ DeInit \/ G2dInit \/ LayerSet \/ UsbInit \/ UsbTask
  PROVE  Awake'
  <1> USE DEF Awake, Heard, AfterG2d, Served, Woken, Scans, irqvars, rotvars, devices
  <1>1. CASE TconInit
    BY <1>1, DeviceAssumption DEF IInv, InPlace, InitSteps, TypeOK, IrqTypes, TconInit, Screen,
       Assign, Enable, Go, GintEnable, tcon_lcd_enable, irq_assign, irq_enable, enginevars,
       scanvars, devars
  <1>2. CASE DeInit
    BY <1>2 DEF IInv, InPlace, InitSteps, DeInit, Screen, Go, de_commit, WriteRegs, enginevars,
       tconvars
  <1>3. CASE G2dInit
    BY <1>3, DeviceAssumption DEF IInv, InPlace, InitSteps, TypeOK, IrqTypes, G2dInit, Assign,
       Enable, Go, Rotate, irq_assign, irq_enable, enginevars, scanvars
  <1>4. CASE LayerSet
    BY <1>4 DEF IInv, InPlace, InitSteps, LayerSet, Screen, Go, de_commit, de_commit_wait,
       WriteRegs, enginevars, tconvars
  <1>5. CASE UsbInit
    BY <1>5, DeviceAssumption DEF IInv, InPlace, InitSteps, TypeOK, IrqTypes, UsbInit, Assign,
       Enable, Go, irq_assign, irq_enable, enginevars, scanvars
  <1>6. CASE UsbTask
    BY <1>6, DeviceAssumption DEF IInv, InPlace, InitSteps, UsbTask, Enable, Go, irq_disable,
       irq_enable, enginevars, scanvars
  <1>7. QED
    BY <1>1, <1>2, <1>3, <1>4, <1>5, <1>6

(* The rotations. *)
LEMMA RotationKeepsAwake ==
  ASSUME IInv, Awake, hart = "thread",
         \/ Clear \/ Arm \/ Start \/ InitRotated \/ TurnEnds \/ Exec
         \/ Turn("init_main", "init_gui") \/ Turn("exec_main", "exec_gui")
         \/ DoomRun \/ DoomFrame \/ DoomWaited \/ DoomReturns
  PROVE  Awake'
  <1> USE DEF Awake, Heard, AfterG2d, Served, Woken, Scans, irqvars, rotvars, devices,
      enginevars, scanvars
  <1>1. CASE Clear
    BY <1>1 DEF IInv, InPlace, Clear
  <1>2. CASE Arm
    BY <1>2 DEF IInv, InPlace, Arm
  <1>3. CASE Start
    BY <1>3 DEF IInv, InPlace, Start
  <1>4. CASE \/ InitRotated \/ Exec \/ DoomRun \/ DoomFrame \/ DoomWaited \/ DoomReturns
             \/ Turn("init_main", "init_gui") \/ Turn("exec_main", "exec_gui")
    BY <1>4 DEF IInv, InPlace, InitRotated, Exec, DoomRun, DoomFrame, DoomWaited, DoomReturns,
       Turn, Waited, Rotate
  <1>5. CASE TurnEnds
    BY <1>5 DEF IInv, InPlace, TurnEnds, Waited, de_commit, tconvars
  <1>6. QED
    BY <1>1, <1>2, <1>3, <1>4, <1>5

(* What is waited for is under way, and will be told.                      *)
NoWaitForgotten ==
  /\ pc = "wait" /\ ~finished => engine # "idle" \/ flag
  /\ engine # "idle" \/ flag =>
       armed /\ G2D_IRQn \in enabled /\ handlers[G2D_IRQn] = "g2d_int_handler"
  /\ in_service # {} => hart \in {"handler", "complete"}
  /\ pc = "layers" => scanning

(* No wait is forgotten.  Where g2d_rot_finished is waited for, the engine *)
(* works or its flag is set; a flag that is set has its interrupt switched *)
(* on, enabled, with g2d_int_handler, and no other keeps the controller    *)
(* but while its handler runs, whatever USB, the vertical blank and a      *)
(* rotation asked for too early do (g2d.c:10-62, irq.c).  Where a commit   *)
(* is waited for, the frames that take it over come (de.c:135-138).        *)
THEOREM WaitsAreRemembered == Spec => []NoWaitForgotten
  <1>1. ASSUME IInv, Awake, [Next]_vars PROVE Awake'
    <2>1. CASE UNCHANGED vars
      BY <1>1, <2>1 DEF vars, Awake, Heard, AfterG2d, Served, Woken, Scans
    <2>2. CASE Thread
      BY <1>1, <2>2, StartKeepsAwake, RotationKeepsAwake DEF Thread
    <2>3. QED
      BY <1>1, <2>1, <2>2, DeviceKeepsAwake, HartKeepsAwake DEF Next
  <1>2. Awake => NoWaitForgotten
    BY DEF Awake, Heard, AfterG2d, Served, Woken, Scans, NoWaitForgotten
  <1>3. QED
    BY <1>1, <1>2, AwakeAtFirst, Inductive, PTL DEF Spec

-------------------------------------------------------------------------------
(* The code of the packets for the panel. *)

(* The bits of the code that a bit of the first word takes part in.        *)
Column(b) == {i \in 0..5 : IF b < 24 THEN b \in sun6i_dsi_ecc_array[i] ELSE i = b - 24}

(* Of the six, an odd number is in C. *)
OddMany(C) ==
  ~((0 \in C) <=> ((1 \in C) <=> ((2 \in C) <=> ((3 \in C) <=> ((4 \in C) <=> (5 \in C))))))

LEMMA Rows ==
  /\ sun6i_dsi_ecc_array[0] = {0, 1, 2, 4, 5, 7, 10, 11, 13, 16, 20, 21, 22, 23}
  /\ sun6i_dsi_ecc_array[1] = {0, 1, 3, 4, 6, 8, 10, 12, 14, 17, 20, 21, 22, 23}
  /\ sun6i_dsi_ecc_array[2] = {0, 2, 3, 5, 6, 9, 11, 12, 15, 18, 20, 21, 22}
  /\ sun6i_dsi_ecc_array[3] = {1, 2, 3, 7, 8, 9, 13, 14, 15, 19, 20, 21, 23}
  /\ sun6i_dsi_ecc_array[4] = {4, 5, 6, 7, 8, 9, 16, 17, 18, 19, 20, 22, 23}
  /\ sun6i_dsi_ecc_array[5] = {10, 11, 12, 13, 14, 15, 16, 17, 18, 19, 21, 22, 23}
  BY DEF sun6i_dsi_ecc_array

LEMMA ColumnIsOdd ==
  ASSUME NEW b \in 0..29
  PROVE  OddMany(Column(b))
  <1>1. CASE b < 24
    BY <1>1, Rows DEF Column, OddMany
  <1>2. CASE b >= 24
    BY <1>2 DEF Column, OddMany
  <1>3. QED
    BY <1>1, <1>2

LEMMA ColumnsDiffer ==
  ASSUME NEW b \in 0..29, NEW c \in 0..29, b # c
  PROVE  Column(b) # Column(c)
  <1>1. CASE b < 24 /\ c < 24
    BY <1>1, Rows DEF Column
  <1>2. CASE b >= 24 \/ c >= 24
    BY <1>2, Rows DEF Column
  <1>3. QED
    BY <1>1, <1>2

(* How many a difference of two sets has is odd if exactly one of theirs is. *)
LEMMA OddDifference ==
  ASSUME NEW S, NEW T, IsFiniteSet(S), IsFiniteSet(T)
  PROVE  Odd(SymDiff(S, T)) <=> ~(Odd(S) <=> Odd(T))
  <1> DEFINE a == Cardinality(S \ T)
             b == Cardinality(T \ S)
             c == Cardinality(S \cap T)
  <1>1. IsFiniteSet(S \ T) /\ IsFiniteSet(T \ S) /\ IsFiniteSet(S \cap T)
    BY FS_Difference, FS_Intersection
  <1>2. a \in Nat /\ b \in Nat /\ c \in Nat
    BY <1>1, FS_CardinalityType
  <1>3. Cardinality({}) = 0
    BY FS_EmptySet
  <1>4. Cardinality(S) = a + c
    <2>1. S = (S \ T) \cup (S \cap T) /\ (S \ T) \cap (S \cap T) = {}
      OBVIOUS
    <2>2. Cardinality((S \ T) \cup (S \cap T)) = a + c - Cardinality((S \ T) \cap (S \cap T))
      BY <1>1, FS_Union
    <2>3. Cardinality(S) = a + c - 0
      BY <1>3, <2>1, <2>2
    <2> HIDE DEF a, c
    <2>4. QED
      BY <1>2, <2>3
  <1>5. Cardinality(T) = b + c
    <2>1. T = (T \ S) \cup (S \cap T) /\ (T \ S) \cap (S \cap T) = {}
      OBVIOUS
    <2>2. Cardinality((T \ S) \cup (S \cap T)) = b + c - Cardinality((T \ S) \cap (S \cap T))
      BY <1>1, FS_Union
    <2>3. Cardinality(T) = b + c - 0
      BY <1>3, <2>1, <2>2
    <2> HIDE DEF b, c
    <2>4. QED
      BY <1>2, <2>3
  <1>6. Cardinality(SymDiff(S, T)) = a + b
    <2>1. SymDiff(S, T) = (S \ T) \cup (T \ S) /\ (S \ T) \cap (T \ S) = {}
      BY DEF SymDiff
    <2>2. Cardinality((S \ T) \cup (T \ S)) = a + b - Cardinality((S \ T) \cap (T \ S))
      BY <1>1, FS_Union
    <2>3. QED
      BY <1>2, <1>3, <2>1, <2>2
  <1> HIDE DEF a, b, c
  <1>7. QED
    BY <1>2, <1>4, <1>5, <1>6 DEF Odd

(* A syndrome does not depend on the header, but on the flipped bits alone. *)
LEMMA SyndromeOfFlips ==
  ASSUME NEW data \in SUBSET (0..23), NEW flipped \in SUBSET (0..29), NEW i \in 0..5
  PROVE  i \in Syndrome(data, flipped) <=>
           ~(i + 24 \in flipped <=> Odd({f \in flipped : f < 24} \cap sun6i_dsi_ecc_array[i]))
  <1> DEFINE low == {f \in flipped : f < 24}
             row == sun6i_dsi_ecc_array[i]
             code == {b - 24 : b \in {f \in flipped : f >= 24}}
  <1>1. IsFiniteSet(data \cap row) /\ IsFiniteSet(low \cap row)
    <2>1. IsFiniteSet(0..23)
      <3>1. PICK m \in Int : m = 23
        OBVIOUS
      <3>2. IsFiniteSet(0..m)
        BY FS_Interval
      <3>3. 0..m = 0..23
        BY <3>1
      <3>4. QED
        BY <3>2, <3>3, Zenon
    <2>2. data \cap row \in SUBSET (0..23) /\ low \cap row \in SUBSET (0..23)
      <3>1. \A f \in low : f \in 0..29 /\ f < 24
        OBVIOUS
      <3> HIDE DEF low, row
      <3>2. \A f \in low : f \in 0..23
        BY <3>1
      <3>3. QED
        BY <3>2
    <2>3. QED
      BY <2>1, <2>2, FS_Subset
  <1>2. SymDiff(data, low) \cap row = SymDiff(data \cap row, low \cap row)
    BY DEF SymDiff
  <1>3. i \in sun6i_dsi_ecc_compute(SymDiff(data, low)) <=>
          ~(Odd(data \cap row) <=> Odd(low \cap row))
    <2>1. i \in sun6i_dsi_ecc_compute(SymDiff(data, low)) <=> Odd(SymDiff(data, low) \cap row)
      BY DEF sun6i_dsi_ecc_compute
    <2>2. Odd(SymDiff(data \cap row, low \cap row)) <=>
            ~(Odd(data \cap row) <=> Odd(low \cap row))
      BY <1>1, OddDifference
    <2> HIDE DEF low, row
    <2>3. QED
      BY <1>2, <2>1, <2>2
  <1>4. i \in sun6i_dsi_ecc_compute(data) <=> Odd(data \cap row)
    BY DEF sun6i_dsi_ecc_compute
  <1>5. i \in code <=> i + 24 \in flipped
    <2>1. ASSUME i + 24 \in flipped PROVE i \in code
      <3>1. i + 24 >= 24 /\ i = (i + 24) - 24
        OBVIOUS
      <3>2. QED
        BY <2>1, <3>1
    <2>2. ASSUME i \in code PROVE i + 24 \in flipped
      <3>1. PICK b \in flipped : b >= 24 /\ i = b - 24
        BY <2>2
      <3>2. b \in 0..29 /\ b = i + 24
        BY <3>1
      <3>3. QED
        BY <3>1, <3>2
    <2>3. QED
      BY <2>1, <2>2
  <1>6. Syndrome(data, flipped) =
          SymDiff(SymDiff(sun6i_dsi_ecc_compute(data), code),
                  sun6i_dsi_ecc_compute(SymDiff(data, low)))
    BY DEF Syndrome
  <1> HIDE DEF low, row, code
  <1>7. i \in Syndrome(data, flipped) <=> ~(i \in code <=> Odd(low \cap row))
    <2>1. \A A, B : i \in SymDiff(A, B) <=> ~(i \in A <=> i \in B)
      BY DEF SymDiff
    <2>2. QED
      BY <1>3, <1>4, <1>6, <2>1
  <1>8. QED
    BY <1>5, <1>7 DEF low, row

LEMMA SyndromeIsCode ==
  ASSUME NEW data, NEW flipped \in SUBSET (0..29)
  PROVE  Syndrome(data, flipped) \subseteq 0..5
  BY DEF Syndrome, SymDiff, sun6i_dsi_ecc_compute

LEMMA OddOne ==
  ASSUME NEW b
  PROVE  ~Odd({}) /\ Odd({b})
  <1>1. Cardinality({}) = 0 /\ Cardinality({b}) = 1
    BY FS_EmptySet, FS_Singleton
  <1>2. QED
    BY <1>1 DEF Odd

LEMMA OddFew ==
  ASSUME NEW b, NEW c, b # c
  PROVE  ~Odd({}) /\ Odd({b}) /\ ~Odd({b, c})
  <1>1. Cardinality({}) = 0 /\ Cardinality({b}) = 1
    BY FS_EmptySet, FS_Singleton
  <1>2. Cardinality({b, c}) = 2
    <2>1. IsFiniteSet({b}) /\ {b, c} = {b} \cup {c} /\ c \notin {b}
      BY FS_Singleton
    <2>2. Cardinality({b} \cup {c}) = Cardinality({b}) + 1
      BY <2>1, FS_AddElement
    <2>3. QED
      BY <1>1, <2>1, <2>2
  <1>3. QED
    BY <1>1, <1>2 DEF Odd

LEMMA SyndromeOfOne ==
  ASSUME NEW data \in SUBSET (0..23), NEW b \in 0..29
  PROVE  Syndrome(data, {b}) = Column(b)
  <1>1. ASSUME NEW i \in 0..5 PROVE i \in Syndrome(data, {b}) <=> i \in Column(b)
    <2> DEFINE met == {f \in {b} : f < 24} \cap sun6i_dsi_ecc_array[i]
    <2>1. i \in Syndrome(data, {b}) <=> ~(i + 24 \in {b} <=> Odd(met))
      <3>1. {b} \in SUBSET (0..29)
        OBVIOUS
      <3>2. QED
        BY <3>1, SyndromeOfFlips
    <2>2. met = IF b < 24 /\ b \in sun6i_dsi_ecc_array[i] THEN {b} ELSE {}
      OBVIOUS
    <2>3. ~Odd({}) /\ Odd({b})
      BY OddOne
    <2> HIDE DEF met
    <2>4. Odd(met) <=> b < 24 /\ b \in sun6i_dsi_ecc_array[i]
      BY <2>2, <2>3
    <2>5. QED
      BY <2>1, <2>4 DEF Column
  <1>2. Syndrome(data, {b}) \subseteq 0..5 /\ Column(b) \subseteq 0..5
    BY SyndromeIsCode DEF Column
  <1>3. QED
    BY <1>1, <1>2

LEMMA SyndromeOfTwo ==
  ASSUME NEW data \in SUBSET (0..23), NEW b \in 0..29, NEW c \in 0..29, b # c,
         NEW i \in 0..5
  PROVE  i \in Syndrome(data, {b, c}) <=> ~(i \in Column(b) <=> i \in Column(c))
  <1> DEFINE row == sun6i_dsi_ecc_array[i]
             met == {f \in {b, c} : f < 24} \cap row
             B == b < 24 /\ b \in row
             C == c < 24 /\ c \in row
  <1>1. i \in Syndrome(data, {b, c}) <=> ~(i + 24 \in {b, c} <=> Odd(met))
    <2>1. {b, c} \in SUBSET (0..29)
      OBVIOUS
    <2>2. QED
      BY <2>1, SyndromeOfFlips
  <1>2. ~Odd({}) /\ Odd({b}) /\ Odd({c}) /\ ~Odd({b, c})
    BY OddFew
  <1>3. Odd(met) <=> ~(B <=> C)
    <2>1. CASE B /\ C
      <3>1. met = {b, c}
        BY <2>1
      <3>2. QED
        BY <1>2, <2>1, <3>1
    <2>2. CASE B /\ ~C
      <3>1. met = {b}
        BY <2>2
      <3>2. QED
        BY <1>2, <2>2, <3>1
    <2>3. CASE ~B /\ C
      <3>1. met = {c}
        BY <2>3
      <3>2. QED
        BY <1>2, <2>3, <3>1
    <2>4. CASE ~B /\ ~C
      <3>1. met = {}
        BY <2>4
      <3>2. QED
        BY <1>2, <2>4, <3>1
    <2>5. QED
      BY <2>1, <2>2, <2>3, <2>4
  <1>4. /\ i \in Column(b) <=> B \/ i + 24 = b
        /\ i \in Column(c) <=> C \/ i + 24 = c
        /\ ~(B /\ i + 24 = b) /\ ~(C /\ i + 24 = c)
    BY DEF Column
  <1> HIDE DEF met, B, C
  <1>5. QED
    BY <1>1, <1>3, <1>4

(* For every header, each of the thirty bits shows in its own way when it  *)
(* is wrong, and two of them look neither like none nor like one           *)
(* (mipi_dsi.c:694-739).                                                   *)
THEOREM EveryHeaderIsCorrectable == ASSUME header \in SUBSET (0..23) PROVE HeadersCorrectable
  <1> DEFINE single == {Syndrome(header, f) : f \in OneFlip}
  <1>1. single = {Column(b) : b \in 0..29}
    <2>1. \A b \in 0..29 : Syndrome(header, {b}) = Column(b)
      BY SyndromeOfOne
    <2>2. QED
      BY <2>1 DEF OneFlip
  <1>2. Cardinality(single) = 30
    <2> DEFINE f == [b \in 0..29 |-> Column(b)]
    <2>1. /\ f \in [0..29 -> single]
          /\ \A b, c \in 0..29 : f[b] = f[c] => b = c
          /\ \A t \in single : \E b \in 0..29 : f[b] = t
      BY <1>1, ColumnsDiffer
    <2>2. f \in Bijection(0..29, single)
      BY <2>1 DEF Bijection, Injection, Surjection, IsInjective
    <2>3. IsFiniteSet(0..29) /\ Cardinality(0..29) = 30
      <3>1. PICK m \in Int : m = 29
        OBVIOUS
      <3>2. IsFiniteSet(0..m) /\ Cardinality(0..m) = IF 0 > m THEN 0 ELSE m - 0 + 1
        BY FS_Interval
      <3>3. 0..m = 0..29 /\ (IF 0 > m THEN 0 ELSE m - 0 + 1) = 30
        BY <3>1
      <3>4. QED
        BY <3>2, <3>3, Zenon
    <2>4. QED
      BY <2>2, <2>3, FS_Bijection DEF ExistsBijection
  <1>3. {} \notin single
    <2>1. ~OddMany({})
      BY DEF OddMany
    <2>2. QED
      BY <1>1, <2>1, ColumnIsOdd
  <1>4. ASSUME NEW f \in TwoFlips PROVE Syndrome(header, f) \notin single \cup {{}}
    <2>1. PICK b \in 0..29, c \in 0..29 : f = {b, c} /\ b # c
      <3>1. PICK b \in 0..29 : f \in {{b, c} : c \in b+1..29}
        BY DEF TwoFlips
      <3>2. PICK c \in b+1..29 : f = {b, c}
        BY <3>1
      <3>3. c \in 0..29 /\ b # c
        BY <3>2
      <3>4. QED
        BY <3>2, <3>3
    <2> DEFINE S == Syndrome(header, f)
    <2>2. \A i \in 0..5 : i \in S <=> ~(i \in Column(b) <=> i \in Column(c))
      BY <2>1, SyndromeOfTwo
    <2>3. OddMany(Column(b)) /\ OddMany(Column(c)) /\ Column(b) # Column(c)
      BY <2>1, ColumnIsOdd, ColumnsDiffer
    <2> HIDE DEF S
    <2>4. ~OddMany(S)
      <3>1. /\ 0 \in S <=> ~(0 \in Column(b) <=> 0 \in Column(c))
            /\ 1 \in S <=> ~(1 \in Column(b) <=> 1 \in Column(c))
            /\ 2 \in S <=> ~(2 \in Column(b) <=> 2 \in Column(c))
            /\ 3 \in S <=> ~(3 \in Column(b) <=> 3 \in Column(c))
            /\ 4 \in S <=> ~(4 \in Column(b) <=> 4 \in Column(c))
            /\ 5 \in S <=> ~(5 \in Column(b) <=> 5 \in Column(c))
        BY <2>2
      <3>2. QED
        BY <2>3, <3>1 DEF OddMany
    <2>5. S # {}
      <3>1. Column(b) \subseteq 0..5 /\ Column(c) \subseteq 0..5
        BY DEF Column
      <3>2. PICK i \in 0..5 : ~(i \in Column(b) <=> i \in Column(c))
        BY <2>3, <3>1
      <3>3. QED
        BY <2>2, <3>2
    <2>6. S \notin single
      BY <1>1, <2>4, ColumnIsOdd
    <2>7. QED
      BY <2>5, <2>6 DEF S
  <1>5. QED
    BY <1>2, <1>3, <1>4 DEF HeadersCorrectable
===============================================================================
