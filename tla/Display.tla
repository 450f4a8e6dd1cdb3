------------------------------- MODULE Display -------------------------------
(***************************************************************************)
(* components/dispaly_task.c, awh_lib/g2d.c, the display side of main, of  *)
(* console_render and of doom_task.c, and what shares the interrupt        *)
(* controller with them : the main loop sets the screen up, asks the       *)
(* rotation engine for one picture after the other and waits for           *)
(* g2d_rot_finished, which the interrupt handler sets; the vertical blank  *)
(* and USB interrupt it meanwhile.                                         *)
(*                                                                         *)
(* task : which rotation the thread is at.  init_main and init_gui belong  *)
(*        to display_task_init, exec_main and exec_gui to                  *)
(*        display_task_exec, doom to doom_task_run; "init" and "turn" are  *)
(*        the rest of display_task_init and of the main loop               *)
(* pc : where in a task                                                    *)
(* finished : g2d_rot_finished                                             *)
(* pipe1 : the second pipe of the blender, as de_pipe has written it.      *)
(*        Whether it takes effect at once or at the next commit is left    *)
(*        out: de_pipe asks for none, and display_task_exec for the next   *)
(* doom_run, doom_inited : as in doom_task.c                               *)
(* engine : "idle", "current" at work on what the last g2d_rot asked for,  *)
(*        "earlier" on something else                                      *)
(* flag, armed : bits 0 and 16 of ROT_INT                                  *)
(* usb_flag : the host controller has something for tuh_int_handler        *)
(* done : the last rotation asked for is complete (auxiliary)              *)
(* quiet : it was asked for with the engine at rest (auxiliary)            *)
(***************************************************************************)
EXTENDS Irq, Scanout

CONSTANTS G2D_IRQn, LCD_IRQn, USB_IRQn   \* USB1_EHCI_IRQn or USB1_OHCI_IRQn

ASSUME DeviceAssumption ==
  /\ Irqs = {G2D_IRQn, LCD_IRQn, USB_IRQn}
  /\ G2D_IRQn # LCD_IRQn /\ G2D_IRQn # USB_IRQn /\ LCD_IRQn # USB_IRQn

VARIABLES task, pc, finished, pipe1, doom_run, doom_inited,
          engine, flag, armed, usb_flag, done, quiet

thread == <<task, pc>>
doomvars == <<pipe1, doom_run, doom_inited>>
enginevars == <<engine, flag, armed, done>>
scanvars == <<scanning, vb_enabled, vb_flag, dbuffer, regs, shown>>
rotvars == <<finished, doomvars, enginevars, quiet>>
devices == <<scanvars, usb_flag>>
vars == <<pending, enabled, in_service, handlers, hart, irq, task, pc, finished,
          pipe1, doom_run, doom_inited, engine, flag, armed, usb_flag, done, quiet,
          scanning, vb_enabled, vb_flag, dbuffer, regs, shown>>

InitTasks == {"init", "init_main", "init_gui"}
Tasks == InitTasks \cup {"turn", "exec_main", "exec_gui", "doom"}

InitSteps == {"tcon", "tcon_assign", "tcon_irq", "tcon_on",
              "de", "blender", "blender_rest", "blender_commit", "g2d", "g2d_irq",
              "layers", "layer", "layer_rest", "layer_commit"}

-------------------------------------------------------------------------------
(* The devices.  A start of the engine while it is at work is not          *)
(* specified: it may be ignored or replace the work.                       *)

EngineFinish == /\ engine # "idle"
                /\ engine' = "idle"
                /\ flag' = TRUE
                /\ done' = (done \/ engine = "current")
                /\ UNCHANGED <<irqvars, thread, finished, doomvars, armed, quiet, devices>>

EngineRequest == /\ flag
                 /\ armed
                 /\ Latch(G2D_IRQn)
                 /\ UNCHANGED <<thread, rotvars, devices>>

Blank == /\ VBlank
         /\ UNCHANGED <<irqvars, thread, rotvars, usb_flag>>

LcdRequest == /\ VBlankRequest
              /\ Latch(LCD_IRQn)
              /\ UNCHANGED <<thread, rotvars, devices>>

(* The host controller runs from tuh_init on. *)
UsbEvent == /\ task \in Tasks \ InitTasks
            /\ pc # "usb"
            /\ usb_flag' = TRUE
            /\ UNCHANGED <<irqvars, thread, rotvars, scanvars>>

UsbRequest == /\ usb_flag
              /\ Latch(USB_IRQn)
              /\ UNCHANGED <<thread, rotvars, devices>>

-------------------------------------------------------------------------------
(* The interrupt. *)

TakeTrap == (Trap \/ Complete) /\ UNCHANGED <<thread, rotvars, devices>>

TakeClaim(i) == Claim(i) /\ UNCHANGED <<thread, rotvars, devices>>

Handles(handler) == /\ hart = "handler"
                    /\ handlers[irq] = handler
                    /\ hart' = "complete"
                    /\ UNCHANGED <<pending, enabled, in_service, handlers, irq, thread>>

(* Seeded fault: the flag in ROT_INT is left set. *)
RotationUnacked == /\ Handles("g2d_int_handler")
                   /\ finished' = TRUE
                   /\ UNCHANGED <<doomvars, enginevars, quiet, devices>>

(* g2d_int_handler.  The thread is stopped; a completion between the test  *)
(* of the flag and its acknowledgement comes to the same as one before the *)
(* test, so the handler is one step.                                       *)
RotationHandler == /\ Handles("g2d_int_handler")
                   /\ finished' = (finished \/ flag)
                   /\ flag' = FALSE
                   /\ UNCHANGED <<doomvars, engine, armed, done, quiet, devices>>

LcdHandler == /\ Handles("tcon_int_handler")
              /\ tcon_int_handler
              /\ UNCHANGED <<rotvars, usb_flag>>

(* usb_int_handler; the host stack serves the controller. *)
UsbHandler == /\ Handles("usb_int_handler")
              /\ usb_flag' = FALSE
              /\ UNCHANGED <<rotvars, scanvars>>

Interrupt == TakeTrap \/ RotationHandler \/ LcdHandler \/ UsbHandler

-------------------------------------------------------------------------------
(* g2d_rot, one access to what the interrupt or the engine shares at a time. *)

(* Whatever the engine is at now is no longer what is asked for. *)
Clear == /\ pc = "clear"
         /\ finished' = FALSE
         /\ done' = FALSE
         /\ engine' = IF engine = "idle" THEN "idle" ELSE "earlier"
         /\ quiet' = (engine = "idle" /\ ~flag)
         /\ pc' = "arm"
         /\ UNCHANGED <<irqvars, task, doomvars, flag, armed, devices>>

(* ROT_INT |= 1 << 16 : the flag, if set, is read as 1 and written back,   *)
(* which clears it.                                                        *)
Arm == /\ pc = "arm"
       /\ armed' = TRUE
       /\ flag' = FALSE
       /\ pc' = "start"
       /\ UNCHANGED <<irqvars, task, finished, doomvars, engine, done, quiet, devices>>

Start == /\ pc = "start"
         /\ engine' \in IF engine = "idle" THEN {"current"} ELSE {"earlier", "current"}
         /\ pc' = "wait"
         /\ UNCHANGED <<irqvars, task, finished, doomvars, flag, armed, done, quiet,
                        devices>>

(* while(g2d_rot_finish()) in place of while(!g2d_rot_finish()) *)
Inverted(t) == t \in {"init_main", "init_gui", "exec_gui"}

(* Seeded fault: the sense of the wait is turned round in doom as well. *)
WaitOverAlways(t) == ~finished

WaitOver(t) == IF Inverted(t) THEN ~finished ELSE finished

Rotate(t) == task' = t /\ pc' = "clear"

Waited(t) == task = t /\ pc = "wait" /\ WaitOver(t)

-------------------------------------------------------------------------------
(* display_task_init, called with interrupts on, and usb_task_init.        *)

(* A step of the start that only concerns the screen, or the interrupts.   *)
Go(from, to) == pc = from /\ pc' = to /\ UNCHANGED task

Screen(from, to) == /\ Go(from, to)
                    /\ UNCHANGED <<irqvars, rotvars, usb_flag>>

Assign(from, to, i, handler) ==
  /\ Go(from, to)
  /\ irq_assign(i, handler)
  /\ UNCHANGED <<pending, enabled, in_service, hart, irq, rotvars, devices>>

Enable(from, to, i) == /\ Go(from, to)
                       /\ irq_enable(i)
                       /\ UNCHANGED <<in_service, handlers, hart, irq, rotvars, devices>>

TconInit == \/ Screen("tcon", "tcon_assign") /\ GintEnable
            \/ Assign("tcon_assign", "tcon_irq", LCD_IRQn, "tcon_int_handler")
            \/ Enable("tcon_irq", "tcon_on", LCD_IRQn)
            \/ Screen("tcon_on", "de") /\ tcon_lcd_enable

(* de_init asks for an update before it has written what is to be updated; *)
(* all layers are off until de_layer_set.                                  *)
DeInit == \/ Screen("de", "blender") /\ de_commit
          \/ Screen("blender", "blender_rest") /\ WriteRegs("blender_part")
          \/ Screen("blender_rest", "blender_commit") /\ WriteRegs("blender")
          \/ Screen("blender_commit", "g2d") /\ de_commit

(* Seeded fault: the interrupt is enabled before it has its handler. *)
G2dInitLate == \/ Enable("g2d", "g2d_irq", G2D_IRQn)
               \/ /\ pc = "g2d_irq"
                  /\ irq_assign(G2D_IRQn, "g2d_int_handler")
                  /\ Rotate("init_main")
                  /\ UNCHANGED <<pending, enabled, in_service, hart, irq, rotvars, devices>>

G2dInit == \/ Assign("g2d", "g2d_irq", G2D_IRQn, "g2d_int_handler")
           \/ /\ pc = "g2d_irq"
              /\ irq_enable(G2D_IRQn)
              /\ Rotate("init_main")
              /\ UNCHANGED <<in_service, handlers, hart, irq, rotvars, devices>>

LayerSet == \/ Screen("layers", "layer") /\ de_commit_wait
            \/ Screen("layer", "layer_rest") /\ WriteRegs("layers_part")
            \/ Screen("layer_rest", "layer_commit") /\ WriteRegs("layers")
            \/ /\ pc = "layer_commit"
               /\ de_commit
               /\ task' = "turn"
               /\ pc' = "usb"
               /\ UNCHANGED <<irqvars, rotvars, usb_flag>>

(* usb_hw_init, and tuh_init with its hcd_int_enable. *)
UsbInit == \/ Assign("usb", "usb_irq", USB_IRQn, "usb_int_handler")
           \/ Enable("usb_irq", "idle", USB_IRQn)

(* tuh_task looks at its queue of events between hcd_int_disable and       *)
(* hcd_int_enable.                                                         *)
UsbTask == \/ /\ Go(IF task = "doom" THEN "loop" ELSE "idle", "locked")
              /\ irq_disable(USB_IRQn)
              /\ UNCHANGED <<pending, in_service, handlers, hart, irq, rotvars, devices>>
           \/ Enable("locked", IF task = "doom" THEN "loop" ELSE "idle", USB_IRQn)

-------------------------------------------------------------------------------
(* The rotations of display_task_init and of the main loop. *)

Turn(t, next) == /\ Waited(t)
                 /\ Rotate(next)
                 /\ UNCHANGED <<irqvars, rotvars, devices>>

InitRotated == /\ Waited("init_gui")
               /\ task' = "init"
               /\ pc' = "layers"
               /\ UNCHANGED <<irqvars, rotvars, devices>>

(* The end of display_task_exec. *)
TurnEnds == /\ Waited("exec_gui")
            /\ de_commit
            /\ task' = "turn"
            /\ pc' = "idle"
            /\ UNCHANGED <<irqvars, rotvars, usb_flag>>

(* The beginning of display_task_exec. *)
Exec == /\ task = "turn"
        /\ pc = "idle"
        /\ Rotate("exec_main")
        /\ UNCHANGED <<irqvars, rotvars, devices>>

(* doom_task_run up to its loop; doom may already exit in doom_task_init. *)
DoomRun == /\ task = "turn"
           /\ pc = "idle"
           /\ doom_inited' = TRUE
           /\ \/ /\ doom_run' = TRUE
                 /\ pipe1' = TRUE
                 /\ task' = "doom"
                 /\ pc' = "loop"
              \/ /\ ~doom_inited
                 /\ UNCHANGED <<doom_run, pipe1, task, pc>>
           /\ UNCHANGED <<irqvars, finished, enginevars, quiet, devices>>

(* Seeded fault: doom leaves its picture on the screen. *)
DoomFrameNoPipe == /\ task = "doom"
                   /\ pc = "loop"
                   /\ doom_run
                   /\ doom_run' \in BOOLEAN
                   /\ Rotate("doom")
                   /\ UNCHANGED <<irqvars, finished, pipe1, doom_inited, enginevars,
                                  quiet, devices>>

(* One turn of its loop: doom_exit_fnc is called from doom_task_exec, and  *)
(* the frame is still rotated.                                             *)
DoomFrame == /\ task = "doom"
             /\ pc = "loop"
             /\ doom_run
             /\ doom_run' \in BOOLEAN
             /\ pipe1' = doom_run'
             /\ Rotate("doom")
             /\ UNCHANGED <<irqvars, finished, doom_inited, enginevars, quiet, devices>>

DoomWaited == /\ Waited("doom")
              /\ pc' = "loop"
              /\ UNCHANGED <<irqvars, task, rotvars, devices>>

DoomReturns == /\ task = "doom"
               /\ pc = "loop"
               /\ ~doom_run
               /\ task' = "turn"
               /\ pc' = "idle"
               /\ UNCHANGED <<irqvars, rotvars, devices>>

-------------------------------------------------------------------------------
Thread == /\ hart = "thread"
          /\ \/ TconInit \/ DeInit \/ G2dInit \/ LayerSet \/ UsbInit \/ UsbTask
             \/ Clear \/ Arm \/ Start
             \/ InitRotated \/ TurnEnds \/ Exec
             \/ Turn("init_main", "init_gui") \/ Turn("exec_main", "exec_gui")
             \/ DoomRun \/ DoomFrame \/ DoomWaited \/ DoomReturns

Device == EngineFinish \/ EngineRequest \/ Blank \/ LcdRequest \/ UsbEvent \/ UsbRequest

Init == /\ InitIrq
        /\ InitScanout
        /\ task = "init"
        /\ pc = "tcon"
        /\ finished = FALSE
        /\ pipe1 = FALSE
        /\ doom_run = FALSE
        /\ doom_inited = FALSE
        /\ engine = "idle"
        /\ flag = FALSE
        /\ armed = FALSE
        /\ usb_flag = FALSE
        /\ done = TRUE
        /\ quiet = TRUE

Next == Device \/ Interrupt \/ (\E i \in Irqs \cup {NoIrq} : TakeClaim(i)) \/ Thread

(* The engine ends what it has begun, frames follow each other, a request  *)
(* reaches the hart, a handler returns.  USB may interrupt for ever, but   *)
(* leaves time for the other interrupts and for the thread.                *)
Spec == /\ Init /\ [][Next]_vars
        /\ WF_vars(EngineFinish) /\ WF_vars(EngineRequest) /\ WF_vars(Blank)
        /\ WF_vars(Interrupt) /\ WF_vars(\E i \in Irqs : TakeClaim(i))
        /\ SF_vars(TakeClaim(G2D_IRQn)) /\ SF_vars(Thread)

-------------------------------------------------------------------------------
IrqTypes ==
  /\ pending \subseteq Irqs /\ enabled \subseteq Irqs /\ in_service \subseteq Irqs
  /\ handlers \in [Irqs -> {"dummy", "g2d_int_handler", "tcon_int_handler", "usb_int_handler"}]
  /\ hart \in {"thread", "claim", "handler", "complete", "stuck"}
  /\ irq \in Irqs \cup {NoIrq}

ThreadTypes == /\ task \in Tasks
               /\ pc \in InitSteps \cup {"usb", "usb_irq", "idle", "locked", "loop",
                                         "clear", "arm", "start", "wait"}

DeviceTypes == /\ engine \in {"idle", "earlier", "current"}
               /\ regs \in Registers /\ shown \in Registers

FlagTypes == /\ {finished, flag, armed, done, quiet, usb_flag} \subseteq BOOLEAN
             /\ {pipe1, doom_run, doom_inited} \subseteq BOOLEAN
             /\ {scanning, vb_enabled, vb_flag, dbuffer} \subseteq BOOLEAN

(* The values of the variables, of the thread, the hart and the devices. *)
TypeOK == IrqTypes /\ ThreadTypes /\ DeviceTypes /\ FlagTypes

(* No interrupt is lost on a handler that is not there or on a claim that  *)
(* finds nothing: neither of the two endless cases of irq.c is reached     *)
(* (irq.c:109-113, 144-147), whatever the requests of the three devices,   *)
(* the pending bit irq_enable sets, and irq_disable of one that is         *)
(* pending.                                                                *)
NoStrayInterrupt == /\ hart # "stuck"
                    /\ hart = "handler" => handlers[irq] # "dummy"

(* A wait of the right sense that began with the engine at rest ends with  *)
(* the rotation complete, the engine at rest and the flag acknowledged, so *)
(* that the next rotation begins at rest as well (g2d.c:10-24).            *)
WaitIsExact ==
  [][pc = "wait" /\ pc' # "wait" /\ ~Inverted(task) /\ quiet
       => done /\ engine = "idle" /\ ~flag]_vars

(* A wait of the right sense ends, also when g2d_rot was called with the   *)
(* engine at work and has cleared the flag of what was running, and with   *)
(* USB interrupting for ever.                                              *)
WaitEnds == pc = "wait" /\ ~Inverted(task) ~> pc # "wait"

(* Every completion is acknowledged: the request does not come for ever.   *)
FlagAcknowledged == flag ~> ~flag

(* The second pipe is switched on only while doom runs, and off whichever  *)
(* way doom ends (doom_task.c:107-112, 180).                               *)
DoomLayerOff == pipe1 => task = "doom" /\ doom_run

(* The mixer never works with half of what de_layer_set writes, although   *)
(* updates of an earlier commit may be taken over at any time              *)
(* (de.c:135-148, 231).                                                    *)
LatchedWhole == shown # "layers_part"

(* The wait of de_layer_set for the commit of de_init ends                 *)
(* (dispaly_task.c:139-143, de.c:135-138).                                 *)
CommitWaitEnds == pc = "layers" ~> pc # "layers"
===============================================================================
