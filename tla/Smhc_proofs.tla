------------------------------ MODULE Smhc_proofs ------------------------------
(***************************************************************************)
(* Proofs about Smhc for transfers of every length.                        *)
(***************************************************************************)
EXTENDS Smhc, TLAPS

Moving == {"pick", "transfer", "release"}
Places == Steps \cup ClockSteps \cup {"return ok", "return error"}

(* Reading and writing are the steps of their own calls, the clock is set  *)
(* between commands, and a command that failed is at its reset.            *)
InProgram == /\ call # "none" => (step \in Moving <=> call # "init")
             /\ stage # "issue" => call # "none" /\ step \in Steps
             /\ stage = "reset" => gave_up

(* Between commands the controller is clear; during one it knows of no     *)
(* other, and its flags are the command's.                                 *)
Clear == ~gave_up =>
  /\ wire = "none" \/ (stage # "issue" /\ ~answered /\ wire = Command(step))
  /\ stage = "issue" \/ ~answered => rint = {} /\ ~active
  /\ active => WithData(step) /\ rint \subseteq {"CC"}
  /\ stage \in {"over", "busy", "done"} => answered
  /\ stage \in {"busy", "done"} => ~active

(* The switch of the width is the one command that is data or not by what  *)
(* went before it: APP_CMD did.                                            *)
WidthIsApp == ~gave_up =>
  /\ step = "appwidth" /\ answered /\ stage # "issue" => app
  /\ step = "width" /\ call # "none" /\ (stage = "issue" \/ ~answered) => app

(* A transfer leaves the card selected, and the release finds it so.       *)
SelectedToRelease == ~gave_up =>
  /\ step = "transfer" /\ answered /\ stage # "issue" => card \in Selected
  /\ step = "release" /\ stage = "issue" => card \in Selected
  /\ step = "release" /\ stage # "issue" =>
       IF answered THEN card = "stby" ELSE card \in Selected

IInv == TypeOK /\ InProgram /\ Clear /\ WidthIsApp /\ SelectedToRelease

-------------------------------------------------------------------------------
(* Where a step leads to. *)
LEMMA AfterOkGoes ==
  ASSUME NEW s \in Steps, NEW t \in AfterOk(s)
  PROVE  /\ t \in Places
         /\ IF s \in Moving THEN t \in {"transfer", "release", "return ok"} ELSE t \notin Moving
         /\ t = "width" => s = "appwidth"
         /\ t = "release" => s = "transfer"
         /\ t = "return ok" /\ s \in Moving => s = "release"
  BY DEF Steps, AfterOk, AfterTransfer, Places, ClockSteps, Moving

LEMMA AfterErrorGoes ==
  ASSUME NEW s \in Steps, NEW t \in AfterError(s)
  PROVE  /\ t \in Places
         /\ IF s \in Moving THEN t = "return error" ELSE t \notin Moving
         /\ t # "width"
  BY DEF Steps, AfterError, AfterOk, Places, Moving

LEMMA CommandIs ==
  ASSUME TypeOK, InProgram, call # "none", step \in Steps
  PROVE  Command(step) \in Commands
  <1>1. step = "transfer" => call \in {"read", "write"}
    BY DEF TypeOK, CallTypes, InProgram, Moving
  <1>2. CASE step = "transfer"
    BY <1>1, <1>2 DEF Command, Commands
  <1>3. CASE step # "transfer"
    BY <1>3 DEF Command, Commands, Steps
  <1>4. QED
    BY <1>2, <1>3

(* The only commands that make the card send or await data.                *)
LEMMA DataOnlyAsked ==
  ASSUME TypeOK, InProgram, call # "none", step \in Steps, wire = Command(step),
         Listens(wire), Obeys(wire), step = "width" => app, card' \in {"data", "rcv"}
  PROVE  WithData(step)
  <1>1. wire \in {"scr", "read", "write"} \/ (wire = "SWITCH" /\ ~app)
    BY DEF Obeys, Listens, NoAnswer, Selected
  <1>2. QED
    BY <1>1 DEF Command, Steps, WithData

-------------------------------------------------------------------------------
(* smhc_init starts. *)
LEMMA smhc_initKeeps ==
  ASSUME IInv, smhc_init
  PROVE  IInv'
  <1>1. TypeOK'
    <2>1. CallTypes'
      BY DEF IInv, TypeOK, CallTypes, ClockSteps, smhc_init
    <2>2. CountTypes'
      BY DEF IInv, TypeOK, CountTypes, smhc_init, controller, device
    <2>3. BusTypes'
      BY DEF IInv, TypeOK, BusTypes, smhc_init, controller
    <2>4. CardTypes'
      BY DEF IInv, TypeOK, CardTypes, smhc_init, controller, device
    <2>5. FlagTypes'
      BY DEF IInv, TypeOK, FlagTypes, smhc_init, controller, device
    <2>6. QED
      BY <2>1, <2>2, <2>3, <2>4, <2>5 DEF TypeOK
  <1>2. InProgram'
    BY DEF InProgram, Moving, smhc_init
  <1>3. Clear'
    BY DEF IInv, InProgram, Clear, smhc_init, controller
  <1>4. WidthIsApp'
    BY DEF WidthIsApp, smhc_init
  <1>5. SelectedToRelease'
    BY DEF SelectedToRelease, smhc_init
  <1>6. QED
    BY <1>1, <1>2, <1>3, <1>4, <1>5 DEF IInv

(* smhc_read or smhc_write starts. *)
LEMMA smhc_read_or_writeKeeps ==
  ASSUME IInv, smhc_read_or_write
  PROVE  IInv'
  <1>1. TypeOK'
    <2>1. CallTypes'
      BY DEF IInv, TypeOK, CallTypes, Steps, smhc_read_or_write
    <2>2. CountTypes'
      BY DEF IInv, TypeOK, CountTypes, smhc_read_or_write, host, controller, device
    <2>3. BusTypes'
      BY DEF IInv, TypeOK, BusTypes, smhc_read_or_write, host, controller
    <2>4. CardTypes'
      BY DEF IInv, TypeOK, CardTypes, smhc_read_or_write, controller, device
    <2>5. FlagTypes'
      BY DEF IInv, TypeOK, FlagTypes, smhc_read_or_write, host, controller, device, auxiliary
    <2>6. QED
      BY <2>1, <2>2, <2>3, <2>4, <2>5 DEF TypeOK
  <1>2. InProgram'
    BY DEF InProgram, Moving, smhc_read_or_write
  <1>3. Clear'
    BY DEF IInv, InProgram, Clear, smhc_read_or_write, controller, auxiliary
  <1>4. WidthIsApp'
    BY DEF WidthIsApp, smhc_read_or_write
  <1>5. SelectedToRelease'
    BY DEF SelectedToRelease, smhc_read_or_write
  <1>6. QED
    BY <1>1, <1>2, <1>3, <1>4, <1>5 DEF IInv

(* The clock is set. *)
LEMMA smhc_clock_setKeeps ==
  ASSUME IInv, smhc_clock_set
  PROVE  IInv'
  <1>1. TypeOK'
    <2>1. CallTypes'
      BY DEF IInv, TypeOK, CallTypes, Steps, smhc_clock_set, GoTo
    <2>2. CountTypes'
      BY DEF IInv, TypeOK, CountTypes, smhc_clock_set, GoTo, device
    <2>3. BusTypes'
      BY DEF IInv, TypeOK, BusTypes, smhc_clock_set, GoTo
    <2>4. CardTypes'
      BY DEF IInv, TypeOK, CardTypes, smhc_clock_set, ClockUpdated, device
    <2>5. FlagTypes'
      BY DEF IInv, TypeOK, FlagTypes, smhc_clock_set, GoTo, device, auxiliary
    <2>6. QED
      BY <2>1, <2>2, <2>3, <2>4, <2>5 DEF TypeOK
  <1>2. InProgram'
    BY DEF IInv, InProgram, Moving, ClockSteps, smhc_clock_set, GoTo
  <1>3. Clear'
    BY DEF IInv, InProgram, Clear, Steps, ClockSteps, smhc_clock_set, GoTo, ClockUpdated,
       auxiliary
  <1>4. WidthIsApp'
    BY DEF WidthIsApp, smhc_clock_set, GoTo
  <1>5. SelectedToRelease'
    BY DEF SelectedToRelease, smhc_clock_set, GoTo
  <1>6. QED
    BY <1>1, <1>2, <1>3, <1>4, <1>5 DEF IInv

(* A command is given to the controller. *)
LEMMA IssueKeeps ==
  ASSUME IInv, Issue
  PROVE  IInv'
  <1>1. /\ n' = n \/ n' = 1 \/ n' = blocks
        /\ blocks' = blocks /\ left' = left /\ fifo' = fifo
        /\ {host_w', card_w'} \subseteq {1, 4}
    BY DEF IInv, TypeOK, CountTypes, Issue, BlocksToMove, program, device, host
  <1>2. TypeOK'
    <2>1. CallTypes'
      BY DEF IInv, TypeOK, CallTypes, Issue, program
    <2>2. CountTypes'
      BY <1>1, SmhcAssumption DEF IInv, TypeOK, CountTypes
    <2>3. BusTypes'
      BY CommandIs DEF IInv, TypeOK, BusTypes, Issue, At, host
    <2>4. CardTypes'
      BY DEF IInv, TypeOK, CardTypes, Issue, device
    <2>5. FlagTypes'
      BY DEF IInv, TypeOK, FlagTypes, Issue, program, host, device
    <2>6. QED
      BY <2>1, <2>2, <2>3, <2>4, <2>5 DEF TypeOK
  <1>3. InProgram'
    BY DEF IInv, InProgram, Issue, At, program
  <1>4. Clear'
    BY DEF IInv, Clear, Command, Issue, At, program
  <1>5. WidthIsApp'
    BY DEF IInv, WidthIsApp, Issue, At, program, device
  <1>6. SelectedToRelease'
    BY DEF IInv, SelectedToRelease, Issue, At, program, device
  <1>7. QED
    BY <1>2, <1>3, <1>4, <1>5, <1>6 DEF IInv

(* The CPU moves a block. *)
LEMMA MoveBlockKeeps ==
  ASSUME IInv, MoveBlock
  PROVE  IInv'
  <1>1. /\ n' = n - 1 /\ n > 0 /\ fifo' \in 0..1
        /\ blocks' = blocks /\ left' = left
        /\ {host_w', card_w'} \subseteq {1, 4}
    BY DEF IInv, TypeOK, CountTypes, MoveBlock, program, device, host
  <1>2. TypeOK'
    <2>1. CallTypes'
      BY DEF IInv, TypeOK, CallTypes, MoveBlock, program
    <2>2. CountTypes'
      BY <1>1, SmhcAssumption DEF IInv, TypeOK, CountTypes
    <2>3. BusTypes'
      BY DEF IInv, TypeOK, BusTypes, MoveBlock, host
    <2>4. CardTypes'
      BY DEF IInv, TypeOK, CardTypes, MoveBlock, device
    <2>5. FlagTypes'
      BY DEF IInv, TypeOK, FlagTypes, MoveBlock, program, host, device, auxiliary
    <2>6. QED
      BY <2>1, <2>2, <2>3, <2>4, <2>5 DEF TypeOK
  <1>3. InProgram'
    BY SmhcAssumption DEF IInv, TypeOK, CallTypes, FlagTypes, InProgram, Moving, Steps,
       ClockSteps, MoveBlock, At, program, host, controller, device, auxiliary
  <1>4. Clear'
    BY DataOnlyAsked DEF IInv, TypeOK, CallTypes, BusTypes, CardTypes, FlagTypes, InProgram,
       Clear, WidthIsApp, Command, WithData, Steps, ClockSteps, MoveBlock, At, program, host,
       controller, device, auxiliary
  <1>5. WidthIsApp'
    BY SmhcAssumption DEF IInv, TypeOK, CallTypes, BusTypes, CardTypes, FlagTypes, InProgram,
       Clear, WidthIsApp, Command, Steps, ClockSteps, MoveBlock, At, program, host, controller,
       device, auxiliary
  <1>6. SelectedToRelease'
    BY SmhcAssumption DEF IInv, TypeOK, CallTypes, BusTypes, CardTypes, FlagTypes, InProgram,
       Clear, SelectedToRelease, Command, Selected, WithData, Steps, ClockSteps, Moving,
       MoveBlock, At, program, host, controller, device, auxiliary
  <1>7. QED
    BY <1>2, <1>3, <1>4, <1>5, <1>6 DEF IInv

(* All blocks are moved. *)
LEMMA DataMovedKeeps ==
  ASSUME IInv, DataMoved
  PROVE  IInv'
  <1>1. TypeOK'
    <2>1. CallTypes'
      BY SmhcAssumption DEF IInv, TypeOK, CallTypes, FlagTypes, InProgram, Places, Steps,
         ClockSteps, DataMoved, At, program, host, controller, device, auxiliary
    <2>2. CountTypes'
      BY SmhcAssumption DEF IInv, TypeOK, CountTypes, DataMoved, At, program, host, controller,
         device, auxiliary
    <2>3. BusTypes'
      BY CommandIs DEF IInv, TypeOK, BusTypes, DataMoved, At, program, host, controller,
         device, auxiliary
    <2>4. CardTypes'
      BY DEF IInv, TypeOK, CardTypes, DataMoved, At, program, host, controller, device,
         auxiliary
    <2>5. FlagTypes'
      BY DEF IInv, TypeOK, FlagTypes, DataMoved, At, program, host, controller, device,
         auxiliary
    <2>6. QED
      BY <2>1, <2>2, <2>3, <2>4, <2>5 DEF TypeOK
  <1>2. InProgram'
    BY SmhcAssumption DEF IInv, TypeOK, CallTypes, FlagTypes, InProgram, Moving, Steps,
       ClockSteps, DataMoved, At, program, host, controller, device, auxiliary
  <1>3. Clear'
    BY DataOnlyAsked DEF IInv, TypeOK, CallTypes, BusTypes, CardTypes, FlagTypes, InProgram,
       Clear, WidthIsApp, Command, WithData, Steps, ClockSteps, DataMoved, At, program, host,
       controller, device, auxiliary
  <1>4. WidthIsApp'
    BY SmhcAssumption DEF IInv, TypeOK, CallTypes, BusTypes, CardTypes, FlagTypes, InProgram,
       Clear, WidthIsApp, Command, Steps, ClockSteps, DataMoved, At, program, host, controller,
       device, auxiliary
  <1>5. SelectedToRelease'
    BY SmhcAssumption DEF IInv, TypeOK, CallTypes, BusTypes, CardTypes, FlagTypes, InProgram,
       Clear, SelectedToRelease, Command, Selected, WithData, Steps, ClockSteps, Moving,
       DataMoved, At, program, host, controller, device, auxiliary
  <1>6. QED
    BY <1>1, <1>2, <1>3, <1>4, <1>5 DEF IInv

(* The FIFO does not go on. *)
LEMMA DataTimeoutKeeps ==
  ASSUME IInv, DataTimeout
  PROVE  IInv'
  <1>1. /\ step' \in Places
        /\ IF step \in Moving THEN step' = "return error"
           ELSE step' \notin Moving
        /\ step' = "width" => step = "appwidth"
        /\ step' = "release" => step = "transfer"
    BY AfterErrorGoes DEF DataTimeout, At, GoTo, Moving
  <1>2. TypeOK'
    <2>1. CallTypes'
      BY <1>1, SmhcAssumption DEF IInv, TypeOK, CallTypes, FlagTypes, InProgram, Places, Steps,
         ClockSteps, DataTimeout, GoTo, At, program, host, controller, device, auxiliary
    <2>2. CountTypes'
      BY SmhcAssumption DEF IInv, TypeOK, CountTypes, DataTimeout, GoTo, At, program, host,
         controller, device, auxiliary
    <2>3. BusTypes'
      BY CommandIs DEF IInv, TypeOK, BusTypes, DataTimeout, GoTo, At, program, host,
         controller, device, auxiliary
    <2>4. CardTypes'
      BY DEF IInv, TypeOK, CardTypes, DataTimeout, GoTo, At, program, host, controller, device,
         auxiliary
    <2>5. FlagTypes'
      BY DEF IInv, TypeOK, FlagTypes, DataTimeout, GoTo, At, program, host, controller, device,
         auxiliary
    <2>6. QED
      BY <2>1, <2>2, <2>3, <2>4, <2>5 DEF TypeOK
  <1>3. InProgram'
    BY <1>1, SmhcAssumption DEF IInv, TypeOK, CallTypes, FlagTypes, InProgram, Moving, Steps,
       ClockSteps, DataTimeout, GoTo, At, program, host, controller, device, auxiliary
  <1>4. Clear'
    BY <1>1, DataOnlyAsked DEF IInv, TypeOK, CallTypes, BusTypes, CardTypes, FlagTypes,
       InProgram, Clear, WidthIsApp, Command, WithData, Steps, ClockSteps, DataTimeout, GoTo,
       At, program, host, controller, device, auxiliary
  <1>5. WidthIsApp'
    BY <1>1, SmhcAssumption DEF IInv, TypeOK, CallTypes, BusTypes, CardTypes, FlagTypes,
       InProgram, Clear, WidthIsApp, Command, Steps, ClockSteps, DataTimeout, GoTo, At,
       program, host, controller, device, auxiliary
  <1>6. SelectedToRelease'
    BY <1>1, SmhcAssumption DEF IInv, TypeOK, CallTypes, BusTypes, CardTypes, FlagTypes,
       InProgram, Clear, SelectedToRelease, Command, Selected, WithData, Steps, ClockSteps,
       Moving, DataTimeout, GoTo, At, program, host, controller, device, auxiliary
  <1>7. QED
    BY <1>2, <1>3, <1>4, <1>5, <1>6 DEF IInv

(* The answer is there. *)
LEMMA CommandCompleteKeeps ==
  ASSUME IInv, CommandComplete
  PROVE  IInv'
  <1>1. TypeOK'
    <2>1. CallTypes'
      BY SmhcAssumption DEF IInv, TypeOK, CallTypes, FlagTypes, InProgram, Places, Steps,
         ClockSteps, CommandComplete, At, program, host, controller, device, auxiliary
    <2>2. CountTypes'
      BY SmhcAssumption DEF IInv, TypeOK, CountTypes, CommandComplete, At, program, host,
         controller, device, auxiliary
    <2>3. BusTypes'
      BY CommandIs DEF IInv, TypeOK, BusTypes, CommandComplete, At, program, host, controller,
         device, auxiliary
    <2>4. CardTypes'
      BY DEF IInv, TypeOK, CardTypes, CommandComplete, At, program, host, controller, device,
         auxiliary
    <2>5. FlagTypes'
      BY DEF IInv, TypeOK, FlagTypes, CommandComplete, At, program, host, controller, device,
         auxiliary
    <2>6. QED
      BY <2>1, <2>2, <2>3, <2>4, <2>5 DEF TypeOK
  <1>2. InProgram'
    BY SmhcAssumption DEF IInv, TypeOK, CallTypes, FlagTypes, InProgram, Moving, Steps,
       ClockSteps, CommandComplete, At, program, host, controller, device, auxiliary
  <1>3. Clear'
    BY DataOnlyAsked DEF IInv, TypeOK, CallTypes, BusTypes, CardTypes, FlagTypes, InProgram,
       Clear, WidthIsApp, Command, WithData, Steps, ClockSteps, CommandComplete, At, program,
       host, controller, device, auxiliary
  <1>4. WidthIsApp'
    BY SmhcAssumption DEF IInv, TypeOK, CallTypes, BusTypes, CardTypes, FlagTypes, InProgram,
       Clear, WidthIsApp, Command, Steps, ClockSteps, CommandComplete, At, program, host,
       controller, device, auxiliary
  <1>5. SelectedToRelease'
    BY SmhcAssumption DEF IInv, TypeOK, CallTypes, BusTypes, CardTypes, FlagTypes, InProgram,
       Clear, SelectedToRelease, Command, Selected, WithData, Steps, ClockSteps, Moving,
       CommandComplete, At, program, host, controller, device, auxiliary
  <1>6. QED
    BY <1>1, <1>2, <1>3, <1>4, <1>5 DEF IInv

(* The data is through. *)
LEMMA TransferOverKeeps ==
  ASSUME IInv, TransferOver
  PROVE  IInv'
  <1>1. TypeOK'
    <2>1. CallTypes'
      BY SmhcAssumption DEF IInv, TypeOK, CallTypes, FlagTypes, InProgram, Places, Steps,
         ClockSteps, TransferOver, At, Over, program, host, controller, device, auxiliary
    <2>2. CountTypes'
      BY SmhcAssumption DEF IInv, TypeOK, CountTypes, TransferOver, At, Over, program, host,
         controller, device, auxiliary
    <2>3. BusTypes'
      BY CommandIs DEF IInv, TypeOK, BusTypes, TransferOver, At, Over, program, host,
         controller, device, auxiliary
    <2>4. CardTypes'
      BY DEF IInv, TypeOK, CardTypes, TransferOver, At, Over, program, host, controller,
         device, auxiliary
    <2>5. FlagTypes'
      BY DEF IInv, TypeOK, FlagTypes, TransferOver, At, Over, program, host, controller,
         device, auxiliary
    <2>6. QED
      BY <2>1, <2>2, <2>3, <2>4, <2>5 DEF TypeOK
  <1>2. InProgram'
    BY SmhcAssumption DEF IInv, TypeOK, CallTypes, FlagTypes, InProgram, Moving, Steps,
       ClockSteps, TransferOver, At, Over, program, host, controller, device, auxiliary
  <1>3. Clear'
    BY DataOnlyAsked DEF IInv, TypeOK, CallTypes, BusTypes, CardTypes, FlagTypes, InProgram,
       Clear, WidthIsApp, Command, WithData, Steps, ClockSteps, TransferOver, At, Over,
       program, host, controller, device, auxiliary
  <1>4. WidthIsApp'
    BY SmhcAssumption DEF IInv, TypeOK, CallTypes, BusTypes, CardTypes, FlagTypes, InProgram,
       Clear, WidthIsApp, Command, Steps, ClockSteps, TransferOver, At, Over, program, host,
       controller, device, auxiliary
  <1>5. SelectedToRelease'
    BY SmhcAssumption DEF IInv, TypeOK, CallTypes, BusTypes, CardTypes, FlagTypes, InProgram,
       Clear, SelectedToRelease, Command, Selected, WithData, Steps, ClockSteps, Moving,
       TransferOver, At, Over, program, host, controller, device, auxiliary
  <1>6. QED
    BY <1>1, <1>2, <1>3, <1>4, <1>5 DEF IInv

(* The card is ready. *)
LEMMA NotBusyKeeps ==
  ASSUME IInv, NotBusy
  PROVE  IInv'
  <1>1. TypeOK'
    <2>1. CallTypes'
      BY SmhcAssumption DEF IInv, TypeOK, CallTypes, FlagTypes, InProgram, Places, Steps,
         ClockSteps, NotBusy, At, program, host, controller, device, auxiliary
    <2>2. CountTypes'
      BY SmhcAssumption DEF IInv, TypeOK, CountTypes, NotBusy, At, program, host, controller,
         device, auxiliary
    <2>3. BusTypes'
      BY CommandIs DEF IInv, TypeOK, BusTypes, NotBusy, At, program, host, controller, device,
         auxiliary
    <2>4. CardTypes'
      BY DEF IInv, TypeOK, CardTypes, NotBusy, At, program, host, controller, device, auxiliary
    <2>5. FlagTypes'
      BY DEF IInv, TypeOK, FlagTypes, NotBusy, At, program, host, controller, device, auxiliary
    <2>6. QED
      BY <2>1, <2>2, <2>3, <2>4, <2>5 DEF TypeOK
  <1>2. InProgram'
    BY SmhcAssumption DEF IInv, TypeOK, CallTypes, FlagTypes, InProgram, Moving, Steps,
       ClockSteps, NotBusy, At, program, host, controller, device, auxiliary
  <1>3. Clear'
    BY DataOnlyAsked DEF IInv, TypeOK, CallTypes, BusTypes, CardTypes, FlagTypes, InProgram,
       Clear, WidthIsApp, Command, WithData, Steps, ClockSteps, NotBusy, At, program, host,
       controller, device, auxiliary
  <1>4. WidthIsApp'
    BY SmhcAssumption DEF IInv, TypeOK, CallTypes, BusTypes, CardTypes, FlagTypes, InProgram,
       Clear, WidthIsApp, Command, Steps, ClockSteps, NotBusy, At, program, host, controller,
       device, auxiliary
  <1>5. SelectedToRelease'
    BY SmhcAssumption DEF IInv, TypeOK, CallTypes, BusTypes, CardTypes, FlagTypes, InProgram,
       Clear, SelectedToRelease, Command, Selected, WithData, Steps, ClockSteps, Moving,
       NotBusy, At, program, host, controller, device, auxiliary
  <1>6. QED
    BY <1>1, <1>2, <1>3, <1>4, <1>5 DEF IInv

(* A wait is over. *)
LEMMA TimedOutKeeps ==
  ASSUME IInv, TimedOut
  PROVE  IInv'
  <1>1. TypeOK'
    <2>1. CallTypes'
      BY SmhcAssumption DEF IInv, TypeOK, CallTypes, FlagTypes, InProgram, Places, Steps,
         ClockSteps, TimedOut, At, Over, program, host, controller, device, auxiliary
    <2>2. CountTypes'
      BY SmhcAssumption DEF IInv, TypeOK, CountTypes, TimedOut, At, Over, program, host,
         controller, device, auxiliary
    <2>3. BusTypes'
      BY CommandIs DEF IInv, TypeOK, BusTypes, TimedOut, At, Over, program, host, controller,
         device, auxiliary
    <2>4. CardTypes'
      BY DEF IInv, TypeOK, CardTypes, TimedOut, At, Over, program, host, controller, device,
         auxiliary
    <2>5. FlagTypes'
      BY DEF IInv, TypeOK, FlagTypes, TimedOut, At, Over, program, host, controller, device,
         auxiliary
    <2>6. QED
      BY <2>1, <2>2, <2>3, <2>4, <2>5 DEF TypeOK
  <1>2. InProgram'
    BY SmhcAssumption DEF IInv, TypeOK, CallTypes, FlagTypes, InProgram, Moving, Steps,
       ClockSteps, TimedOut, At, Over, program, host, controller, device, auxiliary
  <1>3. Clear'
    BY DataOnlyAsked DEF IInv, TypeOK, CallTypes, BusTypes, CardTypes, FlagTypes, InProgram,
       Clear, WidthIsApp, Command, WithData, Steps, ClockSteps, TimedOut, At, Over, program,
       host, controller, device, auxiliary
  <1>4. WidthIsApp'
    BY SmhcAssumption DEF IInv, TypeOK, CallTypes, BusTypes, CardTypes, FlagTypes, InProgram,
       Clear, WidthIsApp, Command, Steps, ClockSteps, TimedOut, At, Over, program, host,
       controller, device, auxiliary
  <1>5. SelectedToRelease'
    BY SmhcAssumption DEF IInv, TypeOK, CallTypes, BusTypes, CardTypes, FlagTypes, InProgram,
       Clear, SelectedToRelease, Command, Selected, WithData, Steps, ClockSteps, Moving,
       TimedOut, At, Over, program, host, controller, device, auxiliary
  <1>6. QED
    BY <1>1, <1>2, <1>3, <1>4, <1>5 DEF IInv

(* The controller is reset. *)
LEMMA ResetKeeps ==
  ASSUME IInv, Reset
  PROVE  IInv'
  <1>1. /\ step' \in Places
        /\ IF step \in Moving THEN step' = "return error"
           ELSE step' \notin Moving
        /\ step' = "width" => step = "appwidth"
        /\ step' = "release" => step = "transfer"
    BY AfterErrorGoes DEF Reset, At, GoTo, Moving
  <1>2. /\ fifo' = 0 /\ blocks' = blocks /\ left' = left /\ n' = n
        /\ {host_w', card_w'} \subseteq {1, 4}
    BY DEF IInv, TypeOK, CountTypes, Reset, GoTo, device, host
  <1>3. wire' = "none" /\ stage' = "issue" /\ answered' = answered /\ active' = FALSE
    BY DEF Reset, GoTo
  <1>4. gave_up' \/ rint' = {}
    <2>1. stage = "reset"
      BY DEF Reset, At
    <2>2. gave_up
      BY <2>1 DEF IInv, InProgram
    <2>3. QED
      BY <2>2 DEF Reset, ClockUpdated
  <1>5. step' \notin {"width", "release"}
    BY AfterErrorGoes DEF Reset, At, GoTo, Moving
  <1>6. TypeOK'
    <2>1. CallTypes'
      BY <1>1, SmhcAssumption DEF IInv, TypeOK, CallTypes, FlagTypes, InProgram, Places, Steps,
         ClockSteps, Reset, GoTo, ClockUpdated, At, program, host, controller, device,
         auxiliary
    <2>2. CountTypes'
      BY <1>2, SmhcAssumption DEF IInv, TypeOK, CountTypes
    <2>3. BusTypes'
      BY CommandIs DEF IInv, TypeOK, BusTypes, Reset, GoTo, ClockUpdated, At, program, host,
         controller, device, auxiliary
    <2>4. CardTypes'
      BY DEF IInv, TypeOK, CardTypes, Reset, GoTo, ClockUpdated, At, program, host, controller,
         device, auxiliary
    <2>5. FlagTypes'
      BY DEF IInv, TypeOK, FlagTypes, Reset, GoTo, ClockUpdated, At, program, host, controller,
         device, auxiliary
    <2>6. QED
      BY <2>1, <2>2, <2>3, <2>4, <2>5 DEF TypeOK
  <1>7. InProgram'
    BY <1>1, SmhcAssumption DEF IInv, TypeOK, CallTypes, FlagTypes, InProgram, Moving, Steps,
       ClockSteps, Reset, GoTo, ClockUpdated, At, program, host, controller, device, auxiliary
  <1>8. Clear'
    BY <1>3, <1>4 DEF Clear
  <1>9. WidthIsApp'
    BY <1>3, <1>5 DEF WidthIsApp
  <1>10. SelectedToRelease'
    BY <1>1, SmhcAssumption DEF IInv, TypeOK, CallTypes, BusTypes, CardTypes, FlagTypes,
       InProgram, Clear, SelectedToRelease, Command, Selected, WithData, Steps, ClockSteps,
       Moving, Reset, GoTo, ClockUpdated, At, program, host, controller, device, auxiliary
  <1>11. QED
    BY <1>6, <1>7, <1>8, <1>9, <1>10 DEF IInv

(* The command succeeded. *)
LEMMA DoneKeeps ==
  ASSUME IInv, Done
  PROVE  IInv'
  <1>1. /\ step' \in Places
        /\ IF step \in Moving THEN step' \in {"transfer", "release", "return ok"}
           ELSE step' \notin Moving
        /\ step' = "width" => step = "appwidth"
        /\ step' = "release" => step = "transfer"
    BY AfterOkGoes DEF Done, At, GoTo, Moving
  <1>2. /\ fifo' = 0 /\ blocks' = blocks /\ left' = left /\ n' = n
        /\ {host_w', card_w'} \subseteq {1, 4}
    BY DEF IInv, TypeOK, CountTypes, Done, GoTo, device, host
  <1>3. TypeOK'
    <2>1. CallTypes'
      BY <1>1, SmhcAssumption DEF IInv, TypeOK, CallTypes, FlagTypes, InProgram, Places, Steps,
         ClockSteps, Done, GoTo, At, program, host, controller, device, auxiliary
    <2>2. CountTypes'
      BY <1>2, SmhcAssumption DEF IInv, TypeOK, CountTypes
    <2>3. BusTypes'
      BY CommandIs DEF IInv, TypeOK, BusTypes, Done, GoTo, At, program, host, controller,
         device, auxiliary
    <2>4. CardTypes'
      BY DEF IInv, TypeOK, CardTypes, Done, GoTo, At, program, host, controller, device,
         auxiliary
    <2>5. FlagTypes'
      BY DEF IInv, TypeOK, FlagTypes, Done, GoTo, At, program, host, controller, device,
         auxiliary
    <2>6. QED
      BY <2>1, <2>2, <2>3, <2>4, <2>5 DEF TypeOK
  <1>4. InProgram'
    BY <1>1, SmhcAssumption DEF IInv, TypeOK, CallTypes, FlagTypes, InProgram, Moving, Steps,
       ClockSteps, Done, GoTo, At, program, host, controller, device, auxiliary
  <1>5. Clear'
    BY <1>1, DataOnlyAsked DEF IInv, TypeOK, CallTypes, BusTypes, CardTypes, FlagTypes,
       InProgram, Clear, WidthIsApp, Command, WithData, Steps, ClockSteps, Done, GoTo, At,
       program, host, controller, device, auxiliary
  <1>6. WidthIsApp'
    BY <1>1, SmhcAssumption DEF IInv, TypeOK, CallTypes, BusTypes, CardTypes, FlagTypes,
       InProgram, Clear, WidthIsApp, Command, Steps, ClockSteps, Done, GoTo, At, program, host,
       controller, device, auxiliary
  <1>7. SelectedToRelease'
    BY <1>1, SmhcAssumption DEF IInv, TypeOK, CallTypes, BusTypes, CardTypes, FlagTypes,
       InProgram, Clear, SelectedToRelease, Command, Selected, WithData, Steps, ClockSteps,
       Moving, Done, GoTo, At, program, host, controller, device, auxiliary
  <1>8. QED
    BY <1>3, <1>4, <1>5, <1>6, <1>7 DEF IInv

(* The card obeys. *)
LEMMA AnswerKeeps ==
  ASSUME IInv, Answer
  PROVE  IInv'
  <1>1. /\ left' \in {0, 1, blocks}
        /\ blocks' = blocks /\ n' = n /\ fifo' = fifo
        /\ {host_w', card_w'} \subseteq {1, 4}
    BY DEF IInv, TypeOK, CountTypes, Answer, Obeys, program, host, device
  <1>2. TypeOK'
    <2>1. CallTypes'
      BY SmhcAssumption DEF IInv, TypeOK, CallTypes, FlagTypes, InProgram, Places, Steps,
         ClockSteps, Answer, Listens, Obeys, program, host, controller, device, auxiliary
    <2>2. CountTypes'
      BY <1>1, SmhcAssumption DEF IInv, TypeOK, CountTypes
    <2>3. BusTypes'
      BY CommandIs DEF IInv, TypeOK, BusTypes, Answer, Listens, Obeys, program, host,
         controller, device, auxiliary
    <2>4. CardTypes'
      BY DEF IInv, TypeOK, CardTypes, Answer, Listens, Obeys, program, host, controller,
         device, auxiliary
    <2>5. FlagTypes'
      <3>1. app' \in BOOLEAN /\ answered' \in BOOLEAN /\ active' \in BOOLEAN
        <4>1. app' \in BOOLEAN
          <5>1. app' = (wire \in {"APP", "APP to all"})
            BY DEF Answer, Obeys
          <5>2. (wire \in {"APP", "APP to all"}) \in BOOLEAN
            OBVIOUS
          <5>3. QED
            BY <5>1, <5>2
        <4>2. answered' \in BOOLEAN
          BY DEF Answer
        <4>3. active' \in BOOLEAN
          BY DEF Answer
        <4>4. QED
          BY <4>1, <4>2, <4>3
      <3>2. resp' \in BOOLEAN
        BY DEF IInv, TypeOK, FlagTypes, Answer
      <3>3. {ready', inited', gave_up', doubt'} \subseteq BOOLEAN
        BY DEF IInv, TypeOK, FlagTypes, Answer, program, host
      <3>4. QED
        BY <3>1, <3>2, <3>3 DEF FlagTypes
    <2>6. QED
      BY <2>1, <2>2, <2>3, <2>4, <2>5 DEF TypeOK
  <1>3. InProgram'
    BY SmhcAssumption DEF IInv, TypeOK, CallTypes, FlagTypes, InProgram, Moving, Steps,
       ClockSteps, Answer, Listens, Obeys, program, host, controller, device, auxiliary
  <1>4. Clear'
    BY DataOnlyAsked DEF IInv, TypeOK, CallTypes, BusTypes, CardTypes, FlagTypes, InProgram,
       Clear, WidthIsApp, Command, WithData, Steps, ClockSteps, Answer, Listens, Obeys,
       program, host, controller, device, auxiliary
  <1>5. WidthIsApp'
    BY SmhcAssumption DEF IInv, TypeOK, CallTypes, BusTypes, CardTypes, FlagTypes, InProgram,
       Clear, WidthIsApp, Command, Steps, ClockSteps, Answer, Listens, Obeys, program, host,
       controller, device, auxiliary
  <1>6. SelectedToRelease'
    BY SmhcAssumption DEF IInv, TypeOK, CallTypes, BusTypes, CardTypes, FlagTypes, InProgram,
       Clear, SelectedToRelease, Command, Selected, WithData, Steps, ClockSteps, Moving,
       Answer, Listens, Obeys, program, host, controller, device, auxiliary
  <1>7. QED
    BY <1>2, <1>3, <1>4, <1>5, <1>6 DEF IInv

(* The card does not. *)
LEMMA MissedKeeps ==
  ASSUME IInv, Missed
  PROVE  IInv'
  <1>1. TypeOK'
    <2>1. CallTypes'
      BY SmhcAssumption DEF IInv, TypeOK, CallTypes, FlagTypes, InProgram, Places, Steps,
         ClockSteps, Missed, program, host, controller, device, auxiliary
    <2>2. CountTypes'
      BY SmhcAssumption DEF IInv, TypeOK, CountTypes, Missed, program, host, controller,
         device, auxiliary
    <2>3. BusTypes'
      BY CommandIs DEF IInv, TypeOK, BusTypes, Missed, program, host, controller, device,
         auxiliary
    <2>4. CardTypes'
      BY DEF IInv, TypeOK, CardTypes, Missed, program, host, controller, device, auxiliary
    <2>5. FlagTypes'
      BY DEF IInv, TypeOK, FlagTypes, Missed, program, host, controller, device, auxiliary
    <2>6. QED
      BY <2>1, <2>2, <2>3, <2>4, <2>5 DEF TypeOK
  <1>2. InProgram'
    BY SmhcAssumption DEF IInv, TypeOK, CallTypes, FlagTypes, InProgram, Moving, Steps,
       ClockSteps, Missed, program, host, controller, device, auxiliary
  <1>3. Clear'
    BY DataOnlyAsked DEF IInv, TypeOK, CallTypes, BusTypes, CardTypes, FlagTypes, InProgram,
       Clear, WidthIsApp, Command, WithData, Steps, ClockSteps, Missed, program, host,
       controller, device, auxiliary
  <1>4. WidthIsApp'
    BY SmhcAssumption DEF IInv, TypeOK, CallTypes, BusTypes, CardTypes, FlagTypes, InProgram,
       Clear, WidthIsApp, Command, Steps, ClockSteps, Missed, program, host, controller,
       device, auxiliary
  <1>5. SelectedToRelease'
    BY SmhcAssumption DEF IInv, TypeOK, CallTypes, BusTypes, CardTypes, FlagTypes, InProgram,
       Clear, SelectedToRelease, Command, Selected, WithData, Steps, ClockSteps, Moving,
       Missed, program, host, controller, device, auxiliary
  <1>6. QED
    BY <1>1, <1>2, <1>3, <1>4, <1>5 DEF IInv

(* The card moves a block. *)
LEMMA CardMovesKeeps ==
  ASSUME IInv, CardMoves
  PROVE  IInv'
  <1>1. /\ left' = left - 1 /\ left > 0 /\ fifo' \in 0..1
        /\ blocks' = blocks /\ n' = n
        /\ {host_w', card_w'} \subseteq {1, 4}
    BY DEF IInv, TypeOK, CountTypes, CardMoves, program, host, device
  <1>2. TypeOK'
    <2>1. CallTypes'
      BY SmhcAssumption DEF IInv, TypeOK, CallTypes, FlagTypes, InProgram, Places, Steps,
         ClockSteps, CardMoves, Over, program, host, controller, device, auxiliary
    <2>2. CountTypes'
      BY <1>1, SmhcAssumption DEF IInv, TypeOK, CountTypes
    <2>3. BusTypes'
      BY CommandIs DEF IInv, TypeOK, BusTypes, CardMoves, Over, program, host, controller,
         device, auxiliary
    <2>4. CardTypes'
      BY DEF IInv, TypeOK, CardTypes, CardMoves, Over, program, host, controller, device,
         auxiliary
    <2>5. FlagTypes'
      BY DEF IInv, TypeOK, FlagTypes, CardMoves, Over, program, host, controller, device,
         auxiliary
    <2>6. QED
      BY <2>1, <2>2, <2>3, <2>4, <2>5 DEF TypeOK
  <1>3. InProgram'
    BY SmhcAssumption DEF IInv, TypeOK, CallTypes, FlagTypes, InProgram, Moving, Steps,
       ClockSteps, CardMoves, Over, program, host, controller, device, auxiliary
  <1>4. Clear'
    BY DataOnlyAsked DEF IInv, TypeOK, CallTypes, BusTypes, CardTypes, FlagTypes, InProgram,
       Clear, WidthIsApp, Command, WithData, Steps, ClockSteps, CardMoves, Over, program, host,
       controller, device, auxiliary
  <1>5. WidthIsApp'
    BY SmhcAssumption DEF IInv, TypeOK, CallTypes, BusTypes, CardTypes, FlagTypes, InProgram,
       Clear, WidthIsApp, Command, Steps, ClockSteps, CardMoves, Over, program, host,
       controller, device, auxiliary
  <1>6. SelectedToRelease'
    BY SmhcAssumption DEF IInv, TypeOK, CallTypes, BusTypes, CardTypes, FlagTypes, InProgram,
       Clear, SelectedToRelease, Command, Selected, WithData, Steps, ClockSteps, Moving,
       CardMoves, Over, program, host, controller, device, auxiliary
  <1>7. QED
    BY <1>2, <1>3, <1>4, <1>5, <1>6 DEF IInv

(* The card is ready again. *)
LEMMA ProgrammedKeeps ==
  ASSUME IInv, Programmed
  PROVE  IInv'
  <1>1. TypeOK'
    <2>1. CallTypes'
      BY SmhcAssumption DEF IInv, TypeOK, CallTypes, FlagTypes, InProgram, Places, Steps,
         ClockSteps, Programmed, program, host, controller, device, auxiliary
    <2>2. CountTypes'
      BY SmhcAssumption DEF IInv, TypeOK, CountTypes, Programmed, program, host, controller,
         device, auxiliary
    <2>3. BusTypes'
      BY CommandIs DEF IInv, TypeOK, BusTypes, Programmed, program, host, controller, device,
         auxiliary
    <2>4. CardTypes'
      BY DEF IInv, TypeOK, CardTypes, Programmed, program, host, controller, device, auxiliary
    <2>5. FlagTypes'
      BY DEF IInv, TypeOK, FlagTypes, Programmed, program, host, controller, device, auxiliary
    <2>6. QED
      BY <2>1, <2>2, <2>3, <2>4, <2>5 DEF TypeOK
  <1>2. InProgram'
    BY SmhcAssumption DEF IInv, TypeOK, CallTypes, FlagTypes, InProgram, Moving, Steps,
       ClockSteps, Programmed, program, host, controller, device, auxiliary
  <1>3. Clear'
    BY DataOnlyAsked DEF IInv, TypeOK, CallTypes, BusTypes, CardTypes, FlagTypes, InProgram,
       Clear, WidthIsApp, Command, WithData, Steps, ClockSteps, Programmed, program, host,
       controller, device, auxiliary
  <1>4. WidthIsApp'
    BY SmhcAssumption DEF IInv, TypeOK, CallTypes, BusTypes, CardTypes, FlagTypes, InProgram,
       Clear, WidthIsApp, Command, Steps, ClockSteps, Programmed, program, host, controller,
       device, auxiliary
  <1>5. SelectedToRelease'
    BY SmhcAssumption DEF IInv, TypeOK, CallTypes, BusTypes, CardTypes, FlagTypes, InProgram,
       Clear, SelectedToRelease, Command, Selected, WithData, Steps, ClockSteps, Moving,
       Programmed, program, host, controller, device, auxiliary
  <1>6. QED
    BY <1>1, <1>2, <1>3, <1>4, <1>5 DEF IInv

-------------------------------------------------------------------------------
LEMMA InitHolds == Init => IInv
  <1>1. ASSUME Init
        PROVE  CallTypes /\ CountTypes /\ BusTypes /\ CardTypes /\ FlagTypes
    <2>1. CountTypes
      <3>1. blocks = 1 /\ n = 0 /\ left = 0 /\ fifo = 0 /\ {host_w, card_w} \subseteq {1, 4}
        BY <1>1 DEF Init
      <3>2. QED
        BY <3>1, SmhcAssumption DEF CountTypes
    <2>2. CallTypes /\ BusTypes /\ CardTypes /\ FlagTypes
      BY <1>1 DEF Init, CallTypes, BusTypes, CardTypes, FlagTypes
    <2>3. QED
      BY <2>1, <2>2
  <1>2. Init => InProgram /\ Clear /\ WidthIsApp /\ SelectedToRelease
    BY DEF Init, InProgram, Clear, WidthIsApp, SelectedToRelease
  <1>3. QED
    BY <1>1, <1>2 DEF IInv, TypeOK

LEMMA StutterKeeps ==
  ASSUME IInv, UNCHANGED vars
  PROVE  IInv'
  <1>1. TypeOK'
    <2>1. CountTypes'
      BY DEF IInv, TypeOK, CountTypes, vars
    <2>2. CallTypes' /\ BusTypes'
      BY DEF IInv, TypeOK, CallTypes, BusTypes, vars
    <2>3. CardTypes' /\ FlagTypes'
      BY DEF IInv, TypeOK, CardTypes, FlagTypes, vars
    <2>4. QED
      BY <2>1, <2>2, <2>3 DEF TypeOK
  <1>2. InProgram' /\ WidthIsApp' /\ SelectedToRelease'
    BY DEF IInv, InProgram, WidthIsApp, SelectedToRelease, vars
  <1>3. Clear'
    BY DEF IInv, Clear, Command, vars
  <1>4. QED
    BY <1>1, <1>2, <1>3 DEF IInv

LEMMA Inductive == Spec => []IInv
  <1>1. ASSUME IInv, [Next]_vars
        PROVE  IInv'
    <2>1. CASE Calls
      BY <1>1, <2>1, smhc_initKeeps, smhc_read_or_writeKeeps DEF Calls
    <2>2. CASE Driver
      BY <1>1, <2>2, smhc_clock_setKeeps, IssueKeeps, MoveBlockKeeps, DataMovedKeeps,
         DataTimeoutKeeps, CommandCompleteKeeps, TransferOverKeeps, NotBusyKeeps,
         TimedOutKeeps, ResetKeeps, DoneKeeps DEF Driver
    <2>3. CASE Card
      BY <1>1, <2>3, AnswerKeeps, MissedKeeps, CardMovesKeeps, ProgrammedKeeps DEF Card
    <2>4. CASE UNCHANGED vars
      BY <1>1, <2>4, StutterKeeps
    <2>5. QED
      BY <1>1, <2>1, <2>2, <2>3, <2>4 DEF Next
  <1>2. QED
    BY <1>1, InitHolds, PTL DEF Spec

(* The variables keep their types for transfers of any length (smhc.c).    *)
THEOREM TypeCorrect == Spec => []TypeOK
  BY Inductive, PTL DEF IInv

(* For transfers of any length, no flag left over from an earlier command  *)
(* makes one look answered or its data look through (smhc.c:232-285).      *)
THEOREM SuccessIsAnswered == Spec => []OkIsAnswered
  <1>1. IInv => OkIsAnswered
    BY DEF IInv, Clear, OkIsAnswered
  <1>2. QED
    BY <1>1, Inductive, PTL

(* A call returns from one of three places. *)
LEMMA ReturnsFrom ==
  ASSUME Next, call \in {"read", "write"}, call' = "none"
  PROVE  smhc_clock_set \/ DataTimeout \/ Reset \/ Done
  BY DEF Next, Calls, smhc_init, smhc_read_or_write, Driver, Issue, MoveBlock, DataMoved,
     CommandComplete, TransferOver, NotBusy, TimedOut, Card, Answer, Missed, CardMoves,
     Programmed, program

(* A read or write of any length that succeeds leaves the card in stand-by *)
(* (smhc.c:616-622, 661-667).                                              *)
THEOREM CardIsGivenBack == Spec => CardGivenBack
  <1>1. ASSUME IInv, [Next]_vars, call' = "none", call \in {"read", "write"},
               ret' = "return ok", ~gave_up
        PROVE  card' = "stby"
    <2>1. Next /\ call # "none" /\ step \in Moving
      BY <1>1 DEF vars, IInv, InProgram
    <2>2. CASE smhc_clock_set
      BY <2>1, <2>2 DEF smhc_clock_set, ClockSteps, Moving
    <2>3. CASE DataTimeout
      <3>1. step \in Steps /\ step' \in AfterError(step) /\ ret' = step'
        BY <1>1, <2>1, <2>3 DEF DataTimeout, GoTo, At
      <3>2. QED
        BY <1>1, <2>1, <3>1, AfterErrorGoes
    <2>4. CASE Reset
      <3>1. step \in Steps /\ step' \in AfterError(step) /\ ret' = step'
        BY <1>1, <2>1, <2>4 DEF Reset, GoTo, At
      <3>2. QED
        BY <1>1, <2>1, <3>1, AfterErrorGoes
    <2>5. CASE Done
      <3>1. step \in Steps /\ step' \in AfterOk(step) /\ ret' = step' /\ stage = "done"
        BY <1>1, <2>1, <2>5 DEF Done, GoTo, At
      <3>2. step = "release"
        BY <1>1, <2>1, <3>1, AfterOkGoes
      <3>3. card = "stby"
        BY <1>1, <3>1, <3>2 DEF IInv, Clear, SelectedToRelease
      <3>4. QED
        BY <2>5, <3>3 DEF Done, device
    <2>6. QED
      BY <1>1, <2>1, <2>2, <2>3, <2>4, <2>5, ReturnsFrom
  <1>2. IInv /\ [Next]_vars => [call' = "none" /\ call \in {"read", "write"}
          /\ ret' = "return ok" /\ ~gave_up => card' = "stby"]_vars
    BY <1>1
  <1>3. QED
    BY <1>2, Inductive, PTL DEF Spec, CardGivenBack

-------------------------------------------------------------------------------
(* The width of the bus. *)

Agree == host_w = card_w

(* The steps of smhc_init before it has heard of an idle card, and after.  *)
Early == {"slow", "reset", "volt", "reset2", "app2"}
Known == (Steps \cup ClockSteps) \ (Early \cup Moving)

(* A card before its stand-by state uses one line, and so does the host    *)
(* until the switch of the width has succeeded.                            *)
NarrowAtFirst == /\ card \in {"idle", "ready", "ident"} => card_w = 1
                 /\ call = "init" /\ step \notin {"len", "deselect"} => host_w = 1

(* From the first command only an idle card answers, smhc_init and the     *)
(* card agree, but for a switch whose answer was lost: then the card stays *)
(* selected.  No command the controller may still hold changes the width.  *)
WidthInInit == ~doubt /\ call = "init" =>
  /\ step \in Known => Agree \/ (step = "width" /\ card \in Selected)
  /\ ~gave_up /\ answered /\ stage # "issue" =>
       /\ step \in {"volt", "app2"} => card_w = 1
       /\ step = "width" => card_w = 4
       /\ step = "scr" => ~app
  /\ step \in {"switch", "switch2"} => ~app /\ wire \in {"none", "SWITCH"}
  /\ step \in Known =>
       /\ wire # "GO_IDLE"
       /\ wire = "DESELECT" => step = "deselect"
       /\ wire = "SWITCH" => step = "width" \/ (step \in {"switch", "switch2", "appwidth"} /\ ~app)

(* After smhc_init they agree or the card is selected already, which the   *)
(* first command of a read or write does not find.                         *)
WidthAfterInit == ~doubt /\ call # "init" /\ inited =>
  /\ Agree \/ card \in Selected
  /\ wire \notin {"GO_IDLE", "SWITCH"}
  /\ wire = "DESELECT" => call # "none" /\ step = "release"
  /\ call # "none" /\ step \in {"transfer", "release"} => Agree
  /\ call # "none" /\ step = "pick" /\ ~gave_up /\ answered /\ stage # "issue" => Agree

DataIsExpected == /\ call \in {"read", "write"} => inited
                  /\ stage = "data" => WithData(step)

WInv == NarrowAtFirst /\ WidthInInit /\ WidthAfterInit /\ DataIsExpected

LEMMA AfterOkKnows ==
  ASSUME NEW s \in Steps, NEW t \in AfterOk(s)
  PROVE  /\ t \in Known => s \in Known \/ s \in {"volt", "app2"}
         /\ t = "switch" => s = "scr"
         /\ t = "switch2" => s = "switch"
         /\ t = "width" => s = "appwidth"
         /\ t = "len" => s = "width"
         /\ t = "deselect" => s = "len"
         /\ t = "transfer" => s = "pick"
         /\ t = "release" => s = "transfer"
         /\ t = "return ok" => s \in {"deselect", "release"}
         /\ s = "width" => t = "len"
         /\ s = "len" => t = "deselect"
         /\ s = "deselect" => t = "return ok"
  BY DEF Steps, AfterOk, AfterTransfer, ClockSteps, Moving, Early, Known

LEMMA AfterErrorKnows ==
  ASSUME NEW s \in Steps, NEW t \in AfterError(s)
  PROVE  /\ t \in Known => s \in Known /\ s # "width"
         /\ t = "deselect" => s = "len"
         /\ t = "return ok" => s \in Known
         /\ t \notin {"switch", "switch2", "width", "len"} \cup Moving
         /\ WithData(s) => t \in {"appwidth", "return ok", "return error"}
         /\ WithData(s) /\ t = "appwidth" => s \in {"switch", "switch2"}
         /\ WithData(s) /\ t = "return ok" => s = "scr"
         /\ s \in Moving => t = "return error"
         /\ s = "len" => t = "deselect"
         /\ s = "deselect" => t = "return ok"
  <1>1. /\ t \in Known => s \in Known /\ s # "width"
        /\ t = "deselect" => s = "len"
        /\ t = "return ok" => s \in Known
        /\ t \notin {"switch", "switch2", "width", "len"} \cup Moving
        /\ s \in Moving => t = "return error"
    BY DEF Steps, AfterError, AfterOk, ClockSteps, Moving, Early, Known
  <1>2. /\ WithData(s) => t \in {"appwidth", "return ok", "return error"}
        /\ WithData(s) /\ t = "appwidth" => s \in {"switch", "switch2"}
        /\ WithData(s) /\ t = "return ok" => s = "scr"
    BY DEF AfterError, WithData
  <1>3. /\ s = "len" => t = "deselect"
        /\ s = "deselect" => t = "return ok"
    BY DEF AfterError, AfterOk
  <1>4. QED
    BY <1>1, <1>2, <1>3

(* Nothing happens that matters to the width. *)
LEMMA WidthUndisturbed ==
  ASSUME WInv, UNCHANGED <<call, step, inited, host_w, card_w, app, answered, doubt>>,
         wire' \in {wire, "none"},
         card' = card \/ {card, card'} \subseteq Selected,
         stage' # "issue" => stage # "issue",
         stage' = "data" => stage = "data",
         ~gave_up' => ~gave_up
  PROVE  WInv'
  <1>1. NarrowAtFirst'
    BY DEF WInv, NarrowAtFirst, Selected
  <1>2. WidthInInit'
    BY DEF WInv, WidthInInit, Agree
  <1>3. WidthAfterInit'
    BY DEF WInv, WidthAfterInit, Agree
  <1>4. DataIsExpected'
    BY DEF WInv, DataIsExpected, WithData
  <1>5. QED
    BY <1>1, <1>2, <1>3, <1>4 DEF WInv

(* A command fails, and its program goes on or ends. *)
LEMMA WidthOnError ==
  ASSUME IInv, WInv, call # "none", step \in Steps,
         UNCHANGED <<host_w, card, card_w, app, doubt>>,
         wire' = "none" \/ (WithData(step) /\ wire' = wire),
         GoTo(AfterError(step))
  PROVE  WInv'
  <1>1. /\ stage' = "issue" /\ step' \in AfterError(step)
        /\ IF step' \in {"return ok", "return error"}
           THEN /\ call' = "none"
                /\ inited' = IF call = "init" THEN step' = "return ok" ELSE inited
           ELSE UNCHANGED <<call, inited>>
    BY DEF GoTo
  <1>2. step \in Moving <=> call # "init"
    BY DEF IInv, InProgram
  <1>3. /\ step' \in Known => step \in Known /\ step # "width"
        /\ step' = "deselect" => step = "len"
        /\ step' = "return ok" => step \in Known
        /\ step' \notin {"switch", "switch2", "width", "len"} \cup Moving
        /\ WithData(step) => step' \in {"appwidth", "return ok", "return error"}
        /\ WithData(step) /\ step' = "appwidth" => step \in {"switch", "switch2"}
        /\ WithData(step) /\ step' = "return ok" => step = "scr"
        /\ step \in Moving => step' = "return error"
        /\ step = "len" => step' = "deselect"
        /\ step = "deselect" => step' = "return ok"
    BY <1>1, AfterErrorKnows
  <1>4. NarrowAtFirst'
    BY <1>1, <1>3 DEF WInv, NarrowAtFirst, Known, Steps
  <1>5. WidthInInit'
    BY <1>1, <1>3 DEF WInv, WidthInInit, Agree, WithData
  <1>6. WidthAfterInit'
    BY <1>1, <1>2, <1>3 DEF WInv, WidthInInit, WidthAfterInit, Agree, WithData, Moving
  <1>7. DataIsExpected'
    BY <1>1 DEF WInv, DataIsExpected
  <1>8. QED
    BY <1>4, <1>5, <1>6, <1>7 DEF WInv

(* A command succeeds, and its program goes on or ends. *)
LEMMA WidthOnSuccess ==
  ASSUME IInv, WInv, Done
  PROVE  WInv'
  <1>1. /\ call # "none" /\ step \in Steps /\ stage = "done"
        /\ stage' = "issue" /\ step' \in AfterOk(step)
        /\ IF step' \in {"return ok", "return error"}
           THEN /\ call' = "none"
                /\ inited' = IF call = "init" THEN step' = "return ok" ELSE inited
           ELSE UNCHANGED <<call, inited>>
        /\ host_w' = IF step = "width" THEN 4 ELSE host_w
        /\ doubt' = (doubt \/ gave_up)
        /\ UNCHANGED <<wire, card, app, card_w, answered, gave_up>>
    BY DEF Done, At, GoTo, device
  <1>2. step \in Moving <=> call # "init"
    BY <1>1 DEF IInv, InProgram
  <1>3. /\ step' \in Known => step \in Known \/ step \in {"volt", "app2"}
        /\ step' = "switch" => step = "scr"
        /\ step' = "switch2" => step = "switch"
        /\ step' = "width" => step = "appwidth"
        /\ step' = "len" => step = "width"
        /\ step' = "deselect" => step = "len"
        /\ step' = "transfer" => step = "pick"
        /\ step' = "release" => step = "transfer"
        /\ step' = "return ok" => step \in {"deselect", "release"}
        /\ step = "width" => step' = "len"
        /\ step = "len" => step' = "deselect"
        /\ step = "deselect" => step' = "return ok"
    BY <1>1, AfterOkKnows
  <1>4. ~gave_up => answered /\ wire = "none"
    BY <1>1 DEF IInv, Clear
  <1>5. /\ step' \in Places
        /\ IF step \in Moving THEN step' \in {"transfer", "release", "return ok"}
                             ELSE step' \notin Moving
    BY <1>1, AfterOkGoes
  <1>6. NarrowAtFirst'
    BY <1>1, <1>2, <1>3, <1>5 DEF WInv, NarrowAtFirst, Moving
  <1>7. WidthInInit'
    BY <1>1, <1>2, <1>3, <1>4, <1>5 DEF WInv, NarrowAtFirst, WidthInInit, Agree, Known, Moving,
       Early, Steps
  <1>8. WidthAfterInit'
    BY <1>1, <1>2, <1>3, <1>4, <1>5 DEF WInv, WidthInInit, WidthAfterInit, Agree, Known, Moving,
       Early, Steps
  <1>9. DataIsExpected'
    BY <1>1 DEF WInv, DataIsExpected
  <1>10. QED
    BY <1>6, <1>7, <1>8, <1>9 DEF WInv

(* A command is given to the controller, or the one it holds stays.         *)
LEMMA WidthOnIssue ==
  ASSUME IInv, WInv, Issue
  PROVE  WInv'
  <1>1. /\ call # "none" /\ step \in Steps /\ stage = "issue"
        /\ wire' = Command(step) \/ wire' = wire
        /\ answered' = FALSE
        /\ stage' = "data" => WithData(step)
        /\ UNCHANGED <<call, step, inited, host_w, card, app, card_w, gave_up, doubt>>
    BY DEF Issue, At, program, host, device
  <1>2. /\ step \in Moving <=> call # "init"
        /\ call \in {"init", "read", "write"}
    BY <1>1 DEF IInv, InProgram, TypeOK, CallTypes
  <1>3. /\ Command(step) = "GO_IDLE" => step \in Early
        /\ Command(step) = "DESELECT" => step \in {"deselect", "release"}
        /\ Command(step) = "SWITCH" => step \in {"switch", "switch2", "width"}
        /\ step \in {"switch", "switch2"} => Command(step) = "SWITCH"
    BY <1>1, <1>2 DEF Command, Steps, Early, Moving
  <1>4. NarrowAtFirst'
    BY <1>1 DEF WInv, NarrowAtFirst
  <1>5. WidthInInit'
    BY <1>1, <1>2, <1>3 DEF WInv, WidthInInit, Agree, Known, Moving
  <1>6. WidthAfterInit'
    BY <1>1, <1>2, <1>3 DEF WInv, WidthAfterInit, Agree, Moving, Early
  <1>7. DataIsExpected'
    BY <1>1 DEF WInv, DataIsExpected, WithData
  <1>8. QED
    BY <1>4, <1>5, <1>6, <1>7 DEF WInv

(* The card obeys. *)
LEMMA WidthOnAnswer ==
  ASSUME IInv, WInv, Answer
  PROVE  WInv'
  <1>1. /\ wire # "none" /\ Listens(wire) /\ Obeys(wire) /\ wire' = "none"
        /\ answered' = (answered \/ wire = Command(step))
        /\ UNCHANGED <<call, step, inited, stage, host_w, gave_up, doubt>>
    BY DEF Answer, program, host
  <1>2. /\ app' = (wire \in {"APP", "APP to all"})
        /\ card_w' = IF wire = "GO_IDLE" THEN 1 ELSE IF wire = "SWITCH" /\ app THEN 4 ELSE card_w
    BY <1>1 DEF Obeys
  <1>3. /\ card' \in {"idle", "ready", "ident"} =>
             wire = "GO_IDLE" \/ (card \in {"idle", "ready", "ident"} /\ wire # "SWITCH")
        /\ wire = "SWITCH" => card = "tran" /\ card' \in Selected
        /\ wire = "SELECT" => card = "stby"
        /\ wire \in {"IF_COND", "APP to all"} => card = "idle"
        /\ card \in Selected /\ wire \notin {"GO_IDLE", "DESELECT"} => card' \in Selected
    BY <1>1 DEF Obeys, Listens, NoAnswer, Selected
  <1>4. ~gave_up => wire = Command(step) /\ stage # "issue" /\ ~answered
    BY <1>1 DEF IInv, Clear
  <1>5. /\ step = "volt" => Command(step) = "IF_COND"
        /\ step = "app2" => Command(step) = "APP to all"
        /\ step = "width" => Command(step) = "SWITCH"
        /\ step = "scr" => Command(step) = "scr"
        /\ step = "pick" => Command(step) = "SELECT"
    BY DEF Command
  <1>6. ~gave_up /\ step = "width" /\ call # "none" /\ ~answered => app
    BY DEF IInv, WidthIsApp
  <1>7. NarrowAtFirst'
    BY <1>1, <1>2, <1>3 DEF WInv, NarrowAtFirst
  <1>8. WidthInInit'
    <2> SUFFICES ASSUME ~doubt, call = "init" PROVE WidthInInit'
      BY <1>1 DEF WidthInInit
    <2>1. step \in Known => (Agree \/ (step = "width" /\ card \in Selected))'
      BY <1>1, <1>2, <1>3 DEF WInv, WidthInInit, Agree
    <2>2. ~gave_up => /\ step \in {"volt", "app2"} => card_w' = 1
                      /\ step = "width" => card_w' = 4
                      /\ step = "scr" => ~app'
      BY <1>1, <1>2, <1>3, <1>4, <1>5, <1>6 DEF WInv, NarrowAtFirst
    <2>3. step \in {"switch", "switch2"} => ~app' /\ wire' \in {"none", "SWITCH"}
      BY <1>1, <1>2 DEF WInv, WidthInInit
    <2>4. QED
      BY <1>1, <2>1, <2>2, <2>3 DEF WidthInInit
  <1>9. WidthAfterInit'
    BY <1>1, <1>2, <1>3, <1>4, <1>5 DEF WInv, WidthAfterInit, Agree, Selected
  <1>10. DataIsExpected'
    BY <1>1 DEF WInv, DataIsExpected, WithData
  <1>11. QED
    BY <1>7, <1>8, <1>9, <1>10 DEF WInv

LEMMA WidthOnCall ==
  ASSUME IInv, WInv, Calls
  PROVE  WInv'
  <1>1. CASE smhc_init
    <2>1. /\ call' = "init" /\ step' = "slow" /\ stage' = "issue" /\ host_w' = 1
          /\ UNCHANGED <<card, card_w>>
      BY <1>1 DEF smhc_init, device
    <2>2. step' \notin Known /\ step' \notin {"switch", "switch2"}
      BY <2>1 DEF Known, Early
    <2>3. NarrowAtFirst'
      BY <2>1 DEF WInv, NarrowAtFirst
    <2>4. WidthInInit' /\ WidthAfterInit' /\ DataIsExpected'
      BY <2>1, <2>2 DEF WidthInInit, WidthAfterInit, DataIsExpected
    <2>5. QED
      BY <2>3, <2>4 DEF WInv
  <1>2. CASE smhc_read_or_write
    <2>1. /\ call = "none" /\ inited /\ call' \in {"read", "write"}
          /\ step' = "pick" /\ stage' = "issue"
          /\ UNCHANGED <<inited, host_w, card, card_w, wire, doubt>>
      BY <1>2 DEF smhc_read_or_write, host, controller, device, auxiliary
    <2>2. NarrowAtFirst' /\ WidthInInit' /\ DataIsExpected'
      BY <2>1 DEF WInv, NarrowAtFirst, WidthInInit, DataIsExpected
    <2>3. WidthAfterInit'
      BY <2>1 DEF WInv, WidthAfterInit, Agree
    <2>4. QED
      BY <2>2, <2>3 DEF WInv
  <1>3. QED
    BY <1>1, <1>2 DEF Calls

LEMMA WidthOnClock ==
  ASSUME IInv, WInv, smhc_clock_set
  PROVE  WInv'
  <1>1. /\ call # "none" /\ step \in {"slow", "fast"}
        /\ stage' = "issue"
        /\ step' \in IF step = "slow" THEN {"reset"} ELSE {"appwidth", "return ok"}
        /\ IF step' \in {"return ok", "return error"}
           THEN /\ call' = "none"
                /\ inited' = IF call = "init" THEN step' = "return ok" ELSE inited
           ELSE UNCHANGED <<call, inited>>
        /\ UNCHANGED <<host_w, wire, card, app, card_w, answered, gave_up, doubt>>
    BY DEF smhc_clock_set, GoTo, ClockSteps, device, auxiliary
  <1>2. call = "init"
    BY <1>1 DEF IInv, InProgram, Moving
  <1>3. "fast" \in Known /\ "appwidth" \in Known /\ "reset" \notin Known
    BY DEF Known, Early, Moving, Steps, ClockSteps
  <1>4. NarrowAtFirst'
    BY <1>1, <1>2 DEF WInv, NarrowAtFirst
  <1>5. WidthInInit'
    BY <1>1, <1>2, <1>3 DEF WInv, WidthInInit, Agree
  <1>6. WidthAfterInit'
    BY <1>1, <1>2, <1>3 DEF WInv, WidthInInit, WidthAfterInit, Agree
  <1>7. DataIsExpected'
    BY <1>1, <1>2 DEF WInv, DataIsExpected
  <1>8. QED
    BY <1>4, <1>5, <1>6, <1>7 DEF WInv

LEMMA WidthInductive == Spec => []WInv
  <1>1. Init => WInv
    BY DEF Init, WInv, NarrowAtFirst, WidthInInit, WidthAfterInit, DataIsExpected, Agree
  <1>2. ASSUME IInv, WInv, [Next]_vars PROVE WInv'
    <2>1. CASE Calls
      BY <1>2, <2>1, WidthOnCall
    <2>2. CASE Driver
      <3>1. CASE smhc_clock_set
        BY <1>2, <3>1, WidthOnClock
      <3>2. CASE Issue
        BY <1>2, <3>2, WidthOnIssue
      <3>3. CASE MoveBlock \/ DataMoved \/ CommandComplete \/ TransferOver \/ NotBusy \/ TimedOut
        <4>1. /\ UNCHANGED <<call, step, inited, host_w, card_w, app, answered, doubt, wire, card>>
              /\ stage # "issue" /\ (stage' = "data" => stage = "data")
              /\ ~gave_up' => ~gave_up
          BY <3>3 DEF MoveBlock, DataMoved, CommandComplete, TransferOver, NotBusy, TimedOut, At,
                      program, host, controller, device, auxiliary
        <4>2. QED
          BY <1>2, <4>1, WidthUndisturbed
      <3>4. CASE DataTimeout
        <4>1. /\ call # "none" /\ step \in Steps /\ stage = "data"
              /\ UNCHANGED <<host_w, card, card_w, app, doubt, wire>>
              /\ GoTo(AfterError(step))
          BY <3>4 DEF DataTimeout, At, controller, device
        <4>2. WithData(step)
          BY <1>2, <4>1 DEF WInv, DataIsExpected
        <4>3. QED
          BY <1>2, <4>1, <4>2, WidthOnError
      <3>5. CASE Reset
        <4>1. /\ call # "none" /\ step \in Steps
              /\ UNCHANGED <<host_w, card, card_w, app, doubt>>
              /\ wire' = "none"
              /\ GoTo(AfterError(step))
          BY <3>5 DEF Reset, At, device
        <4>2. QED
          BY <1>2, <4>1, WidthOnError
      <3>6. CASE Done
        BY <1>2, <3>6, WidthOnSuccess
      <3>7. QED
        BY <2>2, <3>1, <3>2, <3>3, <3>4, <3>5, <3>6 DEF Driver
    <2>3. CASE Card
      <3>1. CASE Answer
        BY <1>2, <3>1, WidthOnAnswer
      <3>2. CASE Missed \/ CardMoves \/ Programmed
        <4>1. /\ UNCHANGED <<call, step, inited, stage, host_w, card_w, app>>
              /\ UNCHANGED <<answered, doubt, gave_up>>
              /\ wire' \in {wire, "none"}
              /\ card' = card \/ {card, card'} \subseteq Selected
          BY <3>2 DEF Missed, CardMoves, Programmed, Selected,
                      program, host, controller, device, auxiliary
        <4>2. QED
          BY <1>2, <4>1, WidthUndisturbed
      <3>3. QED
        BY <2>3, <3>1, <3>2 DEF Card
    <2>4. CASE UNCHANGED vars
      BY <1>2, <2>4, WidthUndisturbed DEF vars
    <2>5. QED
      BY <1>2, <2>1, <2>2, <2>3, <2>4 DEF Next
  <1>3. QED
    BY <1>1, <1>2, Inductive, PTL DEF Spec

(* Through failed and repeated smhc_init, lost answers and data that never *)
(* came, data passes only at a width of the bus both sides use             *)
(* (smhc.c:409, 436).                                                      *)
THEOREM BusWidthsAgree == Spec => []WidthsAgree
  <1>1. ASSUME IInv, WInv PROVE WidthsAgree
    <2> SUFFICES ASSUME At("data"), ~gave_up, ~doubt, answered PROVE host_w = card_w
      BY DEF WidthsAgree
    <2>1. WithData(step) /\ step \in Steps /\ call \in {"init", "read", "write"}
          /\ (step \in Moving <=> call # "init")
      BY <1>1 DEF At, WInv, DataIsExpected, IInv, InProgram, TypeOK, CallTypes
    <2>2. CASE step = "transfer"
      BY <1>1, <2>1, <2>2 DEF WInv, WidthAfterInit, DataIsExpected, Agree, Moving
    <2>3. CASE step # "transfer"
      <3>1. step \in Known /\ step # "width" /\ call = "init"
        BY <2>1, <2>3 DEF WithData, Known, Early, Moving, Steps
      <3>2. QED
        BY <1>1, <3>1 DEF WInv, WidthInInit, Agree
    <2>4. QED
      BY <2>2, <2>3
  <1>2. QED
    BY <1>1, Inductive, WidthInductive, PTL
-------------------------------------------------------------------------------
(* A call takes a bounded number of the driver's steps, besides those with  *)
(* which it asks again whether the card is ready.                           *)

(* The loop of ACMD41, of either kind of card. *)
Asking == {"app", "op", "app3", "op2"}

(* How many commands, and settings of the clock, may follow that of s. *)
Place(s) == CASE s = "slow" -> 19    [] s = "reset" -> 18     [] s = "volt" -> 17
              [] s = "reset2" -> 16  [] s = "app2" -> 15      [] s \in Asking -> 14
              [] s = "cid" -> 13     [] s = "rca" -> 12       [] s = "csd" -> 11
              [] s = "select" -> 10  [] s = "appscr" -> 9     [] s = "scr" -> 8
              [] s = "switch" -> 7   [] s = "switch2" -> 6    [] s = "fast" -> 5
              [] s = "appwidth" -> 4
              [] s \in {"width", "pick"} -> 3
              [] s \in {"len", "transfer"} -> 2
              [] s \in {"deselect", "release"} -> 1
              [] OTHER -> 0

(* What is left of smhc_send_cmd at a stage with k blocks to move. *)
LeftOfCommand(at, k) == CASE at = "issue" -> MaxBlocks + 6
                          [] at = "data" -> k + 5
                          [] at = "cc" -> 4
                          [] at = "over" -> 3
                          [] at = "busy" -> 2
                          [] OTHER -> 1

StepsLeft == IF call = "none" THEN 0
             ELSE Place(step) * (MaxBlocks + 6) + LeftOfCommand(stage, n)

(* The driver goes from one command of the loop to the next. *)
AsksAgain == {step, step'} \subseteq Asking /\ step' # step

LEMMA PlaceType == ASSUME NEW s PROVE Place(s) \in 0..19
  BY DEF Place

LEMMA PlaceOfEach ==
  /\ Place("slow") = 19 /\ Place("reset") = 18 /\ Place("volt") = 17 /\ Place("reset2") = 16
  /\ Place("app2") = 15 /\ \A s \in Asking : Place(s) = 14
  /\ Place("cid") = 13 /\ Place("rca") = 12 /\ Place("csd") = 11 /\ Place("select") = 10
  /\ Place("appscr") = 9 /\ Place("scr") = 8 /\ Place("switch") = 7 /\ Place("switch2") = 6
  /\ Place("fast") = 5 /\ Place("appwidth") = 4 /\ Place("width") = 3 /\ Place("pick") = 3
  /\ Place("len") = 2 /\ Place("transfer") = 2 /\ Place("deselect") = 1 /\ Place("release") = 1
  /\ Place("return ok") = 0 /\ Place("return error") = 0
  <1>1. /\ Place("slow") = 19 /\ Place("reset") = 18 /\ Place("volt") = 17
        /\ Place("reset2") = 16 /\ Place("app2") = 15 /\ \A s \in Asking : Place(s) = 14
    BY DEF Place, Asking
  <1>2. /\ Place("cid") = 13 /\ Place("rca") = 12 /\ Place("csd") = 11 /\ Place("select") = 10
        /\ Place("appscr") = 9 /\ Place("scr") = 8 /\ Place("switch") = 7
        /\ Place("switch2") = 6 /\ Place("fast") = 5 /\ Place("appwidth") = 4
    BY DEF Place, Asking
  <1>3. /\ Place("width") = 3 /\ Place("pick") = 3 /\ Place("len") = 2 /\ Place("transfer") = 2
        /\ Place("deselect") = 1 /\ Place("release") = 1
        /\ Place("return ok") = 0 /\ Place("return error") = 0
    BY DEF Place, Asking
  <1>4. QED
    BY <1>1, <1>2, <1>3

LEMMA AfterOkIsLater ==
  ASSUME NEW s \in Steps, NEW t \in AfterOk(s)
  PROVE  Place(t) < Place(s) \/ ({s, t} \subseteq Asking /\ s # t)
  <1>1. CASE s \in {"reset", "volt", "reset2", "app2"}
    <2>1. \/ s = "reset" /\ t = "volt"
          \/ s = "volt" /\ t = "app"
          \/ s = "reset2" /\ t = "app2"
          \/ s = "app2" /\ t = "op2"
      BY <1>1 DEF AfterOk
    <2>2. "app" \in Asking /\ "op2" \in Asking
      BY DEF Asking
    <2>3. \/ Place(s) = 18 /\ Place(t) = 17
          \/ Place(s) = 17 /\ Place(t) = 14
          \/ Place(s) = 16 /\ Place(t) = 15
          \/ Place(s) = 15 /\ Place(t) = 14
      BY <2>1, <2>2, PlaceOfEach, Zenon
    <2>4. QED
      BY <2>3
  <1>2. CASE s \in Asking
    <2>1. \/ s = "app" /\ t = "op"
          \/ s = "app3" /\ t = "op2"
          \/ s = "op" /\ t \in {"cid", "app"}
          \/ s = "op2" /\ t \in {"cid", "app3"}
      BY <1>2 DEF AfterOk, Asking
    <2>2. \/ {s, t} \subseteq Asking /\ s # t
          \/ Place(s) = 14 /\ Place(t) = 13
      <3>1. CASE t = "cid"
        BY <1>2, <3>1, PlaceOfEach, Zenon
      <3>2. CASE t # "cid"
        BY <2>1, <3>2 DEF Asking
      <3>3. QED
        BY <3>1, <3>2
    <2>3. QED
      BY <2>2
  <1>3. CASE s \in {"cid", "rca", "csd", "select"}
    <2>1. \/ s = "cid" /\ t = "rca"
          \/ s = "rca" /\ t = "csd"
          \/ s = "csd" /\ t = "select"
          \/ s = "select" /\ t = "appscr"
          \/ s = "select" /\ t = "fast"
      BY <1>3 DEF AfterOk
    <2>2. \/ Place(s) = 13 /\ Place(t) = 12
          \/ Place(s) = 12 /\ Place(t) = 11
          \/ Place(s) = 11 /\ Place(t) = 10
          \/ Place(s) = 10 /\ Place(t) = 9
          \/ Place(s) = 10 /\ Place(t) = 5
      BY <2>1, PlaceOfEach, Zenon
    <2>3. QED
      BY <2>2
  <1>4. CASE s \in {"appscr", "scr", "switch", "switch2", "appwidth"}
    <2>1. \/ s = "appscr" /\ t = "scr"
          \/ s = "scr" /\ t = "switch"
          \/ s = "scr" /\ t = "appwidth"
          \/ s = "switch" /\ t = "switch2"
          \/ s = "switch" /\ t = "appwidth"
          \/ s = "switch2" /\ t = "fast"
          \/ s = "switch2" /\ t = "appwidth"
          \/ s = "appwidth" /\ t = "width"
      BY <1>4 DEF AfterOk
    <2>2. \/ Place(s) = 9 /\ Place(t) = 8
          \/ Place(s) = 8 /\ Place(t) = 7
          \/ Place(s) = 8 /\ Place(t) = 4
          \/ Place(s) = 7 /\ Place(t) = 6
          \/ Place(s) = 7 /\ Place(t) = 4
          \/ Place(s) = 6 /\ Place(t) = 5
          \/ Place(s) = 6 /\ Place(t) = 4
          \/ Place(s) = 4 /\ Place(t) = 3
      BY <2>1, PlaceOfEach, Zenon
    <2>3. QED
      BY <2>2
  <1>5. CASE s \in {"width", "len", "deselect", "pick", "transfer", "release"}
    <2>1. \/ s = "width" /\ t = "len"
          \/ s = "len" /\ t = "deselect"
          \/ s = "pick" /\ t = "transfer"
          \/ s = "transfer" /\ t = "release"
          \/ s = "deselect" /\ t = "return ok"
          \/ s = "release" /\ t = "return ok"
      BY <1>5 DEF AfterOk, AfterTransfer
    <2>2. \/ Place(s) = 3 /\ Place(t) = 2
          \/ Place(s) = 2 /\ Place(t) = 1
          \/ Place(s) = 3 /\ Place(t) = 2
          \/ Place(s) = 2 /\ Place(t) = 1
          \/ Place(s) = 1 /\ Place(t) = 0
      BY <2>1, PlaceOfEach, Zenon
    <2>3. QED
      BY <2>2
  <1>6. QED
    BY <1>1, <1>2, <1>3, <1>4, <1>5 DEF Steps, Asking

LEMMA AfterErrorIsLater ==
  ASSUME NEW s \in Steps, NEW t \in AfterError(s)
  PROVE  Place(t) < Place(s) \/ ({s, t} \subseteq Asking /\ s # t)
  <1>1. CASE t \in AfterOk(s)
    BY <1>1, AfterOkIsLater
  <1>2. CASE t \notin AfterOk(s)
    <2>1. \/ s = "volt" /\ t = "reset2"
          \/ s = "switch" /\ t = "appwidth"
          \/ s = "switch2" /\ t = "appwidth"
          \/ t = "return error"
          \/ t = "return ok"
      BY <1>2 DEF AfterError
    <2>2. \/ Place(s) = 17 /\ Place(t) = 16
          \/ Place(s) = 7 /\ Place(t) = 4
          \/ Place(s) = 6 /\ Place(t) = 4
          \/ Place(t) = 0
      BY <2>1, PlaceOfEach, Zenon
    <2>3. Place(s) \in 1..19
      BY DEF Place, Steps, Asking
    <2>4. QED
      BY <2>2, <2>3
  <1>3. QED
    BY <1>1, <1>2

LEMMA LeftType ==
  ASSUME TypeOK
  PROVE  /\ LeftOfCommand(stage, n) \in 1..MaxBlocks+6
         /\ Place(step) * (MaxBlocks + 6) \in Nat
         /\ Place(step) * (MaxBlocks + 6) <= 19 * (MaxBlocks + 6)
         /\ StepsLeft \in 0..20 * (MaxBlocks + 6)
         /\ StepsLeft = 0 <=> call = "none"
         /\ call # "none" =>
              StepsLeft = Place(step) * (MaxBlocks + 6) + LeftOfCommand(stage, n)
  <1>1. n \in 0..MaxBlocks /\ MaxBlocks \in Nat /\ MaxBlocks >= 1
    BY SmhcAssumption DEF TypeOK, CountTypes
  <1>2. LeftOfCommand(stage, n) \in 1..MaxBlocks+6
    BY <1>1 DEF LeftOfCommand
  <1>3. ASSUME NEW p \in 0..19, NEW k \in Nat PROVE p * k \in Nat /\ p * k <= 19 * k
    OBVIOUS
  <1>4. /\ Place(step) * (MaxBlocks + 6) \in Nat
        /\ Place(step) * (MaxBlocks + 6) <= 19 * (MaxBlocks + 6)
    BY <1>1, <1>3, PlaceType
  <1>5. QED
    <2> DEFINE P == Place(step) * (MaxBlocks + 6)
               L == LeftOfCommand(stage, n)
    <2>1. P \in Nat /\ P <= 19 * (MaxBlocks + 6) /\ L \in 1..MaxBlocks+6
      BY <1>2, <1>4
    <2>2. StepsLeft = IF call = "none" THEN 0 ELSE P + L
      BY DEF StepsLeft
    <2> HIDE DEF P, L
    <2>3. /\ StepsLeft \in 0..20 * (MaxBlocks + 6)
          /\ StepsLeft = 0 <=> call = "none"
          /\ call # "none" => StepsLeft = P + L
      BY <1>1, <2>1, <2>2
    <2>4. QED
      BY <2>1, <2>3 DEF P, L

(* The next command of a program, or its end. *)
LEMMA GoToIsLater ==
  ASSUME TypeOK, call # "none", NEW next, GoTo(next),
         \A s \in next : Place(s) < Place(step) \/ ({step, s} \subseteq Asking /\ step # s)
  PROVE  AsksAgain \/ StepsLeft' < StepsLeft
  <1>1. Place(step') < Place(step) \/ AsksAgain
    BY DEF GoTo, AsksAgain
  <1>2. /\ LeftOfCommand(stage, n) \in 1..MaxBlocks+6
        /\ Place(step) * (MaxBlocks + 6) \in Nat
        /\ StepsLeft = Place(step) * (MaxBlocks + 6) + LeftOfCommand(stage, n)
    BY LeftType
  <1>3. CASE call' = "none"
    <2>1. StepsLeft' = 0
      BY <1>3 DEF StepsLeft
    <2>2. QED
      BY <1>2, <2>1
  <1>4. CASE call' # "none" /\ Place(step') < Place(step)
    <2>1. stage' = "issue"
      BY DEF GoTo
    <2>2. StepsLeft' = Place(step') * (MaxBlocks + 6) + (MaxBlocks + 6)
      BY <1>4, <2>1 DEF StepsLeft, LeftOfCommand
    <2>3. ASSUME NEW p \in Nat, NEW q \in Nat, p < q, NEW k \in Nat
          PROVE  p * k \in Nat /\ q * k \in Nat /\ p * k + k <= q * k
      <3>1. q * k = p * k + (q - p) * k /\ q - p \in Nat /\ q - p >= 1
        BY <2>3
      <3>2. (q - p) * k >= k
        BY <3>1
      <3>3. QED
        BY <3>1, <3>2
    <2>4. /\ Place(step) \in Nat /\ Place(step') \in Nat
          /\ MaxBlocks + 6 \in Nat
      BY PlaceType, SmhcAssumption
    <2>5. Place(step') * (MaxBlocks + 6) + (MaxBlocks + 6) <= Place(step) * (MaxBlocks + 6)
      BY <1>4, <2>3, <2>4
    <2>6. Place(step') * (MaxBlocks + 6) \in Nat
      BY <2>3, <2>4, <1>4
    <2>7. QED
      BY <1>2, <2>2, <2>4, <2>5, <2>6
  <1>5. QED
    BY <1>1, <1>3, <1>4

(* Within a command there is one step less to come. *)
LEMMA CommandGoesOn ==
  ASSUME TypeOK, call # "none", UNCHANGED <<call, step>>,
         LeftOfCommand(stage', n') < LeftOfCommand(stage, n),
         LeftOfCommand(stage', n') \in Nat
  PROVE  StepsLeft' < StepsLeft
  <1>1. /\ LeftOfCommand(stage, n) \in 1..MaxBlocks+6
        /\ Place(step) * (MaxBlocks + 6) \in Nat
        /\ StepsLeft = Place(step) * (MaxBlocks + 6) + LeftOfCommand(stage, n)
    BY LeftType
  <1>2. StepsLeft' = Place(step) * (MaxBlocks + 6) + LeftOfCommand(stage', n')
    BY DEF StepsLeft
  <1>3. MaxBlocks \in Nat
    BY SmhcAssumption
  <1>4. QED
    BY <1>1, <1>2, <1>3

LEMMA DriverGoesOn ==
  ASSUME TypeOK, Driver
  PROVE  AsksAgain \/ StepsLeft' < StepsLeft
  <1>1. n \in 0..MaxBlocks /\ blocks \in 1..MaxBlocks /\ MaxBlocks \in Nat /\ MaxBlocks >= 1
    BY SmhcAssumption DEF TypeOK, CountTypes
  <1>2. CASE smhc_clock_set
    <2>1. /\ call # "none" /\ step \in {"slow", "fast"}
          /\ \/ GoTo(IF step = "slow" THEN {"reset"} ELSE {"appwidth"})
             \/ GoTo(IF step = "slow" THEN {"reset"} ELSE {"return ok"})
      BY <1>2 DEF smhc_clock_set, ClockSteps
    <2>2. PICK next : /\ GoTo(next)
                      /\ \/ step = "slow" /\ next = {"reset"}
                         \/ step = "fast" /\ next \in {{"appwidth"}, {"return ok"}}
      BY <2>1, Zenon
    <2>3. ASSUME NEW s \in next PROVE Place(s) < Place(step)
      <3>1. \/ Place(step) = 19 /\ Place(s) = 18
            \/ Place(step) = 5 /\ Place(s) = 4
            \/ Place(step) = 5 /\ Place(s) = 0
        BY <2>2, PlaceOfEach, Zenon
      <3>2. QED
        BY <3>1
    <2>4. QED
      BY <2>1, <2>2, <2>3, GoToIsLater
  <1>3. CASE Issue
    <2>1. /\ call # "none" /\ stage = "issue" /\ UNCHANGED <<call, step>>
          /\ (stage' = "data" /\ n' \in {blocks, 1}) \/ (stage' = "cc" /\ n' = n)
      BY <1>3 DEF Issue, At, BlocksToMove, program
    <2>2. /\ LeftOfCommand(stage', n') < LeftOfCommand(stage, n)
          /\ LeftOfCommand(stage', n') \in Nat
      BY <1>1, <2>1 DEF LeftOfCommand
    <2>3. QED
      BY <2>1, <2>2, CommandGoesOn
  <1>4. CASE MoveBlock
    <2>1. /\ call # "none" /\ UNCHANGED <<call, step>>
          /\ stage = "data" /\ stage' = "data" /\ n > 0 /\ n' = n - 1
      BY <1>4 DEF MoveBlock, At, program
    <2>2. /\ LeftOfCommand(stage', n') < LeftOfCommand(stage, n)
          /\ LeftOfCommand(stage', n') \in Nat
      BY <1>1, <2>1 DEF LeftOfCommand
    <2>3. QED
      BY <2>1, <2>2, CommandGoesOn
  <1>5. CASE DataMoved \/ CommandComplete \/ TransferOver \/ NotBusy \/ TimedOut
    <2>1. /\ call # "none" /\ UNCHANGED <<call, step, n>>
          /\ \/ stage = "data" /\ stage' = "cc"
             \/ stage = "cc" /\ stage' \in {"over", "busy", "done", "reset"}
             \/ stage = "over" /\ stage' \in {"busy", "done", "reset"}
             \/ stage = "busy" /\ stage' \in {"done", "reset"}
      BY <1>5 DEF DataMoved, CommandComplete, TransferOver, NotBusy, TimedOut, At, program
    <2>2. /\ LeftOfCommand(stage', n') < LeftOfCommand(stage, n)
          /\ LeftOfCommand(stage', n') \in Nat
      BY <1>1, <2>1 DEF LeftOfCommand
    <2>3. QED
      BY <2>1, <2>2, CommandGoesOn
  <1>6. CASE DataTimeout \/ Reset
    <2>1. call # "none" /\ step \in Steps /\ GoTo(AfterError(step))
      BY <1>6 DEF DataTimeout, Reset, At
    <2>2. \A s \in AfterError(step) :
            Place(s) < Place(step) \/ ({step, s} \subseteq Asking /\ step # s)
      BY <2>1, AfterErrorIsLater
    <2>3. QED
      BY <2>1, <2>2, GoToIsLater
  <1>7. CASE Done
    <2>1. call # "none" /\ step \in Steps /\ GoTo(AfterOk(step))
      BY <1>7 DEF Done, At
    <2>2. \A s \in AfterOk(step) :
            Place(s) < Place(step) \/ ({step, s} \subseteq Asking /\ step # s)
      BY <2>1, AfterOkIsLater
    <2>3. QED
      BY <2>1, <2>2, GoToIsLater
  <1>8. QED
    BY <1>2, <1>3, <1>4, <1>5, <1>6, <1>7 DEF Driver

(* Whatever the card does, it does not make the call longer. *)
LEMMA CardLeavesSteps ==
  ASSUME Card
  PROVE  StepsLeft' = StepsLeft
  <1>1. UNCHANGED <<call, step, stage, n>>
    BY DEF Card, Answer, Missed, CardMoves, Programmed, program
  <1>2. QED
    BY <1>1 DEF StepsLeft

(* A call that runs is at a command or at a setting of the clock. *)
AtACommand == call # "none" => step \in Steps \cup ClockSteps

LEMMA StaysAtACommand ==
  ASSUME IInv, AtACommand, [Next]_vars
  PROVE  AtACommand'
  <1>1. CASE Calls
    BY <1>1 DEF Calls, smhc_init, smhc_read_or_write, AtACommand, Steps, ClockSteps
  <1>2. CASE smhc_clock_set \/ DataTimeout \/ Reset \/ Done
    <2>1. step' \in Places
      BY <1>1, <1>2, smhc_clock_setKeeps, DataTimeoutKeeps, ResetKeeps, DoneKeeps
         DEF IInv, TypeOK, CallTypes, Places
    <2>2. step' \in {"return ok", "return error"} => call' = "none"
      BY <1>2 DEF smhc_clock_set, DataTimeout, Reset, Done, GoTo
    <2>3. QED
      BY <2>1, <2>2 DEF AtACommand, Places
  <1>3. CASE UNCHANGED <<call, step>>
    BY <1>3 DEF AtACommand
  <1>4. QED
    BY <1>1, <1>2, <1>3 DEF Next, Driver, Issue, MoveBlock, DataMoved, CommandComplete,
       TransferOver, NotBusy, TimedOut, Card, Answer, Missed, CardMoves, Programmed, program, vars

(* What is left of a call is bounded, and shrinks.                         *)
CallsAreBounded ==
  /\ []AtACommand
  /\ [](StepsLeft \in 0..20 * (MaxBlocks + 6) /\ (StepsLeft = 0 <=> call = "none"))
  /\ [][/\ Driver => AsksAgain \/ StepsLeft' < StepsLeft
        /\ Card => StepsLeft' = StepsLeft]_vars

(* A call is over after a number of the driver's steps that the blocks it  *)
(* may move bound, whatever the card and the controller do between them:   *)
(* no step adds to what is left but the one back to ACMD41                 *)
(* (smhc.c:164-300, 396-470).  This is what CallsEnd needs besides the     *)
(* driver going on.                                                        *)
THEOREM CallsTakeFewSteps == Spec => CallsAreBounded
  <1>1. Init => AtACommand
    BY DEF Init, AtACommand
  <1>2. IInv => StepsLeft \in 0..20 * (MaxBlocks + 6) /\ (StepsLeft = 0 <=> call = "none")
    BY LeftType DEF IInv
  <1>3. IInv => [/\ Driver => AsksAgain \/ StepsLeft' < StepsLeft
                 /\ Card => StepsLeft' = StepsLeft]_vars
    BY DriverGoesOn, CardLeavesSteps DEF IInv
  <1>4. IInv /\ AtACommand /\ [Next]_vars => AtACommand'
    BY StaysAtACommand
  <1>5. QED
    BY <1>1, <1>2, <1>3, <1>4, Inductive, PTL DEF Spec, CallsAreBounded
===============================================================================
