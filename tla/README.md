# A verification project for allwinner_d1_hal

TLA+ models of the program in `src/`: a bare-metal application for the Allwinner D1h
(one RISC-V hart) that shows a text console on an LCD, reads USB keyboards and mice, runs a
small command line, and runs DOOM on a second layer of the display. The models are checked
by TLC on small instances; theorems about nine of them are proved by TLAPS for every value of
their constants.

Paths below are relative to the repository; its C code is in its own `src/` directory, so a
source is written `src/src/...` in `PROJECT.json`, and without the first two parts here.

## How the program runs

There is no operating system, no second thread and no test suite. `application/main.c` sets up
display, console and USB, and then turns in one endless loop:

1. once, `run_command("doom")`, when a counter that is never initialised reaches 100;
2. `usb_task_exec`: TinyUSB polls, and calls `hid_app.c` back with reports; the bytes typed go
   into `keyboard_fifo`;
3. `console_render`: bytes printed by `small_printf` come out of `console_string_buf_fifo` and
   are drawn into a framebuffer with twice the rows of the screen;
4. `gui`: the status bar is drawn;
5. `console_command_handler`: bytes come out of `keyboard_fifo` into a command, which Enter runs.
   The command `doom` runs the loop of `doom_task.c` inside this call, until the game exits;
6. `display_task_exec`: the framebuffer and the status bar are rotated by the G2D engine, and
   the display engine is told to take over its shadow registers.

Interrupts are the only concurrency inside the hart: a trap turns them off until `mret`, so they
do not nest. Outside it the G2D engine, the LCD controller, the I2C controller and the power chip
go on by themselves. The rings of `fifo.c` claim to be safe for a writer and a reader that
preempt each other; in this program both sides run in the main loop.

## Inventory

| component | source | state | what is hard | what makes it correct |
|---|---|---|---|---|
| ring buffer | `awh_lib/fifo.c` | `read`, `write`, the elements | two users interleaved at each access to an index; a stale copy of an index; unsigned differences at the wrap | it is a bounded queue; nothing being read is overwritten |
| byte rings | `application/console_task.c` 139-152, 319-356 | three rings of bytes | a 32-bit store into an array of bytes; the store comes before the test for room | how much the store can damage, and when it cannot |
| log | `awh_lib/log.c` | a local buffer, the console ring | a full ring cuts off a color sequence that the reader then waits for | all that is printed is shown, the reader returns |
| console | `application/console_task.c` 97-128, 153-225 | framebuffer, position, ring of row addresses, `src_fb` | three counters that wrap at different places, rows drawn twice | once shown, the screen is a scrolling terminal |
| status bar | `application/console_task.c` 227-268 | position | starts at an uninitialised column | - |
| interrupts | `awh_lib/irq.c`, `board_start.s` | PLIC, handler table | a claim with nothing pending, an interrupt without a handler | neither endless loop is reached |
| rotation engine | `awh_lib/g2d.c` | `g2d_rot_finished`, `ROT_INT` | a flag shared with the handler, an acknowledgement by read-modify-write | a wait ends, and exactly when the rotation has |
| display task | `components/dispaly_task.c` | rotation records, blender set-up | waits of the wrong sense; records filled before what they point to exists | what is rotated is a framebuffer |
| I2C master | `awh_lib/twi.c` | the controller, the message in progress | every wait has a deadline the hardware may miss | calls end, the bus is given back |
| power chip | `drivers/axp228.c` | registers of the AXP228 | read-modify-write over a bus that fails | only the bits meant are changed |
| HID input | `application/hid_app.c` | previous report, devices | several keyboards, more keys than a report holds, requests that fail, unplugging | at most one byte per press |
| command line | `application/command.c` | the command typed so far | names matched by prefix, uninitialised results, lengths of pointers | control keys do not end up in commands |
| doom | `application/doom/doom_task.c` | key, frame counter, layer | leaves from inside its own call; keys released by counting | its layer is off afterwards, keys are released |
| doom video | `application/doom/i_video.c`, `m_fixed.c` | - | - | replacement files of PureDOOM without state, not modelled |
| display engine | `awh_lib/de.c` | doubled registers, `DBUFFER` | a commit is taken over at some later blank, when other registers may be half written | what is shown was committed as a whole; the wait for a commit ends |
| LCD controllers | `awh_lib/tcon_lcd_*.c` | enable and flag of the vertical blank, dividers | the handler stores flags over the enables of one register; a search over unsigned differences | no wait relies on what the handler switches off; the panels get their pixel clocks |
| MIPI DSI | `awh_lib/mipi_dsi.c` | the packet in the command FIFO | two tables of codes that only the panel could check | a header can be corrected, a checksum is the standard's |
| SD host | `awh_lib/smhc.c` | command in progress, type and width of the card | every wait times out with the command still on the wire; two of three errors reset, one does not | what succeeds was answered; the card is given back; calls end |
| USB set-up | `awh_lib/usb.c`, `components/usb_task.c` | interrupt of the host controller | switched off and on around every poll | no interrupt is lost on the way |
| clocks, pins, DMA | `awh_lib/ccu.c`, `gpio.c`, `dmac.c` | registers | a variable that keeps its first value | the dividers computed from them; the rest is straight-line or unused |
| panels | `drivers/LVDS_*.c`, `RGB_*.c`, `icn9707*.c` | - | - | tables of commands, not modelled |
| serial port, led, timer, temperature | `awh_lib/uart.c`, ... | - | - | straight-line register access, not modelled |
| memory, caches, start-up | `memmgr.c`, `cache-c906.c`, `board_start.c` | - | - | not in the build, or straight-line |
| TinyUSB, PureDOOM, tlsf, fonts | submodules | - | - | external: modelled by how they are called |

`PROJECT.json` lists every component with its status, and under `hazards` every place found so far
where this code is hard to test, with the properties that watch it.

## Modules

| module | models | used by |
|---|---|---|
| `RingIndex` | the index arithmetic of `fifo.c`, pure | `Fifo`, `ByteFifo` |
| `Queue` | abstract: a bounded queue with calls that hand over one or many elements | `Fifo` implements it |
| `Fifo` | every function of `fifo.c`, one step per access to a shared index | |
| `ByteQueue` | abstract: a bounded queue whose three oldest bytes may turn to 0 | `ByteFifo` implements it, `Input` uses it |
| `ByteFifo` | the accessors of `console_task.c` with their 32-bit store | `ConsoleLog` |
| `Cursor` | where the cursor of `console_render` may go, pure | `Console`, `ConsoleLog` |
| `ConsoleLog` | `small_printf` against the loop of `console_render`, color sequences included | composes `ByteFifo` with its users |
| `Terminal` | abstract: a screen of rows that scrolls, shown from its first scroll on | `Console` implements it |
| `Console` | what one symbol does in `console_render` | |
| `Irq` | the PLIC, the trap, `irq_assign`, `irq_enable`, `irq_disable` | `Display` |
| `Scanout` | the doubled registers of `de.c` and the vertical blank of `tcon_lcd_lvds.c` | `Display` |
| `Display` | `dispaly_task.c`, `g2d.c`, the rotations of `doom_task.c`, `usb.c`'s interrupt | composes the thread, `Irq`, `Scanout`, the engine and USB |
| `Twi` | `twi.c` and the register changes of `axp228.c`, the controller and the chip | |
| `Input` | `hid_app.c`, `command.c`, the keys of `doom_task.c` | composes keyboards, ring, shell and doom |
| `Smhc` | `smhc.c`, its controller and an SD card | |
| `DsiHeader` | the header of a packet and its code in `mipi_dsi.c`, pure | `Dsi` |
| `Dsi` | checksums and payloads of `mipi_dsi.c`, pure | `MCBringup` |
| `Clocks` | the dividers of `tcon_lcd_rgb.c`, `twi.c` and `uart.c`, pure | `MCBringup` |
| `..._proofs` | the theorems about `Fifo`, `ByteFifo`, `ConsoleLog`, `Console`, `Display`, `Twi`, `Smhc`, `Input`; those about `DsiHeader` are at the end of `Display_proofs` | |
| `MC...` | values of the constants for TLC | |

Variables keep the names of the code where they have one, and the comment at the head of a module
says what each of the others stands for. Variables marked auxiliary exist for a property only; no
guard reads them, except `printed` in `ConsoleLog`, the bytes that the bounds of a turn are about, and
`served` in `Input`, which is the bound of a behaviour. An operator whose comment begins with "Seeded fault" is
no part of the specification: it is a plausible mistake that, put in the place of the definition it
varies, breaks the property named with it in `PROJECT.json`.

### How the models read the code

`Fifo`. An element is one value: its size, and the `memcpy` of its bytes, are one step of copying.
Each action touches the index of the other side at most once. `fifo_write_more` is called with what
`fifo_get_free_space` reports, as its comment demands of the caller. `fifo_reset` writes both indices
and is a step that neither side may be in the middle of.

`ByteFifo`. The memory is three bytes longer than the array, because the store reaches past it. The
bytes there are never read back; that they belong to another object is left out. The memory holds
anything at the start (`Garbage`): that of the console comes from `tlsf_malloc` and nobody clears it.

`ConsoleLog`. Formatting is left out: a message is any sequence out of `Messages`, without a zero
byte and with an end to each of its colors, as in the formats of `log.h`. (`command.c:90,115` prints a zero for Escape and for a key without a
character; `console_render` shows nothing of it. In the model a zero is a damaged byte, so such messages are left out.) What a symbol does to the column is a choice of the
model (`Moves`: one to the right, nothing, or back), since drawing is `Console`'s business; a row ends with its last
column or a newline. `CursorMovesAsLogged` proves that `Console` does not do anything else. What is printed in one turn
is counted twice: in bytes, for the ring, and in cells of the screen, where a byte is one and a newline a whole row (`Cells`).
`TurnBytes` and `TurnCells` bound it, see below. `due` remembers of each byte whether it belongs to a color
of its message, which is decided by looking at the message and not at what the reader does.

`Console`. A cell stands for the pixels of a character, a row number for the address of its first
pixel. `console_render` is the composition of its parts in the order of the code, one symbol in one
step: nothing interrupts it, and no other code reads the framebuffer in between (the rotation engine
may, and shows at worst a half-drawn symbol for one frame). `max_col_num` makes the clearing
of a row stop at the widest row so far, as in the code. A backspace erases, but only in the row itself.
Until the first scroll sets `src_fb` the rotation reads from address 0 and nothing of the framebuffer is shown; `Terminal`
has this as `lit`. `h_margin` moves what is drawn two rows down from its address, so the panel shows rows from above the screen's
first as well. The nearer of the two is `above`: the row that left the screen last, or a blank one. The farther is where the copies are being drawn, and the status bar
covers it; `Console` leaves it out.

`Irq`. The PLIC's gateway forwards a request once until it is completed. Whether the
store to the pending bit in `irq_enable` has an effect is left open. A store to the PLIC is taken to
be complete when the next instruction begins, so that `irq_disable` does not leave a trap with
nothing to claim: that the claim of nothing (`irq.c:111`) is not reached is this assumption and no result.
`NoStrayInterrupt` is about the order of handlers and enables.

`Scanout` and `Display`. The registers of the mixer are grouped by who writes them, and what matters of them
is how far a group has been written (`"layers_part"` is `de_layer_set` between two stores). At a
vertical blank with `DBUFFER` set they are taken over as they are. The thread's start is modelled
step by step in the order of `display_task_init`: the LCD controller's interrupt, its switching on, the
two commits of `de_init`, the rotation engine, the first rotations, the layers, USB. Of
`tcon_int_handler` the store over the whole of `LCD_GINT0_REG` is kept, enables included.
A start of the engine while it
works may be ignored or may replace the work: the manual says neither. A handler is one step,
because the thread is stopped and the engine's only step it could see is a completion, which before
or after the handler's test comes to one of the orders already there. USB may interrupt for ever.
`tuh_task` is a pair of `irq_disable` and `irq_enable`, and may be called or not. `pipe1` is what `de_pipe` has written
to the blender. That register is doubled like the others; `de_pipe` stores it between two stores to the enable of the mixer and asks for no commit,
so it may be taken over at once or with the commit of the next `display_task_exec`. `DoomLayerOff` is about what was written.

`Twi`. The controller finishes what it was asked for within the millisecond, later, or never; late
means after the driver has gone on, so the completion meets whatever call comes next. What the
hardware does in cases the code does not determine is an assumption: a stop ends the operation
still running, a start asked for and not yet made is made after the stop. The millisecond is a choice: `Failed` may
happen whenever the answer is not there. `data` abstracts the buffers to the one byte that matters
in each phase. A failed read leaves the register's number in the buffer and is written back with
the bits changed, as in `axp228.c`. The address of a read and the byte after it are one step of the driver each: that the store between
them (`twi.c:129`) writes the interrupt bit back, and so starts the byte early, is left out.

`Smhc`. `smhc_init`, `smhc_read` and `smhc_write` are programs of commands: `AfterOk` and `AfterError` say
where a program goes on, `Command` what it sends. `smhc_send_cmd` is modelled wait by wait. A wait may
end by its timeout whenever its condition does not hold, at any moment: timeouts count turns of a loop,
not time. Assumed of the controller: it raises CC only for a command that was answered, a command given while one
is still to be sent replaces it or is ignored, and bits 0 to 2 of `CTRL` drop what is going on.
The card may miss any command that has an answer, its answer may be lost, its data may stop. The two commands without an
answer, GO_IDLE and the deselecting SELECT (`smhc.c:618-621`), are assumed to reach it: CC shows only that they were sent, so with a card that missed
one neither `CardGivenBack` nor `WidthsAgree` could be promised. Reads and writes are made only after
an `smhc_init` that returned `SMHC_OK`. After a data timeout the code resets nothing, so the next
calls meet whatever is left over: `gave_up` marks this until the controller is cleared, and the properties
make no promise for it. `doubt` marks the case where a later command has succeeded in spite of it: after two failures in a row, of which
the second is the clock update that should clear the first, host and card can be left with different widths.

`DsiHeader`, `Dsi` and `Clocks`. Operators, each the function of its name. A header is the set of its bits. Their
references are written from the standards and not from the code: polynomial division for the checksum,
the distance of the code for the header, the frequency asked for for the dividers. Frequencies are in Hz, as in the code.
The search of `tcon_lcd_rgb.c` is that of the two RGB panels; with LVDS and DSI its divider is replaced by a fixed one.

`Input`. A report is a set of keys in any order. A keyboard on which more keys are down than it has room for (`Rollover`), or
can tell apart (`Certain`), may send 0x01 in all six places instead (`TooManyOf`); `hid_app.c` knows no such report, types its bytes as zeroes, stores it in
`prev_report`, and types every key still held again at the next one. Physical keys change only while the program is in
`tuh_task`: nothing looks at them in between, so nothing is lost. `strncmp` compares over the length
of what was typed, so a prefix of a command is a command. `cmd_found` and `cmd_num` are
uninitialised in `console_find_command`, so a command that is not found may report, run another
command, or jump (`pc = "wild"`, where the model stops). `run_command` takes `sizeof` of a
pointer as length; what follows the string in memory is `Junk`.

## What the runs show

| run | instance | distinct states | what it shows |
|---|---|---|---|
| `fifo_spsc` | 4 slots, 2 elements | 301,616 | interleaved at every access to an index, the ring is a bounded queue (`ImplementsQueue`); a stale copy of `read` promises no more than there is (`StaleIsSafe`), so `fifo_write_more` writes all (`MoreWritesAll`); slots being read do not change (`SpanStable`) |
| `bytefifo` | 6 slots, 3 bytes | 69,426 | the 32-bit store damages at most the three oldest bytes, to 0 (`DamageBounded`), and nothing while four slots are unused (`RoomyWriteIsExact`); a read gives the right byte or 0 (`ReadsAreGenuine`); so the ring is a `ByteQueue` |
| `bytefifo_holds` | the same | violation | a ring filled further does not hold what it accepted, against `fifo.c:10` |
| `console_log` | 16 slots, 7 bytes and 8 cells a turn, 3 rows of 2 cells | 225,092 | in the bound, every byte printed leaves the ring in its order, undamaged, and is shown or skipped as its color says; `console_render` returns from its loops |
| `console` | 3 rows of 3 cells, framebuffer of 6 | 649,613 | the console is a `Terminal` that is shown from its first scroll on: scrolling through the framebuffer and the jump back to its start show no wrong row (`ImplementsTerminal`); the new-line ring stays in its memory; the second drawing of a row is complete |
| `console_erase` | the same with backspace | violation | an erased character stays in the second drawing and comes back after the jump |
| `display` | all | 201,185 | a wait of the right sense that began at rest ends exactly when the rotation is complete (`WaitIsExact`), and always ends (`WaitEnds`), also with USB interrupting for ever; completions are acknowledged; no stray interrupt; the mixer never works with half-written layers (`LatchedWhole`), and the wait for the commit of `de_init` ends (`CommitWaitEnds`) although the blank interrupts only once; doom's layer is off when doom is not running |
| `twi` | 3 registers, 5 programs | 403,885 | every call ends whatever the chip does (`CallsEnd`); the bus is given back unless a start has failed (`BusGivenBack`); until a call fails, a change alters its own bits only (`WritesOnlyItsBits`) |
| `input` | 1 keyboard, 2 keys, 3 reports, of two keys or too many | 1.82 million | a key types at most one byte for one press, and at most one more after each report of too many keys (`OncePerPress`); doom does not keep the last key down (`LastKeyReleased`) |
| `input_keyboards` | 2 keyboards | violation | with one previous report for all keyboards, a key held on one is typed again |
| `smhc` | transfers of 1 and 2 blocks | 793,745 | a command that succeeds was acted on by the card and its data is through (`OkIsAnswered`); host and card agree on the width of the bus whenever data passes (`WidthsAgree`); a transfer that succeeds leaves the card in stand-by (`CardGivenBack`); every call ends, or is in the loop of ACMD41 (`CallsEnd`) |
| `bringup` | 14 headers, 256 payloads, the pixel clocks of the 2 RGB panels, 2 bus clocks, 2 baud rates | 276 | one wrong bit of a header can be put right and two are noticed; every checksum is the standard's; the pixel clock is within a hundredth of the panel's and its divider fits its register; the bus clock is exact, the baud rate within a fiftieth |

### Bounds, and why they are enough

- `N = 4` in `fifo_spsc`: three elements fit, both blocks of `fifo_write_more` can be of one or more
  elements, and both indices wrap independently. Two values tell a slot that changed from one
  that did not.
- `N = 6` in `bytefifo`: the smallest ring where a store (4 slots) can find room for itself, hit one,
  two or three unread bytes, and pass the end of the array, all in the same ring.
- `console_log`: `TurnBytes` and `TurnCells` are the most a turn prints. `TurnFits` is the bound the theorems assume and the
  run keeps to: in cells, what one call of `console_render` shows at least before it returns at the end of the framebuffer
  (`row_num + 1` rows, from the last row of the first screen to the last of all), and in bytes a ring that holds two turns (the
  backlog of the turn before, and this one), with two slots for the unused one and for strictness. With 3000 bytes, 78
  columns and 28 rows that is 1499 bytes and 2262 cells, or twenty-nine short lines, a turn. With more in a turn the ring can fill up over
  several turns and bytes are lost; if a color sequence loses its end, `console_render`
  does not return. That is a limit of the code (listed as hazards), and the proofs show that
  within it nothing else is wrong. In the run both halves of `TurnFits` are met with equality (8 cells, all 16 slots), and a
  backlog of nearly a turn does occur.
- `console`: three rows of three cells with a framebuffer of twice the rows: the screen follows the
  text for three rows and jumps; two of the rows are mirrored. `NewLineWords = 8` plays the
  role of the 75 words for which the code allocates memory (its ring is told 300); three rows use
  seven of them, 28 rows use 57, always one more than the framebuffer has rows.
- `display` has no bound: it is finite.
- `smhc`: a transfer of two blocks is the shortest that passes a full or empty FIFO and ends with ACD instead of DTC.
  A block stands for its words; the FIFO holds one.
- `bringup`: the headers are all that `mipi_dsi.c` builds for its panels (65454 is a length that wraps);
  the payloads `<<240, b, 255 - b>>` meet every entry of the table, and each byte meets each state of the low byte it can.
  The pixel clocks are those of the two RGB panels (12 and 54.33 MHz), and `ClocksMet` says nothing of others: `ABS` of an
  unsigned difference takes no clock below the target while there is one above, so for 60.01 MHz the search ends 1.036 % off and for 71.26 MHz
  1.038 %, and with a signed difference it would have found a nearer clock for 54.33 MHz as well. Below 6 MHz it may choose a divider whose double
  does not fit into the seven bits of the register (for 5.9 MHz it chooses 120).
- `input`: `Certain = 1` and `Rollover = 2` with two keys let a keyboard with both down send either kind of report. A keyboard of
  at most two keys never has more down than a report holds, so the guard of `KeysOf` is not put to use here; the proofs have it for any number.

### Fairness, and what justifies it

`ConsoleLog`, `Twi` and `Input` assume weak fairness of the one thread's next step: the hart
executes. In `Input` and `Twi` nothing is assumed of users, keyboards, the controller or the chip. `Display`
assumes that the engine ends what it began, that frames follow each other, that a request reaches the
hart, and that handlers end; a rotation the engine never finishes hangs the code by
construction. For the thread and for the claim of the engine's interrupt it assumes strong fairness:
USB may interrupt at every instruction but one, and the PLIC serves interrupts of equal priority
in the order of their numbers, of which USB's (49 or 50) comes before the engine's (105); that USB leaves
time for others is an assumption about the bus, whose frames are a millisecond apart. `Smhc` assumes weak
fairness of the driver and nothing of the card. `Display` may stop for good: the waits of the wrong sense
(`while(g2d_rot_finish())`, named by `Inverted`) never return when the rotation has already
finished, so the run does not ask for freedom from deadlock, and `WaitEnds` speaks of the other
waits. `Input` stops at `"wild"`, for the same reason without a check for deadlock. The remaining
models have safety properties and refinements only, and are free of deadlock.

## What is proved

`Fifo_proofs`, from `NAssumption` (`N >= 2`) and `ElemAssumption`, for every ring size and set of
elements:

- the inductive invariant `IInv` (`Invariance`) is the type invariant with three parts. `WriterOne` and
  `WriterMore` say, for each position of the writer, what it has already stored and how much room it
  has been shown: the properties alone say nothing of a copy in progress. `ReaderInv` says that
  what the reader has copied is what the slots still hold. `WriterMore` carries the argument about the
  stale index: room by the copy is never more than room by the index, because the reader only
  makes more.
- `TypeCorrect`, `NothingLeftOver` (`MoreWritesAll`), `StaleRoomIsSafe` (`StaleIsSafe`), `ReadsAreStable`
  (`SpanStable`) follow from it;
- `RingIsAQueue`: `Spec => ImplementsQueue`. Each step maps to a step of `Queue` or a stutter: the
  writer's index accepts, the reader's index takes, everything else leaves the queue as it is.

`ByteFifo_proofs`, from `NAssumption` and `ByteAssumption`:

- `DamageBounded` speaks of sets of damaged positions; the inductive form (`SlotBySlot`) speaks of
  each slot: the k-th oldest byte is right, or is one of the three oldest and 0. The lemma
  `StoreReach` is the heart: between the writer's slot and the fourth after it there are the unused
  slot, the end of the array, and at most three of the oldest bytes.
- `TypeCorrect`, `DamageIsBounded`, `RoomyWritesExact`, `ReadsGenuine`, and `RingIsAByteQueue`
  (`SpecRing => ImplementsByteQueue`), on which `Input` rests when it puts a `ByteQueue` in the place of the ring.

`ConsoleLog_proofs`, for every set of messages, every screen and ring in which a turn fits (`TurnFits`); it rests on
`ByteFifo_proofs` for what a byte written or read does to the ring:

- `LogInv` (`LogInvariance`) is the ring's own invariant with three parts. `DueIsPending`: what is in the ring and in the message being
  written is what is due, so nothing was dropped. `DueIsChained`: reading the marks of what is due as the loop over a
  color would gives the same answers, and no color is open at the end; this joins the decision made on whole
  messages to the one the reader makes a byte at a time. `Backlog`: between two calls what is in the ring is what
  this turn printed behind what the call before left over, which is at most what the turn before printed, and something only if
  that call ended at the end of the framebuffer, in which case the next one has a screen and a row before it. During a call what is
  older than this turn still fits into what is left of the framebuffer (`Room`), or is out of the ring (`Behind`). Without the
  place of the cursor it is not inductive: from the last row a call shows one row only. That the bytes left over are a
  tail of one turn is what lets the ring be held to bytes and only the screen to cells.
- `NothingIsDamaged` (`NothingDamaged`), because with that backlog four slots are always unused when a byte is stored;
  `AllIsShown` (`ShowsWhatWasPrinted`); and `SkipHasMore`: the loop over a color never finds the ring empty, which is the safety half of
  `RenderReturns`. The other half, that the thread goes on, is fairness.

`Twi_proofs`, for every set of registers, bits and programs:

- `IInv` says that driver, controller and chip count the bytes of a message alike (`InStep`), that the only operation
  that may come when nobody waits for it is a start that failed (`NoLateStart`), and that the value in
  `data` is the register's while the call is under way (`Faithful`). None of this is in the properties: they speak of
  the end of a call, and hold there because of what was true at each byte.
- `TypeCorrect`, `BusIsGivenBack` (`BusGivenBack`), `OnlyItsBitsChange` (`WritesOnlyItsBits`).
- `CallsTakeFewSteps` (`CallsAreBounded`): a measure of what is left of a call (`StepsLeft`, at most 18) is zero exactly between two calls,
  falls with each step of the driver and is not touched by controller or chip.

`Smhc_proofs`, for every number of blocks: `Clear` says that between two commands the controller knows of none
and that during one its flags are that command's; `WidthIsApp` that the card reads SWITCH as the host meant it;
`SelectedToRelease` that the deselecting command finds the card selected. `TypeCorrect`,
`SuccessIsAnswered` (`OkIsAnswered`), `CardIsGivenBack` (`CardGivenBack`). A second invariant, `WInv`, is about the
width of the bus: host and card may well disagree (a SWITCH that was acted on and not answered, an `smhc_init`
given up half way), but then the card is in a state in which the next command that would lead to data is not answered,
and no command the controller may still hold changes the width again. `BusWidthsAgree` (`WidthsAgree`). `CallsTakeFewSteps`
(`CallsAreBounded`): `Place` numbers the commands so that after success and after error a program goes to a lower one, except in the loop of ACMD41,
and `LeftOfCommand` counts the waits of one command; together they fall with each step of the driver that does not ask the card
again (`AsksAgain`), and no step of the card touches them.

`Display_proofs`, for any numbers of the three interrupts: `Assigned` and `Claimed` (what is enabled has its handler,
and between a trap and its claim nothing is withdrawn), `HalfUnasked` (no commit is open while layers are
written), `Exact` (of a rotation asked of an engine at rest there is one sign only, the flag or the
variable). `TypeCorrect`, `NoInterruptIsStray`, `DoomIsTakenOff`, `NothingHalfIsShown` (`LatchedWhole`),
`WaitsAreExact` (`WaitIsExact`). `WaitsAreRemembered` (`NoWaitForgotten`): while the thread waits for a
rotation the engine is working or its flag is set; then its interrupt is armed, enabled and has `g2d_int_handler`; the PLIC is held by a
claim only while a handler runs; and while it waits for a commit the controller scans. Its invariant (`Awake`) says this also of
every place on the way there, and that no other interrupt's handler switches any of it off.

The last section of `Display_proofs` is about `DsiHeader`: `EveryHeaderIsCorrectable` (`HeadersCorrectable`), for each of the 2^24 headers
where the run looks at fourteen. Each of the thirty bits flips an odd number of check bits (`ColumnIsOdd`), no two the
same ones (`ColumnsDiffer`), and the difference of two odd sets is even (`OddDifference`), so two flips look
neither like none nor like one. It needs one lemma for the sum of two syndromes and one for each kind of bit, in place of a case for
each header.

`Input_proofs`, for all keys, lengths and programs: `TypeCorrect`, and under `OneKeyboard` `TypedOncePerPress`
(`OncePerPress`: at most once for one press, unless a report of too many keys came in between); the run `input_keyboards` shows that the assumption is needed. The invariant is that a
key that was typed since its press and since the last report of too many keys, and is still down, is in the report before or was looked at already in this one. `LastKeyLetGo`
(`KeyIsLetGo`): the frames in which doom may still hold the last key (`FramesLeft`) are three at most and one fewer after each frame, wherever
`frame_cnt` stands from the key before, and only a next byte starts them again.

`Console_proofs`, for every size of screen, cell set and ring (`NewLineWords > row_num_max`): `TypeCorrect` and
`NewLinesInMemory`; and, for symbols without Return and Backspace (`Plain`), `CopiesComplete`
(`MirrorComplete`) and `IsATerminal`: `Spec => ImplementsTerminal`, from the first scroll on and with the row in the margin above. The invariant has two halves. `Bounded` ties
the three counters to each other: the new-line ring holds the rows up to the current one and its index is the row's
plus one. `Cells` says what is blank (`Narrow`, `EndBlank`, `BelowBlank`) and what is a copy
(`Copied`); without `Narrow` the clearing that stops at the widest row so far could leave something behind.
`console_erase` shows that `Plain` is needed for Backspace. A carriage return on a scrolled screen clears the
row it is in (`console_task.c:214`), which a terminal would not do. `CursorMovesAsLogged` (`CursorIsAsLogged`), for all symbols and without
`Plain`: the cursor of `Console` makes only the moves that `ConsoleLog` allows. The two modules were
abstracted from the same function for different questions; this theorem joins them.

Only model-checked: liveness everywhere (`RenderReturns`, `WaitEnds`, `CommitWaitEnds`, `FlagAcknowledged`,
`LastKeyReleased`, `CallsEnd` of `Twi` and of `Smhc`: out of the prover's reach under fairness), and two invariants of
`bringup`: `ChecksumsRight`, which compares numbers by the exclusive or of their bits (`Bitwise`, which the prover cannot read) along the
length of a payload, and `ClocksMet`, the outcome of a search with unsigned differences for the two pixel clocks of the panels.

Of each liveness property what does not need fairness is proved, for every value of the constants:

| property | its safety half | what is left to fairness and TLC |
|---|---|---|
| `RenderReturns` | `SkipHasMore`: the inner loop finds its end in the ring | the thread goes on |
| `WaitEnds`, `CommitWaitEnds`, `FlagAcknowledged` | `WaitsAreRemembered`: what is waited for is under way and will be told | the engine, the frames and the hart go on |
| `LastKeyReleased` | `LastKeyLetGo`: three frames are enough | the loop of doom goes on |
| `CallsEnd` of `Twi` | `CallsTakeFewSteps`: eighteen steps are enough | the driver goes on |
| `CallsEnd` of `Smhc` | `CallsTakeFewSteps`: each step but the asking again is one fewer | the driver goes on, the card gets ready |

## Where code and comments disagree

Three runs end in a violation, each of one sentence of the repository: `bytefifo_holds` (`fifo.c:10`),
`console_erase` (`console_task.c:181`), `input_keyboards` (`hid_app.c:164`). `findings` in `PROJECT.json`
quotes them.

Known limits of the code that are listed as hazards only, because no sentence denies them or because one line of
code shows them:

- the inverted waits of `display_task_init` and of the status bar;
- the records of the rotation engine are filled in `display_task_init` from `console_framebuffer` and `gui_framebuffer`,
  which are allocated after it (`main.c:23-29`): the main screen is rotated from address 0 until the
  first scroll sets its source, the status bar for ever;
- Escape is stored in the command as its end, where `command.c:90` says "Esc ignore";
- a report of too many keys is stored as `prev_report`, and every key still held is typed again (`hid_app.c:181`);
- a request for a report that fails and is never repeated; a first start on the I2C bus that fails and comes late;
- the vertical blank interrupts once: its handler switches it off (nothing in the program needs it again);
- a ready answer of an SD card to ACMD41 that is lost makes `smhc_init` ask for ever, since the card is no longer idle; a
  data timeout resets nothing, and a read that fails leaves the card selected;
- `smhc_clock_set` divides the 600 MHz source as if it had the 24 MHz that `ccu_clk_perip_x1` keeps, and
  `ccu_clk_ahb` is 8 MHz where the comment at `ccu.c:398` says 200;
- `doom_read_fnc` reads past the end of the image;
- uninitialised counters.

## Not modelled, and why

Most of the lines of this repository are data: the WAD image (`doom1_wad.h`, 108,109 lines), the vendor's register
headers, the scaler's table, fonts, and the panels' tables of commands. Of the code, what has no state to get wrong is left out:
straight-line set-up of pins, clocks and phys, drawing, temperature and LED, the parts of
`command.c` and `axp228.c` that only print, exceptions (an endless loop by design). `dmac.c`, `timer.c`, `memmgr.c` and
`cache-c906.c` are not in the build and called by nothing that is. TinyUSB, PureDOOM, tlsf and the fonts are
submodules or vendored and appear as the calls they make. Joystick and composite reports, doom's file functions
and the instruction loop of the DSI host are the code with state of its own that is still left out.

## Plan

1. done: `RingIndex`, `Fifo`, `Queue`, `ByteFifo`, `ByteQueue`, their proofs.
2. done: `ConsoleLog`, `Console`, `Terminal`, `Irq`, `Display`, `Twi`, `Input`.
3. done: `Scanout`, composed with `Irq` in `Display`; USB's interrupt beside it.
4. done: `Smhc`.
5. done: `Dsi` (packets) and `Clocks` (dividers). Open: the instruction loop of `mipi_dsi.c`, which is a fixed
   program of the controller, and its timing registers.
6. open: `Input` with joystick and composite reports; doom's file functions.
7. done: proofs of `Twi`, `Smhc`, `Display`, `Input` and `Console`; of `ConsoleLog` from the
   bound on a turn (bytes for the ring, cells for the screen), of `WidthsAgree`, of the code of the DSI header; of the
   safety halves of the liveness properties; of the cursor that `ConsoleLog` and `Console` share. Open: the
   second row above the screen, which the status bar covers.

## Running

    tlc -config MCFifo.cfg MCFifo
    tlapm Fifo_proofs.tla

and in the same way every run of `PROJECT.json`.
