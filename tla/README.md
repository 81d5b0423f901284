# LRTU3000 firmware: TLA+ models, model checking and proofs

These modules describe the control of the LRTU3000 remote terminal unit: an
STM32H7 running FreeRTOS, with a LoRa modem, an LTE modem, Ethernet, a NOR
flash, digital and analog inputs and outputs, a Modbus port and a soft PLC.
They are translated from the sources under `src/Core/Src` and
`src/PCBPLC/src`. HAL, LwIP, FreeRTOS and cJSON appear only through the way
that code uses them.

## Inventory

| Part | State | Operations | Talks to | What is hard | What makes it correct |
|---|---|---|---|---|---|
| Receive rings (`lwrb.c`, `RxRingProcess.c:118-304`) | buffer, `w`, `r` per ring; the task's notification | `RxRingFiller` (interrupt), drain (task) | UART interrupts, stream parser | interrupt between any two steps of the reader; wake-up | bytes in order, once; nothing left behind |
| UART receive interrupts (`stm32h7xx_it.c`, `dataSendToRxRingFiller`) | DMA-style buffer, `old_pos` | half, full, timeout, error | HAL, rings | position shared and reset only on some paths | a burst reaches the ring exactly |
| Stream parser (`RxRingProcess.c:316-2904`) | line buffer, parser state, modem flags | one character; one line | rings, LoRa and MQTT tasks | answers of two modems interleaved in one parser state | an answer is matched with the command that waits |
| History log (`udpserver.c`) | slots and parameter sector in flash; page counter, overwritten flag, suspension | log a record, five UDP frames, boot, timer tick | default task, UDP thread, timer task, flash | crash between flash steps, wrap, ERASE against a write | packets are the last records, in order |
| Flash driver (`w25q_mem.c`) | the device | read, erase, program | everything persistent | erase and program are not atomic | see log and configuration |
| Deferred saves (`RAK_Lora.c:1021-1178`, `main.c:1191`) | a flag and a wait counter per block | set, decrement, save, refuse, reboot | every task that changes a setting | preemption, semaphore time-out, counter at 0 | no change forgotten, none put off for ever |
| Configuration (`Configuration.c`, `json_parser.c`) | ten blocks in flash and in memory | boot read, default, save, command, factory reset | saves, commands | power failure anywhere; two copies of the calibration | a crash costs at most the block it hit |
| LoRa modem (`RAK_Lora.c`) | AT step, network mode | initialise, query, send, reboot; save the blocks | parser, port | answers the code does not determine | see *Not modelled*; the saves are above |
| MQTT over LTE (`Modem_MQTT.c`, `EC200U.c`) | network statuses, session, command in progress, two semaphores | reboot, connect, check; open, connect, subscribe, publish, sleep | parser; the port it shares with LoRa's answers | answers that come late, shifted, or from the other modem | a status or result is never that of something else; no wait without end |
| File transfer (`OTA.c`, OTA frames of `json_parser.c`, answers of `tcpserver.c` and `Modem_MQTT.c`) | announced checksum and sizes, last acknowledgement, `gPlcRecFlash`, `OTA_store_Data`, three file areas | announce, chunk, verify, accept, save, answer, restart | clients, flash, the default task | repeated chunks, failures that no answer shows, power failures, no semaphore | what is accepted is whole, recorded, and stays so; an acknowledged chunk is stored |
| Modbus (`modbus.c`, `COM_PORT_*.c`) | telegrams, a one-slot mailbox | send a write, answer | ports, register map | the mailbox | see *Not modelled* |
| Soft PLC (`pcbplc*.c`) | program, recipe, values of its variables, reload flags | check, load, reload, save the values | files in flash, file transfer, LoRa task's saves, log | a reload while files are sent; two tasks that save one block | what runs is what was accepted; a reload asked for is served |
| DI/DO, RTC, ADC, GPS, BLE, display | values | scan, set | registers | small | see *Not modelled* |

How they interact: the UART interrupts hand bytes to a ring; one task of high
priority drains the rings into the stream parser, which releases semaphores
and sets flags the modem tasks wait for; commands arrive by TCP, MQTT, LoRa,
Modbus and UDP and change settings, raising a flag per block; the LoRa task
saves the flagged blocks under `sendExternalFlashSemaphore`, which the log
and the file transfers also take; the default task runs the PLC and logs.

## Modules

- `LwRb`: index arithmetic and copies of the ring (`lwrb_write`,
  `lwrb_get_free`, `lwrb_skip`...), one operator per function or step of it.
- `RxRing` extends it: `slots`, `w`, `r` per ring, the task's program counter
  and locals. `RxRingFiller` is a whole interrupt; `NotifyTake`,
  `LinearBlock`, `ProcessByte`, `SkipAdd`, `SkipWrap` are the steps of
  `Start_RxRingProcessTask` and `RxRingProcess_buffer` between which an
  interrupt may fall.
- `ByteFifo`: what a ring promises, a bounded FIFO; `RxRing` refines it
  (`Refinement`), blocks parsed but not yet skipped being still queued.
- `RxFiller`: `dataSendToRxRingFiller` under its four callers, for UARTs that
  share the static `old_pos`. Interrupts have one priority, so an action is an
  interrupt. `out` is the part of the UART's current burst that was handed to the
  ring; `aligned` says that `old_pos` was at a boundary of the buffer when the
  burst began and that no other UART's interrupt has moved it since.
- `HistoryLog`: writer (`Begin` to `SavePara`, one step per flash operation or
  assignment to shared state), UDP handlers, timer task, power failures
  (`Crash`) and boot. A slot is two pages; a page holds the number of the
  record, `Blank` or `Mixed` (torn, or programmed twice).
- `FlashFlush`: the save loop of `StartLoraTask`, one action per read or write
  of the shared flag and counter, the setters in both orders found in the
  code (those of the blocks in `PeerItems` run at any point of the loop, as the
  receive task does), the other users of the semaphore, and
  `reboot_device_func`. `raced` remembers that a decrement met the block's last
  setter between its two assignments.
- `ConfigStore`: ten configuration blocks as a few: General, AI_Calibration,
  OTA_store_Data and one or more that behave alike. Settings are version
  numbers. Boot reads in `main`'s order; a save is an erase and a program, and for
  the blocks in `Unsummed` (`gPlcRecFlash`: ten pages, its sum is not tested) the
  first page is programmed first (`FirstPage`) and is all that boot looks at.
- `AtPort`: the LTE modem's port. `seq` and `port` are the two semaphores,
  `cmd` is `Modem_AT_Command`, `cl` is `mqtt[0]`; `tmp` stands for all the
  `..._t` variables, since each is cleared before its query and read before the
  next. `wire` holds the command just sent, `pipe` the lines not parsed yet.
  `Deliver` is the parser on one line: `Gives` is what releases the port,
  `ParseField` and `ParseSession` what stores a result. `Hear` and `Report` are
  the modem: what it answers and reports, as the code expects it.
- `LteTask` extends it with `StartEC200UTask`. Connection and check are tables
  of steps (`ConnectSteps`, `CheckSteps`: command, field it asks for, whether it
  must be good, label jumped to when it is not or no answer comes), which
  `InSteps` walks; reboot and information send without waiting (`BlindStep`).
- `MqttTask` extends it with `StartModem_MQTTTask`: disconnection, opening,
  connection, subscription, publication, sleep. What a pass reads before it has
  the modem (`PassDown`, `PassUp`) is an action apart from taking it.
- `ModemSystem` composes the port, the two tasks, the parser and the modem.
- `FileStore`: what the next two share. `area` is the three file areas of the
  flash, cell by cell: the contents of a file are its version, a cell is a
  chunk sent over TCP (512 bytes), `SectorCells` of them are a sector. `info`
  is what the first page of `gPlcRecFlash` keeps, in memory, `block` that page in
  flash, `image` the copy a task is programming there, `flag` the two reload
  flags. Two copies programmed after one erasure read as `Merged`.
- `OtaServer`: `srv` is the frame being handled and where its handler is. A
  handler is cut where it waits or where power may fail: `Receive`
  (`parse_JSON_frame`), `Garbled` (a frame that does not parse: over TCP the
  buffer of the last answer, `response`, is sent again), `Erase`, `ProgramTcp`,
  `EraseMqtt`, `FillMqtt`, `Verify`, `Accept`, `Save`, `SaveHex`
  (`Ota_File_write_ack`), `Answer` (the two transports). `client` is the other end, which is external: it waits for each
  answer, may repeat what it sent and give up.
- `PlcLoader`: the default task, from `checkFileAvibility` and the two flags
  (`Check`, `Reload`, `Lower`) through `Extract_Alloc` (`Extract`), the two
  files read cell by cell (`ReadCell`) and the note of a new recipe (`Parsed`,
  `SaveNote`, `WriteRecipe`) to `ReadRecipeFile` (`Restore`); `SaveValues` is the
  LoRa task's save of the values.
- `FileUpdate` composes them with power failures and the restart. `harm`
  remembers what the code does not guard against; see *Assumptions*.
- `RxRing_proofs`, `RxFiller_proofs`, `FlashFlush_proofs`, `ConfigStore_proofs`,
  `ModemSystem_proofs`, `FileUpdate_proofs`, `FileClient_proofs`: theorems.

## Runs

| Run | Question | Bounds, and why they are enough |
|---|---|---|
| `RxRing` | order, no loss, wake-up, progress, refinement | 2 rings of few slots, bursts that overfill them, enough bytes to wrap several times; the second ring is the one a lost wake-up would forget |
| `RxFiller` | exactness of the hand-over; how `old_pos` comes to be inside the buffer, and that it does not stay there | the device's two UARTs, buffers of 4, 9 bytes each: two laps and one byte, bursts of every length, interrupts of the two in any order, line errors anywhere |
| `RxFillerHalf` | the same without its restriction | violated: see *Findings* |
| `HistoryLog` | exactness, damage, order, reboot, suspension | 4 slots in 2 sectors, 9 records (over two laps), 2 frames, 2 power failures |
| `HistoryEraseRace`, `HistoryFullReboot` | ERASE during a write; reboot when full | violated: see *Findings* |
| `FlashFlush` | requests kept, prompt, saved | 2 blocks, 2 changes, one refusal, one reboot; block 1 is also set by a task of the LoRa task's own priority, and any setter may be held up for a pass between its two assignments; delays shrunk to 2 and 3, counters modulo 5 so that a wrap is within reach |
| `ConfigStore` | what a power failure may cost; the two copies of the calibration agree | 4 blocks, one of which (`gPlcRecFlash`) has a sum that is not tested, 2 commands, voltage and current inputs, a factory reset, 3 power failures at any step |
| `ConfigCurrent` | a calibration survives the next boot | violated: see *Findings* |
| `ModemSystem` | sequences exclude each other and end; statuses and results are real | one fault of any kind (time-out before the answer, error, refusal, lost connection, an answer of the LoRa module, a reset), 3 lines under way, 2 message numbers, a reboot after the first pass without connection. One fault already shifts every later answer by one command |
| `ModemShortReply` | a session that counts as connected is | violated: see *Findings* |
| `FileUpdate` | what is accepted is whole, recorded, loaded, kept; acknowledgements; reloads are served | files of 3 cells, 2 to a sector (one full, one half), 2 transfers of any of the three files over either transport, one mishap of any kind: a flash error, a lost or repeated message, a frame that does not parse, a chunk with an odd number of digits, a refused semaphore, a power failure, a save by the LoRa task, a FINISH out of place. A second transfer meets what the first left; a second cell shares a sector, a third does not |

`ModemSystem` was also checked, for its invariants, with 2 faults, 4 lines and 3
message numbers, with reboots after the first pass and after the second (up to
14 million states, nothing violated). Nothing in the code ties an answer to its
request: once enough waits have been given up in a row (5, with 5 lines under
way) the result of an earlier connection is taken for that of the present one.
`ResultIsReal` therefore says that this is the only way: a session counts as
accepted by mistake only if the result of another request was about (`crossed`),
which is a theorem without hypotheses. Two invariants of the run, `AckIsOwn` and
`ConnectedIsReal`, are proved under one hypothesis each (see *Proofs*), which
holds in all 1.9 million states of the run.

`CHECK_DEADLOCK FALSE` where the bounds exhaust every input and the device is
simply left alone (`RxFiller*`, `Config*`, `FileUpdate`).

The type invariants of `RxFiller` and `HistoryLog` are not checked by a run of
their own; both are proved.

## Fairness

- `RxRing`: weak fairness of the task alone (it has a high priority and never
  blocks but on its notification). Nothing obliges a byte to arrive.
- `HistoryLog`: weak fairness of the timer task's tick (`osDelay(1000)` in an
  endless loop). Nothing about frames or records.
- `FlashFlush`: the LoRa task runs when ready, setters finish what they began,
  and the other users of the semaphore give it back. Nothing obliges a change,
  a take or a reboot.
- `ModemSystem`: the modem's lines arrive and are parsed, and each task gets to
  run; a wait ends with its answer or its time-out, both actions of the task.
  Nothing obliges a connection to be granted, a fault or a reconnection.
- `FileUpdate`: the default task and the handler of a frame run when they can,
  and the LoRa task gives the semaphore back. Nothing obliges a client to go on.

## Proofs

`RxRing_proofs`, for every number of rings, size and burst length. Types need
that the write index never passes the read index, so the inductive invariant
states where the bytes between `r` and `w` lie and which numbers they have;
it gives `InOrderOnce` (a byte in a slot is the one the parser expects) and
`NoneLeftBehind` (a ring that is not empty is still ahead of the task or a
notification is pending). `RingsAreQueues` is the refinement of `ByteFifo`: under
the invariant a queue is the run of the accepted bytes not yet freed (`Mapped`),
so an interrupt appends a run to a run and the first assignment of `lwrb_skip`
cuts one in two; every other step leaves both queues as they are. Assumptions:
sizes are positive.

`FlashFlush_proofs`, for every number of blocks, delay and bound:

- `RequestsKept`: `NoLostRequest` is inductive with the types, setters of the
  LoRa task's own priority included.
- `LapseCorrect`: `LapseInv` adds that the counter is not left at `Period`
  when a pass ends.
- `PendingCorrect`, with setters of any priority, held up for any time.
  `PendingInv` says for each block that is not `raced` that a raised flag has a
  counter of at least 1, except for the block the task is testing, and what is
  left of a setter that is half-way leaves it so. A decrement that meets a setter
  half-way (the receive task raises General's flag before its counter,
  `RxRingProcess.c:2443`; a slow setter does the same) may find the counter at 0:
  it wraps, and the save waits until the block is set again. The property says
  that there is no other way to it; a refusal, a reset or a setter that has
  finished never leads there.

`ModemSystem_proofs`: `OneSequenceCorrect`, for any number of faults, of lines
under way, of message numbers and of passes before a reboot. `OneSequence` is
inductive once the network task's record is typed (`LteType`): a sequence
starts by taking `seq`, which no other task is then past, and every way out
gives both semaphores back and sets the command to idle; in between, only the
parser gives the port, and that cannot matter since `seq` is taken.
`CascadeCorrect` needs what a sequence has passed: at each step the fields asked
for before it are good (`CInv`), no later step asks for them again, and a step that
fails gives up at least `gact` unless all that `gact` rests on has been passed
(`ConnectTable`, `CheckTable`, read off the two tables of steps). `TypesCorrect`
adds what the lines on their way may carry (`Lines`), so that what the parser
stores has its type, and that the place in a sequence is one of its steps.

The other three invariants of `ModemSystem` are about answers that are looked at
later than they come. `ResultIsRealCorrect` has no hypothesis: `ResultInv` follows
an acceptance from the broker through the line to the variable, from the moment
the modem has read the request, and `crossed` records the two mix-ups the code
does nothing against: a connection result that was about already
(`ResultAbout`), and the result of a message stored in the same variable while a
connection is polled for (`RxRingProcess.c:2122`). The other two name, as a
hypothesis on the behaviour, one mix-up each: `AckIsOwnCorrect` that a message
never takes a number a result of which is still on its way (`NumberFresh`; the
code's numbers begin again after 2^32); `ConnectedIsRealCorrect` that no report of
an earlier connection is on its way when one is asked for (`ReportFresh`: the
module was closed and answered for it in between). All three rest on `Base`,
inductive without hypotheses: the types, the two invariants above, and
`Requests`, which says what command is under way at each place of the MQTT task.
`AckInv` follows a good result from the broker to the variable; `LinkInv` follows
an acceptance, which is either still true or has the report of its loss behind it
in the same line (`DownFrom`).

`RxFiller_proofs`, for any number of UARTs that share `old_pos`, every buffer
length, number of bytes and line errors. The inductive invariant says, for a
burst that is aligned, that what was handed over is a run of numbers from the
start of the burst, that `old_pos` is at a boundary up to the half transfer and at
the half from there on, and that the cells between it and the position of
reception hold the next numbers. An interrupt of another UART leaves this so or
ends the burst's being aligned; in either case some UART is the cause of
`old_pos` being inside a buffer (`InsideCaused`).

`ConfigStore_proofs`, for every number of blocks, commands, factory resets and
power failures: all six properties of its run. None is inductive, since they
speak of a device that runs and a boot passes through every state in which they
do not hold. The invariant names them: `Shape` (where a write can be under way,
what has been read is valid), `Recent` (versions grow), `Faithful` (a block that
was not hit holds what was stored, and memory nothing older), `Backed` (while
not exposed, a copy of the calibration that could replace the other exists at
every step of a boot, a reset or a save), `Agreed` (the settings in memory are in
flash, in the image being written, or waiting to be) and `Untorn` (with no write
ever cut short, the boots find the two copies alike). `BootRepaired` is about
half-written blocks too: later pages are missing, in flash or in memory, only of
a block whose sum is not tested and that a failure hit.

`HistoryLog_proofs`, for a log and sectors of any size and any number of
records, frames and power failures: the types, and with `~EraseRace` the three
invariants of its run and `RebootKeepsLog` (`HistoryEraseRace` shows that
they need it). The lemmas on `Ordered`, `Exact` and `Damage` say what a reader
with a given page counter, flag and last record finds in a log, and what is left
of it when the counter moves to the next slot or starts a lap. The invariant says
it twice: of the counter in memory (`InMemory`), less the record being written,
and of the counter in flash (`InFlash`), from which a boot would start at that
moment; `Related` keeps the two apart by at most that record. A power failure
that hits a write is held in reserve (`SavedJunk`, `NowJunk`) for the slot it
may have spoilt until that slot is counted; `Tail` says that only the next slot
of a sector in use can be spoilt, since slots after the first are not erased again.

`FileUpdate_proofs`, for files and sectors of any size, any number of versions
and faults and both transports: the types and four of its safety properties. The
server alone writes the files and is sequential, so what it found whole is whole
when it is accepted (`Checked`: the place of the handler, the state of its frame
and `crcMatch` go together); that makes `AcceptedIsWhole` and `InstallsWhole`
inductive. `Saved` adds to `RecordSurvives` what the block and its copies hold
while a task is saving: a change made meanwhile is in the copy, or its author is
about to save. `Loading` follows the loader: what it has read so far is of the
accepted version as long as `clean` holds.

`FileClient_proofs`, under the same freedom: the three properties of `FileUpdate`
that relate what several tasks, the flash and the client know. Each has an
invariant of its own on top of the one above.

- `ValuesCorrect`: `ValuesInv` says of the record in memory and of every copy of
  it a reset could find (`Copy`: the block, or the image being programmed) that
  the values in memory and in flash are of its recipe, unless it carries the
  note that a recipe is still to be extracted. The note is dropped before the
  values are written, hence the exception for a loader that is `Writing`, and for
  a failure in those steps (`harm`).
- `InOrder` is what both other theorems rest on: while the client goes on,
  every frame on its way or being handled is of its transfer, none comes before
  an answered chunk, the chunks before it were answered, and no answer on its
  way is for a later one (`Place`, `UpTo`). Answers are those on their way and
  the one kept to be sent again (`Said`): a frame that does not parse says nothing
  that was not said before. Repeated frames, late answers and resets keep it.
- `FinalCorrect`: `FinalInv` follows an acceptance through the save of the
  record to the answer; `crcMatch` is still up only for the file that was
  accepted and saved, and the other task's save carries the same record.
- `AckCorrect`: `StoredInv` says that a chunk that was answered, or will be,
  is stored, or is the one being written again, or over TCP that a refusal is on
  its way; and over TCP that the sector (of a program or recipe, the area) of such
  a chunk holds nothing but this transfer. An erasure for chunk k then takes no
  other chunk: by `InOrder` those answered are not after k, and k is the first of
  its sector (`SectorFirst`); a chunk that erases nothing lands on clean cells,
  since the one before it was answered and shares its sector (`SectorNext`).

These invariants were first checked by TLC, with their quantifiers bounded: on the
states of the run, with two mishaps, and in simulation with up to 6 mishaps,
4 cells and 5 versions.

Only model-checked: liveness (`EveryByteParsed`, `EventuallySaved`,
`GeneralSavedAgain`, `SuspensionEnds`, `Releases`, `FlagsServed`), which the
prover cannot reach. Every other property of a passing run is a theorem, under
the hypotheses named above.

## Findings

1. A burst that ends on the half transfer leaves `old_pos` in the middle; the
   next one is handed over with stale bytes (`RxFillerHalf`).
2. ERASE is not excluded from a record being written (`HistoryEraseRace`).
3. A reboot when the log is exactly full forgets it (`HistoryFullReboot`).
4. Calibrating point 4 of a current input does not survive a boot and spoils
   point 3 (`ConfigCurrent`).
5. A connection report without return code (a packet that could not be sent)
   is read as one that was accepted, and the session counts as connected
   (`ModemShortReply`).

Seen while modelling, without a run of its own:

- `old_pos` is shared by two UARTs: an interrupt of one during a burst of the
  other may make that one reach the ring with bytes missing, repeated or stale.
  `EveryBurstExact` fails at once with two; the run shows what remains true;
- the sum of `gPlcRecFlash` is computed and not tested (`Configuration.c:1404-1435`
  is commented out): power that fails after the first of its ten pages leaves a
  block that boot takes as valid, without the recipe's values (`BootRepairs`
  excepts it);
- an input type set by CONF is replaced at boot by the one in AI_Calibration
  (`BootKeepsCalibration` fails with `TypeConfig` and voltage inputs).

In the modem tasks:

- any line releases the port while the SIM is asked for
  (`RxRingProcess.c:1155`), so the answer and its OK release it twice and
  later waits end before their answers;
- a prompt that comes after its wait leaves the modem waiting for a payload:
  it swallows the next command;
- `network_reconnectCount` is reset only in a pass that begins connected: past
  3600, every pass connects and asks for a reboot, the next one reboots and
  clears the status, and so on (`EC200U.c:125-149`);
- a reboot leaves the session's status as it was (the assignment is commented
  out, `EC200U.c:132`), so `ConnectedIsReal` excepts it;
- `sleep_enable` is never cleared (`Modem_MQTT.c:258`): after its first pass
  in a session the task neither publishes nor reconnects;
- the flags of what is to be published are cleared before it is published, and
  the result of the subscription is ignored.

In the file transfers and the reload:

- the note that a new recipe was extracted is saved before its values
  (`pcbplc.c:1066-1073`): after a failure in between, the old values are used
  with the new recipe for good, although `pcbplcService.h:91` promises the
  update. The note is also consumed when another recipe is accepted while one
  is read, and a save by the transfer may write it early;
- `gPlcRecFlash` has one copy: a failure while it is saved, by a repeated
  verification say, forgets program and recipe; the transfer saves it without
  the semaphore, so it and the reload may save the sector at once;
- a verification repeated between the lowering of the flags and
  `Extract_Alloc` makes that reload be skipped, and with one flag left up the
  next one needs a new recipe; boot lowers `PLC_RPOG_Flag` unconditionally; a
  semaphore refused for 500 ms leaves no program with the flags already lowered
  (`pcbplcService.c:43` has a TODO);
- `tRetVal` is shared by the two loops of `PcbPlc_FileReadAndParse`: a program
  that does not decode counts as decoded when the recipe does; the files are
  read again without a checksum;
- a chunk with an odd number of digits is not written, and its answer is that of
  the erasure or of the frame before (`OTA.c:169`, `221`, `284`); a frame that does
  not parse is answered over TCP with the answer before (`tcpserver.c:134-159`),
  once for each segment it came in;
- of the chunks sent over MQTT the result of the write is ignored: a program's
  answer comes from the erasure or from an uninitialised variable, a recipe's
  and an image's is the previous one; a second verification that succeeds does
  nothing for a program or recipe.

In the RS-232 port and the LoRa task, which are not modelled:

- `pcbplc.c:5497-5545` fills the mailbox field by field with the flag last, but
  `COM_PORT_RS232_1.c:142-165` lowers the flag before it copies: a write put
  there in between is mixed with the one before;
- the acknowledgement of a write (`modbus.c:2072`) is set without a look at the
  answer, and a late answer ends the next wait;
- `lora_network_Mode` is read as soon as its query is sent: it is the previous
  answer. The publication reuses the Modbus answer buffer and is sent for any
  frame with function 3, whatever its slave address.

That the MQTT task always gets to its sleep is not stated: with a parser as
slow as one likes, answers can stay one command behind for ever.

## Assumptions of the models

- `RxRing`: one interrupt at a time (equal priorities), so a burst is one step.
- `HistoryLog`: the log has a single writer, under the semaphore; a time-out of
  the semaphore drops the record and changes nothing. GET_PACKET reads under
  the semaphore. The UDP thread and the default task share a priority and are
  time-sliced. The parameter page is not torn within a page.
- `FlashFlush`: a save writes a block in one step (what power failures do to it
  is in `ConfigStore`). `MaxHeld` bounds how many passes a setter can be kept
  from running between its two assignments; the theorems hold for any bound.
- `AtPort`: the parser takes whole lines (their assembly from bytes is not
  modelled) and a line is read in one step. The modem answers commands in order
  and reads one only when it is sent; times are not modelled, so a time-out may
  happen at any moment of a wait and costs a fault if the answer was coming.
  `Pro_Application_flag` is 0.
- `ConfigStore`: a page is programmed whole or not at all. A block whose 8-bit sum
  is tested and that lacks a page is found out (one in 256 would not be); a block
  of which nothing is programmed has no check byte. The sum of `OTA_store_Data` is
  not tested either, but its 212 bytes are one page. The size of the structures
  does not change.
- `FileStore`: a file is right when every cell holds the announced version; the
  code compares an 8-bit sum, which one wrong file in 256 passes. A cell that was
  being programmed when power failed is not torn further, and a failed
  programming leaves the cell as it was. All that is kept here of `gPlcRecFlash`,
  and all that its reading checks, is in its first page; the recipe's values in
  the others are `vals` and `recipe` of `PlcLoader`. Of two saves that overlap the
  record keeps the fields they agree on; the bitwise AND of two lengths or sums
  fits no file. The client and the power supply are external; a TCP client opens
  a connection for each transfer.
- `FileUpdate`: three exceptions name what the code does not guard against, and
  the properties are stated without it: `unseen`, a chunk not written that no
  answer shows; `harm`, a save cut short (of the block or of the values) or made by two
  tasks at once; `missed`, a reload that was refused or skipped. Each is raised
  only by the step that does it, and everything else is covered.

## Plan

Done: the rings and their interrupts, the log, the saves, the configuration, the
LTE modem's port with its two tasks, and the file transfers with the reload. Worth
doing next: the parser's assembly of lines from bytes and its payload modes, and
with it a run of `ModemSystem` over `RxRing`; the interpreter's timers. Worth
proving next: that `HistoryLog` implements a sequence of the last records cut by
power failures, stated as an abstract specification of its own, and that the
record of the accepted files implements a register changed in one step.

## Not modelled

- The radio of the LoRa task. The code sets the P2P mode up, but its parser
  knows only the reports of the class C mode (`+EVT:RX_C:`), and the results of
  the sends are not looked at: what answers come, and when, is decided by the
  module's firmware, which is not in the repository. A model would be of the
  module.
- The Modbus master on RS-232: the telegrams that read are commented out
  (`modbus.c:2107-2300`), what is left is a mailbox for one write. The slave and
  the telegrams are data processing.
- Of the modem tasks: messages received over MQTT and the JSON commands they
  carry (OTA frames apart), `modem_MQTT_Check` (not called), the second
  publication.
- The PLC interpreter's instructions, `ADC.c`'s floating-point scaling,
  formatting of frames and logs: computations, without interleaving.
- Display, GPS, BLE, RS-485, Ethernet MQTT and Modbus TCP tasks: not started in
  this build.
- Drivers, HAL, FreeRTOS, LwIP, cJSON and lwiperf: third-party code, which is
  most of the repository's lines.
