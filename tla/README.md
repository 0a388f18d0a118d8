# silverfox: a TLA+ development

silverfox is the firmware of a radio board built around the ZQ28DR system on chip:
a Cortex-A53 that talks to the world (Ethernet, shell, GNSS receiver, antenna,
eMMC) and two Cortex-R5 cores, R50 and R51, that run the real-time side. A boot
loader on the A53 loads all three cores and the FPGA, and updates the firmware.
Each core runs a FreeRTOS of its own or none: they meet in shared memory and
through inter-processor interrupts (IPI).

This directory models the parts of it that keep state which several actors
touch, or which must survive a power cut. Paths below are relative to `src/`.

* 17 modules of specification (`NrShmQueue`, `ShellForward`, `RingBuffer`,
  `ImageUpdate`, `BootLoad`, `TodPps`, `AntGateway`, `AntFrame`, `GmacRx`, `GmacTx`,
  `EepromPages`, `TrxGain`, the abstract `MsgChannel` and `ByteStream`, and
  `MCImageUpdate`, `MCBootLoad` and `MCTrxGain` with the constants of an instance),
* eight modules of proofs: `NrShmQueueProofs`, `InterCoreProofs` (of `ShellForward` and
  `RingBuffer`), `BootLoadProofs` (of `ImageUpdate` and `BootLoad`), `TodPpsProofs`,
  `AntProofs` (of `AntGateway` and `AntFrame`), `GmacRxProofs`, `GmacTxProofs` and
  `TrxGainProofs` (of `EepromPages` and `TrxGain`),
* 12 runs of the model checker. Where the code does something else than its
  comments or messages say, the property of a run has the exception by name
  (section 6).

## 1. Inventory

| Component | State | Operations | Meets others through | Module |
|---|---|---|---|---|
| Shared-memory queues, `FM_ZQ_bsp/thirdpartlib/nr_shm` | per queue two indices, an accident counter, slots; per core whether initialised | `OamShmSend`, `LogShmSend`, `OamShmRecv`, `LogShmRecv`, `shm_ipc_init_oam` | memory shared by two cores, no lock | `NrShmQueue` |
| Remote shell, `LetterShell/src/shell_export_cmd_a53.c`, `CR5_x/fmsh_ipi_init.c`, `CR5_x/main.c` | IPI status bit, flag or semaphore, the queue | forward, trigger, interrupt handler, receive loop | queue + IPI | `ShellForward` |
| Byte ring, `thirdpartlib/RingBuffer` | `head`, `tail`, 2^n bytes | put, get, peek, discard, size, free space, single and bulk | shared memory (tiny log of the R5) | `RingBuffer` |
| Firmware update, `CA53_BOOT/boot_load/load_img.c`, `fpga.c` | eMMC (header, six modules), boot flash, the uploaded file | `emmc_update_image`, `emmc_update_module`, `flash_update_bootbin` | FTP server replaces the file; both shells run the commands | `ImageUpdate` |
| Loading and starting, `CA53_BOOT/ca53_boot/main.c`, `load_img.c`, `release_rpu.c` | what runs on each core, `ue.conf` | load, check and start each module, create `ue.conf`, the shell's `load_img` and `update_bootbin` | reads what the update wrote; both are driven from one shell | `BootLoad` |
| Time of day, `CA53/a53/uartns550` | UART buffer, `g_gps_info`, baseline, prepared second, calibration counter | PPS interrupt, UART interrupt, task | interrupts against a task; FPGA register | `TodPps` |
| Antenna gateway, `thirdpartlib/ant_ctrl` | return address, "waiting" flag, two kept frames | UDP from the web, UDP from the antenna, escaping | unreliable datagrams from two sides | `AntGateway`, `AntFrame` |
| Ethernet, receiving, `CA53/a53/Lwip/fmsh_gmacpsif_dma.c`, `fmsh_pqueue.c`, `fmsh_gmacpsif.c`, `FM_ZQ_bsp/libsrc/gmacpsu_v1_0/fmsh_gmac_bd.c` | descriptor ring, its buffers, a queue, a semaphore | receive interrupt, `pq_enqueue`, `pq_dequeue`, input task | DMA, an interrupt against a task, lwIP's buffer pool | `GmacRx` |
| Ethernet, sending, the same files | descriptor ring with five counters, the buffers in it | `low_level_output`, `gmacps_sgsend`, `process_sent_bds` | DMA, an interrupt against a task | `GmacTx` |
| Calibration pages, `FM_ZQ_bsp/r5app/freq_offset_calibration`, `r5app/eeprom` | EEPROM pages, copies in RAM | set item, count and reserved word, reset, save, load | EEPROM over I2C, power; the gains read the pages | `EepromPages` |
| Gains, `CR5_0/cr5_0/set_trx_gain.c` | three FPGA registers, what the EEPROM keeps of them | set the transmitter's or the receiver's gain | the calibration pages, the FPGA, power | `TrxGain` |
| FPGA clock, `gps.c: a53_get_gps_info` | a second and a cycle register | read both | hardware that counts on | planned |
| Log task, `CA53/a53/main.c` | none of its own | one message of each queue per tick | log queues | planned |
| Boot loader shell, RTC, EEPROM, network | none that matters | commands | vendor drivers | not modelled |
| Capture and diagnosis commands of the A53 | none that another part relies on | commands by hand | registers | not modelled |
| AT commands, R5 device set-up, vendored code | see section 8 | | | not modelled |

What is hard in each, and what makes it correct:

* **Queues.** Two cores interleave at every load and store; the A53 boots and
  clears a queue that an R5 is reading; all queues of the tables write over
  their oldest messages when full, after which the indices are equal and the
  queue looks empty. Correct: messages arrive whole, in order, once each, until
  an overrun is counted; after one, the newest messages are the ones that
  remain; no slot is written while it is read.
* **Remote shell.** Interrupts merge (one status bit, one flag), come before the
  core is ready, or come between the test and the clearing of the flag.
  Correct: commands are executed in order, and no wake-up is lost in any other
  way than by merging or coming too early.
* **Byte ring.** `head` and `tail` run through 2^32. Correct: it is a stream, and
  what `size` and `free_space` answered is still true when it is used.
* **Firmware update.** A power cut between any two of hundreds of writes; the
  file is read twice, once to be checked and once to be written; the flash is
  programmed after the eMMC. Correct: nothing damaged is stored, a mixture of
  two images can be repaired, the file disappears last.
* **Loading and starting.** Each module is started as soon as it is loaded, and
  none is compared with the others; a failing load ends `main` without a shell.
  Correct: nothing torn runs, a machine that comes up runs one image, one that
  stays down can be repaired, and what is sound on the eMMC does come up.
* **Time of day.** A message that is lost, cut, garbled, late or invalid; a task that is
  late; interrupts between its steps. Correct: what is written to the FPGA is
  the second that begins, and an error of the past is forgotten after two good
  seconds.
* **Antenna gateway.** Answers that are lost, doubled, late, in another order;
  a frame whose bytes need escapes. Correct: a joined answer holds two frames
  that came after the last request, and asking again heals whatever was lost.
* **Ethernet, receiving.** An interrupt and a task share a queue without a lock,
  and its length is incremented by one and decremented by the other; the pool of
  buffers may run dry. Correct: a buffer is in one place at a time, frames reach
  lwIP in order, and none waits when nothing else comes.
* **Ethernet, sending.** The same function gives back what was sent in the
  interrupt and, with interrupts enabled, in the task; it looks for sent
  descriptors among those the GMAC is still working on; both change the same five counters. Correct: nothing is freed
  before it was sent, no descriptor gets lost, everything is freed in the end.
* **Calibration pages.** A page is changed word by word, a word half by half, and
  the checksum is written later, by another command; failing accesses go
  unnoticed. Correct: what is loaded as valid is what somebody saved.
* **Gains.** A binary search over a table in the EEPROM that may not be valid; two
  registers written one after the other. Correct: the gain set is the nearest of
  the table that is not too high, and the two levels stay in a calibrated
  setting all the time.

How the parts interact: the A53's shell task puts a command in a queue
(`NrShmQueue`) and triggers an IPI (`ShellForward`); the R5s put their log in
queues that the A53's log task empties; the R5's tiny log goes through the byte
ring; the boot loader reads from the eMMC what the update commands wrote
(`ImageUpdate`), and those commands are in the shells of the boot loader and of
the application. The gains of the R50 are looked up in its calibration pages
(`TrxGain` extends `EepromPages`). Both halves of the Ethernet driver take their
buffers from lwIP. Time and antenna are services of the A53 that share nothing
with the rest but the FPGA's registers and the network.

## 2. Modules and the code

Every definition that stands for code is listed with its lines in
`PROJECT.json`, under `map`. Operators that a comment calls a mutant are variants
of the definition that follows them, with a fault put in; no specification uses
them. They are there so that one can replace the definition and see the property
fail. Variables carry the names of the source where it has one.

**`NrShmQueue`** is one queue of `nr_shm_oam.c`. Each access to shared memory is a
step: a send stores the length, the payload, the write index and perhaps the
accident counter (`SendBegin`, `SendLen`, `SendPayload`, `SendIndex`,
`SendAccident`), a receive loads the length, the payload and stores the read
index (`RecvBegin` to `RecvIndex`). `OamShm...` and `LogShm...` are copies of each
other but for the return code of an overrun, which the model leaves open.
`ResetHeader` and `ResetSlots` are the `memset` of `shm_get_buf_oam` when the A53
boots under a running R5. Message *k* is `Msg(k)`, in both halves of the slot, so
that a torn message shows. Assumed: shared memory is coherent between the cores,
and stores become visible in the order of the program (the cache maintenance in
the code is commented out, `dsb` is there); a size is never larger than the
segment, and never 0.

**`MsgChannel`** is what a queue promises: a bounded first-in first-out channel.

**`ShellForward`** is the forwarding of shell commands. The queue is taken as
`NrShmQueue` shows it to be: a sequence that disappears from sight when the
write index catches up with the read index. `Forward` and `Trigger` are
`_shell_fwd_r50/_r51`, `Isr` is `Ipi_Irq_Handler_A53`, `SeeFlag` and `ClearFlag`
R50's main loop (a polled flag), `TakeSemaphore` R51's task, `Receive` their one
receive per wake-up, `IpiInit` the clearing of what was pending.

**`RingBuffer`** is `ring_buffer.c`, each load, store and copied byte a step, the
single-byte operations being bulk operations of length 1. `Wrap` stands for 2^32
and is a multiple of `Size`, as there. **`ByteStream`** is what it promises. (What
this module and `AntFrame` have in common with others by name, as `RingInit` and
`FrameInit`, is named after them, because `InterCoreProofs` and `AntProofs` extend
two specifications each.)

**`ImageUpdate`** is both update commands. A module on the eMMC is two chunks,
the first of which holds its header; data is known by the image it came from, or
`Junk`. The steps are the loops of `emmc_update_image`: check five modules, write
the image header (whose chunk overwrites the header of the BOOT module), write
six modules, and after BOOT erase and program the flash. `Cut` and `Fault` may
come at every step and leave a write half done. `Upload` is the FTP server, which
runs besides the application's shell and not in the boot loader. `PassesCrc` takes
the version by which a module is judged as an argument: for BOOT it is that of the
BOOT on the eMMC (`VersionAtHand`), because `version` points into a buffer that has
been refilled from there (`load_img.c:956`, `:959`, `:1023`). The history variable
`unjudged` holds the images whose BOOT was let through that way. An erase that
fails leaves the flash as it was or erased.

**`BootLoad`** extends `ImageUpdate` by the machine around it: what the A53 runs
(`mode`), the step of the loader's `main` or of a command of its shell (`step`),
what each core was started from, and `ue.conf`. `LoadStep` is a call of
`emmc_load_image` in the order of `main` (`After`), `Loadable` its tests,
`CheckConf` and `FillConf` are `check_and_create_ue_conf`, which creates the file
empty and fills it. `LoadCommand`, `LoadBoot`, `ConfCommand` and `RemoveConf` are
shell commands; `update_bootbin` is a single BOOT module followed by `LoadBoot`.
`InUpdate` starts the commands of `ImageUpdate` in the shell that runs, `PowerCut`
is its `Cut` followed by a start, and a cut in the loader; `PowerCycle` an orderly
one. An erased boot flash has no loader to start (`mode = "none"`).

**`TodPps`** is the PPS interrupt (`Pps`), the UART interrupt (`Receive`), and the
task: wait for the semaphore, poll until no more bytes come (`Take`, `Timeout`,
`Copy`), clear the buffer (`Clear`, `Wipe`), parse each frame (`Parse`), compare
with the baseline (`Check`) and prepare the next second (`Add`). A message is two
halves, so that it can be cut: each comes (`Receive`), is lost (`Lose`) or comes with
bytes lost or turned (`Garble`). As the parsers test neither length nor checksum,
such a half (`Noise`) is parsed like any other: it may end a frame or not, leave the
parser in any state, and hold any second of `GarbledAs`, or none. Two history variables
follow it: `misread` says that `total_sec` was read from noise, `misprepared` that the
prepared second was. `XlFrames`, the state machine of the second receiver
type, is a recursive function over the halves in the buffer. The time the task takes is not limited, and a
history variable (`late`) says when it took too long.

**`AntGateway`** is the two UDP callbacks. They run in lwIP's thread, so each is one
action. **`AntFrame`** is the escaping of a frame and its undoing, byte by byte, with
the loop bounds of the code.

**`GmacRx`** is the way of a frame from the GMAC to lwIP. A frame is its number, and
what is followed is the buffer (pbuf) it is in: `pool`, the ring (`slot`), the
queue (`data`), the task, lwIP (`stack`). `Receive` is the DMA; `RecvHandler` is
one pass of the interrupt's loop with all it calls (`Processed` is
`FGmacPs_BdRingFromHwRx`, the refilling is `setup_rx_bds`, and `Alloc` the buffers
that lwIP's pool gives it, in whichever order); the interrupt is on the
task's core, so it is one step that falls between any two of the task. The task
is cut where that matters: the length, the test, the load (`LowLevelInput`), the
store (`Store`) and the reading of the slot (`Take`) of `pq_dequeue`. After two
places hold one buffer the program's behaviour is undefined; `Sound` says that
it has not come to that, and the model stops when it has.

**`GmacTx`** is the other direction, with chains of one or two pbufs, a descriptor
each. `ProcessSentBds(p)` is `process_sent_bds` in the interrupt (`p = "isr"`) and in
the task: `Start`, `Scan` and `Update` are `FGmacPs_BdRingFromHwTx` descriptor by
descriptor, because the GMAC goes on meanwhile, then `Wipe` and `BdRingFree`.
Taking a set (`Update`) and giving it back (`BdRingFree`) are three stores each. The
GMAC reads none of them, so they are one step when the interrupt does not come in
between; where it does (`CutsInUpdate`, `CutsInFree`: before the first, the second or
the third of the task's stores), the task does the remaining ones after it (`GoOn`).
`Sgsend` runs with interrupts masked and is one step. The counters are unsigned
and wrap at `Word`, for 2^32. lwIP lets one task at a time send. Three history
variables name what the code does not prevent: the interrupt fell into the task's
call, at whichever step of it (`raced`), a call began with more to send than was free (`crowded`), and a call
took one of the two descriptors of a frame (`torn`).

**`EepromPages`** is `freq_offset_calibration.c` over `eeprom_main.c`. A command of the
R50's shell is a list of words to write; `WriteU16` writes half a word, or fails.
`ComputeCrc` is the second half of `freq_off_save_page_cfg`, `SinglePageInit` the
loading of one page; the words whose read fails (all of the page, or any one)
keep what the page before left in the local variables, which is where the
compiler puts them again. In `ComputeCrc` a failed read leaves in the buffer what the
stack held, any value of `Residue`, and the checksum is taken of that. A checksum is
the content it was taken of.

**`TrxGain`** is `set_trx_gain.c` on top of it. `SetTxGain` and `SetRxGain` do the
search (`Closest`, with a read of the EEPROM for every look) and list the writes
that follow: of registers (`WriteReg`), then to the EEPROM (`SaveDsa`). `Search` is the
loop of the two search functions as a recursive function of its three local
variables (`Spot`); the table it is given is what a read of each word would return.
`Restart` is a power cut; nothing at start loads the pages or brings the gains back.
`DsaMax` is at most 127, so that twice a place fits a `uint8_t`; the code has 63.

## 3. Runs

| Run | Instance | Shows |
|---|---|---|
| `shm_discard` | 3 segments, write type 0, 5 messages | `TypeOK`; `ImplementsChannel`: step by step the queue is `MsgChannel` with one slot kept free; `AllDelivered` |
| `shm_cover` | 3 segments, write type 1, 6 messages, one boot | `FifoUnlessAccident`, `NoSlotRace`, `EqualMeansEmpty`, `NoPhantomLength`: nothing goes wrong before the accident counter says so; `OverrunKeepsNewest`: what an overrun loses is the oldest part |
| `shell_forward` | one core of each kind, 4 commands, 4 segments | `InTypedOrder`; `BacklogIsSwallowed`: a core is behind by exactly the wake-ups that merged or came too early; `WakeupsDrain` |
| `ring_spsc` | one producer, 4 bytes, indices modulo 8, 10 bytes put | `ImplementsStream`; `AnswersStayTrue` |
| `image_update` | four images (the delivered one too old to be checked, one with a damaged CR50, one with a damaged BOOT), two uploads, two modules written singly, one fault, one cut | `NothingDamagedStored`, `MixtureIsRepairable`, `BootLostOnlyInGap`, `FlashFollows` |
| `boot_load` | the same images; one upload, one fault, one cut, power cycles without bound | `TornNeverRuns`, `DeadIsRepairable`, `OneImageStarts`, `SoundImageInstalled`, `SoundImageBoots` |
| `tod` | 5 seconds, a calibration at every pulse, both receivers, errors printed or not, one garbled half read as one of two other seconds or as none | `RecoversInTwo`, `NoStaleWrite`, `NeverAhead` |
| `ant_gateway` | one client, 2 requests, 2 faults, frames plain, moved or unsound | `NoUnaskedCombo`, `ComboIsRecent`, `AskingHeals` |
| `ant_frame` | all frames of up to 5 bytes between the flags | `Framed`: the flag is where it belongs and nothing foreign gets in; `RestoredUnlessLate` |
| `gmac_rx` | a ring of 2, a queue of 3, 6 buffers, 6 frames | `OwnedOnce`, `CountTrails`, `OnlyUncountedWait`, `DryForGood` |
| `gmac_tx` | a ring of 7, 5 frames of one or two pieces, counters modulo 16 | `FreedWasSent`, `NoLeak`, `AllFreed` |
| `trx_gain` | 3 pages, tables of 4 entries, 3 commands, one failure or cut, one value left on the stack, words of two 4-bit halves | `LoadedWasSaved`, `GainIsFloor`, `OneLevelAtEnd` |

Except in `shm_discard`, where it is a property of its own, the type invariant of
a module is a conjunct of one of these properties.

Why these bounds are enough for what is asked:

* Three segments are the least with which a queue that discards holds more than
  one message; six messages go round it twice, once after an overrun. What does
  not depend on the number is proved for every number (section 5).
* With four commands and four segments a queue of the shell can be overrun, and
  commands can merge before and after that.
* In the ring the indices wrap at twice its size, so both the masked and the
  free-running index wrap, and the run goes through the wrap.
* Of the images, one is the old one, which is never checked, one changes the boot
  version, and two have that version too and a damaged CR50 or BOOT: so a damaged BOOT
  meets an unchecked one on the eMMC, and a checked one. Two uploads are a failed
  and a repeated update, or an update that is replaced while it runs. A cut or a
  fault may fall on any step.
* In the run of the loader one upload is enough: its update may be cut short,
  followed by a start, a failing load, a power cycle, Ctrl+C and the repeated
  update. What a file
  replaced under an update does to the eMMC is in `image_update`.
* Five seconds are an error, two seconds of recovery and one more write; the
  calibration interval only delays what is written, and with an interval of 1
  everything that is ever prepared is written. The garbled half is read as no second,
  as one in the middle, which is ahead, right or behind depending on when it comes, or
  as the last one, which is ahead until the end.
* With two requests the answers to the first may come after the second; two
  faults can double both frames or lose one and double another. More clients only
  change the one return address, about which nothing is claimed.
* A frame goes wrong with three pairs at least (`RestoredUnlessLate`), for which three
  bytes are enough; five leave room for two that are plain, on either side. Of
  256 byte values the code tells four apart.
* Six buffers fill a ring of two and a queue of three and leave one for the task
  or lwIP, so the queue can be full, the pool empty and the ring dry; six frames
  go three times round the ring and twice round the queue.
* A ring of seven has room for the scan to run from unsent descriptors into free
  ones and on to where it began, and for sets of different lengths in the hands of
  interrupt and task; five frames go round it. (In a ring of six `FreedWasSent` held
  without its exception `torn`: the proof could not do without it, and with one
  descriptor more the frame that is freed too early is there.)
* Three commands are an edit, a save and a load, or an edit and a gain, or a gain
  at one end of the tables and one at the other. One failure or cut may fall on
  any access. The values written break the order of a table or open a gap
  between the receiver's two.

Deadlock is looked for in the two runs of the queues and in the ring. The other
models stop when their bound is used up and nothing is left to do, as the system
does, and their configurations say so.

## 4. Fairness

* `NrShmQueue!FairSpec`: a core that is inside a call finishes it, and the
  receiver polls (the log task and the R5 loops do, for ever). Sending is not
  fair: nobody has to send.
* `ShellForward!FairSpec`: after the send comes the trigger, on the same thread;
  each core initialises its IPI once, takes a pending interrupt, and goes round
  its loop. Typing is not fair.
* `BootLoad!BootSpec`, for the update (`GoOnUpdating`): a command goes on while there is power. Nothing makes a
  user give a command, and neither cuts nor faults are fair; the property is
  asked only of a command that begins after the last of them.
* The same, for the loader (`BootStep`): it goes on from step to step, and the wait
  for Ctrl+C ends. Nobody has to press it, or to switch the machine off.
* `AntGateway!FairSpec`: a datagram under way that is not lost arrives, and the
  antenna answers. This is of the outside, not of the code; without it, no
  gateway could promise anything.

* `GmacRx!Spec`: the interrupt is taken and the task runs. What arrives and when
  lwIP or its user frees a buffer is up to others.
* `GmacTx!Spec`: the GMAC sends what it was given, its interrupt is taken, and a
  task that has begun to send goes on. Nobody has to send.
* `TrxGain!Spec` states none: its properties are about safety only.

All are weak: each of these steps stays possible until it is taken.

## 5. What is proved

A theorem holds for every value of the constants its module's assumptions allow,
where a run shows one instance. Every listed property below is also checked by a
run, but for the three that have no name there (marked *).

| Theorem | States | Under |
|---|---|---|
| **`NrShmQueueProofs`** | | |
| `TypeCorrect`, `FifoOrder`, `SlotExclusion`, `EmptyTest` | always `TypeOK`, `FifoUnlessAccident`, `NoSlotRace`, `EqualMeansEmpty` | |
| `LengthUsable` | `NoPhantomLength` | |
| `OverrunLosesOldest` | always `OverrunKeepsNewest` | |
| `DiscardQueueIsChannel` * | the safety part of `MsgChannel` with capacity `NumSeg - 1` | write type 0, no boot |
| **`InterCoreProofs`** | | |
| `WakeupsAreCounted`, `CommandsInOrder` | always `BacklogIsSwallowed`, `InTypedOrder` | |
| `NoSpuriousWakeup` * | a core about to receive has a command, unless its queue overran | |
| `AnswersKept`, `RingIsStream` | always `AnswersStayTrue`; `ImplementsStream` | `OneProducer` |
| `BytesLeaveInOrder` * | what has left is the producer's stream, from its beginning | `OneProducer` |
| **`BootLoadProofs`** | | |
| `OnlySoundStored`, `MixtureHasItsFile` | always `NothingDamagedStored`, `MixtureIsRepairable` | `DeliveredSound` |
| `BootLossHasItsCause`, `FlashIsCurrent` | always `BootLostOnlyInGap`, `FlashFollows` | `DeliveredSound` |
| `RunsOnlyWhole` | always `TornNeverRuns` | |
| `DeathIsRepairable`, `OneImage` | always `DeadIsRepairable`; `OneImageStarts` | `DeliveredSound` |
| **`TodPpsProofs`** | | |
| `TwoGoodSecondsRecover` | always `RecoversInTwo` | |
| `WritesTheNextSecond`, `NeverWritesAhead` | `NoStaleWrite`, `NeverAhead` | |
| **`AntProofs`** | | |
| `NoMoreThanAsked`, `CombosAreRecent` | always `NoUnaskedCombo`; `ComboIsRecent` | |
| `FramesAreFramed`, `RestoredExactly` | always `Framed`, `RestoredUnlessLate` | |
| **`GmacRxProofs`** | | |
| `NoPbufLost`, `LengthNeverAhead` | always `OwnedOnce`, `CountTrails` | |
| `DryRingStaysDry` | `DryForGood` | |
| **`GmacTxProofs`** | | |
| `NothingLost`, `SentBeforeFreed` | always `NoLeak`, `FreedWasSent` | |
| **`TrxGainProofs`** | | |
| `ValidWasSaved`, `GainFound` | always `LoadedWasSaved`, `GainIsFloor` | |
| `LevelsKeepAnEnd` | `OneLevelAtEnd` | |

Two hypotheses are made beyond the assumptions of the constants. `OneProducer`: one
thread puts bytes in a ring, as in the program, whose only ring is the tiny log of
an R5 (two would overwrite each other, section 6). `DeliveredSound`: the image the
machine was delivered with passes the check that every later image must pass;
without it, what is stored is damaged from the start. Both hold in the instances
of the runs.

Hardly any of these properties is inductive. In each module the theorem
`Invariance` (`TypeCorrect` and its lemmas in `NrShmQueueProofs`) proves one that is,
called `IInv`, one lemma per action; the rest follows from it. (A module about two
specifications has two: `BootInvariance`, `RingInvariance`, `FrameInvariance`.) The
arguments:

**`NrShmQueueProofs`.** For every number of segments (one included), both write types,
and any number of messages and boots. That messages come in order needs that unread
slots are intact; that needs that the slot being written is not one of them; that
is arithmetic on two indices modulo `NumSeg`, which says nothing when they are
equal. So the invariant counts: `Lag` is the number of messages published and not
received, `LagBounds` says how large it is at each step of the sender, and
`IndexDistance` that the write index is `Lag` places ahead of the read index, with
no modulus in it. `UnreadIntact` gives the content of the `Lag` slots from the read
index on, `BeingWritten` and `BeingRead` what the two calls under way have done so
far. All of this (`Good`) holds while the queue is `Undisturbed`: no overrun was
counted, and no boot fell into a receive. `StaysDisturbed` says that only a boot
makes a disturbed queue good again. After an overrun `Lag` means nothing any more;
`OverrunLosesOldest` has an invariant of its own (`NewestInv`), counted backwards
from the write index: the slot *j* places behind it holds the *j*-th newest message,
as far back as the read index lies and as there have been messages.

**`InterCoreProofs`, the shell.** For any cores, any length of the queues of at least 2, and
any number of commands. Counting the wake-ups (`Backlog`) says that a core that is
about to receive has something in its queue; the order of the commands says how
much. Neither is inductive without the other, nor both without a third: between
R50's test of the flag and its clearing the flag is still set, so that the
clearing uses up one wake-up exactly (`SeenFlagIsSet`).

**`InterCoreProofs`, the ring.** For every size and every range of the free-running indices
that is a multiple of it. Everything is counted from the bytes that have left: the
*k*-th byte between the indices is number `Len(gone) + k`, those being copied in come
after, those being copied out are the first. The producer writes outside the
content because the room it computed can only grow meanwhile, the consumer reads
inside it because the filling it computed can only grow. What the masking needs is
that two indices less than `Size` apart are different places modulo `Size`, across
the wrap too (`SmallMultiple` and the lemmas after it). The refinement maps the storing of
an index to a step of `ByteStream` and all else to none.

**`BootLoadProofs`, the update.** For any images, any damage to them, and any number of uploads,
faults and cuts. As long as no file was replaced under a command (`raced`), what the
command has found out stays true (`CommandState`): the file is the one whose header it
read, the modules before the one it is at were verified, or written. Each can be relied
on as far as its version lets one ask, but for a BOOT that an unchecked one on the eMMC
has let through (`Accepted`); the images with such a BOOT are remembered (`unjudged`), so
that it stays true when the eMMC changes under it. With that,
nothing else damaged is ever written (`StoreSound`), a mixture never outlives its file
(`Repairable`), and BOOT's header is missing in one place of the command only
(`BootReadable`). While nothing at all is disturbed, the flash and `upboot` agree
(`FlashKnown`).

**`BootLoadProofs`, the loader**, keeps that invariant, because each step of the loader is a step of
the update or leaves what the update relies on (`Aside`), and adds where `main` is
and what it has started: until it ends, each core it has started runs what is on
the eMMC (`Loaded`), as nothing is written in between. An application that comes up
with no file pending found the eMMC whole (`Repairable`), so all its cores run one
image, though nobody compared them. That nothing torn runs needs none of this:
`RunsOnlyWhole` rests on the check at loading alone, and has no hypothesis.

**`TodPpsProofs`.** For any interval of calibration and any number of seconds. One
invariant for each property. No second that the program holds is from the future
(`Past`), whatever is late or cut, but one read from a garbled message; what the pulse
adds is covered by the pulse. That noise is followed from the half it came in through
the frame to `total_sec` and the prepared second, and to nothing else, is half of the
invariant; that a good message wipes it out in two seconds is part of the next. A good
second's time goes from step to step of the task: it is the only frame, then
`total_sec`, then the prepared second and the baseline for the next one (`OnTrack`);
after one good second the baseline is right, whatever it was before, and after two
the time. With NMEA, when all is in time, buffer and frames hold nothing of an earlier
second, noise excepted (`Current`). That a message is the last complete one of the buffer is lemmas
about `StdFrames` and `XlFrames` (the recursion is unfolded for a buffer of one
message; that its result comes from the buffer for any buffer is again an argument
by the shortest counterexample). The proof corrected the bound that the type
invariant gave the calibration counter, which goes to `CaliSecond + 1` when the
interval is 1.

**`AntProofs`, the gateway.** For any clients, requests, losses and doublings.
`web_waiting_combo` is a debt: a request for everything raises it, the answer pays
it. Counted with the answers, it makes the bound inductive (`Balanced`). What is kept
has come since everything was last asked for (`Recent`).

**`AntProofs`, the frames.** For frames of any length. A byte of the message that is not
the second of a pair stands for the byte of the frame at its place less the number
of pairs before it (`Stands`); the escaping builds this relation, byte by byte. The
walk is always at such a byte, and what it wrote is the beginning of the frame
(`Walked`). When it ends with no pair ahead, as many pairs are behind it as there are
in all, so the copy takes each byte from its right place. When a pair is still
ahead, there are fewer behind, and the copy's last byte is taken from before the
message's last, which alone is a flag: the frame received does not end as it
should. The pair cannot be the last byte but one, nor the place the walk stopped
in the middle of, which is where the three pairs come from.

**`GmacRxProofs`.** For any ring, queue and pool, and any number of frames. What the
counters mean holds whatever happens (`Counts`): the queue's length and the lost
increments are its content. Where each buffer is and which frame it holds is known
while no allocation has failed and no slot of the queue was used too early (`InPlace`).
Under that condition the ring is always full (`RingFull`): the interrupt refills as
many as it took, so it never looks at the bit of a free descriptor, and the *m* that
are marked are the first ones from the head and hold the last *m* frames. The places
have no buffer in common (`Owned`) and together they have all (`Cover`), and the frames
are in order along ring, queue and task (`InOrder`). That a dry ring stays dry needs
no more than the counters: nothing is taken from it, so nothing is refilled.

**`GmacTxProofs`.** For any ring, any threshold below its size and any number of frames.
Three layers. The types hold always (`Always`), with a set half taken or half given
back too; that needs the counters to wrap, as they do. As long as the interrupt has not fallen into the task's call, the ring is
three regions that follow one another (`Regions`): what the GMAC has, what is free and
blank, and the one set that somebody has taken; and no set is half way between two of
them (`Whole`). A set that is given back then is the
oldest, so that `FGmacPs_BdRingFree` never refuses it; `NoLeak` is the sum of the three.
As long as, moreover, no call began crowded and none tore a frame, the first region is
whole frames in the order of sending, of which the GMAC has sent a beginning (`Framed`).
`FreedWasSent` needs that a call takes no more than this beginning, although
`FGmacPs_BdRingFromHwTx` counts one thing and takes another: it passes over what is
not sent, counts as many as the GMAC has, and takes as many from the head. `Looks` says
what it has counted after *j* descriptors: at least the sent ones it has seen that were
sent when it began, at most those that are sent now, and behind the region nothing but
the beginning of a frame without end, which is subtracted. So it takes at most what is
sent, if it does not get round to the head again; it does not, because what was not
sent when it began was no more than what is free (`crowded`). What it takes need not
be whole frames: one that is finished behind the scan is not counted while a later one
is. A set that ends inside a frame is `torn`: the descriptor left behind, the last of
its frame, is not marked as used. The next scan passes over it, and when it comes
round to it again takes it for the end of a frame that began with the free ones, so
that it subtracts nothing and takes what is not sent.

**`TrxGainProofs`**, about `EepromPages` and `TrxGain`, for any pages, words and
commands, and tables of up to 128 entries. A checksum on its way to the EEPROM, in
it, or read from it was computed of a content that was saved, or is blank
(`Summed`); so one whose halves agree with a content vouches for it. Of the gains it
says what is still to be written of a command, given what is in the registers
(`Underway`). The binary search is a recursive function. That it is defined on every
`Spot` (`SearchExists`), and that its result is an entry, and in a falling table
the nearest (`SearchIsPlace`, `SearchIsNearest`), is induction over the length of what is
left of the table. The induction rules of the library take an operator as
their parameter, which the provers cannot instantiate; the proofs take the shortest
counterexample instead, which exists because the numbers are well-founded
(`LeastNatural`), and derive a shorter one.

Only model-checked:

* all liveness: `AllDelivered`, `WakeupsDrain`, `SoundImageInstalled`,
  `SoundImageBoots`, `AskingHeals`, `OnlyUncountedWait`, `AllFreed`. Proofs under
  fairness are out of the prover's reach;
* the liveness part of `MsgChannel` in `ImplementsChannel`, for the same reason.

Every invariant and every action property of a run is a theorem.

## 6. Where code and text disagree

A property in the runs leaves room for each of these, where it touches one. For
the first ten, the property without that room is violated in its run.

* `shell_export_cmd_a53.c:19-20` says that a command goes through queue and IPI to
  be executed; each wake-up receives one message (`CR5_0/cr5_0/main.c:271`),
  although one IPI may stand for several sends, or for none if it came before
  `IPI_Init`. A command can stay unread until somebody types another one
  (`BacklogIsSwallowed` counts them).
* `load_img.c:969`: `emmc_update_image` compares boot versions with the eMMC and
  not with the flash, and writes the eMMC first. After a power cut in between,
  the repeated update prints "Boot.bin No need update!" and the flash keeps the
  old boot loader, or an erased one (`FlashFollows` excludes interrupted commands).
* `load_img.c:1023` is to test a module's CRC if its version is new enough. For BOOT,
  `version` points into `boot_header` (`:956`), which `:959` has meanwhile filled with
  the header from the eMMC. Over a BOOT of an unchecked version, a damaged BOOT of a
  checked one is stored and flashed (`NothingDamagedStored` has the exception
  `unjudged`); over a checked one, an old BOOT without a CRC is refused, and with it
  the whole image.
* `gps.c:322-336` and `:389-431`: the comments name a frame's length and fields, but
  neither parser tests length or checksum. A message that lost bytes gives any second;
  if that is kept as the baseline, the second after it is prepared
  (`uartns550.c:330-335`), and the next good message sets the status before it is
  corrected. A pulse in between sets the FPGA to it (`NeverAhead` and `NoStaleWrite`
  have the exception `misprepared`).
* `ant_ctrl.c:227`: the loop that undoes the escapes (comments at `:226-236`) stops
  as many bytes before the end as there are pairs; with three pairs or more, one
  near the end stays escaped and the checksum test fails. `RestoredUnlessLate`
  says exactly which frames are affected.
* `fmsh_gmacpsif.c:84-86` says of the sending function that interrupts are off and
  descriptors available, and `fmsh_gmac_bd.c:627` forbids that the ring's functions
  interrupt each other. `low_level_output` calls `process_sent_bds` with
  interrupts on; when the interrupt falls into it, the set taken first is freed
  second, is refused, and so is every later one; when it falls between the stores of
  the counters (`fmsh_gmac_bd.c:706-708`), it takes the same descriptors again, and
  `HwHead` passes others that nobody counts any more (`NoLeak`, `FreedWasSent` and
  `AllFreed` exclude both, as `raced`).
* `fmsh_gmac_bd.c:658-662` says that the scan for sent descriptors ends at one that
  the hardware has not completed. It passes over it; with more descriptors
  waiting than free it counts free ones in their place, and frames are freed
  before they were sent. And when the GMAC finishes a frame behind the scan and the
  next one ahead of it, one descriptor of a pair may be taken and the other left.
  (`FreedWasSent` excludes both, as `crowded` and `torn`.)
* `fmsh_pqueue.c:58` and `:61`: an interrupt inside `pq_dequeue` can make the length
  forget a frame, which then waits for a later one (`CountTrails`,
  `OnlyUncountedWait`), and, with the queue full, overwrite the slot that is
  about to be read (`OwnedOnce` excludes it).
* `fmsh_gmacpsif_dma.c:403`: a buffer that cannot be allocated leaves a descriptor
  free with its bit for "received" set, and `FGmacPs_BdRingFromHwRx`
  (`fmsh_gmac_bd.c:814`) takes it for a frame although it is not with the hardware
  (`OwnedOnce` excludes it).
* `set_trx_gain.c:93`: with a gap between the receiver's two tables no entry may be
  below the gain asked for, and the index is 248 (`GainIsFloor` has the exception).
* `freq_offset_calibration.c:392` says "page number (5~10)", and a page out of range
  is reported at `:402`, but reset nevertheless. The model resets pages in range.
* `nr_shm_oam.c:193-195` says that a send to a full queue fails; with write type
  1, which all queues have, it goes ahead and hides the whole queue
  (`EqualMeansEmpty` has the exception).
* `ring_buffer.h:64` and `:80` call `put` thread-safe; two producers would
  overwrite each other's chunk. The program has one, and so has the run.
* `uartns550.c:321-331`: when errors are printed, `check_leap_second` returns
  before it keeps the new baseline, and one lost second makes the time invalid
  for good (`RecoversInTwo` is claimed without printing).
* `uartns550.c:363-366`: the first calibration writes 0, because the first valid
  time is only kept as a baseline (`NoStaleWrite` has the exception).
* `ant_link_mgr.c:189`: any message of any web client, even one that is dropped,
  becomes the address that answers go to.
* `ant_ctrl.c:379`: the command byte is looked for before escapes are undone; if
  the length byte needs one, the frame is not recognised (`AskingHeals` counts
  it as lost).

## 7. Plan

Still to be modelled:

1. **`FpgaClock`** (`gps.c: a53_get_gps_info`): a second and a cycle counter read one
   after the other while the FPGA goes on counting. The second is read twice to
   catch a change, but the choice is overwritten with the second read (`:484`), and
   the cycles are read after it (`:486`).
2. **`LogTask`**: the log task over two `NrShmQueue` queues, to bound what is lost.

Every safety property of the runs is proved. What these two modules will claim is to
be proved with them; the log task's bound would rest on `FifoOrder` and
`OverrunLosesOldest`.

## 8. Not modelled, and why

* **FPGA clock, log task**: planned, see above.
* **Boot loader shell, RTC, EEPROM, network port**: command handlers that run alone
  over vendor drivers.
* **Capture and diagnosis on the A53**: started by hand, for one operator, keeping
  nothing that another part uses.
* **AT commands**: nobody calls `pro_at_cmd`, and the ring it sends through is not in
  the repository.
* **R5 device set-up** (converters, clocks, DAC, GPIO): sequences of register writes
  from tables, whose effect is outside the program.
* **Vendored code**: FreeRTOS, lwIP, FatFs, libmetal, LetterShell, the FTP server,
  `FM_ZQ_bsp/libsrc` but for the IPI trigger and the GMAC's descriptor rings, the first-stage loaders, generated
  tables and build tools.

Within the modelled parts, left out are: the `offset` argument of the queues (all
callers pass 0) and the place of a queue in the pool; the sequence check of
`LogAgentRecvTinyLogFromL1c`; in `ImageUpdate` the
replacement of a single module's file while it is read; in `BootLoad` the commands
that load single files from the file system or format it, the second system
behind the band in the EEPROM, and a `load_img` that overwrites the memory of a
running core and then fails; in `TodPps` dates,
positions, initialisation, and a change of the print level while it runs; in
`AntGateway` what the fields of a frame are decoded to, the answer to a report
and the test messages; in `GmacRx` and `GmacTx` initialisation and the PHY, the load
before each store of a ring's counter (an interrupt between the two finds what it would
have found before the load; what the store then undoes of it is no matter, as nothing but
the types is claimed after such an interrupt), the error
interrupt with its reset of the rings, `resetrx_on_no_rxdata` (for old versions of
the GMAC), cache maintenance, and the UDP and TCP demos; in `EepromPages` counts no
page can hold (252 passes the tests at `:102` and `:241`, and one word is then
stored past `calib_data_temp` and `crc_buf`; a negative count passes the first),
two reads of different words that fail in one page, and the printing commands; in
`TrxGain` the raw EEPROM write of the shell and gains that do not fit 16 bits.

Some hazards have no property because nothing in the code is meant to prevent
them: the last module, UE, is not verified before it is written (`load_img.c:938`);
a BOOT module written singly leaves the flash behind (`:888`); a message of length
0 is accepted by the sender of a queue and blocks its receiver
(`nr_shm_oam.c:549`); an answer goes to the web client that wrote last
(`ant_link_mgr.c:189`); a frame goes to the web before its checksum is looked at
(`ant_ctrl.c:381`).
