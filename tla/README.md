# A TLA+ model of the Sonata system

Sonata is an FPGA system around the CHERIoT Ibex core: RTL blocks written for it
(`src/rtl`), vendored blocks (`src/vendor`), simulated devices (`src/dv`) and
bare-metal software (`src/sw`). This directory models the parts whose
correctness depends on concurrency, on failures or on long histories, checks them
with TLC on small instances and proves some of their invariants with TLAPS for
every size.

Contents: [Inventory](#inventory), [HyperRAM](#hyperram), [SPI](#spi),
[USB](#usb), [MMIO](#mmio), [SD card](#sd-card), [File system](#file-system),
[I2C](#i2c), [Ethernet](#ethernet), [Runs](#runs), [Proofs](#proofs),
[Observations](#observations), [Not modelled](#not-modelled), [Plan](#plan).

## Inventory

| Part | State it keeps | Operations and interaction | What is hard | What makes it correct |
|---|---|---|---|---|
| HyperRAM read buffers, `hyperram_rdbuf.sv` | per buffer: line, valid words, fill offset, sequence number; RAM | set up for a fetch, filled by the Upstream FIFO, updated or invalidated by writes and notifications | words of an abandoned fetch, a write during a fetch | a valid word is current; no two buffers hold one line |
| HyperRAM write buffer, `hyperram_wrbuf.sv` | held word, burst base and length, timer | combines writes into bursts; flushes on conflict, read collision, timer | flush in the cycle of a new write; burst limits; wrap | every write reaches memory once, in order, and no read passes it |
| HyperRAM port, `hbmc_tl_port.sv` | request FIFO, burst flag | accepts TileLink requests, issues commands, answers in order | accept and command decided separately | a response per request, with the right data |
| HyperRAM top, `hbmc_tl_top.sv` | FIFOs, notification register, tags | two ports, arbiter, controller on another clock | clock domains, ignored full/empty flags | bursts match fetches, tags match responses |
| SPI core, `spi_core.sv` | divider, clock, shift registers, byte count | start, shift, pause, finish | pausing at byte boundaries, both phases | the device sees exactly the requested edges and bits |
| SPI block, `spi.sv` | FIFOs, CFG, CONTROL, CS | register accesses | FIFO limits against the SPI clock | no received byte lost |
| SPI device, `spidevicedpi.cc` | bits in and out | edges of the wires | answer alignment between transfers | reads return what was answered |
| SPI drivers, `spi.c`, `hal/spi.hh` | loop variables | polling of STATUS | polling for what does not happen | every call returns |
| USB drivers, `usbdev.c`, `usbdev-utils.hh` | buffer pool, device and control state | service loop, send with retraction | the host collects and sends at any time | buffers have one holder, states follow the status stage |
| MMIO templates and HAL, `hal/mmio`, `hal/spi.hh` | cached words | modify fields, commit, blocking write | neighbouring fields, FIFO room | a commit changes its field only |
| SD card driver and card, `sdcard-utils.hh`, `spi_microsd.cc` | command, block, checksums | commands and blocks over SPI | errors in mid-transfer, data like commands, missing timeouts | success means the data are on the medium |
| File system, `filesys-utils.hh` | block cache, handles | mount, search, read, seek | one cache for all, reads that fail half way | reads return the file's bytes |
| I2C driver and devices, `i2c.c`, `i2cdpi.cc` | FIFOs, decoder state, registers | transactions bit by bit | NAK, repeated start, reset in mid-byte | registers are read as selected and written |
| Ethernet driver, `ksz8851.c`, `rv_plic.c` | chip queues, interrupt state | main loop and handler over one SPI block | the handler interrupts and transmits itself | frames whole, in order, none stranded |
| GPIO, `gpio_core.sv`, `pcint.sv`, debouncers | registers, previous input | pin change interrupts | clear against edge, input switch | no change is lost or invented |
| RGB LED, `rgbled_ctrl.sv`, `ws281x_drv.sv` | colours, start-up state, bit timing | set, off, start-up | commands during transfers | each LED shows the last colour |
| Revoker control, `rev_ctl.sv` | go, epoch, interrupt status | start, done, clear | clear against done | each completed sweep is reported |
| RS-485, `rs485_ctrl.sv` | state, counter | drives the transceiver enables | new transmission in the cool-down | never both directions, no bit cut off |
| Timer, `rv_timer.sv`, `timer.c` | time, compare | halves of 64-bit registers | carry between two accesses | no early interrupt, no time going backwards |
| Reset, `rst_ctrl.sv` | counter | PLL lock, button | button against lock | ordered release |
| PWM, SRAM, XADC, debug wrapper, system information | small | registers | little | - |
| Bus fabric, pin multiplexer, register files, PLIC | generated | - | - | - |
| Boot loader, LCD, demos, checks | none of their own | sequential use of the drivers | - | - |

`PROJECT.json` lists every component with its sources and status, and every
hazard at its line with the properties that would catch it. The first fourteen
rows of the table are modelled.

## HyperRAM

Port D (data) and port I (instruction fetch) are two instances of `hbmc_tl_port`.
Each has read buffers; D also has a write buffer and tells I about every write it
accepts. Commands pass a fixed priority arbiter into a command FIFO; the
controller, on another clock, takes write data from the Downstream FIFO and
returns read data, labelled with the sequence number of the command, in the
Upstream FIFO.

| Module | Models |
|---|---|
| `HyperramDefs` | addresses, words with byte lanes, wire records |
| `HyperramRdbuf` | `hyperram_rdbuf.sv`: registers in `rb`, wires as operators, `RdbufClock` |
| `HyperramWrbuf` | `hyperram_wrbuf.sv`: registers in `wb`, `WrbufClock` |
| `HbmcTlPort` | `hbmc_tl_port.sv`: both buffers and the request FIFO, `PortClock` |
| `HbmcTlTop` | `hbmc_tl_top.sv`: two instances of the port, FIFOs, tags, hosts, controller |
| `MCHyperram`, `MCHyperramData`, `MCPort` | environments for TLC |
| `HbmcTlPortProofs`, `HbmcTlTopProofs` | theorems about one port, about the top |

Names follow the code. A wire is an operator of the inputs; a block's registers
are one record; the operator ending in `Clock` is the clock edge of the whole
block. `Tick` is one cycle of everything on `clk_i`; `HbmcStart`,
`HbmcReadWord` and `HbmcWriteWord` are the controller's steps and interleave
freely with it, which stands for every ratio of the two clocks and every
synchroniser delay. `gold` is a history variable: memory as the hosts see it.
Each entry of the request FIFO carries the value it must return (`exp`, `tag`).

What the model leaves out or assumes:

- `d_ready` is 1 (`tlul_adapter_host.sv:113` and the FIFO in front of the ports),
  so the register that holds a refused response is omitted.
- `HbmcWriteWord` waits for an empty Downstream FIFO where the code would read
  rubbish. `DfifoHoldsItsBursts` shows that a write command is only issued with
  its words, so the case does not arise within the checked environments.
- `HbmcReadWord` waits for room in the Upstream FIFO; the code ignores its full
  flag (`hbmc_tl_top.sv:534`) and depends on the ratio of the clocks.
- The first word of a fetch arrives no earlier than `ReadLatency` cycles after
  the command starts, with `ReadLatency + 2 >= ReqDepth` (`TopAssumption`): a word
  that overtook the responses of earlier hits would be lost by
  `hbmc_tl_port.sv:337`. HyperBus access and the crossings take longer.
- Two or more read buffers (the code's port has four); `NumBufs = 1` would make
  `buf_set` degenerate.
- Both sides of the buffer RAM writing one word in a cycle is resolved in favour
  of the HyperRAM side; `FillsSpareValidWords` shows that it does not happen to
  a valid word.
- `wr_buf` (`hyperram_rdbuf.sv:151`) is declared with an initialiser, which in
  SystemVerilog is evaluated once; it is modelled as the continuous assignment that
  the block needs and that the FPGA and Verilator flows make of it.
- The validity flops have no reset. `MCInit` clears them, as FPGA configuration
  does; the run `hyperram_port` and the theorems allow every value.

### Environments

The code has six situations in which it loses, misplaces or duplicates data
(Observations). The passing runs keep the hosts away from them, one named
restriction for each, so that everything else can be shown to be right: of the hazards
behind the restrictions they show nothing. The other specifications in `MCHyperram`
lift one restriction each, and TLC then shows what the code does (the recipes are in
[Observations](#observations)).

| Restriction in `MCHyperram` | Situation kept away from | Lifted in | Observation |
|---|---|---|---|
| `SparesTopWord` | a write burst over the top of the window | `MCWrap` | 3 |
| `DescendsEarly` | a descending write meeting the flush | `MCDescend` | 2 |
| `ReadsLeaveRoom` | a read while a write is held and the Downstream FIFO is full | `MCRoom` | 5 |
| `CompletesBursts` | continuing a maximum length burst with an incomplete last word | `MCPartial` | 4 |
| `Disjoint` or `Phased` | fetching a line while it is written | `MCShared` | 6, 7, 8 |

`DataOnly` switches port I off, `Phased` lets D write what I fetches later, when
nothing is on its way, which is how a loader and the code it loads behave;
`Apart` is the smaller variant of `Disjoint` used for liveness. `MCHyperramData` joins
the two scenes of the run `hyperram`: `code` is `Phased`, `line` is `DataOnly` on one
line.

## SPI

`SpiCore` is the state machine of `spi_core.sv`, `Spi` adds the FIFOs and the
registers of `spi.sv`, `SpiDevice` is the edge handling of `spidevicedpi.cc`, and
`SpiSystem` joins them to the software: the legacy driver (`spi_tx`, `spi_rx`,
`spi_wait_idle`, `spi_set_cs`) or the HAL (constructor, `blocking_write`, chip
select). Each action is a cycle of `clk_i` in which the software makes one
register access or none (`Clock`), so the software is delayed arbitrarily at
every access. `expected`, `answers` and `rx_base` record what the bytes should be.

What the model leaves out or assumes:

- A byte has `ByteBits` (3) bits. The values in `MCSpi` differ from their
  reversals, from each other and from the idle level.
- A register access and its write strobe are one step; the bus adapter keeps
  accesses at least two cycles apart, so no access is overtaken.
- Modes 0 and 3, since the device samples on the rising edge; both bit orders,
  both idle levels of COPI and clock dividers 0 and 1.
- `Init` is the state after CFG has been written and the clock has settled. The
  software reset is made when the block is idle, as the HAL's constructor does.
- The device answers after a command of one byte. Legacy software deselects it
  after `spi_tx` only when the block is idle (`ksz8851.c:164`), after `spi_rx` at once.
- Interrupts, watermarks, loopback and `INFO` are not modelled.
- The code's constants are scaled: transmit FIFO 8 -> 2 with the HAL's idea of it
  8 -> 2, the legacy driver's idea 128 -> 5 with threshold 120 -> 3, receive FIFO
  8 -> 1. The run keeps `spi_tx` within the transmit FIFO, as the theorems do
  (Observations 10); `blocking_write` exceeds it.

## USB

`UsbdevHw` is the block as the drivers use it (external) and the host:
the two FIFOs of available buffers, the receive FIFO, `CONFIGIN` with `RDY` and
`SENDING`, `IN_SENT`, and a host that enumerates the device, gives transfers up,
sends OUT packets and collects IN packets between any two register accesses.
`UsbdevDriver` is both drivers with the loop each one serves (`driver`):
`usbdev.c` with `hello_usb`, and `usbdev-utils.hh` with `usbdev_check`. A step
goes from one access that the host can influence to the next.

- Requests are told apart by the answer they get: descriptor, address,
  configuration, other. Descriptors and data have no content.
- `HostTimeout`: a host gives a transfer up only when the driver has dealt with
  what it received; USB time limits are seconds, the loop takes microseconds.
- `service` of `usbdev-utils.hh` pops the receive FIFO, supplies buffers and allocates
  one in separate accesses (`packet_take`, `supply_setup_buffer`, `supply_out_buffer`,
  `ep0_recv`), and the host may send a packet between any two of them: the entry of the
  receive FIFO that has been popped is free again before the buffers are counted.
- `overwritten` records packets offered on an endpoint whose last one has been
  collected and not serviced. The drivers make such offers, and the legacy driver then
  releases the buffer of the packet on offer (Observations 18). `BuffersHeldOnce`, `ReplyBufferAvailable` and, for the CHERI driver,
  `StateFollowsStatusStage` speak of what happens until then.

## MMIO

`Mmio` has the templates of `mmio.hh` (`mask`, `get`, `set`, `clear`, `bit`,
`bit_mask`, `toggle`, `write`; a word is a set of bit numbers) and every field of every
register of the peripherals, with offset, width and access. `MmioHal` runs them:
fetch, one modifier, commit, on any writable field, while the block changes the
register (`HwUpdate`); and the `Spi` class with its FIFO.

## SD card

`SdCard` is the driver: a function is the sequence of what it does on the bus and
`prog` what is left of it. `Microsd` is the card of the simulation, `spi_microsd.cc`,
and a card with transfers of several blocks (external; the simulated one has none).
Checksums are computed bit by bit as both sides do. A fault flips a bit of data or
checksum on the wire. Blocks have two bytes, chosen so that data look like tokens
and commands; the blocks of one call differ. `FaultyMulti =
FALSE` keeps faults out of reads of several blocks, where the driver hangs
(Observations 13).

## File system

`FileSys` runs `fileSysUtils` on a medium (`Images` in `MCFileSys`): mounting by LBA
or CHS, the block cache with its round robin slot, chains in the FAT, the search of
the root directory with long names, several handles, `file_read`, `file_seek`,
`file_clusters`. A cell stands for a byte, a directory entry or a FAT entry. A block
read may fail after it has overwritten the buffer. A step is one round of a loop;
`scan_entry` reads an entry of a directory and `EntryRead` is what `dir_next` and
`dir_find` do with it (`entryWanted`, `UcsAfter` for the name buffer).

A call may come upon data that are not those of the block it wants, in two ways: the
slot it copies from is taken by a block of the FAT meanwhile (`evicted`), or a failed
read has overwritten the slot and left it its number. A read of a file goes on in the
first case and returns what it copied. Everywhere else what the call does next is
arbitrary, and it ends in the model without a result (`SpoiltReturn`, `spoilt`).
Both happen (`fs_v_evict`, Observations 20). `FileReadsAreRight` covers the first: of
what a read returns only the last block before the end of a cluster may be
wrong.

The driver has no defence against a corrupt volume. What it takes for granted is
`ImagesAssumption`, which TLC evaluates for the media of the runs: sectors are blocks
and clusters a power of two of them, where the CHS address, if used, is the LBA
(`SoundGeometry`); the FAT links the chain of each file, which is long enough for it
(`SoundFat`); the root directory has an end, and its live entries are the files, each
with a short name or with up to four entries of a long one right before it
(`SoundRoot`). Deleted entries, labels and stray parts of long names may be anywhere.

## I2C

`I2cBus` is `i2cdpi.cc`, edge by edge, with the EEPROM, the temperature and the
inertial sensors. `I2cDriver` is `i2c.c` (timing, `i2c_write`, `i2c_read` in chunks
with NAK and timeout), the transactions of `i2c_hat_id.c` and of `i2c_tests.hh`, and
the controller (external, vendored). A reset may come at any point; the EEPROM keeps
its contents.

- On the bus without a HAT the programs are those of the demo, which begin with an
  `i2c_write` to the missing EEPROM, and one that only reads.
- `Prompt`: `i2c_write` looks at the status register before the last byte has gone
  out, a few instructions against nine periods of SCL (Observations 12).
- FIFOs have two entries (four where the bytes of a whole `i2c_write` must fit), a
  chunk at most three bytes, and reads fit the receive FIFO (Observations 11).
- `spc` is the table of the driver. That the registers hold no less than it says
  (`IntervalsAreNotShortened`) is one question, whether it agrees with the guide that
  it was distilled from (`TimingMeetsGuide`) another: it does not (Observations 19).

## Ethernet

`Ksz8851` has two contexts, the main program and the interrupt handler, each with what
is left of the function it is in; they share the chip select, the SPI block (a
transfer started without data keeps it busy) and the chip's DMA mode. The interrupt
controller has the gateway, claim and completion that `rv_plic_handler` uses. The stack
may answer a frame from within the handler. The chip is external: it receives good,
bad and empty frames and sends at any time. Registers are sets of bits, frames have
two fragments, the transmit memory holds `TxMemory` frames.

- `Undisturbed`: no interrupt while the main program has selected the chip with
  interrupts on, that is during the read of TXMIR (Observations 17). Between that read
  and the transmission interrupts are taken (Observations 16).

## Runs

| Run | Question | Result |
|---|---|---|
| `hyperram` | scene `code`: code fetched by I, rewritten by D with every byte mask, fetched again; scene `line`: six requests to one line with tags, buffers given up and refilled while old bursts arrive | responses, buffers, memory and both FIFOs are right; stale words never land on valid ones, tags stay aligned |
| `hyperram_live` | both ports on different lines, both clocks fair | every request is accepted and answered, every write reaches memory |
| `hyperram_port` | one port, arbitrary inputs, unreset validity flops | uniqueness of the match; TLC's counterpart of the theorem |
| `spi` | both drivers, both modes, delays everywhere | bytes cross unchanged, pauses lose nothing, calls return |
| `usb` | both drivers against a host at any speed, one access at a time | buffers have one holder until a collected packet is replaced before its service, states follow the status stage, a reply buffer is there, enumeration ends |
| `mmio` | every modifier on every field; the `Spi` class | other fields are kept, arrays go out whole |
| `sd` | init, reads, writes of one and two blocks, a flipped bit | success means the data are right; commands are never mixed with data; calls return |
| `fs` | six calls on two files and three media, one failing read | reads (but for an evicted block), positions and searches are right |
| `i2c` | the programs on each bus with a reset and a timeout | bytes and registers are right, a read reports absence and a write does not, SDA is stable, rounding shortens no interval |
| `eth` | two frames in, two out, one poll | frames whole and in order both ways, none stranded |
| `fs_v_evict` | reads while the FAT is consulted | violated: Observations 1 |
| `i2c_v_hang` | the demo without a HAT | violated: Observations 12 |

The last two check one property each, which a comment of the repository states and the
code does not keep; the findings in `PROJECT.json` quote it.

Bounds, and why they are enough. HyperRAM: two lines of two words with two buffers
are the least in which a line is evicted, a burst spans two lines, reaches its maximum
length and an address is next to, in, or apart from another line. `NumSeqs` is the
code's 8 (2 in `hyperram_port`, where numbers wrap at once). `TimerMax` 1 instead of 31
makes the timer expire in every position relative to the other events. `MaxReq` (3 and
6) is long enough for: write, collision, flush and read back; or fetch, invalidate,
fetch again, invalidate, fetch. The port's run is cut off after `MaxCycles`; the theorems
do not depend on it. SPI: `MaxFrames` 3 and `MaxSelects` 2 allow a command, an answer
longer than the receive FIFO, and a second selection. USB: six buffers are the least
sufficient number (`EnoughBuffers` with FIFOs of one entry; with five the assertion of
`ep0_recv` fails); three SETUPs enumerate, a fourth meets the status stage of the third,
and two sends make one retraction. MMIO: every field of every register; arrays up to
twice the FIFO. SD: two calls let a failed one be followed by another. FS: three slots
are fewer than the blocks of a chain with its FAT; six calls mount, open two files, seek
and read. I2C: two programs after each other and every address inside, over and beyond
the EEPROM. Ethernet: two frames suffice for one to arrive or be sent while the other
is handled; the transmit memory of one frame is full after the first.

Deadlock is checked in every passing run but `hyperram_port`, which stops at its bound,
and `usb`, where the CHERI driver stops at the assertion of `ep0_recv` once its buffers
are lost to abandoned transfers or to offers over uncollected ones
(`ReplyBufferAvailable` says that nothing else makes it fail). `Finished` in the modules
of the software marks where the bound ends a run.

Fairness. `hyperram_live` assumes weak fairness of `Tick` and of the controller:
clocks do not stop. Since the number of requests is bounded, the fixed priority
arbiter starves nobody; with endless commands of D it could, and no property says
otherwise. `spi` assumes weak fairness of `Clock` and that software inside a call goes
on (`Calling`). `usb` assumes that the service loop runs and that the host goes on until
it has configured the device, but need make no further request; `sd` that a function
runs to its end; `i2c_v_hang` that processor and controller run; `eth` that the
processor runs and takes interrupts and that the chip sends and releases frames.
Nothing forces software to make a call, or anyone to be in time.

Each property of a passing run has a mutant in `PROJECT.json`: a plausible error in
one definition (defined just above it) for which TLC reports that property.

## Proofs

TLC checks small instances; the theorems below hold for every value of the constants
that meets the `ASSUME`s of the modules. Where a theorem needs more of the constants it
says so in an `ASSUME` of its own, with the values of the code next to it here. Each
temporal theorem has the same shape: an inductive invariant holds initially, every
action keeps it, and it implies the property.

**A HyperRAM port** (`HbmcTlPortProofs`), for every number of lines, words, buffers,
sequence numbers, lanes and for every sequence of inputs within their types
(`PortSpec`):

- `PortTypeCorrect`: `PortSpec => []PortTypeOK`. `PortTypeOK` is inductive. The argument
  goes block by block: `RdbufStepType`, `WrbufStepType` and `ReqFifoStepType` show that
  each clock edge keeps the block's registers in range, from `LineRange` and `ModRange`
  (quotient and remainder of an address), `MergeType`, `BufSetType` (the buffer chosen
  exists: `LowestFreeBuffer`) and the guard of the request FIFO (`req_fifo_wready`).
- `OneMatch`: `PortSpec => []AtMostOneMatch`. No two buffers of a port hold one line,
  the fact on which the OR-combined hit tests and `one_hot_enc` rest. It is inductive
  together with `PortTypeOK` (which says that the chosen buffer exists): a buffer is set
  only when nothing matches (`rdbuf_set`), and a notification never gives a buffer a new
  line (`RdbufStepMatch`).

Both rest on `DefsAssumption`, `TimerAssumption` and `PortAssumption` only.

**The HyperRAM top** (`HbmcTlTopProofs`):

- `TagsStayInStep`: `Spec => []TagsFollowReads` when the tag FIFO is at least as deep as
  the request FIFO (`TagFifoFits`; 4 and 4 in the code). Nobody looks at the full flag
  of the tag FIFO, its entry is written a cycle after the request, and writes have no
  tag. The property counts tags; `TagInv` is stronger: the k-th entry of the request
  FIFO, if it is a read, has its tag at the place given by its rank, the number of reads
  up to k (`Rank`, `Matched`). `RankNext`, `RankPrefix` and `RankTail` say what becomes
  of a rank when a request is pushed or popped. Nothing is assumed of the environment:
  no restriction of the runs is used.

**SPI** (`SpiProofs`, `SpiReadProofs`), for every width of a byte, half period, mode,
depth of the FIFOs and sequence of calls, provided that what `spi_tx` sends in one call
fits the transmit FIFO (`FitsFifo`: `spi_tx` reckons with 128 bytes, Observations):

- `SpiTypeCorrect`, `DeviceGetsTheBytes` (`DeviceReceivesWhatIsSent`),
  `ReceivedByteFindsRoom` (`ReceivedBytesAreKept`) and `ClockRests`
  (`ClockRestsBetweenTransfers`) from one invariant, `SpiInv`. The properties speak of
  whole bytes; in between a byte is in pieces, and `SpiInv` says where they are.
  `CoreInv` ties SCK, phase and bit count. `TxInv` accounts for every byte of the
  transfer (`Owed`, `Unloaded`, `MidBytes`, `Todo`) and says that the transmit FIFO
  holds what is expected next. `WireInv` says which bits of the byte under way the
  device has and which `copi_shift` has left. `RxInv` is the account of the receive
  FIFO, with the byte whose room was looked at a cycle earlier. `SoftInv` and `CallInv`
  say in which state of the block each function of the software is at which point. A
  cycle of the core is one of seven events (a bit is sampled, a byte is loaded, a bit is
  shifted, a transfer ends, begins, awaits its first byte, or nothing moves), and each
  part is shown for each event.
- `ReadsGetTheAnswers` (`ReadsReturnWhatWasAnswered`): on top of `SpiInv`, `AnswerInv`
  follows the bits of an answer from the device through CIPO into `cipo_shift`, also
  when the first one was put out by the last edge of the transfer before; `ReadInv`
  follows the byte through the receive FIFO to the caller.

**USB** (`UsbdevProofs`), for every number of buffers, every depth and both drivers:

- `UsbTypeCorrect`: `UsbTypeOK`, in which no FIFO exceeds its depth.
- `StateFollowsStatus` (`StateFollowsStatusStage`). `ProtoInv` says that a request is in
  one place only (receive FIFO, driver, or answered on endpoint 0) and is then the
  host's latest; while its packet is offered, `ctrl_state` is the one of that request;
  once collected, the host has completed it.
- `BuffersAreHeldOnce` (`BuffersHeldOnce`): until a packet is offered over one that was
  collected and not serviced. `HeldInv` gives each buffer one of seven places, pairwise
  disjoint, that together hold all; `Held` says how long a CONFIGIN register still owns
  its buffer (until the collection or the retraction was handled). The drivers do make
  such offers; Observations 18 is what follows.
- `ReplyBufferIsAvailable` (`ReplyBufferAvailable`) when `NumBuffers >= AvSetupDepth +
  AvOutDepth + RxDepth + 3` (`EnoughBuffers`; 32 against 4 + 8 + 8 + 3): by counting the
  places of `HeldInv` at the moment of the reply. One of the three is the packet that
  `service` has taken: its place in the receive FIFO may be filled again before
  `ep0_recv` asks for a buffer.

**File system** (`FileSysProofs`), for every sound volume (`ImagesAssumption`, see
[File system](#file-system)), size of block and of cache, number of handles and sequence
of calls, whichever block reads fail:

- `FileSysInvariant`: `Spec => []FileSysInv`, and from it `PositionConsistent`
  (`PositionIsConsistent`), `FileReadsRight` (`FileReadsAreRight`) and `OpenFinds`
  (`OpenFindsTheFile`). The properties speak of calls that have returned; what makes
  them true is kept while a call is under way, one block at a time, and `FileSysInv`
  says what that is. A valid handle that was not listed stands on its chain
  (`GoodFiles`), which includes the end of a file that fills its last cluster, where
  `currCluster` is no longer looked at. A read has collected the cells from where it
  began to where the handle is (`ReadSoFar`). A seek has walked to the cluster of its
  base (`SoughtSoFar`). A search (`Finding`) has passed no live entry of the name
  (`NotFound`) and has in the name buffer the parts of each long name that it is in the
  middle of (`Collected`), which come last part first; `hasLFN` says whether the entry
  before was such a part. What earlier names have left in the buffer is shown to lie
  behind the terminator.
- The lemmas: `MediumFat` and `MediumHeap` (where the block arithmetic of the driver
  meets the layout of the medium: quotients and remainders of products, `DivModUnique`),
  `BlockEnsured` and `ClusterNext` (the cache: which slots a read leaves as they are,
  also when the slot taken is the one in use), `ObjectReadData` (a round of
  `object_read` gives cells of the chain), `NameInIs` and `NameCollected` (what the
  buffer spells at a live entry).
- `PowersOfTwo`, the arithmetic of the shifts, is an assumption without parameters that
  TLC evaluates: the provers know nothing of exponents.
- `FileSysInv` holds until a call comes upon data that are not those of its block
  (`spoilt`). For `FileReadsRight` that is not the end: `EvictedRead` follows the read
  that goes on after its slot was taken. It is then at the end of a cluster, returns at
  once with what it has or reads no further block, and `NextKeepsReads` shows that at most
  its last block is wrong, whatever comes later. `PositionConsistent` and `OpenFinds`
  speak of states before that, as a position or a search built on rubbish is arbitrary.

**I2C** (`I2cProofs`):

- `RoundingLengthens` (`IntervalsAreNotShortened`): for every clock from 1 MHz to 1 GHz
  (`I2cDriverAssumption`; outside it the clock period in nanoseconds rounds to 0 or the
  times overflow) and every speed, the eight intervals are no shorter than the entries of
  the driver's own table. It is arithmetic: two roundings of the clock period, the
  rounded-up quotients, their 16 bits (`RoundUpDivide`), and the stretched low and bus-free
  times. The entries themselves are not at issue (Observations 19).
- `I2cInvariant`: `I2cSpec => []I2cInv`, for every depth of the FIFOs, EEPROM, chunk
  size, address and length, with timeouts and resets anywhere, and with or without
  `Prompt`. From it `BytesArrive` (`BytesArriveWhole`), `ReadsReport`
  (`OnlyReadsReportAbsence`: an `i2c_read` fails exactly when no device answers, and an
  `i2c_write` reports nothing, also on the bus without a HAT) and the action property `SdaIsStable`
  (`SdaStableWhileSclHigh`). The properties speak of whole bytes and of calls that have
  returned; `I2cInv` says what is true at each edge. `WireOK`: the lines are those of the
  controller's state, the decoder has seen them, and `Phase` gives for each of the 21
  states of the controller the state and the bit count of the decoder and the bits of
  the byte that have arrived (`Prefix`) or have been shifted out and replaced by ones
  (`Ones`): a stop or a repeated start after a read needs the line released, which is so
  because the last byte has become 255 (`Released`). `FmtOK` says which entries may
  follow each other in the format FIFO, and `DriverOK` where in a call the driver has put
  which, and what the controller leaves when it has served them (`Last1`, `Served`).
- The lemmas: a decoder step for each state and each edge of the lines
  (`DriveDataRises`, `DriveSentRises` and the others), a controller step for each of its
  states (`StepPop` and the others), the arithmetic of the bits (`PrefixNone`,
  `OnesFull`), and what each function of the driver keeps (`WriteBytesKeeps`,
  `ReadChunkKeeps`, ...).

**MMIO** (`MmioProofs`):

- `OtherFieldsKept` (`CommitKeepsOtherFields`): each modifier of `BitField` keeps the word
  outside of its field (`WriteOutside`, `BitMaskOutside`, `SingleBitOutside`, for every
  word and value), `FieldInv` carries that from the fetch to the commit, and the layouts
  do not overlap. The last point, `LayoutAssumption`, is a fact about the register maps
  without parameters; TLC evaluates it in the run `mmio`.
- `ArrayIsSent` (`WriteSendsTheArray`) when the TX FIFO has at most 255 entries and the
  array at most 2047 (`FieldsHold`: the level field has 8 bits, the byte count 11;
  `blocking_write` does not check the length). `ArrayInv` says that the bytes written so
  far are those on the wire followed by those in the FIFO, and that the room the function
  still counts on is there. Values pass through the registers as bits; `BitsDiffer` and
  `NumberOfBits` show that nothing is lost.

What is only model-checked, and why:

- All liveness (`hyperram_live`, and the calls of `spi`, `usb`, `sd`, `eth`),
  which this prover does not do.
- The coherence of the HyperRAM interface (`DReadsReturnLastWrite`,
  `IReadsReturnLastWrite`, `MemoryHoldsLastWrites`) and its FIFO accounts
  (`FetchesMatchBursts`, `DfifoHoldsItsBursts`, `FillsSpareValidWords`): they hold under
  the restrictions of [Environments](#environments) and need an invariant over both
  ports, every burst in flight and the memory; `DfifoHoldsItsBursts` also sums lengths,
  whose laws need induction over data. The theorems about a port cannot be cited for the
  two instances in the top, as an instance hides its proofs.
- `SdCard`, `Microsd`: their checksums use `Bitwise`, which keeps them from theorems.
- `Ksz8851`: the frames are flattened sequences of fragments, whose laws need induction
  over data, and the two contexts are sequences of what is left to do, so that an
  invariant has to name every suffix of every function.
- `ReadsReturnTheRegister`: that a byte arrives unchanged the other way, and in the right
  place of the caller's buffer, needs the content of the receive FIFO and the address
  counter of each device in the invariant; what the properties above need of a read is
  only how many bits are out. It also holds only if reads fit the receive FIFO.

## Observations

Where the code and its comments, documents or tests disagree, or where it relies on
something that it does not ensure. Observations 1 and 12 are runs with a finding in
`PROJECT.json`. The others with a recipe are found by TLC when the named configuration is
changed as stated and checks the named property alone; the passing runs and the theorems
say nothing about them.

1. `filesys-utils.hh:215-241`: `object_read` keeps a pointer into the cache while it
   reads the FAT, which may replace that block; the caller then gets FAT entries for
   data (`fs_v_evict`).
2. `hyperram_wrbuf.sv:157`: a write just below the held word that arrives in the cycle
   of a flush replaces the held word, which is then written at the wrong address (comment
   178-179). `MCHyperram_live.cfg` with `CmdDepth = 4`, specification `MCDescend`:
   `MemoryHoldsLastWrites`.
3. `hyperram_wrbuf.sv:104`: `next_addr` wraps in the window, the device's linear burst
   does not. As 2 with `MCWrap`.
4. `hyperram_wrbuf.sv:151`: a burst of maximum length with an incomplete last word is not
   closed; the next contiguous write wraps the length and the buffer waits for ever.
   `MCHyperram_live.cfg` with `Lanes = {l0, l1}`, `MCPartial`: `WritesReachMemory`.
5. `hyperram_wrbuf.sv:259`: while the held burst has timed out and the Downstream FIFO is
   full, a read that does not collide with it lets its command out without the last word
   (comment `hbmc_tl_top.sv:118-120`). As 2 with `MaxReq = 6`, `MCRoom`:
   `DfifoHoldsItsBursts`.
6. `hyperram_rdbuf.sv:106`: `wr_valid` is the OR over all buffers, and a buffer's part
   looks at the validity of the word only (line 197), so a notification for a line still
   being fetched is neither an update nor an invalidation (comment 98-99).
   `MCHyperram_live.cfg` with `MCShared`: `NotificationsAreServiced`.
7. `hbmc_tl_port.sv:244`: a command is requested while its read is held off by a
   notification, so the burst is fetched twice. As 6: `FetchesMatchBursts`.
8. `hbmc_tl_port.sv:122`: the notification is a cycle late, so port I can keep an old
   word. As 6: `IBuffersCurrentAtRest`. The comment at `hyperram_wrbuf.sv:193-195` knows of
   a related limit.
9. `hyperram_rdbuf.sv:210` says "A single bit suffices" for the sequence number; with one
   bit `FillsSpareValidWords` fails (mutant `next_seq_one_bit`). The code has three.
10. `spi.c:34` takes the transmit FIFO to have 128 entries; it has 8 (`doc/ip/spi.md:32`).
    `MCSpi.cfg` with `SendBytes <- MCSendTwo`, `Apis = {"legacy"}`, `TxLens = {5}`,
    `MaxFrames = 5`: `DeviceReceivesWhatIsSent`.
11. `i2c.c:184` waits until a whole chunk has arrived before it takes a byte out; the
    receive FIFO has 8 entries and drops what does not fit, yet the call returns 0.
    `i2c_hat_id.c:114` reads 128 bytes. `MCI2c.cfg` with `Lengths = {3}`:
    `ReadsReturnTheRegister`.
12. `i2c.c:143-144`: "While format is not empty", says the comment, and the loop runs
    while it is empty. A write to an absent device therefore returns 0
    (`MCI2c_v_hang.cfg`: `WriteReportsAbsence`) and leaves bytes in the FIFO, for which the
    next `i2c_read` waits for ever (`i2c_v_hang`: the demo without a HAT). When the FIFO
    drains before the check, the write itself never returns (`MCI2c_v_hang.cfg` with
    `Prompt = FALSE`: `I2cWriteEnds`).
13. `sdcard-utils.hh:415`: a checksum mismatch in a read of several blocks deselects the
    card, and `read_blocks` then sends CMD12 (line 191) and waits for the answer of a
    card that is not listening. `MCSdCard.cfg` with `FaultyMulti = TRUE`: `CallsReturn`.
14. `usbdev.c:367-370` with `442-451`: the host collects the status packet of
    SET_CONFIGURATION after `service_sending` has looked, and its next SETUP arrives before
    `service_recving`: the device never calls itself configured. `MCUsb.cfg`:
    `ConfigurationIsNoticed`.
15. `mmio/spi.hh:35` places the clock divider at bit 16; `spi.hjson:105` has it in bits
    15:0. `MCMmio.cfg`: `DividerReachesTheBlock`.
16. `ksz8851.c:124`: "Wait until transmit buffer is available." The handler may use the
    room between the check (126) and the transmission (137). `MCKsz8851.cfg`:
    `OutputFitsTheBuffer`.
17. `ksz8851.c:126` reads TXMIR with interrupts on. An interrupt between START and the
    filling of the FIFO makes the handler's `spi_wait_idle` wait for ever; elsewhere it
    garbles the read. `MCKsz8851.cfg` with `Undisturbed = FALSE` reaches a deadlock.
18. `usbdev.c:281-298`: `packet_send` offers a packet on an endpoint whose last one has been
    collected and not serviced; `service_sending` (402-407) then releases the buffer that
    CONFIGIN names, which is that of the packet on offer (comment 396-397: "Any packets
    sent? - these buffers may be released immediately."). `MCUsb.cfg`:
    `ReleasedBuffersAreNotOffered`.
19. `i2c.c:14,18`: the tables have 150 ns for the low time and 50 ns for the data setup
    time of the fast mode plus; the programmer's guide that they are "distilled from"
    (`i2c.c:63`) has 500 and 260 (`vendor/lowrisc_ip/ip/i2c/doc/programmers_guide.md:92,99`).
    `MCI2c.cfg`: `TimingMeetsGuide`.
20. `filesys-utils.hh:137`: a block read that fails has overwritten the next slot of the
    cache, which keeps the number of the block that was there; the next request for that
    block takes it for a hit (128; comment 123). `MCFileSys.cfg`: `SlotsHoldTheirBlocks`.

Met while reading, in code that is modelled without the case or not modelled:

- USB: the CHERI driver does not look whether a packet was collected before it offers the
  next; the buffer of an abandoned reply is not reclaimed; the CHERI driver takes all
  received packets in one call, so that it may attribute an old collection to a new
  request.
- MMIO: offsets in `mmio/usbdev.hh` and from `ovrd` on in `mmio/i2c.hh` disagree with
  the blocks; `bit(false)` cannot clear; `hal/spi.hh:61` waits while the receive FIFO is
  not empty and then reads it; `blocking_write` does not check the largest count.
- SD: the simulated card answers CMD24 like a read and ignores the checksum of write
  data; it has no CMD12; deselecting it does not end a write; no loop has a time limit.
- File system: `file_clusters` stores the new offset with the previous cluster; the read of the EBR is
  not checked; a directory that fills its last cluster is read beyond its end.
- I2C: `i2cdpi.cc:111` overrides the NAK of a device; a repeated start does not reset the
  byte count of the devices; the page of the EEPROM wraps at the wrong place
  (`i2c_hat_id.cc:181`); a timeout leaves bytes in the FIFO, and its result is lost when
  another chunk follows;
  `rpi-hat-eeprom.hh:126` leaves the header out of the length.
- Ethernet: the result of `pbuf_alloc` is not checked (`ksz8851.c:223`); the stack, built
  without locking, is called from the handler; `ksz8851_poll` returns nothing and its
  call is commented out (the model calls it all the same).
- SPI: `spi_test.c:32,36,62` deselects straight after `spi_tx`, against `spi.md:323`; a
  START of 0 bytes wraps the count (`spi_core.sv:263`); the completion event fires once
  after reset (`spi.sv:147-157`).

## Not modelled

Generated code (bus fabric, register files, pin multiplexer, PLIC), wiring
(`sonata_system.sv`, FPGA tops, debug wrapper), blocks around vendor primitives (XADC,
clock generation), constants (system information), and programs that only draw, print
or test (LCD, checks, capability tests, CoreMark): see the notes in `PROJECT.json`. The
HyperRAM, USB and I2C controllers, the Ethernet chip and the TileLink adapters are vendored or
foreign and enter as external definitions. In modelled parts: interrupts, watermarks and
loopback of the SPI block; commands of the flash; the writes of `ksz8851_init` that only
configure the chip.

## Plan

1. Theorems: `ReadsReturnTheRegister` on top of `I2cInv`; `OneMatch` for both ports within `HbmcTlTop`, then
   `NoReadPassesHeldWrite` and `DfifoHoldsItsBursts` from their restrictions.
2. Small RTL state machines: `rgbled_ctrl` with `ws281x_drv`, `gpio`/`pcint` with the
   debouncers, `rv_timer` with `timer.c` (refining an atomic 64-bit timer), `rs485_ctrl`,
   `rev_ctl`, `rst_ctrl`.
3. SPI: interrupts and watermarks, software reset during a transfer, calls of length 0.
4. Abstract specifications: a memory with atomic reads and writes implemented by
   `HbmcTlTop` (port D); a byte stream implemented by `SpiSystem`; a block device
   implemented by `SdCard`, which `FileSys` assumes.
