# TLA+ project for the UAH-OY VLBI back end

The back end samples a radio receiver, packs the samples into VDIF frames in
FPGA logic, moves the frames to memory by DMA and sends each one as a UDP
datagram to a recording host. This directory holds TLA+ models of that path,
TLC configurations that check them on small instances, and TLAPS proofs of what
matters most for every instance. Paths below are relative to `src/Vivado`.

## 1. Inventory

| Component | Source | State | Operations | Correct when |
|---|---|---|---|---|
| Framer `vdif_logic` | `ip_repo/hdl/vdif_formatter/vdif_logic.vhd` | FSM, `word_cnt`, `frame_number_clr`, `data_frame_number_u` | one clock edge | frames are whole, header first, TLAST last; the payload is the FIFO's words; numbers follow the seconds |
| Formatter core | `.../vdif_formatter_v1_0_S_AXI.vhd`, `monostable.vhd` | registers, FIFO, reset stretcher | register access, FIFO push and pop, reset | no word is lost or repeated between the FIFO and the stream; reset reaches both clock domains |
| Seconds counter `axi_sync` | `ip_repo/hdl/axi_sync/sync.vhd` | synchroniser, edge register, `cnt` | clock edge with clear, load, PPS | each PPS counts once; a loaded time advances from its value |
| Observation control | `sw/main.c`, `sw/client.c`, `sw/dma_driver.c` | flags set by the interrupt, buffer number, packet count, threshold, DMA, lwIP | console commands, main loop, interrupt, receive callback | each frame is sent once, whole and in order; the asked number of frames; the loop never hangs |
| Sync driver | `sw/sync.c` | none but the registers | reset, load, `sync_load_timestamp` | the counter takes the whole accepted timestamp and counts from it |
| Formatter driver | `sw/vdif_formatter_drv.c` | shadow copy of the header fields | setters and getters | a field never touches its neighbours |
| AXI-Lite register files | four generated `*_S_AXI.vhd` | handshake flags, registers | write, read | one response per access; a read returns the last write |
| SPI controller and driver | `ip_repo/hdl/axi_spi_3_wire_ctrl/*`, `sw/spi_3_wire_ctrl.c` | shift counters, `busy`, pins | transaction, register write and read | bits go out in order, sampled on the right edge; no write is lost |
| ADC path | `src/data_capture.vhd`, `data_conditioner.vhd`, `upsizer.vhd`, `monostable.vhd`, write side of the FIFO | capture registers, validity pipeline, `byte_sel`, packing register, stretched reset | an edge of either clock | a word is sixteen consecutive samples from after the last reset, and follows the word before it |
| PPS generator | `src/onepps_gen.vhd`, `src/lib_pkg.vhd` | `carrier`, output register | clock edge | the seconds the core detects are even: none missed, none twice |
| TLAST generator | `ip_repo/hdl/tlast_gen_axi4` | counter | clock edge | packaged, not instantiated by the block design |
| Platform | `sw/main.c` from its set-up on, `sw/platform.c` | `seconds_recv`, `pcb_client`, `ResetRxCntr`, the MAC's receive path | set-up steps, time request, poll, timer interrupt, reset of the board | the console opens unless the exchange fails; a receive path that hangs recovers; what the counter shows counts from an answer to this board's own request, over resets |
| Recording host | `src/Matlab/udp_server.m` (repository root) | waiting for the first datagram, or recording | answers the first datagram with the time, records the rest | external peer of both observation and start-up |

Interaction: the ADC path pushes into the formatter's FIFO from a 64 MHz clock;
the framer pops it in the 100 MHz domain and feeds the AXI DMA. The seconds
counter hands its value and its PPS edge to the framer in the same cycle. The
DMA writes one frame into one of two buffers and interrupts; `s2mm_isr` sets a
flag, the main loop sees it, hands the buffer to lwIP without copying it, starts
the DMA on the other buffer and counts. Time enters by a datagram whose receive
callback writes the seconds counter: `main` asks for it once, after its set-up, and keeps
the console closed until an answer came. A timer interrupts every 250 ms and
resets a receive path that hangs. There is one thread; concurrency comes from
the interrupts, the DMA, the MAC, the network and the two clock domains.

What is hard here: the PPS meets a frame at any phase; stalls on both sides of
the framer; two processes (FSM and counter) that must stay aligned; flags shared
with an interrupt; a DMA transfer left over from the last observation; a reset
that is not awaited; statuses nobody reads; a payload read after the call that
sent it; a request that is not repeated, to a host that answers whatever comes
first. `PROJECT.json` lists each hazard at its line with the properties on it.

## 2. Modules

| Module | Models | State and actions |
|---|---|---|
| `FrameStream` | what the framer promises its sink | position in the frame, last delivery; `Deliver`, `Quiet`, `Abandon` |
| `VdifLogic` | `vdif_logic.vhd` | the entity's registers; one step is one clock edge, one operator per VHDL process (`StateProcess`, `PayloadCounter`, `FrameNumberClr`, `FrameCounter`), inputs free at every edge; `beat` is what the sink took |
| `Framer_proof` | - | theorems about `VdifLogic` and about `VdifHeader`, whose fields are wired to its ports |
| `Sync` | `sync.vhd` | synchroniser, edge register, counter; clear, load, PPS level and time free at every edge |
| `OnePps` | `onepps_gen.vhd` in front of `sync.vhd` | the generator's carrier and, of `Sync`, everything; `AdcEdge` and `CoreEdge` are the edges of the two clocks, one or two of the faster between two of the slower; a sample counter says how frames lie in a second |
| `OnePps_proof` | - | theorems about `Sync` and `OnePps` |
| `VdifFormatter` | the core around the framer | instances of `VdifLogic` and `Sync` whose inputs are the FIFO and the PPS edge, a FIFO, a sink that stalls at will, resets at any time |
| `VdifFormatter_proof` | - | theorems about `VdifFormatter` |
| `AdcPath` | `data_capture.vhd`, `data_conditioner.vhd`, `upsizer.vhd`, `monostable.vhd`, write side of the core's FIFO | the registers of the four entities; `CoreEdge` and `AdcEdge` are the edges of the two clocks, in which each entity's processes are one operator each; a sample is the conversion it comes from |
| `AdcPath_proof` | - | theorems about `AdcPath` |
| `Observation_proof` | - | theorems about `Observation`, among them that it implements `Recording` |
| `Recording` | what the back end promises the host | run, frames taken, frames emitted; `Start`, `Take`, `Emit`, `Fail` |
| `RegisterFile` | what a register file promises software | registers, one write and one read under way; `Commit`, `Sample` between request and answer |
| `AxiLiteSlave` | the generated register automaton, lines of the VDIF formatter's copy | the template's registers, one operator per VHDL process; the interconnect at the other end offers address and data in any order |
| `AxiLiteSlave_proof` | - | theorems about `AxiLiteSlave` |
| `SyncDriver` | `sync.c`, the receive callback of `client.c`, registers of `axi_sync` | `pc` names the register access under way; `Receive`, `WriteTimestamp`, `ReadCtrl`, `WriteCtrl`; an instance of `Sync` is the counter they write. It has no next-state relation: `Startup` says who calls |
| `Startup` | `main.c` from its set-up to the console, `start_udp_client_app`, `timer_callback`; network, `udp_server.m` and resets of the board | each step is one bus clock edge in which the counter moves and at most one of main loop (`stage`), interrupt, network, host and operator |
| `Startup_proof` | - | theorems about `Startup` and the accesses of `SyncDriver` |
| `SpiTransfer` | what the SPI master promises | the transaction asked for, what the device saw, the last answer |
| `SpiMaster` | `spi_3_wire_master.vhd` | the process's registers; `Ready`, `Start`, `Wait`, `Toggle`, `Reset`; the ADC at the other end samples and drives by the SPI mode |
| `Spi_proof` | - | theorems about `SpiMaster`, among them that it implements `SpiTransfer`, and about `SpiDriver` |
| `SpiDriver` | `spi_3_wire_ctrl.c` over `..._S00_AXI.vhd` | a call is a script of register accesses, each lasting `Fastest` to `Slowest` edges; enable pulse, status bits, a master busy for `TransferEdges` edges |
| `HeaderFields` | what the header setters promise | value of each field, call under way |
| `VdifHeader` | `vdif_formatter_drv.c` and the port slices of `..._S_AXI.vhd` | words as sets of bits; masks and shifts in tables, slices in another; `ClearField`, `PutField`, `PutWord` |
| `Observation` | `main.c` loop and console, `s2mm_isr`, `dma_driver.c`, `client.c`; external DMA and MAC | `pc` for the statement groups of the loop, the interrupt as one action, words moving through the DMA into two buffers, datagrams queued and sent |

`VdifFormatter` uses `VdifLogic!Edge` and `Sync!Edge` unchanged; its FIFO is the
expression substituted for the framer's input. `Observation` uses the stream of
`FrameStream` (its `Deliver`: words in order, frame after frame, restarted by a
reset), which `VdifLogic` is proved to implement. `OnePps` steps `Sync` with the
generator's level, `Startup` steps it with a PPS at any phase. `SyncDriver` and `SpiDriver`
take a register access as one effect at one edge between request and answer,
which is what `AxiLiteSlave` is proved to implement; `SpiDriver` takes a
transaction as `TransferEdges` busy edges that carry what was captured at their
start, with an answer that comes at the last. `TakesItsTime` is that for
`SpiMaster`, checked by `spi` and proved: an edge for the first toggle and `clk_div`
edges for each of the others, 148 for 24 bits and the divider 3. Definitions whose comment
says *Seeded bug* are not part of any specification: each is a plausible
mistake that must break one property.

## 3. Runs

| Run | Question | Bounds and why they are enough |
|---|---|---|
| `framer` | does the framer implement `FrameStream`, and does every frame end? | frames of ten words (`Frame_length` 5): the eight header words and two payload words, so that the first and the last payload word differ; fields wrap at 2 |
| `seconds` | does each pulse count once, is a second as long as the generator makes it, how many frames fall in one? | a period of 11 and a duty cycle of 3: both longer than the two or three edges the synchroniser needs, the period no power of two so that the carrier's width has room above it; one or two edges of the 100 MHz clock between two of the 64 MHz clock at any phase; the counter wraps at 3, above the one pulse in flight; frames of 5 samples, of which two and a remainder fit into a second of 12, so that a second holds two or three, starting at any sample |
| `formatter` | frame numbers and payload with PPS, FIFO and stalls together; does each PPS show in the stream? | FIFO of two words (empty, one, full), numbers wrap at 3, seconds at 2, three frames or more between PPS edges so that consecutive frames differ by at most one second, and one more because the synchroniser's delay lets a frame end pass before the edge is seen |
| `frame_number` | the comment at `vdif_logic.vhd:229`: is the number cleared only at a new second? | as `formatter`; violated, see section 5 |
| `adc_path` | is the payload whole, fresh and continuous, through resets and a full FIFO? | three samples a word (first, middle, last), a FIFO of one word, one or two core edges in an ADC period, a reset of any length at any phase; conversions numbered modulo 4, releases of the reset modulo 2: the numbers only have to tell neighbours and the last release apart |
| `observation` | whole frames, in order, the asked number, no lost interrupt; does a started observation end? | frames of three words (first, middle, last), two words of skid, observations of one, three and four frames so that both buffers are reused and either can be the last, two observations so that the second meets what the first left; any transfer may fail, any send may fail |
| `registers` | one effect, one answer for each access | two registers and one address without a register, one byte lane with and without strobe; the proof covers every size |
| `spi` | the right bits in every mode, no contention, the edges a transaction takes, busy ends | two command and two data bits (first and last of each), dividers 0 to 2, two devices and an address out of range |
| `header` | do masks, shifts and slices agree? | all sixteen fields; empty, lowest bit, highest bit, full; three calls so that a field is set over its own and a neighbour's old value |
| `startup` | does the counter count from the whole answer, and does the console open, over lost datagrams, a receive path that hangs, resets of the board and restarts of the script? | counter modulo 3: lags of zero, one and two seconds differ; any word as the host's answer, also one too wide, since its clock and the PPS are unrelated; every phase of a PPS against the five accesses of a load; a timer count of 2, so that a look at the receiver and a tick without one both occur; three starts of board and script together, so two of either: a reset board meets a script that records, a restarted script takes a frame for a request |
| `spi_driver` | is every transaction sent as asked? | the real transaction of 148 edges, three calls after initialisation in any order, 19 or 20 edges for an access: eight accesses of a read outlast a transaction |
| `spi_driver_fast` | the same with accesses as fast as the slave allows | violated, see section 5 |

`Observation` is checked without deadlock checking because the program really
returns from `main` on a DMA error, `VdifHeader` because its calls are bounded.
In `Startup` the clock goes on when the program has returned.

Fairness. The clock ticks: in `VdifLogic`, `VdifFormatter`, `SpiMaster` and
`AxiLiteSlave` an edge that would change a register comes; inputs need never
change, nobody has to ask for anything. In `Startup` the processor executes
(`Board`), the timer interrupts and a datagram arrives or is lost; the operator,
a reset and a hang of the receiver promise nothing. In the framer's formulas it is a premise
that the sink accepts and the FIFO fills again and again. `SpiDriver`
assumes that the bus answers, so that a call goes on. `Observation` assumes the processor executes
(`MainLoop`), the interrupt is taken, and clocked hardware (framer, DMA, its
reset, MAC) moves. The operator, the host and faults promise nothing.

Assumptions. At least `FramesPerSecond` frames end between PPS edges (1960 in
reality). In `VdifFormatter` the seconds counter is loaded before an observation and not
during it. In `Startup` at most one second begins while an answer is on its way
to a board that polls or is being loaded (both take microseconds); an answer that
waits for a console may wait any time. Of the host's clock nothing is assumed: it
answers any word, and the PPS comes from a generator of its own, at any phase of
the host's second and at any distance from the pulse before. The network does not duplicate datagrams,
and carries one at a time each way; the script is not restarted within the
flight of a datagram. The MAC has sent a datagram before the DMA completes the next frame (8 kB at
1 Gb/s take 70 us, a frame takes 510 us), a guard of `Move`, and before the next
observation starts, a guard of `StartObservation`: from the end of one to the
start of the next the console prints some hundred characters at 115200 baud through
a UART that holds 64, which takes milliseconds even if the command was typed
ahead. Without it an observation of an odd number of frames would be followed by
a transfer into the buffer of its last datagram. A
transfer kicked off while the DMA is still in its reset is lost: the model allows
it and remembers it in `lostStart`, and only `ObservationEnds` excludes it.
`AdcPath` takes from the converter that the odd bits of a conversion come half a
period before its even bits, which the extra flip-flop of `data_capture.vhd:69`
compensates, and from the vendored FIFO that it stays full for at least four
write clocks after its reset (its simulation model takes five).

## 4. Proofs

The first part of `Framer_proof` holds for every frame length above the header,
every width of the two live fields and every set of samples, under any inputs:

* `TypeCorrect`, `AlwaysAligned`: the invariants. `TypeOK` alone does not say
  that the FSM is in the header exactly while the counter is below eight;
  `Aligned` needs `TypeOK` for the range of the counter. `IInv` is both, and is
  inductive: four cases of one edge (reset, idle, header, payload), of which the
  header case rests on a frame being longer than its header.
* `Implements`: an edge is `Deliver` if a word is accepted out of reset, `Abandon`
  in reset and `Quiet` otherwise. The step needs `Aligned`: the kind of a word is
  the FSM's, its position the counter's.
* `PopsExact`: the FIFO is popped at exactly the edges at which the sink takes a
  payload word.

They rest on `FrameLengthAssumption` and `ModAssumption`.

The second part holds for any number of calls of the sixteen setters, in any order,
each with one of the four values of its field that `VdifHeader` takes (the argument
uses only that they fit the field, `ValuesFit`):

* `SettersAgree`, `Disjoint`: the tables of the driver's masks and of the port slices,
  compared field by field, and that no two fields share a bit. This is where a
  wrong mask or slice fails.
* `CopiesAreStamped`: the property is about the moments between calls; the invariant
  `Stored` adds that inside a call the field at the port is empty and every other
  one is its copy, so that the second write, which only sets bits, leaves exactly
  the value. `Written` is the step both writes share: what is put on the slice of
  one field shows at its port and at no other.
* `HeaderImplements` (`FieldsSpec`): the two writes are `Clear` and `Put` of one field, the
  single write of words 5 to 7 is `Set`.

`AxiLiteSlave_proof` holds for any number of registers, addresses, byte lanes and
byte values, under any order of requests, stalls and resets
(`AddressAssumption`, `BytesAssumption`):

* `Invariance`: `TypeOK`, `WriteInv`, `ReadInv`. A request's phase at the master
  and the ready and valid flags of the slave determine each other: an address is
  accepted exactly while its data is, an answer stands exactly while a request
  is accepted and not yet answered. Nothing weaker is inductive, because the
  enable `aw_en` alone does not stop a second acceptance.
* `AlwaysAgree`: the three processes that decode the acceptance of a write agree,
  and the latched address is the one on the bus.
* `Implements`: every edge is a step of `RegisterFile` or a stutter, shown for
  the write channel, the read channel and the reset edge apart.

`AdcPath_proof` holds for any ratio above one, any length of the stretched reset,
any relation of the two clocks and any behaviour of the FIFO (`RatioAssumption`,
`SampleAssumption`; the last two theorems also `ResetAssumption`):

* `ConsecutiveWords`: what the upsizer offers is `Ratio` consecutive samples, each
  with both bits of one conversion. The property speaks of one moment; the
  invariant has to say what each valid flag vouches for in the registers behind
  it (`Pipeline`), that the positions below the selected one are filled with
  consecutive samples and the sample at the door is their successor, and that the
  first position is selected whenever no samples come (`Packed`).
* `FreshWords`, `ContinuousWords`: no old sample passes a reset, and words follow
  each other. Both rest on `RInv`, which adds to the stages the phase of the
  reset (`Phases`): asserted, released, seen by the first edge of the slower
  clock, emptying the pipeline at the third, over. In each phase the FIFO is
  known to stay full for as many edges as the next ones need. When it is over,
  whatever a flag vouches for was converted after the release (`Fresh`), and the
  sample at the door, the word in the making and the last sample in the FIFO are
  consecutive (`Continues`).
* `ResetAssumption` is what that argument needs and no more: the stretched pulse is
  at least as long as the longest ADC period, so that it is sampled once, and the
  FIFO stays full for three ADC edges, which the synchroniser takes. TLC finds an
  old sample in the FIFO if either is one less.

`OnePps_proof` holds for every width of the counter, every period that is no
power of two, every duty cycle below it and every frame length, at any phase of
the two clocks (`SecondModAssumption`, `PeriodAssumption`,
`FrameSamplesAssumption`). A power of two is excluded because its period does not
fit the carrier and the generator would stay at zero; 64000000 is none.

* `CountedOnce`, `GeneratedPulsesCountOnce`: the counter, with the pulse in the
  synchroniser, is the base plus the pulses since, under free inputs and under
  the generator. The property is inductive with the types alone; the work is in
  the wrap, where six sums of two values below the modulus are reduced, and in
  the fact that at most one pulse is in flight.
* `AlwaysEven`: detected seconds are `period + 1` clocks apart, one more or less.
  The invariant `Even` says what the synchroniser holds as a function of the
  carrier and of the edges since it moved (`Levels`), so that a rise is seen in
  the first or second edge after it, and how far the last detection lies behind
  according to whether this period's pulse has been detected (`Distance`).
* `FramesOfASecond`: `(period + 1) \div FrameSamples` frames end in a second, or one
  more if the division leaves a remainder. The invariant `Framing` says that frames
  and samples counted since the last second are those of `period + 1` samples up to
  where in a frame that second began.

`VdifFormatter_proof` holds for every frame length above the header, every depth of
the FIFO, width of the frame number and of the second, and every distance of the
PPS (`FrameLengthAssumption`, `ModAssumption`, `FifoAssumption`), also a PPS in every
frame.

* `Invariance`: the framer's types and alignment (`Core`), and `Queue`, `Read`, `Numbered`,
  `Restarted`. The two properties of the numbers compare two headers; the invariant
  says what each moment between them owes the next one: which fields the header in
  flight has shown (`Read`, by the word counter), which number the next header will
  carry (`Numbered`), and that a second that began since then has left either the
  clear pending or the number at zero, the clear being kept until the frame ends
  (`Restarted`). `Queue`: the FIFO, the word that enters it next and the word that left
  it last are consecutive.
* `SecondsStartAtZero`, `NumbersFollow`, `PayloadFollows` follow from it.
* `OffersStand`: a word the sink does not take stays on offer, with the same value: the
  FSM leaves a state with its last word taken, and the FIFO is read by the core
  alone. Words 0 and 1 are read from live registers and are the exceptions, in the
  cycle in which a second begins and in which the number is cleared (`LiveWord`);
  both do occur, section 5.
* `CoreIsVdifLogic`: every behaviour of the composition is one of `VdifLogic`, so the
  theorems about the framer under free inputs hold of it in the core.

`Startup_proof` holds for every width of the counter, any count of the timer and
any number of starts of board and script (`SecondModAssumption`), under the
assumptions on the network and on the time of an exchange in section 3, which
are guards of the model.

* `AlwaysLoadsTheAnswer`: `Accesses` says what the two registers hold between the five
  accesses of `sync_load_timestamp`, so that the load bit is up only over the
  whole accepted answer.
* `AlwaysCountsFromTheAnswer`: `due` is the answer to the board's own request and the
  seconds begun since the host gave it; the code has no such variable. `Asking` shows
  that an answer in the network, or unread at the board, is the only one and meets a
  board that still waits for it, whatever was reset; `Timed` that it is what is due or,
  if a second began since the host gave it, one less, and that the pulse of that second
  is the only one in the synchroniser. The load then leaves the counter at what is due
  or one less, and from there on both count the same pulses. What time of day the
  answer tells is no part of it (section 6).

`Spi_proof`, of `SpiMaster`, holds for every width of command and data, number of devices,
divider and each of the four modes (`WidthAssumption`), with resets at any edge.

* `Invariance`: the properties are about bits; the invariant is about the toggles
  counted since the start. They alternate between driving and sampling
  (`Driven`, `Sampled`), and the first one, which only selects the device, is of
  either kind by the phase. Buffers and line are a function of `Driven` (`Drives`),
  what device and master have received one of `Sampled` (`Receives`), and which kind
  comes next is what `assert_data` says, in step with the level of `sclk` (`Captured`,
  `Gated`). The register's own comparisons with `last_bit_rx` and `data_toggle` become
  comparisons of the two counts (`Signals`).
* `NeverBoth`: a device that answers has seen the whole command of a read, which
  the master drove no further. `SampledStands`: an edge that samples is a toggle that
  drives nothing.
* `Implements` (`TransferSpec`): the last toggle is `Finish`, a reset `Reset` with as much
  of the wire as the device has (`GotAPrefix`), a captured request `Start`; every other
  edge of the clock cannot be seen.
* `TimeTaken` (`TakesItsTime`): the ratio is never zero and the count never above it
  (`Timing`), so that edges left is one less after each edge, whether it waits or
  toggles (`Periods`).

`Spi_proof`, of `SpiDriver`, holds for any addresses and data, any number of calls, and any
times of accesses and transactions (`TimeAssumption`).

* `ScriptsFollowed`: `ScriptInv` says which call the driver is at, what is left of its
  script, and what the registers hold by then; between the two accesses that change a
  bit the driver holds the register as it stands (`HoldingCommand`), and of the control
  register never the pulse (`HoldingControl`): no access but the last of `Enable` starts
  anything (`Pulsed`). The wait for busy is the one loop (`Polling`). Nothing of it
  depends on time.
* `EachSentAsAsked` follows from it: at a pulse the registers hold what was asked.
* `PulsesInTime`: `TimeInv` compares the fewest edges to the next pulse with what the
  master has left. It needs that a transaction is over when the next call, begun at once,
  comes to its pulse: `SlowAccesses`, `TransferEdges <= 8 * Fastest`, because the pulse
  of a read is its eighth access (of a write the ninth). This is a hypothesis of the
  theorems and nothing the code ensures. It holds on the board from 19 edges an access
  (8 * 19 = 152 against 148), and it is sharp: with 18 edges and 145 busy ones a pulse is
  lost; `spi_driver_fast` is the finding in section 5.
* `EveryEnableIsSeen`, `EveryReadReturnsItsAnswer`: under that hypothesis. Busy is up by the
  first look, and what makes it fall is the transaction of this read (`Answering`).

`Observation_proof` holds for every frame length, every number
of words that the idle DMA accepts, every frames-per-second constant, any periods
typed and any number of observations, with faults and failed sends anywhere
(`ObservationAssumption`), under the two timing assumptions above.

* `Invariance`: `IInv` is the types, the contents (`Data`) and `Control`, which says
  for each statement group of the loop what it may rely on. `SendsNextFrame` speaks
  of one statement group; the invariant follows the frame from the first transfer
  on: the words already in the buffer are its beginning, and the words in the
  DMA, with the formatter's next one, are a chain of successors (`Chained`) that
  starts where the buffer ends (`Receiving`). TLAST is then where the buffer is full
  and the chain begins the next frame (`Received`). A transfer that never started
  or failed is told apart, because the loop must not see a completion of it. Of
  the transfer left over from the last observation nothing is claimed until
  `dma_reset` has dropped its words.
* `AlwaysSendsNextFrame`, `ClearingLosesNothing`, `TransfersNeverRefused`, `TypeCorrect`
  follow from it.
* `Implements` (`HostSpec`): `CountPacket` is `Take`, `Transmit` is `Emit`, the console's
  steps are `SetTarget` and `Start`, the loop's end is `Fail`, the rest cannot be seen.
  It needs that the datagram in the queue is the last buffer sent and still whole
  (`Queue`), that it is gone when the next frame is complete (`Drained`), that the
  threshold is met and not passed (`Counted`), and that the last frame emitted is
  before the next one (`Logged`).

Model-checked only: liveness (`FramesKeepEnding`, `PpsReachesStream`, `ObservationEnds`,
`EveryAccessAnswered`, `BusyEnds`, `ConsoleOpens`, `ReceiverRecovers`, `LoadIsReleased`,
`CallsReturn`: a proof would reason about ENABLED, which the prover cannot). Every
invariant and every action property of a run is a theorem.

## 5. Findings

*The frame number* (`frame_number`). `frame_number_clr` is set by the PPS and kept until the next `frame_end`. If
the PPS falls in the payload this is right. If it falls at a frame's end, or
before header word 0 is taken, the clear survives into the new second's
first frame and holds the number at zero to its end: the second frame of that
second is number zero again. If it falls between header words 0 and 1 and word
1 is stalled a cycle, the header carries the old second with number zero.
The cause of that second case is that header words 0 and 1 are wired to live registers
(`vdif_logic.vhd:108-109`): stalled, the word on offer changes with them, where
AXI4-Stream asks it to stay. `OfferStands` in `formatter` says that these two words
in these two cycles are the only ones.
What does hold is checked by `formatter`: a header with a new second always
carries zero, and no number is ever skipped.

*A write to the ADC* (`spi_driver_fast`). `spi_ctrl_write` pulses enable without
looking at busy, and the master looks at enable only when it is ready. A second
write within 148 bus cycles is dropped without notice; `adc_cfg` (main.c:139-140)
writes the ADC's transfer register twice in a row. Nine register accesses lie
between the two pulses, so the write is safe from 17 cycles an access upwards,
which is in the range of a processor's access to the programmable logic and
nothing the driver checks. `spi_driver` shows that nothing else can go wrong.

Two disagreements of numbers, which a run would only restate. `main.c:353` calls
1953 frames one second and `main.c:538` multiplies by it. `FramesInASecond` gives the
frames of a second for any constants and knows nothing of 1953: by it a second of the
generator, `period + 1` = 64000001 samples, holds 1960 or 1961 frames of 32640
samples, so that an observation of n seconds ends 0.4 % early.
The comment at `main.c:627` says the receiver is looked at every 100 ms;
`RESET_RX_CNTR_LIMIT` is 400 interrupts of 250 ms, which is 100 s. `startup`
shows only that the look comes.

## 6. Not modelled

The insides of vendor code (interrupt controller, timer, UART, Ethernet and lwIP:
`Startup` has the order and the outcome of the calls), the SDK's `platform.c`,
block design and packaging scripts, input buffers, the inside of the vendored
FIFO and of the DMA, Matlab analysis. The TLAST generator is packaged and no
design instantiates it. The pbuf that a failed send leaks is a count of lwIP's
heap, which no module has. How far the counter is from UTC
is not claimed: the host truncates its own clock to whole seconds
(`VDIF_getsecondsfromepoch.m:22-25`), and the second is that of the free-running
`onepps_gen`, `period + 1` clocks long and at any phase to the host's. Nothing in
the code bounds the difference or its drift, and it may be of either sign. A refused
timestamp opens the console with a counter that was never loaded; no property
covers that. An answer loaded during an observation is in
`Startup`, but not what the frames' headers then show: `SyncDriver` under
`VdifFormatter` needs a state space four times that of `formatter`, beyond a
run's time. Header words 2 to 7 are
constants during an observation; `VdifHeader` takes values that fit their field,
as all calls in `main.c` do. A reset of the SPI master by its control bit is in
`SpiMaster`, not in `SpiDriver`. One write and one read at a time reach a register
file, as the processor issues them. Console input is taken by line: the length of
`buffer_rx` and non-digit periods are outside the model.

## 7. Plan

1. The headers of an observation whose counter is reloaded, on a formatter
   reduced to its header words.
2. The FIFO's level against a stalled sink: how long a stall loses a word.
