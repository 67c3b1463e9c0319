# TurboLab, verified

TLA+ modules, TLC configurations and TLAPS proofs for **TurboLab**
(`v4/turbolab`): the test bench in which an RP2350 ("the Pico") plays memory,
console and reset logic for a real Hitachi 6309E processor, cycle by cycle,
while a Go program on the PC (the *Tether*) uploads a memory image, starts the
processor, prints the trace and stores a core dump when the run ends.

Paths below are relative to `src/v4/turbolab/` unless they start with `v4/`.

## 1. The system

### Components, their state and their operations

| Component | Source | State | Operations |
|---|---|---|---|
| Cross-core FIFO | `firmware/cross-core.h` | `data[]`, `head`, `tail` | `push` (Core 1), `pop`, `clear`, `empty` (Core 0) |
| Core 0, main loop | `firmware/main.cpp` 1166-1769 | `fw_state`, `usb_rx_packets`, the configuration, the fault record, `timer60hz_running` | RPCs `ping`, `config`, `tuning`, `upload`, `start`; packets RESTART, REFLASH, SIGINT, CONSOLE_LINE; draining, core dump, beacon |
| Core 1, bus engine | `firmware/main.cpp` 312-1166 | `cycles`, `current_phase`, `foreground_running`, `prev_late_pins`, the watchpoint chain | Phase 1 await reset vector, Phase 2 run, Phase 3 trace, Phase 4 capture registers and halt |
| Emulated ACIA | `firmware/main.cpp` 185-210, 272-310 | `sim_status_reg`, `sim_control_reg`, `term_input`, `fg2bg_chars` | 60 Hz interrupt, register reads and writes, the IRQ line |
| Watchpoints | `firmware/main.cpp` 366-497, 1231-1305 | pool of 32 nodes, chain, counts | configure, check, act, detach |
| Register capture (Phase 4) | `firmware/main.cpp` 1005-1164, `docs/phase-four-with-swi.md` | `p4_state`, the write streak, `cpu_registers`, the HALT and NMI pins | finish the instruction, inject SWI, collect the frame, halt |
| COBS link | `firmware/cobs.h`, `tether/cobs/*.go` | decoder state, current packet, packet queue | encode, decode, resynchronise |
| RPC codec | `firmware/pcb.h`, `tether/pcb.go` | none | encode and decode of tagged fields |
| Tether session | `tether/main.go` | `cpuStarted`, `rpcPending`, dump chunks, signals | handshake, RPC with timeout, signals, dump assembly, exit code |
| Tether tools | `tether/trace.go`, `os9_trace.go`, `listings.go`, `load.go`, `readline.go`, `tuning.go` | formatting and parsing | |
| Hamster PIO, runtime assembler | `firmware/hamster.*`, `pio_assembler.h` | PIO program | assemble, run |

The rest of the repository is another firmware for the same board
(`v4/tfr911h`, `v4/firmware/one`, `v4/tether`), earlier generations, vendored
libraries and board designs.

### How they interact

- Core 1 pushes trace records and console characters into two cross-core FIFOs;
  Core 0 pops them and sends them as COBS packets. A full trace FIFO stops
  Core 1, and with it the 6309, whose clock Core 1 drives.
- A **fault record** (`fault_reason`, `fault_cycle`, ..., and last the latch
  `fault_triggered`) is written by Core 1 when it finds a reason to stop and by
  Core 0 on SIGINT. There is no lock.
- Core 0 learns from `current_phase = 0` that Core 1 has finished Phase 4, and
  from `foreground_running` that it has started.
- A RESTART packet makes Core 0 reset Core 1 wherever it stands.
- The Tether drives everything by RPC, one at a time, and by two one-way
  packets, RESTART and SIGINT.

### What is hard

Interleavings of the two cores without locks; Core 1 reset in the middle of a
push; a full FIFO while a fault arrives; SIGINT racing a fault of Core 1; the
order "last trace record, fault record, memory"; a stale latch from the last
session; torn frames on the serial line; a status byte that two cores and an
interrupt handler change without a lock; a PIO program and a core that talk
through FIFOs in which nothing marks the words; a Tether that is killed and
launched again while the packets of both sides are still on their way.
`PROJECT.json` lists every hazard at its line with the properties that cover it.

### What makes each component correct

- FIFO: nothing lost, duplicated, reordered or torn; never blocked for ever.
- Firmware session: the trace is complete and in order; the dump is taken of a
  halted machine; the fault packet is true; a fault is always reported; a
  restart is always obeyed; limits end the run.
- COBS: what is decoded is what was encoded, and a torn frame costs at most
  itself.
- ACIA: console input is read in order and once, and is announced; the status
  bits tell the truth; the IRQ pin is what Core 1 believes it to be; a session
  starts clean.
- Watchpoints: each counts every match once, the stop and the trigger take
  effect at the match they name, a cycle is recorded once.
- Register capture: the frame is the one the CPU stacked for the injected SWI,
  and until HALT the CPU is served from memory.
- Tether: it finds its Pico whatever was left behind, the CPU runs on what it
  uploaded, it shows and saves nothing of another run, takes no answer for
  another, and with `-n` its exit code tells how the run ended.

## 2. The modules

| Module | What it is |
|---|---|
| `BoundedQueue` | abstract specification: a FIFO queue with capacity; a push is offered, then accepted, refused or abandoned |
| `CrossCoreFifo` | the ring buffer, one step per load or store of a shared word |
| `CrossCoreFifoProofs` | its theorems |
| `MCCrossCoreFifo` | a ring of 4 slots and three items |
| `Firmware` | both cores during whole sessions, one step per access to a shared variable |
| `FirmwareProofs` | its theorems |
| `MCFirmware` | small configurations |
| `CobsLink` | both codecs and the byte stream between Tether and firmware |
| `CobsLinkProofs` | its theorems |
| `MCCobsLink` | bytes of four values and a set of packets |
| `Acia` | the ACIA between Core 0, its timer interrupt and Core 1, load by load and store by store |
| `AciaProofs` | its theorems |
| `MCAcia` | an input ring of three slots |
| `Watchpoints` | the watchpoint list: config, the walk node by node, detaching, and the tracing it starts |
| `WatchpointsProofs` | the theorems about the list |
| `WatchpointsCountProofs` | the theorems about counts, limits and records |
| `MCWatchpoints` | a pool of three nodes and six configurations |
| `Capture` | Phase 4 of Core 1, the PIO program and a CPU |
| `CaptureProofs` | its theorems |
| `MCCapture` | instructions of up to seven cycles |
| `Tether` | several lives of the Tether against one Pico, packet by packet |
| `TetherProofs` | its theorems |
| `MCTether` | three lives, two uploads, a dump of two packets |

They fit together by what one proves and the next assumes. `Firmware` and
`Acia` both stand on the queue of `BoundedQueue`: the trace FIFO is proved to
implement it in `CrossCoreFifoProofs`, the input ring in `AciaProofs`. `Tether`
sends packets over a line that loses none but at the death of a Tether, which
is what `CobsLink` shows; and its `RunIsConfigured` is what `Firmware` assumes
of its host under the name `TetherHost`. `Watchpoints` and `Capture` open up
what is one step in `Firmware`: the hit of a watchpoint, and Phase 4.

`PROJECT.json` ("map") gives the source lines of every definition. In a module
a definition whose comment begins with "Fault:" is not part of the
specification: it is the same definition with a plausible bug, and the property
it belongs to is known to notice that bug.

### CrossCoreFifo

`ppc` and `cpc` say where Core 1 is in `push` and where Core 0 is in `pop` or
`clear`; `pnext`, `pitem`, `cidx`, `citem` are their locals. The loads and
stores of `head` and `tail` are acquire and release operations, and each index
is stored by one core only, so an interleaving of the accesses in program order
is what the other core can observe. `Kill`, `ClearHead`, `ClearTail`, `Launch`
are the restart of a session: `multicore_reset_core1` may hit any step of a
push.

`Contents` is the queue the ring stands for. It is empty from the first store
of `clear` on: between the two stores the indices mean nothing, and nobody
looks. With it `Refinement` says that the ring implements `BoundedQueue`: the
call of `push` is the queue's `Offer`, the store of `head` its `Push`, the failed
test its `Refuse`, a reset in between its `Abandon`, and the store of `tail` its
`Pop`. Every other step is hidden.

### Firmware

`c0` and `c1` are the places of the two cores in the code. Everything Core 0
does outside the shared variables is one step; every access to a shared
variable is its own. The trace FIFO is the queue of `BoundedQueue`, which the
ring is proved to implement, and a record is its cycle number.

A bus cycle is an *event*: plain, a red-page access, an interrupt vector that
is zero, BRA to itself, or the address of the log, trigger or stop watchpoint.
Whether the trace flags select a cycle is a free choice. A group of 50 cycles
may end after any cycle, which only adds behaviours.

Two times are used to leave out outcomes: Core 0 gives up waiting for Phase 4
after 50 ms, while Phase 4 takes at most 256 bus cycles (below 1 ms); and the
watchdog of Phase 1 takes 100000 cycles, while Core 0 needs microseconds from
`cpu_started = true` to `HaltOff()`.

History variables: `owed` (cycles to be traced and not sent), `interrupted`
(SIGINT was recorded), `header` (the C_FAULT packet).

`TetherHost = TRUE` restricts the host to what the Tether does: one RPC at a
time, `start` only after a restart and a configuration, RESTART and SIGINT at
any time. `FALSE` lets the host also send `start` in every state and without
waiting for an answer; `config` it sends, in either case, only to a firmware that
waits for one, since the model carries it out in one step, which in the code is many
assignments that a running Core 1 would see one by one.

### CobsLink

`TetherEncode`/`TetherDecode` are the Go functions `encodeRaw`/`decodeRaw` with
the checksum; `FirmwareEncode` is `CobsEncodeAndTransmit`; `DecodeByte` and
`DecodedPacket` are `CobsDecoder::ProcessByte`. `Base` stands for 256, so that
the limits of a block (254 bytes, code 255) are reached by packets of two or
three bytes. `Die` is a Tether that is killed while it writes: a prefix of a
frame is left on the line, some bytes for it are lost, and the next Tether
flushes the line with a zero byte (`main.go:625`).

### Acia

`c0`, `isr` and `c1` are the places of Core 0, of the 60 Hz callback that
interrupts it, and of Core 1. `sim_status_reg |= ...` and `&= ~...` are a load
into `seen` or `loaded` and a store, since both cores do it on a plain byte;
putting into `term_input` is a test, a store and an increment, taking from it
a load, an increment and a second test. The callback never falls between two
accesses of Core 0 that it could disturb, because it runs on Core 0. A restart
is its five steps of `main.cpp` 1495-1545 in order, with Core 1 running through the first.

`due` is history: a tick has come and was not acknowledged. `glitch` is history
too: it says that one of the two races of this code was met, a tick between a
load and a store of Core 1, or an assertion of the pin between `ReleaseIRQ` and
the reset of Core 1. The properties say what holds until then, so that the two
races are stated and not assumed away. `InputAnnounced` holds across the race.

The accesses of one core are visible to the other in program order here. The code
has no barriers around `term_input`; that compiler and processor keep its order is an
assumption of this model, and no property would notice if they did not. (The ring of
`cross-core.h` needs no such assumption: it uses acquire and release.)

### Watchpoints

A node of the pool is a record, a link is an index, 0 is the null pointer.
`Configure` builds the list as `append_wp` does, with the nodes that do not fit
dropped; `Visit` is one turn of the loop in `run_watchpoint_chain`, so that a
SIGINT, which a node tests after it has fired, falls between any two of them.
`seen` is history: how often each watchpoint's condition was met. Counts wrap:
`Counted` goes from 1 to the largest value, which also marks "has fired". `CountExact`
says what a count is until that has run down in its turn; that the watchpoint then
fires once more is what `FiresOnce` calls wrong.

### Capture

Core 1 and the PIO state machine exchange words through `tx` and `rx`. The CPU
is not in the repository: it is modelled by the bus cycles that the code and
`docs/phase-four-with-swi.md` expect of it, in every place it may be when the
run ends: in an instruction of any length, before one, entering an interrupt,
stacking, in CWAI or in SYNC, but never in a FIRQ: the firmware drives no FIRQ, and the
branch of Phase 4 that recognises one (main.cpp:1064-1068) is left out. It may take an IRQ at any end of an instruction
and an NMI while the pin is asserted. `Entry` says whether Phase 4 begins after
a whole bus cycle, as at a limit, or in the middle of one, as at a red page
fault. The late word of a write waits until Core 1 has taken the early one;
the delay T3 of the PIO program, a few hundred nanoseconds, is there for it.

### Tether

`main`, the reader, the dispatcher and the signal handler are goroutines with
steps of their own; channels are `token`, `reply` and `inbox`. A life ends by an
exit or by a kill. Every life is launched with or without `-n` (`flagN`): without
it `main` reads stdin once the CPU was started, and when that ends (`EndOfInput`:
readline.go:48-50, main.go:1066-1086) it returns, with exit code 0, whatever the run is
doing. `Relaunch` keeps a prefix of what the last Tether had queued
and a suffix of what the Pico had sent: bytes on their way may still arrive or
be flushed. Serial numbers of RPCs start at 1 in every life, so that an answer
to a Tether that died can meet a call of the next. `image` holds for every part
of the memory the life that uploaded it, `run` the life that started the CPU.
The Pico is the main loop of the firmware, seen from the wire.

## 3. What is checked

| Run | Question | Result |
|---|---|---|
| `fifo` | Is the ring a queue, race free and live, under every interleaving, resets included? | holds |
| `session` | Do whole sessions keep trace, fault record and dump right, and do they end? | holds |
| `exact_stop` | "Stop after exactly 50,000 cycles" | violated |
| `start_when_halted` | "The Pico listens for RESTART_NOW_PLEASE in all operating states" | violated |
| `cobs` | Do packets survive the link, torn frames included? | holds |
| `cobs_full_block` | Same, for a zero that follows a full block | violated |
| `acia` | Does the ACIA keep input, status and interrupt line right with three parties and no lock? | holds |
| `watch` | Do watchpoints count, fire and record exactly, whatever the list and its changes? | holds |
| `fires_once` | "Optional Nth count filter: fire only on the Nth matching access" | violated |
| `capture` | Is the register frame captured, wherever the CPU is stopped after a whole cycle, FIRQ excepted? | holds |
| `red_page` | Same bus service when Phase 4 begins in the middle of a cycle | violated |
| `tether` | Does a Tether do right among the remains of those before it? | holds |

### Properties of the passing runs

- `SlotExclusive`: the two cores never use the same slot at once.
  `Refinement`: the ring implements the queue. `FullDrains`: a full ring gets
  room again, so the bus engine's retry loop is no deadlock.
- `TraceComplete`: at most the record of the cycle Core 1 stopped in is missing.
  `DumpQuiescent`: nothing changes while it is dumped. `HeaderExact`: the fault
  packet follows the last record and tells the truth. `ServedWhileRunning`: the
  6309 is never let loose without the bus engine. `FaultReported`,
  `StartReturns`, `RestartObeyed`, `LimitEnds`: sessions end.
- `RequestsArrive`, `RepliesArrive`: complete packets arrive in order and
  unchanged, whatever torn frame came before. `Answered`: every RPC is answered.
- `InputQueue`: the input ring implements `BoundedQueue`, across restarts too.
  `InputAnnounced`: waiting input is announced by an interrupt. `StatusTrue`: the
  timer bit is set exactly while a tick is unacknowledged, the RX bit only while
  input waits. `IrqMirrors`: the pin is what `prev_irq_needed` says and is
  released after a session. `StartsClean`: nothing of one session reaches the next.
- `ChainWhole`: the list holds exactly the live nodes, in order; a node that did not
  fit into the pool is not one of them. `CountExact`: each has counted every match
  once, down to the one it was asked for and on until the count comes round.
  `LimitsHonoured`: stop and trigger take effect at
  their match. `OneRecord`: a cycle is recorded once or not at all.
- `ServedFromRam`: the CPU reads and writes memory, but for the one SWI.
  `Captured`: the frame is whole, in order, of the mode the CPU is in, with the PC
  where the program would have gone on. `CaptureEnds`: Phase 4 ends.
- `ShownIsThisRun`, `ExitTruth`, `OwnAnswers`, `RunIsConfigured`, `Handshake`,
  `RunReported`: what is shown and saved is of the run this Tether configured and
  started; it finds its Pico and learns of the end of its run. `ExitTruth` in
  particular: with `-n` an exit code of 0 says that the run reached its limit and
  that its dump was saved; without `-n` it says only that the CPU was started,
  because the end of the input gives 0 as well; 130 says that this Tether was
  interrupted.

### The disagreements

- **Lossless trace** (docs/spec.md:248, "100% lossless cycle capture"). When the FIFO is
  full and Core 0 records a SIGINT, the push loop gives up (main.cpp:647) and the
  record of that cycle is lost. It has no run of its own: `TraceComplete` says that
  nothing else is ever lost, and `session` reaches the case.
- **Exact stop** (docs/spec.md:95). The hit of a trigger watchpoint jumps to
  Phase 3 before the limit test (main.cpp:877), so a limit that falls on that
  very cycle is noticed one cycle late.
- **Restart in all states** (docs/spec.md:190). `start` is accepted while a fault
  is latched and does not clear it. Core 1 then runs from Phase 1 straight into
  Phase 4 and returns; if Core 0, which polls `foreground_running` every
  millisecond, misses the moment it was true, it waits for ever and reads no
  packet again. The Tether never does this: it starts only after a restart.
- **COBS** (docs/spec.md:335). The firmware's encoder (cobs.h:53) skips a payload
  zero after a full block of 254 bytes. The packet arrives one byte short, and
  as a zero does not change the checksum nobody notices. `FirmwareFrames` says for which
  packets, and only those: with the checksum, the bytes hold a zero right behind a run of
  254, 508, ... others.

- **Nth match** (docs/spec.md:55, 155). A watchpoint with a count N is to fire only
  at its Nth match. `wp_match_count` (main.cpp:382-383) marks a count that has run
  down with 0xFFFFFFFF, which counts down like any other: after 2^32 - 1 further
  matches the watchpoint logs an access again, and so on. `fires_once` has counts of two
  bits, so that three further matches are enough; with counts that the cycles of the
  run cannot use up, `FiresOnce` holds, so this is the only way in which it fails. A
  trigger and a stop are not concerned: they end with their first hit.

- **Red page** (docs/phase-four-with-swi.md:52, 56). A fault in the red page leaves Phase 2
  or 3 after the early pins of a cycle and before its data byte and late pins
  (main.cpp:835, 947; the watchdog of Phase 1 likewise, 737). The word with
  which Phase 4 starts its first cycle is taken by the PIO program for the data
  byte, and from there on the two sides are half a cycle apart: Core 1 answers
  each read with the byte of another address. `red_page` shows the first such read.

### Observations without a run

The models make these behaviours visible; no property calls them wrong.

- Without `-n`, a Tether whose stdin ends exits with 0 in the middle of the run, and
  leaves the Pico running: a script that tests for 0 must pass `-n`.
- `restart` releases the IRQ pin before it resets Core 1 (main.cpp:1500-1504). If
  Core 1 asserts it in between, it stays asserted until the next session drives it;
  the NMI of Phase 4 can be left the same way.
- A tick that falls between a load and a store of Core 1 is lost, or an
  acknowledgement undone, or the RX bit set with no input. Each is repaired by the
  next tick or the next group.
- A read of $FF01 with no input returns 0 and leaves the RX bit set.
- A watchpoint that does not fit into the pool is dropped without an error, and a
  trigger dropped so still moves `trigger_cycle` to UINT64_MAX: tracing never begins.
- An answer to a Tether that died can be taken for the answer to the same call of
  the next. Every death can put a Tether one call further ahead of the Pico: with 64
  uploads it takes 67 lives, killed at the worst moments, until a CPU could run on a
  memory not uploaded by its own Tether. `RunIsConfigured` holds for
  `Lives <= Uploads + 2` and not for one more.
- The first packets of a run are dropped if the goroutine that received the answer
  to `start` is delayed before `cpuStarted.Store(true)` (main.go:666, 1051); if the
  dump is among them, the Tether waits until the user interrupts it.
- The loop that drains queued trace packets before the exit (main.go:877-904)
  finds little: the dump comes after the trace, in order.

### Bounds, and why they are enough

- `fifo`: 4 slots, so that the indices wrap and the ring is neither always full
  nor always empty; three items, so that order and duplication are visible.
- `session`: trace FIFO of one record, so that it is full whenever two cycles are
  traced; one record per drain, so that the drain share matters; a cycle limit
  of 4, that is two bus cycles after the reset vector; two queued packets, so that a restart can wait behind something else. Three configurations: traced from the
  start; traced from cycle 4 on with a time limit; all three watchpoints.
  `CycleBound` = 9 is above every limit and never reached.
- `cobs`: bytes of four values; packets of one to three bytes chosen so that
  with the checksum they end in a full block, in a zero or in neither; two
  requests and one death of the Tether.

- `acia`: a ring of three slots, so that two bytes fill it and the indices wrap;
  groups of one bus cycle, which makes every order of program and engine possible
  (the theorems have any ring and any group); two values for `$FF03`.
- `watch`: a pool of three, which one of the configurations overflows; counts of
  two bits, so that a count comes round again within five cycles; the trigger in
  front, in the middle, at the end and dropped.
- `capture`: `MaxInsn` = 6 has instructions that end before and after the NMI of the
  fifth cycle. The longest way through, a CPU asleep that is woken, stacks, is
  interrupted and stacks again, takes fewer than 64 cycles, so that `MaxCycles` = 64
  stands for the 256 of the code.
- `tether`: three lives, so that what two Tethers left can meet a third, each with or
  without `-n`; two
  uploads, so that one part of the memory can be old; a dump and a trace of two
  packets; two packets on their way up, so that the Pico waits for the reader.

Deadlock is checked in `fifo`, `session`, `acia` and `watch`. It is not in the COBS
runs, where the Tether stops asking, nor in `start_when_halted`, which is about a
core that waits for ever, nor in `capture` and `red_page`, where Phase 4 ends, nor
in `tether`, where the last life ends.

### Fairness

Each core executes its own program without a lock, so each core's next step is
weakly fair (`WF_vars(Core0)`, `WF_vars(Core1)`). That the 6309 fetches its reset
vector or trips the watchdog is part of that: its clock is Core 1. Nothing makes
the host send, and nothing makes the Tether ask. In `CrossCoreFifo` Core 0's
`pop` is fair since every iteration of the main loop in STATE_RUNNING drains.

In `Acia` Core 1 and the end of the callback are weakly fair. The computation of
the pin while an enabled bit is set is strongly fair: a tick may undo the RX bit
that Core 1 has just set, but ticks are 16.7 ms apart and a group takes well under
1 ms, so that the bit is up at the next look at the pin infinitely often, which is
what strong fairness asks for. In `Capture` the PIO program and Core 1 each go on
when they can. In `Tether` every goroutine runs, the ticker ticks, the signal
handler's wait of two seconds ends and the Pico's main loop goes round; no run
need end, no user need interrupt one and nobody need launch the Tether again.

## 4. What is proved

`CrossCoreFifoProofs`, for every `Size >= 2` and every set of items, from
`SizeAssumption` and `BlankAssumption` only:

- `TypeCorrect`: `Spec => []TypeOK`
- `NoSlotRace`: `Spec => []SlotExclusive`
- `RingRefinesQueue`: `Spec => Refinement`

The inductive invariant adds to `TypeOK` what each core knows at each place: in
`store` and `publish` the producer's `pnext` is `Succ(head)` and is not `tail`; in
`read` and `release` the consumer's `cidx` is `tail` and is not `head`, and in
`release` the item it read is still the one in its slot; while the ring is being
cleared Core 1 is off. `tail` moving on never makes `pnext = tail` true while the
producer is in `store`, because the consumer can advance at most to `head`. The
refinement then needs arithmetic on `Slot` and `Used`: storing into slot `head`
does not touch `Contents`, publishing appends to it, releasing takes its head.

`FirmwareProofs`, for every set of configurations, FIFO capacity, drain share,
queue length and cycle bound, from `FirmwareAssumption`:

- `SessionTypes`: `Spec => []TypeOK`, also with a host that starts in any state;

and, under the hypothesis `TetherHost`, that is, with a host that starts only
what it has seen restart and configured:

- `CpuIsServed`: `Spec => []ServedWhileRunning`
- `DumpIsQuiescent`: `Spec => []DumpQuiescent`
- `TraceLosesOnlyTheLast`: `Spec => []TraceComplete`
- `FaultPacketIsExact`: `Spec => []HeaderExact`

None of these four is inductive. `IInv` adds three parts to `TypeOK`:

- `SessionInv` ties the state machine of Core 0 to the place of Core 1. The chain
  is: a start or config packet waits only behind SIGINTs and only for a firmware
  that has restarted (`QueueInv`), so Core 1 is launched when it is off and no
  fault is latched (`StartInv`, `AtRest`); it is then still in Phase 1 when HALT is
  released, because it leaves Phase 1 for nothing else than a latched fault or a
  CPU that runs. `current_phase = 0` with a latched fault can then only mean that
  Phase 4 is over (`Core1Inv`), which is what the dump waits for.
- `TraceInv` says at each place of Core 1 whether the record of the present cycle
  is still to be pushed. A record is given up only with a latched fault, and
  every way from there to the next cycle tests the latch.
- `RecordInv` follows the three stores of a fault. After a fault of its own Core 1
  never begins another cycle, so the cycle it recorded stays the one it
  stands in, also when a second fault of the same cycle overwrites the first.

The hypothesis `TetherHost` is needed: `start_when_halted` shows what another
host can do.

`AciaProofs`, for every ring of at least two slots, every group size, set of
bytes and set of values for `$FF03`:

- `TypeCorrect`, `InputIsQueue`, `StatusTold`, `CleanStart`, `PinMirrored`: `TypeOK`,
  `InputQueue`, `StatusTrue`, `StartsClean` and `IrqMirrors`.

The invariant says what each party knows between its load and its store. The
refinement needs that only Core 0 moves `nextIn` and only Core 1 `nextOut`, and
that the restart that moves both has reset Core 1 before. The status needs that
a value loaded by Core 1 still differs from the register by nothing but a tick,
which is then in `glitch`.

`WatchpointsProofs` and `WatchpointsCountProofs`, for every pool size, width of
the counts, set of addresses and set of requests of the form `RequestAssumption`
gives them:

- `TypeCorrect`, `ChainIsWhole`: `TypeOK`, `ChainWhole`;
- `CountsAreExact`, `LimitsAreHonoured`, `RecordsAreSingle`: `CountExact`,
  `LimitsHonoured`, `OneRecord`.

`ChainKnows` adds to `ChainWhole` that while the trigger is in the list `trigPrev`
is the node before it. `CountInv` follows a walk: a node *waits* if it matches
the cycle and the walk has not come to it, and then has counted one match less
than has come (`Done`). Between two nodes of a walk the only one that may have
fired without effect is the trigger, with `trigger_wp_hit` set. That no node is
passed over is where `ChainWhole` is needed. The invariant follows the counts round the
largest value as the code does (`Remaining`), which needs one lemma on the
remainder (`ModStep`); `CountExact` is what it says until then.

`CaptureProofs`, for every instruction length and every limit on the cycles,
under the hypothesis `Entry = "limit"`:

- `BusIsServed`, `CaptureTypes`: `ServedFromRam`, `TypeOK`;
- `CaptureSucceeds`: `Captured`, when there is time `Enough`: a limit of at least
  42 cycles and 17 more than the longest instruction has left. With the 256 of the
  code that is 239 cycles, which a TFM can exceed. The hypothesis is exact: TLC
  finds `Captured` violated with a limit of 41, and with one of 42 and instructions
  of 26 cycles.

The invariant of the first two is a table of seven places of the handshake, `Quiet`, `Called`,
`Shown`, then `Replied` and `ReadDone` for a read, `Writing` and `Written` for a write.
At each there is at most one word under way, and it is known which. Every step
of Core 1 or of the PIO program leads from one row to the next. The hypothesis
is needed: `red_page` is the run without it.

For `Captured` it is joined by `CInv`, which says for each state of Core 1 what the
CPU does and how many cycles that still takes. In `AwaitLic` it is `Finishing` an
instruction or what an interrupt made of it, and a CPU asleep is woken in the
fifth cycle; in `Inject` it is `AtOpcode`, at the place the program would go on;
in `AwaitStack` it is `Stacking`, and the streak is the number of bytes stacked.
While a late word is under way the CPU is one cycle `Ahead` of Core 1.

`TetherProofs`, for every number of uploads, chunks, launches, trace packets, ticks
and packets under way, from `BoundsAssumption`:

- `SessionTypes`: `Spec => []TypeOK`;
- `SessionShown`, `SessionExit`, `SessionAnswers`, `SessionConfigured`:
  `Spec => [](FewLives => P)` with `ShownIsThisRun`, `ExitTruth`, `OwnAnswers` and
  `RunIsConfigured` for `P`.

`FewLives` is `life <= Start`: so far no more Tethers were launched than a session
has calls, `Uploads + 2`, which is 66 in the code. It is no assumption on a
constant; the first 66 launches are covered however many follow. The condition is
exact: with `Uploads = 1` TLC finds `RunIsConfigured` violated in the fourth life.

None of the four is inductive, and none can be proved without the others. The
invariant follows the packets through the three queues:

- `Ordered`: packets are in the order of the sessions (`Before`), in each queue and
  from one to the next. Once start was answered there is nothing behind the answer
  but its run; a restart that was heard of has no answer of this life before it.
- `PicoKnows`: what is on its way to the Pico comes after what the Pico has done.
  Every call is right behind the one before it, or the Pico has carried out all
  before it (`InTurn`); that is how the start of a run implies its configuration
  and every upload.
- `Heeded`: a Pico that was heard to be restarted has no run, and no start is on
  its way to it, so that the Tether that hears it begins a session of its own.
- `Counted`: the only packets of a dead Tether that can be taken for one's own are
  answers. A life that ends leaves at most one call open that it did not find open
  (`FewOpen`), and a Tether is at most as many calls ahead of the Pico as it found
  open (`NotAhead`). While `FewLives` holds, the answer to `start` is its own.
- `Calling`, `Ending`: where main is in its calls, and how a life may end: by the end
  of its input only without `-n`. A dump of
  as many different chunks as there are is the whole dump (`WholeDump`).
- `Streamed`: the trace that is shown, the one queued and the one under way are one
  sequence without a gap, which ends with what the Pico has sent last.

`CobsLinkProofs`, for every number of byte values from 3 on, all sets of packets, every
length of the queue and any number of requests and deaths, from `CobsAssumption`:

- `TetherFrames`, `FirmwareFrames`: what the two decoders make of what the encoders of
  the other side made of a packet; the second is an equivalence, with the packets in
  which a zero comes right behind one or more full blocks (`ZeroBehindFull`);
- `LinkTyped`, `RequestsSafe`: `Spec => []TypeOK`, `Spec => []RequestsArrive`;
- `RepliesSafe`: `Spec => []RepliesArrive` under the hypothesis `RepliesDecodable`, that no
  reply is such a packet. It is needed: `cobs_full_block` is the run without it.

The codecs compute by recursion, and the theorems hold for packets of any length.
That needs an induction, and the induction theorems of the library take an operator,
which the provers cannot instantiate; but `WFMin`, that a well-founded relation has
minimal elements, takes none, and `Ascend` and `Descend` follow from it. `Steps` and
`Jumps` show that the functions defined by recursion exist. The byte by byte pair then
goes upwards: after i bytes, what the decoder makes of the encoder's output, followed
by the open block, is the first i bytes. The block by block pair goes downwards from the
end of the frame (`DecodedWhole`, `DecodedShort`): a block of the encoder begins only where
full blocks reach back to a zero or to the start (`IsStart`), so a full block before a zero is
one that `ZeroBehindFull` speaks of.

The safety of the link rests on one invariant for each direction (`Down`, `Up`). It takes
the bytes under way together with those of the frame that is being read, and says of
each packet sent either which of the received ones it is, or at which zero of these
bytes its frame ends (`Carried`); both are in the order of sending. A torn frame adds bytes
and a zero and disturbs nothing. While no Tether has died, every zero that ends a frame
ends one that was sent (`Exactly`), so nothing else is received. The line always ends
in a zero (`Ready`), so that when it is empty everything has arrived.

Only model-checked: every liveness property (TLAPS does not handle `ENABLED`
and fairness here).

## 5. Not modelled, and why

- **RPC codec** (`firmware/pcb.h`, `tether/pcb.go`): encoding and decoding of tagged
  fields, sequential and without state. Messages are values here.
- **Trace record flags**: the classification of records by RTI, SWI2 and prefix
  bytes (main.cpp, `fg_loop_trace_cycle`) is a heuristic over the opcode stream; the
  models take whether a cycle is selected as a free choice.
- **`ping`, `tuning`, reflash**: no state of a session depends on them; reflash
  reboots into the boot ROM.
- **`usb_rx_raw`** and its 4096 bytes: `CobsLink` takes bytes one by one.
- **Console output and input in the Tether**, `trace.go`, `os9_trace.go`,
  `listings.go`, `load.go`, `readline.go`, `tuning.go`: text and file handling
  without a protocol; of `readline.go` only that its input may end.
- **PIO timing and the runtime assembler** (`hamster.*`, `pio_assembler.h`): clock
  phases in nanoseconds. The order of the words is in `Capture`.
- **Annealing tool**: a parameter search that runs the Tether as a subprocess.
- **The other firmware of the board** (`v4/tfr911h`, `v4/firmware/one`,
  `v4/tether`, `v4/cpu-tracker`, `v4/centipede-32z`): another program, with vendored
  Tcl, littlefs and miniz.
- **Deprecated versions, board designs.** Most lines of the repository are ROM
  and disk images in header files, vendored code and these; the modules cover the
  concurrent and stateful part of TurboLab, which is a small share of all lines.
