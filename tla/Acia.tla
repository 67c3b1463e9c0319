-------------------------------- MODULE Acia --------------------------------
(***************************************************************************)
(* The emulated Turbo9Sim ACIA of TurboLab, $FF00..$FF03, and its          *)
(* interrupt line (firmware/main.cpp, firmware/circbuf.h).  Three parties  *)
(* share it without a lock:                                                *)
(*                                                                         *)
(*   Core 0   puts console input into the ring term_input, and restarts    *)
(*            and starts sessions;                                         *)
(*   the ISR  Timer60HzCallback, which interrupts Core 0 and sets the      *)
(*            timer bit of sim_status_reg;                                 *)
(*   Core 1   takes the input when the 6309 reads $FF01, sets and clears   *)
(*            bits of sim_status_reg, and drives the IRQ pin once for      *)
(*            every group of 50 bus cycles.                                *)
(*                                                                         *)
(* sim_status_reg is a volatile byte which both cores change with a load,  *)
(* a modification and a store: the load and the store are separate steps.  *)
(* So are the accesses to the ring.  Its two indices are plain words; the  *)
(* model interleaves them in program order, which is what the Cortex-M33   *)
(* does and what the opaque calls in both loops leave the compiler.        *)
(*                                                                         *)
(* Output, $FF00, goes through the ring of CrossCoreFifo and is not here.  *)
(***************************************************************************)
EXTENDS Naturals, Sequences

CONSTANTS
  Item,      \* the bytes of console input
  Blank,     \* the content of a slot nothing was put into yet
  Size,      \* the slots of term_input; 1024 in the firmware
  GroupSize, \* the bus cycles between two looks at the IRQ pin; 50
  Enables    \* the values the program writes to $FF03

ASSUME SizeAssumption == Size \in Nat /\ Size >= 2
ASSUME BlankAssumption == Blank \in Item
ASSUME EnablesAssumption == Enables \subseteq SUBSET {"timer", "rx"}
ASSUME GroupAssumption == GroupSize \in Nat /\ GroupSize >= 1

VARIABLES
  buf, nextIn, nextOut,   \* term_input
  status, control,        \* sim_status_reg, sim_control_reg, as sets of bits
  irq,                    \* the IRQ pin is asserted
  c0, char,               \* where Core 0 is; the byte it is putting
  timer, isr, seen,       \* the timer runs; its callback, and the status it
                          \*   loaded
  c1, prevIrq, left,      \* where Core 1 is, prev_irq_needed, cycles left
  loaded, acks, got,      \* the status it loaded, the bits still to be
                          \*   cleared, the last byte read from $FF01
  due, glitch             \* history: a tick was not acknowledged yet, followed
                          \*   up to the first race; the races met

ring  == <<buf, nextIn, nextOut>>
core0 == <<c0, char, timer>>
tick  == <<isr, seen>>
core1 == <<c1, prevIrq, left, loaded, acks, got>>
vars  == <<buf, nextIn, nextOut, status, control, irq, c0, char, timer, isr,
           seen, c1, prevIrq, left, loaded, acks, got, due, glitch>>

Index == 0 .. Size - 1
Bits  == {"timer", "rx"}

\* Fault: the index is not wrapped.
SuccUnwrapped(i) == i + 1

Succ(i) == IF i = Size - 1 THEN 0 ELSE i + 1
Empty   == nextIn = nextOut
Full    == Succ(nextIn) = nextOut

\* Where Core 1 is inside the loops of Phases 2 and 3.
InGroup == {"top", "rx", "irq", "cycle", "take", "emptied", "ackload", "ack"}

\* Core 1 has loaded the status and not stored it yet.
Window == {"rx", "ack"}

-----------------------------------------------------------------------------
(* Core 0.  The callback runs on Core 0 too, so that none of its own steps *)
(* falls between the load and the store of the callback.                   *)

Main(here, there) == isr = "idle" /\ c0 = here /\ c0' = there

\* The next byte of a T_CONSOLE_LINE packet.
Byte(x) ==
  /\ Main("packets", "room")
  /\ char' = x
  /\ UNCHANGED <<ring, status, control, irq, timer, tick, core1, due, glitch>>

\* if (!term_input.Full()): the byte is dropped when it is full.
Drop ==
  /\ Main("room", "packets")
  /\ Full
  /\ UNCHANGED <<ring, status, control, irq, char, timer, tick, core1, due, glitch>>

\* Fault: room is not asked for.
RoomUnchecked ==
  /\ Main("room", "store")
  /\ UNCHANGED <<ring, status, control, irq, char, timer, tick, core1, due, glitch>>

Room ==
  /\ Main("room", "store")
  /\ ~Full
  /\ UNCHANGED <<ring, status, control, irq, char, timer, tick, core1, due, glitch>>

Store ==
  /\ Main("store", "publish")
  /\ buf' = [buf EXCEPT ![nextIn] = char]
  /\ UNCHANGED <<nextIn, nextOut, status, control, irq, char, timer, tick, core1, due, glitch>>

Publish ==
  /\ Main("publish", "packets")
  /\ nextIn' = Succ(nextIn)
  /\ UNCHANGED <<buf, nextOut, status, control, irq, char, timer, tick, core1, due, glitch>>

\* fault_triggered is seen: STATE_FAULT, the dump, STATE_HALTED.  The timer
\* goes on.
SeeFault ==
  /\ Main("packets", "halted")
  /\ c1 \in {"phase4", "off"}
  /\ UNCHANGED <<ring, status, control, irq, char, timer, tick, core1, due, glitch>>

\* restart_to_restarted_state() in five steps.  First ReleaseIRQ(), with
\* Core 1 still running.
ReleaseIrq ==
  /\ \E state \in {"packets", "halted", "config"} : Main(state, "reset")
  /\ irq' = FALSE
  /\ glitch' = glitch \ {"irq"}
  /\ UNCHANGED <<ring, status, control, char, timer, tick, core1, due>>

\* multicore_reset_core1(), wherever Core 1 is: what it had loaded is lost.
ResetCore1 ==
  /\ Main("reset", "cancel")
  /\ c1' = "off"
  /\ loaded' = {}
  /\ acks' = {}
  /\ UNCHANGED <<ring, status, control, irq, char, timer, tick, prevIrq, left, got, due, glitch>>

\* Fault: the timer of the last session is left running.
CancelNothing ==
  /\ Main("cancel", "clear")
  /\ UNCHANGED <<ring, status, control, irq, char, timer, tick, core1, due, glitch>>

CancelTimer ==
  /\ Main("cancel", "clear")
  /\ timer' = FALSE
  /\ UNCHANGED <<ring, status, control, irq, char, tick, core1, due, glitch>>

\* The registers are zeroed and the ring is reset.
Clear ==
  /\ Main("clear", "config")
  /\ status' = {}
  /\ control' = {}
  /\ nextIn' = 0
  /\ nextOut' = 0
  /\ due' = FALSE
  /\ glitch' = glitch \ {"tick"}
  /\ UNCHANGED <<buf, irq, char, timer, tick, core1>>

\* Fault: prev_irq_needed survives from the last session.
StartRemembering ==
  /\ Main("config", "timer")
  /\ c1' = "phase1"
  /\ UNCHANGED <<ring, status, control, irq, char, timer, tick, prevIrq, left, loaded, acks, got,
                 due, glitch>>

\* The RPC start launches Core 1, whose locals are fresh ...
Start ==
  /\ Main("config", "timer")
  /\ c1' = "phase1"
  /\ prevIrq' = FALSE
  /\ UNCHANGED <<ring, status, control, irq, char, timer, tick, left, loaded, acks, got, due, glitch>>

\* ... and then, after it has let the 6309 go, adds the timer.
AddTimer ==
  /\ Main("timer", "packets")
  /\ timer' = TRUE
  /\ UNCHANGED <<ring, status, control, irq, char, tick, core1, due, glitch>>

-----------------------------------------------------------------------------
(* Timer60HzCallback: sim_status_reg |= SIM_TIMER_BIT.                     *)

TickLoad ==
  /\ timer
  /\ isr = "idle"
  /\ isr' = "loaded"
  /\ seen' = status
  /\ UNCHANGED <<ring, status, control, irq, core0, core1, due, glitch>>

TickStore ==
  /\ isr = "loaded"
  /\ isr' = "idle"
  /\ status' = seen \cup {"timer"}
  /\ seen' = {}
  /\ glitch' = IF c1 \in Window THEN glitch \cup {"tick"} ELSE glitch
  /\ due' = ("tick" \notin glitch')
  /\ UNCHANGED <<ring, control, irq, core0, core1>>

-----------------------------------------------------------------------------
(* Core 1.                                                                 *)

Go(here, there) == c1 = here /\ c1' = there

\* A store of the status races with a callback that has loaded it.
Raced == IF isr = "loaded" THEN glitch \cup {"tick"} ELSE glitch

\* The reset vector was fetched: Phase 2 begins.
Enter ==
  /\ Go("phase1", "top")
  /\ left' = GroupSize
  /\ UNCHANGED <<ring, status, control, irq, core0, tick, prevIrq, loaded, acks, got, due, glitch>>

\* Top of a group: input waits, and the RX bit is to be set ...
SeeInput ==
  /\ Go("top", "rx")
  /\ ~Empty
  /\ loaded' = status
  /\ UNCHANGED <<ring, status, control, irq, core0, tick, prevIrq, left, acks, got, due, glitch>>

SetRx ==
  /\ Go("rx", "irq")
  /\ status' = loaded \cup {"rx"}
  /\ loaded' = {}
  /\ glitch' = Raced
  /\ due' = (due /\ "tick" \notin Raced)
  /\ UNCHANGED <<ring, control, irq, core0, tick, prevIrq, left, acks, got>>

\* Fault: a loop that does not look at the input.
LookAway ==
  /\ Go("top", "irq")
  /\ UNCHANGED <<ring, status, control, irq, core0, tick, prevIrq, left, loaded, acks, got, due, glitch>>

\* ... or none waits.
SeeNoInput ==
  /\ Go("top", "irq")
  /\ Empty
  /\ UNCHANGED <<ring, status, control, irq, core0, tick, prevIrq, left, loaded, acks, got, due, glitch>>

\* irq_needed is computed; the pin is touched only when it changes.  If
\* Core 0 is between ReleaseIRQ and multicore_reset_core1, nobody will take
\* the pin back.
Drive ==
  /\ Go("irq", "cycle")
  /\ LET needed == status \cap control # {}
     IN  IF needed # prevIrq
         THEN /\ irq' = needed
              /\ prevIrq' = needed
              /\ glitch' = IF needed /\ c0 = "reset" THEN glitch \cup {"irq"} ELSE glitch \ {"irq"}
         ELSE UNCHANGED <<irq, prevIrq, glitch>>
  /\ UNCHANGED <<ring, status, control, core0, tick, left, loaded, acks, got, due>>

\* A bus cycle ends, and perhaps a group.
CycleEnds ==
  /\ c1' = IF left = 1 THEN "top" ELSE "cycle"
  /\ left' = IF left = 1 THEN GroupSize ELSE left - 1

\* A cycle that reads or writes something else, or reads a register that
\* does not change by it.
Other ==
  /\ c1 = "cycle"
  /\ CycleEnds
  /\ UNCHANGED <<ring, status, control, irq, core0, tick, prevIrq, loaded, acks, got, due, glitch>>

\* $FF03 is written: sim_control_reg.
WriteControl(v) ==
  /\ c1 = "cycle"
  /\ control' = v
  /\ CycleEnds
  /\ UNCHANGED <<ring, status, irq, core0, tick, prevIrq, loaded, acks, got, due, glitch>>

\* $FF02 is written: the bits in it are cleared, the timer bit first, each
\* with a load and a store of its own.
WriteStatus(v) ==
  /\ Go("cycle", "ackload")
  /\ v # {}
  /\ acks' = v
  /\ UNCHANGED <<ring, status, control, irq, core0, tick, prevIrq, left, loaded, got, due, glitch>>

AckLoad ==
  /\ Go("ackload", "ack")
  /\ loaded' = status
  /\ UNCHANGED <<ring, status, control, irq, core0, tick, prevIrq, left, acks, got, due, glitch>>

NextAck == IF "timer" \in acks THEN "timer" ELSE "rx"

\* Fault: the whole register is cleared.
AckAll ==
  /\ c1 = "ack"
  /\ status' = {}
  /\ loaded' = {}
  /\ due' = (due /\ NextAck # "timer" /\ "tick" \notin Raced)
  /\ acks' = acks \ {NextAck}
  /\ glitch' = Raced
  /\ IF acks' = {} THEN CycleEnds ELSE c1' = "ackload" /\ UNCHANGED left
  /\ UNCHANGED <<ring, control, irq, core0, tick, prevIrq, got>>

AckStore ==
  /\ c1 = "ack"
  /\ status' = loaded \ {NextAck}
  /\ loaded' = {}
  /\ due' = (due /\ NextAck # "timer" /\ "tick" \notin Raced)
  /\ acks' = acks \ {NextAck}
  /\ glitch' = Raced
  /\ IF acks' = {} THEN CycleEnds ELSE c1' = "ackload" /\ UNCHANGED left
  /\ UNCHANGED <<ring, control, irq, core0, tick, prevIrq, got>>

\* $FF01 is read with no input: 0, and the RX bit stays as it is.
ReadNothing ==
  /\ c1 = "cycle"
  /\ Empty
  /\ CycleEnds
  /\ UNCHANGED <<ring, status, control, irq, core0, tick, prevIrq, loaded, acks, got, due, glitch>>

\* $FF01 is read: term_input.Take(), a load of the slot ...
ReadInput ==
  /\ Go("cycle", "take")
  /\ ~Empty
  /\ UNCHANGED <<ring, status, control, irq, core0, tick, prevIrq, left, loaded, acks, got, due, glitch>>

\* ... and the advance of nextOut; then the ring is looked at again ...
Take ==
  /\ Go("take", "emptied")
  /\ got' = buf[nextOut]
  /\ nextOut' = Succ(nextOut)
  /\ UNCHANGED <<buf, nextIn, status, control, irq, core0, tick, prevIrq, left, loaded, acks, due, glitch>>

\* ... and the RX bit is cleared if that was the last byte.
TakenLast ==
  /\ Go("emptied", "ackload")
  /\ Empty
  /\ acks' = {"rx"}
  /\ UNCHANGED <<ring, status, control, irq, core0, tick, prevIrq, left, loaded, got, due, glitch>>

TakenOne ==
  /\ c1 = "emptied"
  /\ ~Empty
  /\ CycleEnds
  /\ UNCHANGED <<ring, status, control, irq, core0, tick, prevIrq, loaded, acks, got, due, glitch>>

\* A limit or a fault is met, in Phase 1 too: Phase 4, which reads and writes
\* plain memory ...
Stop ==
  /\ \E here \in {"phase1", "top", "cycle"} : Go(here, "phase4")
  /\ UNCHANGED <<ring, status, control, irq, core0, tick, prevIrq, left, loaded, acks, got, due, glitch>>

\* ... releases the pin and returns.
Finish ==
  /\ Go("phase4", "off")
  /\ irq' = FALSE
  /\ glitch' = glitch \ {"irq"}
  /\ UNCHANGED <<ring, status, control, core0, tick, prevIrq, left, loaded, acks, got, due>>

-----------------------------------------------------------------------------
Init ==
  /\ buf = [i \in Index |-> Blank] /\ nextIn = 0 /\ nextOut = 0
  /\ status = {} /\ control = {} /\ irq = FALSE
  /\ c0 = "config" /\ char = Blank
  /\ timer = FALSE /\ isr = "idle" /\ seen = {}
  /\ c1 = "off" /\ prevIrq = FALSE /\ left = GroupSize
  /\ loaded = {} /\ acks = {} /\ got = Blank
  /\ due = FALSE /\ glitch = {}

Console == (\E x \in Item : Byte(x)) \/ Drop \/ Room \/ Store \/ Publish
Restart == ReleaseIrq \/ ResetCore1 \/ CancelTimer \/ Clear \/ Start \/ AddTimer
Cpu     == \/ \E v \in Enables : WriteControl(v)
           \/ \E v \in SUBSET Bits : WriteStatus(v)
           \/ ReadNothing \/ ReadInput \/ Other
Engine  == \/ Enter \/ SeeInput \/ SetRx \/ SeeNoInput \/ Drive \/ AckLoad \/ AckStore
           \/ Take \/ TakenLast \/ TakenOne \/ Finish

Next == Console \/ SeeFault \/ Restart \/ TickLoad \/ TickStore \/ Cpu \/ Engine \/ Stop

Spec == Init /\ [][Next]_vars

\* Core 1 never waits for the other parties, and the callback ends.  The
\* callback comes every 16.7 ms, a group of 50 bus cycles takes well under
\* 1 ms: a tick cannot overtake every look at the pin, hence the strong
\* fairness.  Nothing makes a user type, a tick come or a session stop.
FairSpec ==
  /\ Spec
  /\ WF_vars(Engine \/ Cpu)
  /\ WF_vars(TickStore)
  /\ SF_vars(Drive /\ status \cap control # {})

-----------------------------------------------------------------------------
(* Properties.                                                             *)

TypeOK ==
  /\ buf \in [Index -> Item] /\ nextIn \in Index /\ nextOut \in Index
  /\ status \subseteq Bits /\ control \subseteq Bits
  /\ irq \in BOOLEAN
  /\ c0 \in {"packets", "room", "store", "publish", "halted", "reset", "cancel", "clear",
             "config", "timer"}
  /\ char \in Item
  /\ timer \in BOOLEAN /\ isr \in {"idle", "loaded"} /\ seen \subseteq Bits
  /\ c1 \in InGroup \cup {"off", "phase1", "phase4"}
  /\ prevIrq \in BOOLEAN /\ left \in 1 .. GroupSize
  /\ loaded \subseteq Bits /\ acks \subseteq Bits /\ got \in Item
  /\ due \in BOOLEAN /\ glitch \subseteq {"tick", "irq"}

Used    == IF nextIn >= nextOut THEN nextIn - nextOut ELSE nextIn + Size - nextOut
Slot(k) == IF nextOut + k - 1 >= Size THEN nextOut + k - 1 - Size ELSE nextOut + k - 1

\* The console input that waits, oldest first.
Waiting == [k \in 1 .. Used |-> buf[Slot(k)]]

\* term_input, two plain indices and no barrier, is a first-in first-out
\* queue for any interleaving of a Core 0 that types into it and a Core 1
\* that takes from it: the 6309 reads the bytes that were typed, in order and
\* once, and a byte is dropped only when Size - 1 wait.  It survives a Core 1
\* that is reset in the middle of a Take.
Queue == INSTANCE BoundedQueue
           WITH queue <- Waiting, waiting <- c0 \in {"room", "store", "publish"},
                offered <- char, taken <- got, Capacity <- Size - 1
InputQueue == Queue!Spec

\* sim_status_reg tells the truth, in spite of being changed by both cores
\* without a lock, unless a tick fell into the few instructions between a
\* load and a store of Core 1: the timer bit is set if and only if a tick has
\* not been acknowledged, and the RX bit only while input waits.
StatusTrue ==
  "tick" \notin glitch =>
    /\ (c1 \notin Window /\ isr = "idle") => ("timer" \in status <=> due)
    /\ (c1 \in {"top", "irq", "cycle"} /\ "rx" \in status) => ~Empty

\* A session starts with a clean ACIA, whatever the session before it was
\* doing when it was stopped: when Core 1 is launched no bit is set or
\* enabled, no input waits and no callback is under way that would bring an
\* old status back.
StartsClean ==
  (c1 = "phase1" /\ c0 = "timer") => status = {} /\ control = {} /\ Empty /\ isr = "idle"

\* The pin and prev_irq_needed, which remembers it, agree while Core 1 runs,
\* and nobody is interrupted by a session that has ended, unless Core 1
\* asserted the pin between the ReleaseIRQ and the multicore_reset_core1 of a
\* restart.  If they parted, an interrupt would be lost or never end.
IrqMirrors ==
  (c0 # "reset" /\ "irq" \notin glitch) =>
    /\ c1 \in InGroup => irq = prevIrq
    /\ c1 \in {"off", "phase1"} => ~irq

\* Input is announced: when a byte waits and the program has enabled the
\* interrupt, the pin is asserted at some later group even if a tick
\* overwrites the RX bit that Core 1 has just set, unless the session is
\* stopped or restarted.
InputAnnounced ==
  (c1 \in InGroup /\ ~Empty /\ "rx" \in control)
    ~> (irq \/ Empty \/ "rx" \notin control \/ c1 \notin InGroup \/ c0 = "reset")
=============================================================================
