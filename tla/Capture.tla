------------------------------- MODULE Capture -------------------------------
(***************************************************************************)
(* Phase 4 of TurboLab: how the registers of a stopped 6309 are captured   *)
(* (firmware/main.cpp).  Core 1 lets the instruction under way finish,     *)
(* gives the CPU an SWI opcode in place of the next one, and collects the  *)
(* registers as the CPU stacks them; an NMI wakes a CPU that waits.        *)
(*                                                                         *)
(* Core 1 does not see the bus: the state machine of the PIO, Hamster      *)
(* (firmware/hamster.pio, hamster.h), drives the clock of the CPU and      *)
(* speaks with Core 1 through two FIFOs.  For each bus cycle it waits for  *)
(* a word, pushes the early pins, then either waits for the data byte of a *)
(* read or samples the byte of a write, and pushes the late pins.  Nothing *)
(* marks the words: the two sides must stay in step.                       *)
(*                                                                         *)
(* The CPU is not part of the repository.  It is modelled by the bus       *)
(* cycles that the code expects of it, with any instruction of 2 cycles or *)
(* more; a byte of memory is named by its address.                         *)
(***************************************************************************)
EXTENDS Naturals, Sequences

CONSTANTS
  Entry,     \* how Phase 4 is entered: "limit" after a whole bus cycle, as at
             \*   a limit or a fault found late in it, or "redpage" in its
             \*   middle, as at a red page fault
  MaxInsn,   \* bound: the cycles an instruction has left after its opcode
  MaxCycles  \* P4_MAX_CYCLES, 256 in the firmware

ASSUME EntryAssumption == Entry \in {"limit", "redpage"}
ASSUME BoundsAssumption == MaxInsn \in Nat /\ MaxInsn >= 1 /\ MaxCycles \in Nat

VARIABLES
  pos,                 \* where Core 1 is in its cycle
  state, prevLic, n,   \* p4_state, LIC in prev_late_pins, p4_cycle
  addr, reading,       \* of the cycle as Core 1 sees it
  streak, bytes,       \* write_streak_count, swi_stack_bytes
  injected,            \* swi_injected_pc, or "none"
  regs,                \* cpu_registers: valid, streak_len, the bytes and pc
  halt, nmi,           \* the pins
  tx, rx, pio,         \* Hamster: the words to it and from it; its place
  cpu,                 \* the CPU: see Cpu
  cyc,                 \* the bus cycle it is in
  read, wrote, stored  \* history: the last byte read by the CPU, written by
                       \*   the CPU, and stored by Core 1

core  == <<pos, state, prevLic, n, addr, reading, streak, bytes, injected, regs, halt, nmi, stored>>
link  == <<tx, rx>>
board == <<pio, cpu, cyc, read, wrote>>
vars  == <<pos, state, prevLic, n, addr, reading, streak, bytes, injected, regs, halt, nmi, stored,
           tx, rx, pio, cpu, cyc, read, wrote>>

\* next is the instruction after the one under way when Core 1 enters Phase 4,
\* handler the one NMI and IRQ lead to.
Place   == {"next", "later", "handler"}
Vector  == {"fff8", "fffa", "fffc"}
Address == Place \cup Vector \cup {"data", "stack", "ffff", "red"}
Noise   == 15              \* what the data lines carry early in a cycle
Byte    == 0 .. Noise      \* 1 to 14: the bytes of a register frame, in order

-----------------------------------------------------------------------------
(* The CPU.  doing: insn, an instruction with left cycles to go; fetch, an *)
(* opcode; enter, the reads before a stacking; push, with left bytes to    *)
(* go; pushed, the idle cycle after; vector, its two bytes; last, the idle *)
(* cycle that ends the sequence; wait, in SYNC or CWAI.  resume is where   *)
(* the program would go on if it were not stopped.                         *)

Cpu == [doing : {"insn", "fetch", "enter", "push", "pushed", "vector", "last", "wait"},
        left : Nat, pc : Place, vector : Vector, frame : {12, 14},
        resume : Place]

Cyc(r, b, l, a, d) == [read |-> r, bs |-> b, lic |-> l, addr |-> a, byte |-> d]
Idle(l) == Cyc(TRUE, FALSE, l, "ffff", 0)

\* The cycles an instruction may be in.
InsnCycles(last) ==
  {Idle(last), Cyc(TRUE, FALSE, last, "data", 0), Cyc(FALSE, FALSE, last, "data", 0)}

Becomes(c, now) == cpu' = c /\ cyc' = now

\* The end of an instruction: the next opcode is read at pc.
Boundary(pc) ==
  \/ Becomes([cpu EXCEPT !.doing = "fetch", !.pc = pc], Cyc(TRUE, FALSE, FALSE, pc, 0))
  \* ... or an interrupt is taken, which begins with the same read.
  \/ \E v \in {"fff8"} \cup (IF nmi THEN {"fffc"} ELSE {}) :
       Becomes([cpu EXCEPT !.doing = "enter", !.left = 1, !.pc = pc, !.vector = v],
               Cyc(TRUE, FALSE, FALSE, pc, 0))

\* An instruction with k cycles to go.
Insn(k, pc) ==
  \E now \in InsnCycles(k = 1) : Becomes([cpu EXCEPT !.doing = "insn", !.left = k, !.pc = pc], now)

\* The bus cycle ends; value is what the CPU read in it.
CpuStep(value) ==
  CASE cpu.doing = "insn" ->
         IF cpu.left > 1 THEN Insn(cpu.left - 1, cpu.pc) ELSE Boundary(cpu.pc)
    [] cpu.doing = "fetch" /\ value = "swi" ->
         Becomes([cpu EXCEPT !.doing = "enter", !.left = 2, !.vector = "fffa"], Idle(FALSE))
    [] cpu.doing = "fetch" /\ value # "swi" ->
         \E k \in 1 .. MaxInsn : Insn(k, "later")
    [] cpu.doing = "enter" /\ cpu.left > 1 ->
         Becomes([cpu EXCEPT !.left = 1], Idle(FALSE))
    [] cpu.doing = "enter" /\ cpu.left = 1 ->
         Becomes([cpu EXCEPT !.doing = "push", !.left = cpu.frame],
                 Cyc(FALSE, FALSE, FALSE, "stack", 1))
    [] cpu.doing = "push" /\ cpu.left > 1 ->
         Becomes([cpu EXCEPT !.left = cpu.left - 1],
                 Cyc(FALSE, FALSE, FALSE, "stack", cpu.frame - cpu.left + 2))
    [] cpu.doing = "push" /\ cpu.left = 1 ->
         Becomes([cpu EXCEPT !.doing = "pushed"], Idle(FALSE))
    [] cpu.doing = "pushed" ->
         Becomes([cpu EXCEPT !.doing = "vector", !.left = 2],
                 Cyc(TRUE, TRUE, FALSE, cpu.vector, 0))
    [] cpu.doing = "vector" ->
         IF cpu.left = 2
         THEN Becomes([cpu EXCEPT !.left = 1], Cyc(TRUE, TRUE, FALSE, cpu.vector, 0))
         ELSE Becomes([cpu EXCEPT !.doing = "last"], Idle(TRUE))
    [] cpu.doing = "last" -> Boundary("handler")
    [] cpu.doing = "wait" ->
         IF nmi
         THEN \* SYNC stacks now, CWAI has stacked already.
              \/ Becomes([cpu EXCEPT !.doing = "enter", !.left = 2, !.vector = "fffc"], Idle(FALSE))
              \/ Becomes([cpu EXCEPT !.doing = "pushed", !.vector = "fffc"], Idle(FALSE))
         ELSE Becomes(cpu, Idle(FALSE))

-----------------------------------------------------------------------------
(* Hamster.  A word carries the R/W, BS and LIC pins and the data lines.   *)

Word(d) == [read |-> cyc.read, bs |-> cyc.bs, lic |-> cyc.lic, byte |-> d]

\* pull, whatever the word is; the early pins.
Early ==
  /\ pio = "loop" /\ tx # << >>
  /\ tx' = Tail(tx)
  /\ rx' = Append(rx, Word(Noise))
  /\ pio' = "mid"
  /\ UNCHANGED <<core, cpu, cyc, read, wrote>>

\* A read: pull the byte, drive it, push the late pins.
LateRead ==
  /\ pio = "mid" /\ cyc.read /\ tx # << >>
  /\ tx' = Tail(tx)
  /\ rx' = Append(rx, Word(Noise))
  /\ pio' = "loop"
  /\ read' = [addr |-> cyc.addr, value |-> Head(tx)]
  /\ CpuStep(Head(tx))
  /\ UNCHANGED <<core, wrote>>

\* A write: push the late pins, with the byte written.  By then Core 1, which
\* waits for the early word, has taken it and the address that goes with it:
\* the delay T3 of the program is there for that.
LateWrite ==
  /\ pio = "mid" /\ ~cyc.read /\ rx = << >>
  /\ rx' = Append(rx, Word(cyc.byte))
  /\ pio' = "loop"
  /\ wrote' = [addr |-> cyc.addr, byte |-> cyc.byte]
  /\ CpuStep("none")
  /\ UNCHANGED <<core, tx, read>>

-----------------------------------------------------------------------------
(* Core 1.                                                                 *)

\* Fault: nothing wakes a CPU that waits.
SyncAsleep ==
  /\ pos = "sync" /\ n < MaxCycles
  /\ tx' = Append(tx, "zero")
  /\ pos' = "early"
  /\ UNCHANGED <<state, prevLic, n, addr, reading, streak, bytes, injected, regs, halt, nmi, stored,
                 rx, board>>

\* A word to start the bus cycle.  After four cycles without LIC the NMI pin
\* is asserted.
Sync ==
  /\ pos = "sync" /\ n < MaxCycles
  /\ nmi' = (nmi \/ (state = "AwaitLic" /\ n >= 4))
  /\ tx' = Append(tx, "zero")
  /\ pos' = "early"
  /\ UNCHANGED <<state, prevLic, n, addr, reading, streak, bytes, injected, regs, halt, stored, rx,
                 board>>

Complete == streak \in {12, 14}

\* The early pins, and the address, which comes straight from the GPIO.
Take(w) == /\ rx # << >> /\ w = Head(rx) /\ rx' = Tail(rx)

\* Fault: the loop is left before the read is answered.
LeaveEarly(w) ==
  /\ pos = "early" /\ Take(w) /\ w.read
  /\ Complete /\ (cyc.addr = "fffa" \/ (w.bs /\ cyc.addr \in Vector))
  /\ halt' = TRUE
  /\ state' = "Done"
  /\ addr' = cyc.addr /\ reading' = TRUE
  /\ pos' = "last"
  /\ UNCHANGED <<prevLic, n, streak, bytes, injected, regs, nmi, stored, tx, board>>

\* The vector of the SWI, or of an interrupt that came in its place, is read
\* after a whole frame: halt the CPU.
EarlyVector(w) ==
  /\ pos = "early" /\ Take(w) /\ w.read
  /\ Complete /\ (cyc.addr = "fffa" \/ (w.bs /\ cyc.addr \in Vector))
  /\ halt' = TRUE
  /\ state' = "Done"
  /\ tx' = Append(tx, cyc.addr)
  /\ addr' = cyc.addr /\ reading' = TRUE
  /\ pos' = "last"
  /\ UNCHANGED <<prevLic, n, streak, bytes, injected, regs, nmi, stored, board>>

\* Any other read: memory, or the SWI.  A streak that is not a whole frame is
\* forgotten.  The read of the FIRQ vector, which would forget one of 3 too
\* and go on in AwaitLic, is left out: the firmware never asserts FIRQ.
EarlyRead(w) ==
  /\ pos = "early" /\ Take(w) /\ w.read
  /\ ~(Complete /\ (cyc.addr = "fffa" \/ (w.bs /\ cyc.addr \in Vector)))
  /\ streak' = IF Complete THEN streak ELSE 0
  /\ IF state = "Inject"
     THEN injected' = cyc.addr /\ state' = "AwaitStack" /\ tx' = Append(tx, "swi")
     ELSE tx' = Append(tx, cyc.addr) /\ UNCHANGED <<injected, state>>
  /\ addr' = cyc.addr /\ reading' = TRUE
  /\ pos' = "late"
  /\ UNCHANGED <<prevLic, n, bytes, regs, halt, nmi, stored, board>>

\* Fault: a write is answered like a read.
AnswerWrite(w) ==
  /\ pos = "early" /\ Take(w) /\ ~w.read
  /\ addr' = cyc.addr /\ reading' = FALSE
  /\ tx' = Append(tx, cyc.addr)
  /\ pos' = "late"
  /\ UNCHANGED <<state, prevLic, n, streak, bytes, injected, regs, halt, nmi, stored, board>>

EarlyWrite(w) ==
  /\ pos = "early" /\ Take(w) /\ ~w.read
  /\ addr' = cyc.addr /\ reading' = FALSE
  /\ pos' = "late"
  /\ UNCHANGED <<state, prevLic, n, streak, bytes, injected, regs, halt, nmi, stored, tx, board>>

AfterLic(w) == IF state = "AwaitLic" /\ w.lic THEN "Inject" ELSE state

LateOfRead(w) ==
  /\ pos = "late" /\ reading /\ Take(w)
  /\ state' = AfterLic(w)
  /\ prevLic' = w.lic
  /\ n' = n + 1 /\ pos' = "sync"
  /\ UNCHANGED <<addr, reading, streak, bytes, injected, regs, halt, nmi, stored, tx, board>>

\* Fault: the address is looked at when the byte comes.
StoreLate(w) ==
  /\ pos = "late" /\ ~reading /\ Take(w)
  /\ stored' = [addr |-> cyc.addr, byte |-> w.byte]
  /\ bytes' = IF streak = 0 THEN <<w.byte>> ELSE Append(bytes, w.byte)
  /\ streak' = IF state = "AwaitStack" THEN streak + 1 ELSE streak
  /\ state' = AfterLic(w)
  /\ prevLic' = w.lic
  /\ n' = n + 1 /\ pos' = "sync"
  /\ UNCHANGED <<addr, reading, injected, regs, halt, nmi, tx, board>>

\* A write goes to memory and, after the injection, into the frame.
LateOfWrite(w) ==
  /\ pos = "late" /\ ~reading /\ Take(w)
  /\ stored' = [addr |-> addr, byte |-> w.byte]
  /\ IF state = "AwaitStack"
     THEN /\ bytes' = IF streak = 0 THEN <<w.byte>>
                      ELSE IF streak < 16 THEN Append(bytes, w.byte) ELSE bytes
          /\ streak' = streak + 1
     ELSE UNCHANGED <<bytes, streak>>
  /\ state' = AfterLic(w)
  /\ prevLic' = w.lic
  /\ n' = n + 1 /\ pos' = "sync"
  /\ UNCHANGED <<addr, reading, injected, regs, halt, nmi, tx, board>>

LateOfVector(w) ==
  /\ pos = "last" /\ Take(w)
  /\ prevLic' = w.lic
  /\ pos' = "end"
  /\ UNCHANGED <<state, n, addr, reading, streak, bytes, injected, regs, halt, nmi, stored, tx, board>>

\* The pins are released, the CPU is halted, and the frame is unpacked if it
\* is whole.
Finish ==
  /\ pos = "end" \/ (pos = "sync" /\ n = MaxCycles)
  /\ nmi' = FALSE /\ halt' = TRUE
  /\ regs' = [valid |-> Complete, frame |-> IF Complete THEN bytes ELSE << >>, pc |-> injected]
  /\ pos' = "done"
  /\ UNCHANGED <<state, prevLic, n, addr, reading, streak, bytes, injected, stored, link, board>>

-----------------------------------------------------------------------------
\* Where the CPU may be when Phase 4 is entered: in an instruction, between
\* two, in an interrupt, or waiting.
InitCpu(c, lic, now) ==
  /\ cpu = c /\ prevLic = lic /\ cyc = now

Somewhere(f) ==
  LET At(d, k, p) == [doing |-> d, left |-> k, pc |-> p, vector |-> "fff8", frame |-> f, resume |-> p]
  IN  \/ \E k \in 1 .. MaxInsn : \E now \in InsnCycles(k = 1) : InitCpu(At("insn", k, "next"), FALSE, now)
      \/ InitCpu(At("fetch", 0, "next"), TRUE, Cyc(TRUE, FALSE, FALSE, "next", 0))
      \/ InitCpu(At("enter", 1, "next"), TRUE, Cyc(TRUE, FALSE, FALSE, "next", 0))
      \/ \E k \in 1 .. f : InitCpu(At("push", k, "handler"), FALSE, Cyc(FALSE, FALSE, FALSE, "stack", f - k + 1))
      \/ InitCpu(At("wait", 0, "handler"), FALSE, Idle(FALSE))

\* A red page fault is met after the early pins of a cycle, between two
\* instructions or in one.
InRedPage(f) ==
  \E k \in 1 .. MaxInsn, r \in BOOLEAN :
    InitCpu([doing |-> "insn", left |-> k, pc |-> "next", vector |-> "fff8", frame |-> f,
             resume |-> "next"], FALSE, Cyc(r, FALSE, k = 1, "red", 0))

Init ==
  /\ pos = "sync" /\ n = 0
  /\ \E f \in {12, 14} : IF Entry = "limit" THEN Somewhere(f) ELSE InRedPage(f)
  /\ pio = IF Entry = "limit" THEN "loop" ELSE "mid"
  /\ tx = << >> /\ rx = << >>
  /\ state = IF prevLic THEN "Inject" ELSE "AwaitLic"
  /\ addr = "data" /\ reading = TRUE
  /\ streak = 0 /\ bytes = << >> /\ injected = "none"
  /\ regs = [valid |-> FALSE, frame |-> << >>, pc |-> "none"]
  /\ halt = FALSE /\ nmi = FALSE
  /\ read = [addr |-> "data", value |-> "data"]
  /\ wrote = [addr |-> "data", byte |-> 0] /\ stored = wrote

Hamster == Early \/ LateRead \/ LateWrite

Core1 ==
  \/ Sync \/ Finish
  \/ \E w \in {rx[i] : i \in 1 .. Len(rx)} :
       EarlyVector(w) \/ EarlyRead(w) \/ EarlyWrite(w) \/ LateOfRead(w) \/ LateOfWrite(w) \/ LateOfVector(w)

Next == Hamster \/ Core1

Spec == Init /\ [][Next]_vars

\* Neither the state machine nor Core 1 stops while the other one has left it
\* something to do.
FairSpec == Spec /\ WF_vars(Hamster) /\ WF_vars(Core1)

-----------------------------------------------------------------------------
(* Properties.                                                             *)

TypeOK ==
  /\ pos \in {"sync", "early", "late", "last", "end", "done"}
  /\ state \in {"AwaitLic", "Inject", "AwaitStack", "Done"}
  /\ prevLic \in BOOLEAN /\ n \in 0 .. MaxCycles
  /\ addr \in Address /\ reading \in BOOLEAN
  /\ streak \in 0 .. MaxCycles /\ bytes \in Seq(Byte) /\ Len(bytes) <= 16
  /\ injected \in Address \cup {"none"}
  /\ regs \in [valid : BOOLEAN, frame : Seq(Byte), pc : Address \cup {"none"}]
  /\ halt \in BOOLEAN /\ nmi \in BOOLEAN
  /\ tx \in Seq(Address \cup {"zero", "swi"}) /\ Len(tx) <= 4
  /\ rx \in Seq([read : BOOLEAN, bs : BOOLEAN, lic : BOOLEAN, byte : Byte]) /\ Len(rx) <= 4
  /\ pio \in {"loop", "mid"}
  /\ cpu \in Cpu
  /\ cyc \in [read : BOOLEAN, bs : BOOLEAN, lic : BOOLEAN, addr : Address, byte : Byte]

\* Core 1 services the bus from memory until the CPU is halted: whatever the
\* CPU reads is the byte at the address it asks for, but for the one SWI that
\* Core 1 knows of and the red page, which is not memory, and whatever it writes is stored where it writes it.
\* This needs the two sides of the FIFOs to be in step all the time.
ServedFromRam ==
  /\ \/ read.value = read.addr
     \/ read.value = "swi" /\ injected = read.addr
     \/ read.addr = "red"
  /\ (pos \in {"sync", "end", "done"} /\ n > 0) => stored = wrote

\* The capture succeeds, wherever the CPU is when it is stopped: mid
\* instruction, about to take an IRQ or an NMI, in the middle of stacking one,
\* or asleep, but never in a FIRQ, which nothing drives.  The frame is the one the CPU stacked, whole and in order, in the
\* CPU's own mode, its PC is where the program would have gone on, and the
\* CPU is left halted without an NMI.
Captured ==
  pos = "done" =>
    /\ regs = [valid |-> TRUE, frame |-> [i \in 1 .. cpu.frame |-> i], pc |-> cpu.resume]
    /\ halt /\ ~nmi

\* Phase 4 ends and with it the session: Core 1 and Hamster do not wait for
\* each other.
CaptureEnds == <>(pos = "done")
=============================================================================
