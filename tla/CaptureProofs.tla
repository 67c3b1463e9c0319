---------------------------- MODULE CaptureProofs ----------------------------
(* Theorems about Capture, for every length of an instruction and every    *)
(* limit on the cycles of Phase 4.                                         *)
EXTENDS Capture, TLAPS

CycType  == [read : BOOLEAN, bs : BOOLEAN, lic : BOOLEAN, addr : Address, byte : Byte]
WordType == [read : BOOLEAN, bs : BOOLEAN, lic : BOOLEAN, byte : Byte]
Doing    == {"insn", "fetch", "enter", "push", "pushed", "vector", "last", "wait"}

\* What CpuStep relies on: there is a cycle left to go.
CpuKnows(c) ==
  /\ c \in Cpu
  /\ c.doing = "enter" => c.left >= 1
  /\ c.doing = "push" => c.left >= 1 /\ c.left <= c.frame

-----------------------------------------------------------------------------
(* The CPU keeps its type, whatever it reads.                              *)

LEMMA Addresses ==
  /\ \A p \in Place : p \in Address
  /\ \A v \in Vector : v \in Address
  /\ "data" \in Address /\ "stack" \in Address /\ "ffff" \in Address /\ "red" \in Address
  /\ "next" \in Place /\ "later" \in Place /\ "handler" \in Place
  /\ "fff8" \in Vector /\ "fffa" \in Vector /\ "fffc" \in Vector
BY DEF Place, Vector, Address

LEMMA CycTyped ==
  \A r, b, l \in BOOLEAN, a \in Address, d \in Byte : Cyc(r, b, l, a, d) \in CycType
BY DEF Cyc, CycType

LEMMA SmallBytes == 0 \in Byte /\ 1 \in Byte /\ Noise \in Byte /\ \A i \in 0 .. 15 : i \in Byte
BY DEF Byte, Noise

LEMMA IdleTyped == \A l \in BOOLEAN : Idle(l) \in CycType
BY CycTyped, Addresses, SmallBytes DEF Idle

LEMMA CpuFields ==
  ASSUME NEW c, CpuKnows(c)
  PROVE  /\ c.doing \in Doing /\ c.left \in Nat /\ c.pc \in Place /\ c.vector \in Vector
         /\ c.frame \in {12, 14} /\ c.resume \in Place
BY DEF CpuKnows, Cpu, Doing

LEMMA SetPc ==
  ASSUME NEW c, CpuKnows(c), NEW p \in Place
  PROVE  CpuKnows([c EXCEPT !.doing = "fetch", !.pc = p])
BY DEF CpuKnows, Cpu

LEMMA SetInsn ==
  ASSUME NEW c, CpuKnows(c), NEW p \in Place, NEW k \in Nat
  PROVE  CpuKnows([c EXCEPT !.doing = "insn", !.left = k, !.pc = p])
BY DEF CpuKnows, Cpu

LEMMA SetEnter ==
  ASSUME NEW c, CpuKnows(c), NEW v \in Vector
  PROVE  CpuKnows([c EXCEPT !.doing = "enter", !.left = 2, !.vector = v])
<1> DEFINE e == [c EXCEPT !.doing = "enter", !.left = 2, !.vector = v]
<1>1. e \in Cpu
  BY DEF CpuKnows, Cpu
<1>2. e.doing = "enter" /\ e.left = 2
  BY DEF CpuKnows, Cpu
<1> QED
  BY <1>1, <1>2 DEF CpuKnows

LEMMA SetTaken ==
  ASSUME NEW c, CpuKnows(c), NEW p \in Place, NEW v \in Vector
  PROVE  CpuKnows([c EXCEPT !.doing = "enter", !.left = 1, !.pc = p, !.vector = v])
<1> DEFINE e == [c EXCEPT !.doing = "enter", !.left = 1, !.pc = p, !.vector = v]
<1>1. e \in Cpu
  BY DEF CpuKnows, Cpu
<1>2. e.doing = "enter" /\ e.left = 1
  BY DEF CpuKnows, Cpu
<1> QED
  BY <1>1, <1>2 DEF CpuKnows

LEMMA BoundaryTyped ==
  ASSUME CpuKnows(cpu), NEW p \in Place, Boundary(p)
  PROVE  CpuKnows(cpu') /\ cyc' \in CycType
<1>1. Cyc(TRUE, FALSE, FALSE, p, 0) \in CycType
  BY CycTyped, Addresses, SmallBytes
<1>2. CASE Becomes([cpu EXCEPT !.doing = "fetch", !.pc = p], Cyc(TRUE, FALSE, FALSE, p, 0))
  BY <1>1, <1>2, SetPc DEF Becomes
<1>3. CASE \E v \in {"fff8"} \cup (IF nmi THEN {"fffc"} ELSE {}) :
             Becomes([cpu EXCEPT !.doing = "enter", !.left = 1, !.pc = p, !.vector = v],
                     Cyc(TRUE, FALSE, FALSE, p, 0))
  <2>1. PICK v \in Vector :
          Becomes([cpu EXCEPT !.doing = "enter", !.left = 1, !.pc = p, !.vector = v],
                  Cyc(TRUE, FALSE, FALSE, p, 0))
    BY <1>3, Addresses
  <2>2. CpuKnows([cpu EXCEPT !.doing = "enter", !.left = 1, !.pc = p, !.vector = v])
    BY SetTaken
  <2> QED
    BY <1>1, <2>1, <2>2 DEF Becomes
<1> QED
  BY <1>2, <1>3 DEF Boundary

LEMMA InsnTyped ==
  ASSUME CpuKnows(cpu), NEW k \in Nat, NEW p \in Place, Insn(k, p)
  PROVE  CpuKnows(cpu') /\ cyc' \in CycType
<1>1. PICK now \in InsnCycles(k = 1) :
        Becomes([cpu EXCEPT !.doing = "insn", !.left = k, !.pc = p], now)
  BY DEF Insn
<1>2. \A l \in BOOLEAN : InsnCycles(l) \subseteq CycType
  <2> SUFFICES ASSUME NEW l \in BOOLEAN
               PROVE  /\ Idle(l) \in CycType
                      /\ Cyc(TRUE, FALSE, l, "data", 0) \in CycType
                      /\ Cyc(FALSE, FALSE, l, "data", 0) \in CycType
    BY DEF InsnCycles
  <2>1. Cyc(TRUE, FALSE, l, "data", 0) \in CycType
    BY CycTyped, Addresses, SmallBytes
  <2>2. Cyc(FALSE, FALSE, l, "data", 0) \in CycType
    BY CycTyped, Addresses, SmallBytes
  <2> QED
    BY <2>1, <2>2, IdleTyped
<1>3. now \in CycType
  BY <1>1, <1>2
<1>4. CpuKnows([cpu EXCEPT !.doing = "insn", !.left = k, !.pc = p])
  BY SetInsn
<1> QED
  BY <1>1, <1>3, <1>4 DEF Becomes

LEMMA CpuTyped ==
  ASSUME CpuKnows(cpu), NEW value, CpuStep(value)
  PROVE  CpuKnows(cpu') /\ cyc' \in CycType
<1>1. /\ cpu.doing \in Doing /\ cpu.left \in Nat /\ cpu.pc \in Place /\ cpu.vector \in Vector
      /\ cpu.frame \in {12, 14}
  BY CpuFields
<1>2. CASE cpu.doing = "insn"
  <2>1. IF cpu.left > 1 THEN Insn(cpu.left - 1, cpu.pc) ELSE Boundary(cpu.pc)
    BY <1>2 DEF CpuStep
  <2>2. cpu.left > 1 => cpu.left - 1 \in Nat
    BY <1>1
  <2> QED
    BY <1>1, <2>1, <2>2, InsnTyped, BoundaryTyped
<1>3. CASE cpu.doing = "fetch" /\ value = "swi"
  <2>1. Becomes([cpu EXCEPT !.doing = "enter", !.left = 2, !.vector = "fffa"], Idle(FALSE))
    BY <1>3 DEF CpuStep
  <2>2. CpuKnows([cpu EXCEPT !.doing = "enter", !.left = 2, !.vector = "fffa"])
    BY SetEnter, Addresses
  <2> QED
    BY <2>1, <2>2, IdleTyped DEF Becomes
<1>4. CASE cpu.doing = "fetch" /\ value # "swi"
  <2>1. PICK k \in 1 .. MaxInsn : Insn(k, "later")
    BY <1>4 DEF CpuStep
  <2>2. k \in Nat
    BY <2>1, BoundsAssumption
  <2> QED
    BY <2>1, <2>2, InsnTyped, Addresses
<1>5. CASE cpu.doing = "enter" /\ cpu.left > 1
  <2>0. cpu.doing = "enter" /\ (cpu.left > 1) /\ ~(cpu.left = 1)
    BY <1>1, <1>5
  <2>1. Becomes([cpu EXCEPT !.left = 1], Idle(FALSE))
    BY <2>0, Zenon DEF CpuStep
  <2>2. CpuKnows([cpu EXCEPT !.left = 1])
    BY <1>5 DEF CpuKnows, Cpu
  <2> QED
    BY <2>1, <2>2, IdleTyped DEF Becomes
<1>6. CASE cpu.doing = "enter" /\ cpu.left = 1
  <2>0. cpu.doing = "enter" /\ (cpu.left = 1) /\ ~(cpu.left > 1)
    BY <1>1, <1>6
  <2>1. Becomes([cpu EXCEPT !.doing = "push", !.left = cpu.frame], Cyc(FALSE, FALSE, FALSE, "stack", 1))
    BY <2>0, Zenon DEF CpuStep
  <2>2. CpuKnows([cpu EXCEPT !.doing = "push", !.left = cpu.frame])
    <3> DEFINE e == [cpu EXCEPT !.doing = "push", !.left = cpu.frame]
    <3>1. e \in Cpu
      <4>1. cpu.frame \in Nat
        BY <1>1
      <4> QED
        BY <4>1 DEF CpuKnows, Cpu
    <3>2. e.doing = "push" /\ e.left = cpu.frame /\ e.frame = cpu.frame
      BY <1>1 DEF CpuKnows, Cpu
    <3>3. e.left >= 1 /\ e.left <= e.frame
      BY <1>1, <3>2
    <3> QED
      BY <3>1, <3>2, <3>3 DEF CpuKnows
  <2>3. Cyc(FALSE, FALSE, FALSE, "stack", 1) \in CycType
    BY CycTyped, Addresses, SmallBytes
  <2> QED
    BY <2>1, <2>2, <2>3 DEF Becomes
<1>7. CASE cpu.doing = "push" /\ cpu.left > 1
  <2>0. cpu.doing = "push" /\ (cpu.left > 1) /\ ~(cpu.left = 1)
    BY <1>1, <1>7
  <2>1. Becomes([cpu EXCEPT !.left = cpu.left - 1],
                Cyc(FALSE, FALSE, FALSE, "stack", cpu.frame - cpu.left + 2))
    BY <2>0, Zenon DEF CpuStep
  <2>2. cpu.left >= 1 /\ cpu.left <= cpu.frame
    BY <1>7 DEF CpuKnows
  <2>3. CpuKnows([cpu EXCEPT !.left = cpu.left - 1])
    BY <1>1, <1>7, <2>2 DEF CpuKnows, Cpu
  <2>4. cpu.frame - cpu.left + 2 \in Byte
    <3>1. cpu.frame - cpu.left + 2 \in 0 .. 15
      BY <1>1, <1>7, <2>2
    <3> QED
      BY <3>1, SmallBytes
  <2>5. Cyc(FALSE, FALSE, FALSE, "stack", cpu.frame - cpu.left + 2) \in CycType
    BY <2>4, CycTyped, Addresses
  <2> QED
    BY <2>1, <2>3, <2>5 DEF Becomes
<1>8. CASE cpu.doing = "push" /\ cpu.left = 1
  <2>0. cpu.doing = "push" /\ (cpu.left = 1) /\ ~(cpu.left > 1)
    BY <1>1, <1>8
  <2>1. Becomes([cpu EXCEPT !.doing = "pushed"], Idle(FALSE))
    BY <2>0, Zenon DEF CpuStep
  <2>2. CpuKnows([cpu EXCEPT !.doing = "pushed"])
    BY DEF CpuKnows, Cpu
  <2> QED
    BY <2>1, <2>2, IdleTyped DEF Becomes
<1>9. CASE cpu.doing = "pushed"
  <2>1. Becomes([cpu EXCEPT !.doing = "vector", !.left = 2], Cyc(TRUE, TRUE, FALSE, cpu.vector, 0))
    BY <1>9 DEF CpuStep
  <2>2. CpuKnows([cpu EXCEPT !.doing = "vector", !.left = 2])
    BY DEF CpuKnows, Cpu
  <2>3. Cyc(TRUE, TRUE, FALSE, cpu.vector, 0) \in CycType
    BY <1>1, CycTyped, Addresses, SmallBytes
  <2> QED
    BY <2>1, <2>2, <2>3 DEF Becomes
<1>10. CASE cpu.doing = "vector"
  <2>1. \/ Becomes([cpu EXCEPT !.left = 1], Cyc(TRUE, TRUE, FALSE, cpu.vector, 0))
        \/ Becomes([cpu EXCEPT !.doing = "last"], Idle(TRUE))
    BY <1>10 DEF CpuStep
  <2>2. CpuKnows([cpu EXCEPT !.left = 1]) /\ CpuKnows([cpu EXCEPT !.doing = "last"])
    BY <1>10 DEF CpuKnows, Cpu
  <2>3. Cyc(TRUE, TRUE, FALSE, cpu.vector, 0) \in CycType
    BY <1>1, CycTyped, Addresses, SmallBytes
  <2> QED
    BY <2>1, <2>2, <2>3, IdleTyped DEF Becomes
<1>11. CASE cpu.doing = "last"
  <2>1. Boundary("handler")
    BY <1>11 DEF CpuStep
  <2> QED
    BY <2>1, BoundaryTyped, Addresses
<1>12. CASE cpu.doing = "wait"
  <2>1. \/ Becomes([cpu EXCEPT !.doing = "enter", !.left = 2, !.vector = "fffc"], Idle(FALSE))
        \/ Becomes([cpu EXCEPT !.doing = "pushed", !.vector = "fffc"], Idle(FALSE))
        \/ Becomes(cpu, Idle(FALSE))
    BY <1>12 DEF CpuStep
  <2>2. CpuKnows([cpu EXCEPT !.doing = "enter", !.left = 2, !.vector = "fffc"])
    BY SetEnter, Addresses
  <2>3. CpuKnows([cpu EXCEPT !.doing = "pushed", !.vector = "fffc"])
    BY Addresses DEF CpuKnows, Cpu
  <2> QED
    BY <2>1, <2>2, <2>3, IdleTyped DEF Becomes
<1>13. /\ cpu.doing = "enter" => cpu.left > 1 \/ cpu.left = 1
       /\ cpu.doing = "push" => cpu.left > 1 \/ cpu.left = 1
  BY <1>1 DEF CpuKnows
<1>14. cpu.doing = "fetch" => value = "swi" \/ value # "swi"
  OBVIOUS
<1> QED
  BY <1>1, <1>2, <1>3, <1>4, <1>5, <1>6, <1>7, <1>8, <1>9, <1>10, <1>11, <1>12, <1>13, <1>14 DEF Doing

-----------------------------------------------------------------------------
(* The handshake.  Where Core 1 and Hamster are in a bus cycle, and what   *)
(* is under way between them: at most one word, at one of seven places.    *)

\* Between two cycles.
Quiet ==
  /\ pos \in {"sync", "end", "done"} /\ pio = "loop"
  /\ tx = << >> /\ rx = << >> /\ stored = wrote

\* Core 1 has asked for a cycle; Hamster has sent the early pins.
Called ==
  /\ pos = "early" /\ pio = "loop"
  /\ tx = <<"zero">> /\ rx = << >> /\ stored = wrote
Shown ==
  /\ pos = "early" /\ pio = "mid"
  /\ tx = << >> /\ rx = <<Word(Noise)>> /\ stored = wrote

\* A read: Core 1 has answered it; Hamster has handed the byte to the CPU.
Replied ==
  /\ pos \in {"late", "last"} /\ pio = "mid"
  /\ reading /\ cyc.read /\ addr = cyc.addr
  /\ tx = <<addr>> \/ (tx = <<"swi">> /\ injected = addr)
  /\ rx = << >> /\ stored = wrote
ReadDone ==
  /\ pos \in {"late", "last"} /\ pio = "loop"
  /\ reading
  /\ tx = << >> /\ (\E w \in WordType : rx = <<w>>) /\ stored = wrote

\* A write: Core 1 waits; Hamster has sent the byte.
Writing ==
  /\ pos = "late" /\ pio = "mid"
  /\ ~reading /\ ~cyc.read /\ addr = cyc.addr
  /\ tx = << >> /\ rx = << >> /\ stored = wrote
Written ==
  /\ pos = "late" /\ pio = "loop"
  /\ ~reading
  /\ tx = << >> /\ (\E w \in WordType : rx = <<w>> /\ wrote = [addr |-> addr, byte |-> w.byte])

InStep == Quiet \/ Called \/ Shown \/ Replied \/ ReadDone \/ Writing \/ Written

\* The SWI is given once, where injected says, and every other read was of
\* memory.
ReadKnows ==
  /\ state \in {"AwaitLic", "Inject"} => injected = "none"
  /\ read.addr \in Address
  /\ \/ read.value = read.addr
     \/ read.value = "swi" /\ injected = read.addr
     \/ read.addr = "red"

HInv ==
  /\ CpuKnows(cpu) /\ cyc \in CycType
  /\ state \in {"AwaitLic", "Inject", "AwaitStack", "Done"}
  /\ InStep
  /\ ReadKnows

LEMMA OneWord ==
  \A v : /\ Head(<<v>>) = v /\ Tail(<<v>>) = << >> /\ <<v>> # << >> /\ Append(<< >>, v) = <<v>>
         /\ \A u : <<u>> = <<v>> => u = v
OBVIOUS

LEMMA WordTyped == ASSUME cyc \in CycType, NEW d \in Byte PROVE Word(d) \in WordType
BY DEF Word, WordType, CycType

LEMMA NoneIsNoAddress == "none" \notin Address /\ "swi" \notin Address /\ "zero" \notin Address
BY DEF Address, Place, Vector

LEMMA HandshakeInit == ASSUME Entry = "limit", Init PROVE HInv
<1>1. PICK f \in {12, 14} : Somewhere(f)
  BY DEF Init
<1> DEFINE At(d, k, p) == [doing |-> d, left |-> k, pc |-> p, vector |-> "fff8", frame |-> f, resume |-> p]
<1>2. \A d \in {"insn", "fetch", "wait"}, k \in Nat, p \in Place : CpuKnows(At(d, k, p))
  BY Addresses DEF CpuKnows, Cpu
<1>3. \A p \in Place : CpuKnows(At("enter", 1, p))
  BY Addresses DEF CpuKnows, Cpu
<1>4. \A k \in 1 .. f, p \in Place : CpuKnows(At("push", k, p))
  BY Addresses DEF CpuKnows, Cpu
<1>5. \A l \in BOOLEAN : InsnCycles(l) \subseteq CycType
  <2> SUFFICES ASSUME NEW l \in BOOLEAN
               PROVE  /\ Idle(l) \in CycType
                      /\ Cyc(TRUE, FALSE, l, "data", 0) \in CycType
                      /\ Cyc(FALSE, FALSE, l, "data", 0) \in CycType
    BY DEF InsnCycles
  <2>1. Cyc(TRUE, FALSE, l, "data", 0) \in CycType
    BY CycTyped, Addresses, SmallBytes
  <2>2. Cyc(FALSE, FALSE, l, "data", 0) \in CycType
    BY CycTyped, Addresses, SmallBytes
  <2> QED
    BY <2>1, <2>2, IdleTyped
<1>6. Cyc(TRUE, FALSE, FALSE, "next", 0) \in CycType
  BY CycTyped, Addresses, SmallBytes
<1>7. \A k \in 1 .. f : Cyc(FALSE, FALSE, FALSE, "stack", f - k + 1) \in CycType
  <2>1. \A k \in 1 .. f : f - k + 1 \in 0 .. 15
    BY <1>1
  <2> QED
    BY <2>1, CycTyped, Addresses, SmallBytes
<1>8. CpuKnows(cpu) /\ cyc \in CycType
  <2>1. CASE \E k \in 1 .. MaxInsn : \E now \in InsnCycles(k = 1) : InitCpu(At("insn", k, "next"), FALSE, now)
    <3>1. PICK k \in 1 .. MaxInsn : \E now \in InsnCycles(k = 1) : InitCpu(At("insn", k, "next"), FALSE, now)
      BY <2>1
    <3>2. PICK now \in InsnCycles(k = 1) : InitCpu(At("insn", k, "next"), FALSE, now)
      BY <3>1
    <3>3. now \in CycType
      BY <1>5
    <3>4. k \in Nat
      BY BoundsAssumption
    <3> QED
      BY <3>2, <3>3, <3>4, <1>2, Addresses DEF InitCpu
  <2>2. CASE InitCpu(At("fetch", 0, "next"), TRUE, Cyc(TRUE, FALSE, FALSE, "next", 0))
    BY <2>2, <1>2, <1>6, Addresses DEF InitCpu
  <2>3. CASE InitCpu(At("enter", 1, "next"), TRUE, Cyc(TRUE, FALSE, FALSE, "next", 0))
    BY <2>3, <1>3, <1>6, Addresses DEF InitCpu
  <2>4. CASE \E k \in 1 .. f : InitCpu(At("push", k, "handler"), FALSE, Cyc(FALSE, FALSE, FALSE, "stack", f - k + 1))
    BY <2>4, <1>4, <1>7, Addresses DEF InitCpu
  <2>5. CASE InitCpu(At("wait", 0, "handler"), FALSE, Idle(FALSE))
    BY <2>5, <1>2, IdleTyped, Addresses DEF InitCpu
  <2> QED
    BY <1>1, <2>1, <2>2, <2>3, <2>4, <2>5 DEF Somewhere
<1>9. Quiet
  BY DEF Init, Quiet
<1>10. ReadKnows /\ state \in {"AwaitLic", "Inject", "AwaitStack", "Done"}
  BY Addresses DEF Init, ReadKnows
<1> QED
  BY <1>8, <1>9, <1>10 DEF HInv, InStep

\* A step of Hamster leads from Called to Shown, from Replied to ReadDone and
\* from Writing to Written.
LEMMA HamsterStep == ASSUME HInv, Hamster PROVE HInv'
<1>1. CpuKnows(cpu) /\ cyc \in CycType /\ InStep /\ ReadKnows
      /\ state \in {"AwaitLic", "Inject", "AwaitStack", "Done"}
  BY DEF HInv
<1>2. CASE Early
  <2>1. Called
    BY <1>1, <1>2 DEF Early, InStep, Quiet, Called, Shown, Replied, ReadDone, Writing, Written
  <2>2. Shown'
    BY <1>2, <2>1, OneWord DEF Early, Called, Shown, Word, core
  <2> QED
    BY <1>1, <1>2, <2>2 DEF Early, HInv, InStep, ReadKnows, CpuKnows, core
<1>3. CASE LateRead
  <2>1. Replied
    BY <1>1, <1>3 DEF LateRead, InStep, Quiet, Called, Shown, Replied, ReadDone, Writing, Written
  <2>2. CpuKnows(cpu') /\ cyc' \in CycType
    BY <1>1, <1>3, CpuTyped DEF LateRead
  <2>3. Word(Noise) \in WordType /\ cyc.addr \in Address
    BY <1>1, WordTyped, SmallBytes DEF CycType
  <2>4. ReadDone'
    BY <1>3, <2>1, <2>3, OneWord DEF LateRead, Replied, ReadDone, core
  <2>5. ReadKnows'
    BY <1>1, <1>3, <2>1, <2>3, OneWord DEF LateRead, Replied, ReadKnows, core
  <2> QED
    BY <1>1, <1>3, <2>2, <2>4, <2>5 DEF LateRead, HInv, InStep, CpuKnows, core
<1>4. CASE LateWrite
  <2>1. Writing
    BY <1>1, <1>4, OneWord DEF LateWrite, InStep, Quiet, Called, Shown, Replied, ReadDone, Writing, Written
  <2>2. CpuKnows(cpu') /\ cyc' \in CycType
    BY <1>1, <1>4, CpuTyped DEF LateWrite
  <2>3. Word(cyc.byte) \in WordType /\ Word(cyc.byte).byte = cyc.byte
    BY <1>1, WordTyped DEF CycType, Word
  <2>4. Written'
    BY <1>4, <2>1, <2>3, OneWord DEF LateWrite, Writing, Written, core
  <2> QED
    BY <1>1, <1>4, <2>2, <2>4 DEF LateWrite, HInv, InStep, ReadKnows, CpuKnows, core
<1> QED
  BY <1>2, <1>3, <1>4 DEF Hamster

\* Core 1 leads from Quiet to Called, from Shown to Replied or Writing, and
\* from ReadDone and Written to Quiet.
LEMMA Core1Step == ASSUME HInv, Core1 PROVE HInv'
<1>1. CpuKnows(cpu) /\ cyc \in CycType /\ InStep /\ ReadKnows
      /\ state \in {"AwaitLic", "Inject", "AwaitStack", "Done"}
  BY DEF HInv
<1>a. cyc.addr \in Address
  BY <1>1 DEF CycType
<1>2. CASE Sync
  <2>1. Quiet
    BY <1>1, <1>2 DEF Sync, InStep, Quiet, Called, Shown, Replied, ReadDone, Writing, Written
  <2>2. Called'
    BY <1>2, <2>1, OneWord DEF Sync, Quiet, Called, board
  <2> QED
    BY <1>1, <1>2, <2>2 DEF Sync, HInv, InStep, ReadKnows, CpuKnows, board
<1>3. CASE Finish
  <2>1. Quiet'
    BY <1>1, <1>3 DEF Finish, InStep, Quiet, Called, Shown, Replied, ReadDone, Writing, Written, board, link
  <2> QED
    BY <1>1, <1>3, <2>1 DEF Finish, HInv, InStep, ReadKnows, CpuKnows, board, link
<1>4. ASSUME NEW w, pos = "early", Take(w)
      PROVE  Shown /\ w = Word(Noise) /\ w.read = cyc.read /\ rx' = << >>
  BY <1>1, <1>4, OneWord DEF Take, InStep, Quiet, Called, Shown, Replied, ReadDone, Writing, Written, Word
<1>5. ASSUME NEW w, pos \in {"late", "last"}, Take(w)
      PROVE  /\ rx' = << >> /\ tx = << >> /\ pio = "loop" /\ w \in WordType
             /\ \/ reading /\ stored = wrote
                \/ pos = "late" /\ ~reading /\ wrote = [addr |-> addr, byte |-> w.byte]
  BY <1>1, <1>5, OneWord DEF Take, InStep, Quiet, Called, Shown, Replied, ReadDone, Writing, Written
<1>6. ASSUME NEW w, EarlyVector(w) PROVE HInv'
  <2>1. Shown /\ w.read = cyc.read /\ rx' = << >> /\ w.read
    BY <1>4, <1>6 DEF EarlyVector
  <2>2. Replied'
    BY <1>6, <2>1, OneWord DEF EarlyVector, Shown, Replied, board
  <2>3. ReadKnows'
    BY <1>1, <1>6 DEF EarlyVector, ReadKnows, board
  <2> QED
    BY <1>1, <1>6, <2>2, <2>3 DEF EarlyVector, HInv, InStep, CpuKnows, board
<1>7. ASSUME NEW w, EarlyRead(w) PROVE HInv'
  <2>1. Shown /\ w.read = cyc.read /\ rx' = << >> /\ w.read
    BY <1>4, <1>7 DEF EarlyRead
  <2>2. Replied'
    BY <1>7, <2>1, OneWord DEF EarlyRead, Shown, Replied, board
  <2>3. ReadKnows'
    BY <1>1, <1>7, NoneIsNoAddress DEF EarlyRead, ReadKnows, board
  <2>4. state' \in {"AwaitLic", "Inject", "AwaitStack", "Done"}
    BY <1>1, <1>7 DEF EarlyRead
  <2> QED
    BY <1>1, <1>7, <2>2, <2>3, <2>4 DEF EarlyRead, HInv, InStep, CpuKnows, board
<1>8. ASSUME NEW w, EarlyWrite(w) PROVE HInv'
  <2>1. Shown /\ w.read = cyc.read /\ rx' = << >> /\ ~w.read
    BY <1>4, <1>8 DEF EarlyWrite
  <2>2. Writing'
    BY <1>8, <2>1, OneWord DEF EarlyWrite, Shown, Writing, board
  <2> QED
    BY <1>1, <1>8, <2>2 DEF EarlyWrite, HInv, InStep, ReadKnows, CpuKnows, board
<1>9. ASSUME NEW w
      PROVE  /\ AfterLic(w) \in {"AwaitLic", "Inject", "AwaitStack", "Done"}
             /\ AfterLic(w) \in {"AwaitLic", "Inject"} => injected = "none"
  BY <1>1 DEF AfterLic, ReadKnows
<1>10. ASSUME NEW w, LateOfRead(w) PROVE HInv'
  <2>1. rx' = << >> /\ tx = << >> /\ pio = "loop" /\ stored = wrote
    BY <1>5, <1>10 DEF LateOfRead
  <2>2. Quiet'
    BY <1>10, <2>1 DEF LateOfRead, Quiet, board
  <2>3. ReadKnows' /\ state' \in {"AwaitLic", "Inject", "AwaitStack", "Done"}
    BY <1>1, <1>9, <1>10 DEF LateOfRead, ReadKnows, board
  <2> QED
    BY <1>1, <1>10, <2>2, <2>3 DEF LateOfRead, HInv, InStep, CpuKnows, board
<1>11. ASSUME NEW w, LateOfWrite(w) PROVE HInv'
  <2>1. rx' = << >> /\ tx = << >> /\ pio = "loop" /\ wrote = [addr |-> addr, byte |-> w.byte]
    BY <1>5, <1>11 DEF LateOfWrite
  <2>2. Quiet'
    BY <1>11, <2>1 DEF LateOfWrite, Quiet, board
  <2>3. ReadKnows' /\ state' \in {"AwaitLic", "Inject", "AwaitStack", "Done"}
    BY <1>1, <1>9, <1>11 DEF LateOfWrite, ReadKnows, board
  <2> QED
    BY <1>1, <1>11, <2>2, <2>3 DEF LateOfWrite, HInv, InStep, CpuKnows, board
<1>12. ASSUME NEW w, LateOfVector(w) PROVE HInv'
  <2>1. rx' = << >> /\ tx = << >> /\ pio = "loop" /\ stored = wrote
    BY <1>5, <1>12 DEF LateOfVector
  <2>2. Quiet'
    BY <1>12, <2>1 DEF LateOfVector, Quiet, board
  <2> QED
    BY <1>1, <1>12, <2>2 DEF LateOfVector, HInv, InStep, ReadKnows, CpuKnows, board
<1> QED
  BY <1>2, <1>3, <1>6, <1>7, <1>8, <1>10, <1>11, <1>12 DEF Core1

LEMMA HandshakeNext == ASSUME HInv, [Next]_vars PROVE HInv'
<1>1. CASE UNCHANGED vars
  BY <1>1 DEF vars, HInv, InStep, Quiet, Called, Shown, Replied, ReadDone, Writing, Written, ReadKnows, CpuKnows, Word
<1> QED
  BY <1>1, HamsterStep, Core1Step DEF Next

\* The two sides stay in step, and the bus is served from memory, when Phase 4
\* begins with a whole bus cycle behind it.
LEMMA HandshakeKept == ASSUME Entry = "limit" PROVE Spec => []HInv
<1>1. Init => HInv
  BY HandshakeInit
<1>2. HInv /\ [Next]_vars => HInv'
  BY HandshakeNext
<1> QED
  BY <1>1, <1>2, PTL DEF Spec

LEMMA ServedThen == HInv => ServedFromRam
<1> SUFFICES ASSUME HInv PROVE ServedFromRam
  OBVIOUS
<1>1. ReadKnows /\ InStep
  BY DEF HInv
<1>2. pos \in {"sync", "end", "done"} => stored = wrote
  BY <1>1 DEF InStep, Quiet, Called, Shown, Replied, ReadDone, Writing, Written
<1> QED
  BY <1>1, <1>2 DEF ServedFromRam, ReadKnows

\* However long the instructions and whatever interrupts come, the CPU reads
\* the memory, but for the one SWI, and its writes are stored where it makes
\* them (the loop of Phase 4 and the Hamster program), unless Phase 4 was
\* entered in the middle of a bus cycle.
THEOREM BusIsServed == ASSUME Entry = "limit" PROVE Spec => []ServedFromRam
BY HandshakeKept, ServedThen, PTL

-----------------------------------------------------------------------------
(* Types.                                                                  *)

\* What Core 1 keeps; the words under way are typed by InStep.
Core1Typed ==
  /\ pos \in {"sync", "early", "late", "last", "end", "done"}
  /\ prevLic \in BOOLEAN /\ n \in 0 .. MaxCycles
  /\ addr \in Address /\ reading \in BOOLEAN
  /\ streak \in 0 .. n /\ bytes \in Seq(Byte)
  /\ injected \in Address \cup {"none"}
  /\ regs \in [valid : BOOLEAN, frame : Seq(Byte), pc : Address \cup {"none"}]
  /\ halt \in BOOLEAN /\ nmi \in BOOLEAN

\* A cycle begun is within the limit, and the frame holds a byte for every
\* write of the streak.
Core1Counts ==
  /\ pos \in {"early", "late"} => n < MaxCycles
  /\ Len(bytes) <= 16
  /\ streak # 0 /\ streak < 16 => Len(bytes) = streak

LEMMA Core1TypedInit == ASSUME Init PROVE Core1Typed /\ Core1Counts
<1>1. prevLic \in BOOLEAN
  BY DEF Init, Somewhere, InRedPage, InitCpu
<1>2. /\ pos = "sync" /\ n = 0 /\ addr = "data" /\ reading = TRUE /\ streak = 0 /\ bytes = << >>
      /\ injected = "none" /\ regs = [valid |-> FALSE, frame |-> << >>, pc |-> "none"]
      /\ halt = FALSE /\ nmi = FALSE
  BY DEF Init
<1>3. << >> \in Seq(Byte) /\ Len(<< >>) = 0
  OBVIOUS
<1>4. regs \in [valid : BOOLEAN, frame : Seq(Byte), pc : Address \cup {"none"}]
  BY <1>2, <1>3
<1>5. n \in 0 .. MaxCycles /\ streak \in 0 .. n
  BY <1>2, BoundsAssumption
<1>6. bytes \in Seq(Byte) /\ Len(bytes) = 0
  BY <1>2, <1>3
<1>7. Core1Typed
  BY <1>1, <1>2, <1>4, <1>5, <1>6, Addresses DEF Core1Typed
<1>8. Core1Counts
  BY <1>2, <1>6 DEF Core1Counts
<1> QED
  BY <1>7, <1>8

LEMMA AtMostOne ==
  ASSUME NEW S, NEW s, s = << >> \/ \E v \in S : s = <<v>>
  PROVE  s \in Seq(S) /\ Len(s) <= 4
<1>1. CASE s = << >>
  BY <1>1
<1>2. CASE \E v \in S : s = <<v>>
  <2>1. PICK v \in S : s = <<v>>
    BY <1>2
  <2>2. <<v>> \in Seq(S) /\ Len(<<v>>) = 1
    OBVIOUS
  <2> QED
    BY <2>1, <2>2
<1> QED
  BY <1>1, <1>2

LEMMA Appended ==
  ASSUME NEW b \in Byte, bytes \in Seq(Byte)
  PROVE  /\ Append(bytes, b) \in Seq(Byte) /\ Len(Append(bytes, b)) = Len(bytes) + 1
         /\ <<b>> \in Seq(Byte) /\ Len(<<b>>) = 1
  OBVIOUS

LEMMA Core1TypedNext ==
  ASSUME HInv, Core1Typed, Core1Counts, [Next]_vars
  PROVE  Core1Typed' /\ Core1Counts'
<1>1. cyc.addr \in Address
  BY DEF HInv, CycType
<1>2. ASSUME NEW w, pos \in {"late", "last"}, Take(w)
      PROVE  w \in WordType /\ w.lic \in BOOLEAN /\ w.byte \in Byte
  BY <1>2, OneWord DEF HInv, Take, InStep, Quiet, Called, Shown, Replied, ReadDone, Writing, Written, WordType
<1>3. CASE Sync
  <2>1. nmi' \in BOOLEAN
    BY <1>3 DEF Sync
  <2> QED
    BY <1>3, <2>1 DEF Sync, Core1Typed, Core1Counts, board
<1>4. CASE Finish
  <2>1. regs' \in [valid : BOOLEAN, frame : Seq(Byte), pc : Address \cup {"none"}]
    <3>1. Complete \in BOOLEAN /\ (IF Complete THEN bytes ELSE << >>) \in Seq(Byte)
      BY DEF Complete, Core1Typed
    <3>2. injected \in Address \cup {"none"}
      BY DEF Core1Typed
    <3>3. regs' = [valid |-> Complete, frame |-> IF Complete THEN bytes ELSE << >>, pc |-> injected]
      BY <1>4 DEF Finish
    <3> HIDE DEF Complete
    <3> QED
      BY <3>1, <3>2, <3>3
  <2> QED
    BY <1>4, <2>1 DEF Finish, Core1Typed, Core1Counts, board, link
<1>5. ASSUME NEW w, EarlyVector(w) \/ EarlyWrite(w) PROVE Core1Typed' /\ Core1Counts'
  BY <1>1, <1>5 DEF EarlyVector, EarlyWrite, Core1Typed, Core1Counts, board
<1>6. ASSUME NEW w, EarlyRead(w) PROVE Core1Typed' /\ Core1Counts'
  <2>1. streak' \in {0, streak}
    BY <1>6 DEF EarlyRead
  <2>2. injected' \in {cyc.addr, injected}
    BY <1>6 DEF EarlyRead
  <2>3. pos = "early" /\ pos' = "late" /\ addr' = cyc.addr /\ reading' = TRUE
        /\ UNCHANGED <<prevLic, n, bytes, regs, halt, nmi>>
    BY <1>6 DEF EarlyRead
  <2> QED
    BY <1>1, <2>1, <2>2, <2>3 DEF Core1Typed, Core1Counts
<1>7. ASSUME NEW w, LateOfRead(w) PROVE Core1Typed' /\ Core1Counts'
  <2>1. w.lic \in BOOLEAN
    BY <1>2, <1>7 DEF LateOfRead
  <2>2. pos = "late" /\ pos' = "sync" /\ n' = n + 1 /\ prevLic' = w.lic
        /\ UNCHANGED <<addr, reading, streak, bytes, injected, regs, halt, nmi>>
    BY <1>7 DEF LateOfRead
  <2> QED
    BY <2>1, <2>2, BoundsAssumption DEF Core1Typed, Core1Counts
<1>8. ASSUME NEW w, LateOfWrite(w) PROVE Core1Typed' /\ Core1Counts'
  <2>1. w.lic \in BOOLEAN /\ w.byte \in Byte
    BY <1>2, <1>8 DEF LateOfWrite
  <2>2. pos = "late" /\ pos' = "sync" /\ n' = n + 1 /\ prevLic' = w.lic
        /\ UNCHANGED <<addr, reading, injected, regs, halt, nmi>>
    BY <1>8 DEF LateOfWrite
  <2>3. \/ streak' = streak /\ bytes' = bytes
        \/ streak = 0 /\ streak' = streak + 1 /\ bytes' = <<w.byte>>
        \/ streak # 0 /\ streak < 16 /\ streak' = streak + 1 /\ bytes' = Append(bytes, w.byte)
        \/ streak # 0 /\ ~(streak < 16) /\ streak' = streak + 1 /\ bytes' = bytes
    BY <1>8 DEF LateOfWrite
  <2>6. /\ streak \in 0 .. n /\ n \in Nat /\ bytes \in Seq(Byte) /\ Len(bytes) \in Nat
        /\ Len(bytes) <= 16 /\ (streak # 0 /\ streak < 16 => Len(bytes) = streak)
    BY BoundsAssumption DEF Core1Typed, Core1Counts
  <2>7. /\ Append(bytes, w.byte) \in Seq(Byte) /\ Len(Append(bytes, w.byte)) = Len(bytes) + 1
        /\ <<w.byte>> \in Seq(Byte) /\ Len(<<w.byte>>) = 1
    BY <2>1, <2>6, Appended
  <2>8. bytes' \in {bytes, <<w.byte>>, Append(bytes, w.byte)} /\ streak' \in {streak, streak + 1}
    BY <2>3
  <2>4. streak' \in 0 .. n' /\ bytes' \in Seq(Byte)
    <3>1. streak' \in 0 .. n'
      BY <2>2, <2>6, <2>8
    <3>2. bytes' \in Seq(Byte)
      BY <2>6, <2>7, <2>8
    <3> QED
      BY <3>1, <3>2
  <2>5. Len(bytes') <= 16 /\ (streak' # 0 /\ streak' < 16 => Len(bytes') = streak')
    <3>1. CASE streak' = streak /\ bytes' = bytes
      BY <2>6, <3>1
    <3>2. CASE streak = 0 /\ streak' = streak + 1 /\ bytes' = <<w.byte>>
      BY <2>7, <3>2
    <3>3. CASE streak # 0 /\ streak < 16 /\ streak' = streak + 1 /\ bytes' = Append(bytes, w.byte)
      BY <2>6, <2>7, <3>3
    <3>4. CASE streak # 0 /\ ~(streak < 16) /\ streak' = streak + 1 /\ bytes' = bytes
      BY <2>6, <3>4
    <3> QED
      BY <2>3, <3>1, <3>2, <3>3, <3>4
  <2> QED
    BY <2>1, <2>2, <2>4, <2>5, BoundsAssumption DEF Core1Typed, Core1Counts
<1>9. ASSUME NEW w, LateOfVector(w) PROVE Core1Typed' /\ Core1Counts'
  <2>1. w.lic \in BOOLEAN
    BY <1>2, <1>9 DEF LateOfVector
  <2> QED
    BY <1>9, <2>1 DEF LateOfVector, Core1Typed, Core1Counts
<1>10. CASE Hamster \/ UNCHANGED vars
  <2>1. UNCHANGED core
    BY <1>10 DEF Hamster, Early, LateRead, LateWrite, vars, core
  <2> QED
    BY <2>1 DEF core, Core1Typed, Core1Counts
<1> QED
  BY <1>3, <1>4, <1>5, <1>6, <1>7, <1>8, <1>9, <1>10 DEF Next, Core1

LEMMA TypedThen == HInv /\ Core1Typed /\ Core1Counts => TypeOK
<1> SUFFICES ASSUME HInv, Core1Typed, Core1Counts PROVE TypeOK
  OBVIOUS
<1>1. pio \in {"loop", "mid"}
  BY DEF HInv, InStep, Quiet, Called, Shown, Replied, ReadDone, Writing, Written
<1>2. tx \in Seq(Address \cup {"zero", "swi"}) /\ Len(tx) <= 4
  <2>1. tx = << >> \/ \E v \in Address \cup {"zero", "swi"} : tx = <<v>>
    BY DEF HInv, InStep, Quiet, Called, Shown, Replied, ReadDone, Writing, Written, Core1Typed
  <2> QED
    BY <2>1, AtMostOne
<1>3. rx \in Seq(WordType) /\ Len(rx) <= 4
  <2>1. Word(Noise) \in WordType
    BY WordTyped, SmallBytes DEF HInv
  <2>2. rx = << >> \/ \E w \in WordType : rx = <<w>>
    BY <2>1 DEF HInv, InStep, Quiet, Called, Shown, Replied, ReadDone, Writing, Written
  <2> QED
    BY <2>2, AtMostOne
<1>4. streak \in 0 .. MaxCycles
  BY BoundsAssumption DEF Core1Typed
<1>5. cpu \in Cpu /\ cyc \in CycType
  BY DEF HInv, CpuKnows
<1> QED
  BY <1>1, <1>2, <1>3, <1>4, <1>5 DEF TypeOK, HInv, Core1Typed, Core1Counts, CycType, WordType

\* Phase 4 keeps its types, its frame within the 16 bytes it has for it and the
\* words under way within the FIFOs of the PIO, whatever instructions and
\* interrupts it meets, when it begins after a whole bus cycle.
THEOREM CaptureTypes == ASSUME Entry = "limit" PROVE Spec => []TypeOK
<1>1. Init => Core1Typed /\ Core1Counts
  BY Core1TypedInit
<1>2. HInv /\ Core1Typed /\ Core1Counts /\ [Next]_vars => (Core1Typed /\ Core1Counts)'
  BY Core1TypedNext
<1> QED
  BY <1>1, <1>2, HandshakeKept, TypedThen, PTL DEF Spec
-----------------------------------------------------------------------------
(* The capture.  Where the CPU is when Core 1 awaits LIC, injects, and     *)
(* awaits the frame, and how many cycles it still needs.                   *)

\* P4_MAX_CYCLES leaves time for the longest instruction and a frame, and for a
\* CPU asleep to be woken and to stack its registers twice.
Enough == MaxCycles >= 42 /\ MaxCycles >= MaxInsn + 17

\* The bus cycle is the one that belongs to what the CPU does.
BusShows ==
  /\ cpu.doing = "insn" => cpu.left >= 1 /\ (cyc.lic <=> cpu.left = 1)
  /\ cpu.doing = "fetch" => cyc = Cyc(TRUE, FALSE, FALSE, cpu.pc, 0)
  /\ cpu.doing = "enter" => /\ cpu.left \in 1 .. 2 /\ cyc.read /\ ~cyc.bs /\ ~cyc.lic
                            /\ cyc.addr \in {cpu.pc, "ffff"}
  /\ cpu.doing = "push" => cyc = Cyc(FALSE, FALSE, FALSE, "stack", cpu.frame - cpu.left + 1)
  /\ cpu.doing = "pushed" => cyc = Idle(FALSE)
  /\ cpu.doing = "vector" => cpu.left \in 1 .. 2 /\ cyc = Cyc(TRUE, TRUE, FALSE, cpu.vector, 0)
  /\ cpu.doing = "last" => cyc = Idle(TRUE)
  /\ cpu.doing = "wait" => cyc = Idle(FALSE)

\* In cycle m the CPU is in an instruction or in what an interrupt makes of
\* it, and there is time enough to end it and to stack the frame.
Finishing(m) ==
  /\ cpu.doing \in {"insn", "wait", "enter", "push", "pushed", "vector", "last"}
  /\ cpu.doing = "insn" => cpu.pc = cpu.resume /\ m + cpu.left + cpu.frame + 3 <= MaxCycles
  /\ cpu.doing # "insn" => cpu.resume = "handler"
  /\ cpu.doing = "wait" => m <= 4
  /\ cpu.doing = "enter" => m + cpu.left + 2 * cpu.frame + 7 <= MaxCycles
  /\ cpu.doing = "push" => m + cpu.left + cpu.frame + 7 <= MaxCycles
  /\ cpu.doing = "pushed" => m + cpu.frame + 7 <= MaxCycles
  /\ cpu.doing = "vector" => m + cpu.left + cpu.frame + 4 <= MaxCycles
  /\ cpu.doing = "last" => m + cpu.frame + 4 <= MaxCycles

\* In cycle m it reads the opcode the program would go on with.
AtOpcode(m) ==
  /\ cpu.doing = "fetch" \/ (cpu.doing = "enter" /\ cpu.left = 1)
  /\ cpu.pc = cpu.resume /\ cyc.addr = cpu.pc
  /\ m + cpu.frame + 3 <= MaxCycles

\* From the opcode on it stacks the frame; k bytes are stacked.
Stacking(m, k) ==
  /\ cpu.doing \in {"fetch", "enter", "push", "pushed", "vector"}
  /\ cpu.doing = "fetch" => k = 0 /\ m + cpu.frame + 3 <= MaxCycles
  /\ cpu.doing = "enter" => k = 0 /\ m + cpu.left + cpu.frame <= MaxCycles
  /\ cpu.doing = "push" => k = cpu.frame - cpu.left /\ m + cpu.left <= MaxCycles
  /\ cpu.doing = "pushed" => k = cpu.frame
  /\ cpu.doing = "vector" => k = cpu.frame /\ cpu.left = 2

\* The cycle is over for the CPU, and not yet for Core 1.
Ahead == pos \in {"late", "last"} /\ pio = "loop"

Frame(k) == Len(bytes) = k /\ \A i \in 1 .. k : bytes[i] = i

Awaiting ==
  /\ pos \in {"sync", "early", "late"} /\ streak = 0 /\ bytes = << >>
  /\ ~Ahead => Finishing(n) /\ (cpu.doing = "wait" /\ n = 4 /\ pos # "sync" => nmi)
  /\ Ahead => IF rx[1].lic THEN AtOpcode(n + 1) ELSE Finishing(n + 1)

Injecting ==
  /\ pos \in {"sync", "early"} /\ streak = 0 /\ bytes = << >>
  /\ AtOpcode(n)

Collecting ==
  /\ pos \in {"sync", "early", "late"} /\ injected = cpu.resume /\ Frame(streak)
  /\ ~Ahead => /\ Stacking(n, streak)
               /\ cpu.doing = "fetch" => tx = <<"swi">>
               /\ cpu.doing = "vector" => pos # "late"
  /\ Ahead /\ reading => Stacking(n + 1, streak) /\ cpu.doing # "fetch"
  /\ Ahead /\ ~reading => Stacking(n + 1, streak + 1) /\ cpu.doing # "fetch"
                          /\ rx[1].byte = streak + 1

Collected ==
  /\ pos \in {"last", "end", "done"} /\ injected = cpu.resume
  /\ streak = cpu.frame /\ Frame(streak) /\ Captured

CInv ==
  /\ BusShows
  /\ state = "AwaitLic" => Awaiting
  /\ state = "Inject" => Injecting
  /\ state = "AwaitStack" /\ pos # "done" => Collecting
  /\ state = "Done" \/ pos = "done" => Collected

\* The next opcode is read at p, or an interrupt is taken there.
Opened(p) ==
  /\ cpu'.doing = "fetch" \/ (cpu'.doing = "enter" /\ cpu'.left = 1)
  /\ cpu'.pc = p /\ cyc' = Cyc(TRUE, FALSE, FALSE, p, 0)

\* What CpuStep does, a way the CPU may go at a time.
Moves(value) ==
  \/ /\ cpu.doing = "insn" /\ cpu.left > 1
     /\ cpu'.doing = "insn" /\ cpu'.left = cpu.left - 1 /\ cpu'.pc = cpu.pc
     /\ (cyc'.lic <=> cpu'.left = 1)
  \/ cpu.doing = "insn" /\ cpu.left = 1 /\ Opened(cpu.pc)
  \/ /\ cpu.doing = "fetch" /\ value = "swi"
     /\ cpu'.doing = "enter" /\ cpu'.left = 2 /\ cyc' = Idle(FALSE)
  \/ /\ cpu.doing = "fetch" /\ value # "swi"
     /\ cpu'.doing = "insn" /\ cpu'.left >= 1 /\ (cyc'.lic <=> cpu'.left = 1)
  \/ /\ cpu.doing = "enter" /\ cpu.left = 2
     /\ cpu'.doing = "enter" /\ cpu'.left = 1 /\ cyc' = Idle(FALSE)
  \/ /\ cpu.doing = "enter" /\ cpu.left = 1
     /\ cpu'.doing = "push" /\ cpu'.left = cpu.frame /\ cyc' = Cyc(FALSE, FALSE, FALSE, "stack", 1)
  \/ /\ cpu.doing = "push" /\ cpu.left > 1
     /\ cpu'.doing = "push" /\ cpu'.left = cpu.left - 1
     /\ cyc' = Cyc(FALSE, FALSE, FALSE, "stack", cpu.frame - cpu.left + 2)
  \/ /\ cpu.doing = "push" /\ cpu.left = 1
     /\ cpu'.doing = "pushed" /\ cyc' = Idle(FALSE)
  \/ /\ cpu.doing = "pushed"
     /\ cpu'.doing = "vector" /\ cpu'.left = 2 /\ cyc' = Cyc(TRUE, TRUE, FALSE, cpu'.vector, 0)
  \/ /\ cpu.doing = "vector" /\ cpu.left = 2
     /\ cpu'.doing = "vector" /\ cpu'.left = 1 /\ cyc' = Cyc(TRUE, TRUE, FALSE, cpu'.vector, 0)
  \/ /\ cpu.doing = "vector" /\ cpu.left = 1
     /\ cpu'.doing = "last" /\ cyc' = Idle(TRUE)
  \/ cpu.doing = "last" /\ Opened("handler")
  \/ /\ cpu.doing = "wait" /\ nmi
     /\ cpu'.doing = "enter" /\ cpu'.left = 2 /\ cyc' = Idle(FALSE)
  \/ cpu.doing = "wait" /\ nmi /\ cpu'.doing = "pushed" /\ cyc' = Idle(FALSE)
  \/ cpu.doing = "wait" /\ ~nmi /\ cpu'.doing = "wait" /\ cyc' = Idle(FALSE)

SameProgram == cpu'.frame = cpu.frame /\ cpu'.resume = cpu.resume

\* What a step of the CPU sets, and what it leaves alone.
LEMMA SetFields ==
  ASSUME CpuKnows(cpu)
  PROVE  /\ \A d \in Doing, k \in Nat, p \in Place, v \in Vector :
              LET e == [cpu EXCEPT !.doing = d, !.left = k, !.pc = p, !.vector = v]
              IN  /\ e.doing = d /\ e.left = k /\ e.pc = p /\ e.vector = v
                  /\ e.frame = cpu.frame /\ e.resume = cpu.resume
         /\ \A d \in Doing, k \in Nat, p \in Place :
              LET e == [cpu EXCEPT !.doing = d, !.left = k, !.pc = p]
              IN  /\ e.doing = d /\ e.left = k /\ e.pc = p
                  /\ e.frame = cpu.frame /\ e.resume = cpu.resume
         /\ \A d \in Doing, p \in Place :
              LET e == [cpu EXCEPT !.doing = d, !.pc = p]
              IN  e.doing = d /\ e.pc = p /\ e.frame = cpu.frame /\ e.resume = cpu.resume
BY DEF CpuKnows, Cpu, Doing

LEMMA BoundaryOpens ==
  ASSUME CpuKnows(cpu), NEW p \in Place, Boundary(p)
  PROVE  Opened(p) /\ SameProgram
<1>1. CASE Becomes([cpu EXCEPT !.doing = "fetch", !.pc = p], Cyc(TRUE, FALSE, FALSE, p, 0))
  <2>1. "fetch" \in Doing
    BY DEF Doing
  <2> QED
    BY <1>1, <2>1, SetFields DEF Becomes, Opened, SameProgram
<1>2. CASE \E v \in {"fff8"} \cup (IF nmi THEN {"fffc"} ELSE {}) :
             Becomes([cpu EXCEPT !.doing = "enter", !.left = 1, !.pc = p, !.vector = v],
                     Cyc(TRUE, FALSE, FALSE, p, 0))
  <2>1. PICK v \in Vector :
          Becomes([cpu EXCEPT !.doing = "enter", !.left = 1, !.pc = p, !.vector = v],
                  Cyc(TRUE, FALSE, FALSE, p, 0))
    BY <1>2, Addresses
  <2>2. "enter" \in Doing /\ 1 \in Nat
    BY DEF Doing
  <2> QED
    BY <2>1, <2>2, SetFields DEF Becomes, Opened, SameProgram
<1> QED
  BY <1>1, <1>2 DEF Boundary

LEMMA InsnLic ==
  ASSUME NEW l \in BOOLEAN, NEW c \in InsnCycles(l)
  PROVE  c.lic <=> l
<1>1. \E r \in BOOLEAN, a \in {"ffff", "data"} : c = Cyc(r, FALSE, l, a, 0)
  BY DEF InsnCycles, Idle
<1>2. c.lic = l
  BY <1>1 DEF Cyc
<1> QED
  BY <1>2

LEMMA InsnMoves ==
  ASSUME CpuKnows(cpu), NEW k \in Nat, NEW p \in Place, Insn(k, p)
  PROVE  /\ cpu'.doing = "insn" /\ cpu'.left = k /\ cpu'.pc = p
         /\ (cyc'.lic <=> k = 1) /\ SameProgram
<1>1. PICK now \in InsnCycles(k = 1) :
        Becomes([cpu EXCEPT !.doing = "insn", !.left = k, !.pc = p], now)
  BY DEF Insn
<1>2. now.lic <=> k = 1
  BY <1>1, InsnLic
<1>3. "insn" \in Doing
  BY DEF Doing
<1> QED
  BY <1>1, <1>2, <1>3, SetFields DEF Becomes, SameProgram

LEMMA CpuMoves ==
  ASSUME CpuKnows(cpu), BusShows, NEW value, CpuStep(value)
  PROVE  Moves(value) /\ SameProgram
<1>1. /\ cpu.doing \in Doing /\ cpu.left \in Nat /\ cpu.pc \in Place /\ cpu.vector \in Vector
      /\ cpu.frame \in {12, 14}
  BY CpuFields
<1>2. CASE cpu.doing = "insn"
  <2>1. IF cpu.left > 1 THEN Insn(cpu.left - 1, cpu.pc) ELSE Boundary(cpu.pc)
    BY <1>2 DEF CpuStep
  <2>2. cpu.left >= 1
    BY <1>2 DEF BusShows
  <2>3. CASE cpu.left > 1
    <3>1. cpu.left - 1 \in Nat /\ Insn(cpu.left - 1, cpu.pc)
      BY <1>1, <2>1, <2>3
    <3> QED
      BY <1>1, <1>2, <2>3, <3>1, InsnMoves DEF Moves
  <2>4. CASE cpu.left = 1
    BY <1>1, <1>2, <2>1, <2>4, BoundaryOpens DEF Moves
  <2> QED
    BY <1>1, <2>2, <2>3, <2>4
<1>3. CASE cpu.doing = "fetch" /\ value = "swi"
  <2>1. Becomes([cpu EXCEPT !.doing = "enter", !.left = 2, !.vector = "fffa"], Idle(FALSE))
    BY <1>3 DEF CpuStep
  <2>2. cpu'.doing = "enter" /\ cpu'.left = 2 /\ SameProgram
    BY <2>1 DEF Becomes, SameProgram, CpuKnows, Cpu
  <2> QED
    BY <1>3, <2>1, <2>2 DEF Moves, Becomes
<1>4. CASE cpu.doing = "fetch" /\ value # "swi"
  <2>1. PICK k \in 1 .. MaxInsn : Insn(k, "later")
    BY <1>4 DEF CpuStep
  <2>2. k \in Nat /\ k >= 1
    BY <2>1, BoundsAssumption
  <2> QED
    BY <1>4, <2>1, <2>2, InsnMoves, Addresses DEF Moves
<1>5. CASE cpu.doing = "enter" /\ cpu.left > 1
  <2>0. cpu.doing = "enter" /\ (cpu.left > 1) /\ ~(cpu.left = 1) /\ cpu.left = 2
    BY <1>1, <1>5 DEF BusShows
  <2>1. Becomes([cpu EXCEPT !.left = 1], Idle(FALSE))
    BY <2>0, Zenon DEF CpuStep
  <2>2. cpu'.doing = "enter" /\ cpu'.left = 1 /\ SameProgram
    BY <1>5, <2>1 DEF Becomes, SameProgram, CpuKnows, Cpu
  <2> QED
    BY <2>0, <2>1, <2>2 DEF Moves, Becomes
<1>6. CASE cpu.doing = "enter" /\ cpu.left = 1
  <2>0. cpu.doing = "enter" /\ (cpu.left = 1) /\ ~(cpu.left > 1)
    BY <1>1, <1>6
  <2>1. Becomes([cpu EXCEPT !.doing = "push", !.left = cpu.frame], Cyc(FALSE, FALSE, FALSE, "stack", 1))
    BY <2>0, Zenon DEF CpuStep
  <2>2. cpu'.doing = "push" /\ cpu'.left = cpu.frame /\ SameProgram
    BY <2>1 DEF Becomes, SameProgram, CpuKnows, Cpu
  <2> QED
    BY <1>6, <2>1, <2>2 DEF Moves, Becomes
<1>7. CASE cpu.doing = "push" /\ cpu.left > 1
  <2>0. cpu.doing = "push" /\ (cpu.left > 1) /\ ~(cpu.left = 1)
    BY <1>1, <1>7
  <2>1. Becomes([cpu EXCEPT !.left = cpu.left - 1],
                Cyc(FALSE, FALSE, FALSE, "stack", cpu.frame - cpu.left + 2))
    BY <2>0, Zenon DEF CpuStep
  <2>2. cpu'.doing = "push" /\ cpu'.left = cpu.left - 1 /\ SameProgram
    BY <1>7, <2>1 DEF Becomes, SameProgram, CpuKnows, Cpu
  <2> QED
    BY <1>7, <2>1, <2>2 DEF Moves, Becomes
<1>8. CASE cpu.doing = "push" /\ cpu.left = 1
  <2>0. cpu.doing = "push" /\ (cpu.left = 1) /\ ~(cpu.left > 1)
    BY <1>1, <1>8
  <2>1. Becomes([cpu EXCEPT !.doing = "pushed"], Idle(FALSE))
    BY <2>0, Zenon DEF CpuStep
  <2>2. cpu'.doing = "pushed" /\ SameProgram
    BY <2>1 DEF Becomes, SameProgram, CpuKnows, Cpu
  <2> QED
    BY <1>8, <2>1, <2>2 DEF Moves, Becomes
<1>9. CASE cpu.doing = "pushed"
  <2>1. Becomes([cpu EXCEPT !.doing = "vector", !.left = 2], Cyc(TRUE, TRUE, FALSE, cpu.vector, 0))
    BY <1>9 DEF CpuStep
  <2>2. cpu'.doing = "vector" /\ cpu'.left = 2 /\ cpu'.vector = cpu.vector /\ SameProgram
    BY <2>1 DEF Becomes, SameProgram, CpuKnows, Cpu
  <2> QED
    BY <1>9, <2>1, <2>2 DEF Moves, Becomes
<1>10. CASE cpu.doing = "vector"
  <2>1. IF cpu.left = 2
        THEN Becomes([cpu EXCEPT !.left = 1], Cyc(TRUE, TRUE, FALSE, cpu.vector, 0))
        ELSE Becomes([cpu EXCEPT !.doing = "last"], Idle(TRUE))
    BY <1>10 DEF CpuStep
  <2>2. cpu.left = 2 \/ cpu.left = 1
    BY <1>10 DEF BusShows
  <2>3. CASE cpu.left = 2
    <3>1. cpu'.doing = "vector" /\ cpu'.left = 1 /\ cpu'.vector = cpu.vector /\ SameProgram
      BY <1>10, <2>1, <2>3 DEF Becomes, SameProgram, CpuKnows, Cpu
    <3> QED
      BY <1>10, <2>1, <2>3, <3>1 DEF Moves, Becomes
  <2>4. CASE cpu.left = 1
    <3>1. cpu'.doing = "last" /\ SameProgram
      BY <2>1, <2>4 DEF Becomes, SameProgram, CpuKnows, Cpu
    <3> QED
      BY <1>10, <2>1, <2>4, <3>1 DEF Moves, Becomes
  <2> QED
    BY <2>2, <2>3, <2>4
<1>11. CASE cpu.doing = "last"
  <2>1. Boundary("handler")
    BY <1>11 DEF CpuStep
  <2> QED
    BY <1>11, <2>1, BoundaryOpens, Addresses DEF Moves
<1>12. CASE cpu.doing = "wait"
  <2>1. IF nmi
        THEN \/ Becomes([cpu EXCEPT !.doing = "enter", !.left = 2, !.vector = "fffc"], Idle(FALSE))
             \/ Becomes([cpu EXCEPT !.doing = "pushed", !.vector = "fffc"], Idle(FALSE))
        ELSE Becomes(cpu, Idle(FALSE))
    BY <1>12 DEF CpuStep
  <2>2. CASE Becomes([cpu EXCEPT !.doing = "enter", !.left = 2, !.vector = "fffc"], Idle(FALSE)) /\ nmi
    <3>1. cpu'.doing = "enter" /\ cpu'.left = 2 /\ SameProgram
      BY <2>2 DEF Becomes, SameProgram, CpuKnows, Cpu
    <3> QED
      BY <1>12, <2>2, <3>1 DEF Moves, Becomes
  <2>3. CASE Becomes([cpu EXCEPT !.doing = "pushed", !.vector = "fffc"], Idle(FALSE)) /\ nmi
    <3>1. cpu'.doing = "pushed" /\ SameProgram
      BY <2>3 DEF Becomes, SameProgram, CpuKnows, Cpu
    <3> QED
      BY <1>12, <2>3, <3>1 DEF Moves, Becomes
  <2>4. CASE Becomes(cpu, Idle(FALSE)) /\ ~nmi
    BY <1>12, <2>4 DEF Moves, Becomes, SameProgram
  <2> QED
    BY <2>1, <2>2, <2>3, <2>4
<1>13. /\ cpu.doing = "enter" => cpu.left > 1 \/ cpu.left = 1
       /\ cpu.doing = "push" => cpu.left > 1 \/ cpu.left = 1
  BY <1>1 DEF CpuKnows
<1> QED
  BY <1>1, <1>2, <1>3, <1>4, <1>5, <1>6, <1>7, <1>8, <1>9, <1>10, <1>11, <1>12, <1>13 DEF Doing

\* The pins of a cycle, as Boolean values.
LEMMA CycFields ==
  /\ \A a, d : LET c == Cyc(TRUE, FALSE, FALSE, a, d) IN c.read /\ ~c.bs /\ ~c.lic /\ c.addr = a /\ c.byte = d
  /\ \A a, d : LET c == Cyc(FALSE, FALSE, FALSE, a, d) IN ~c.read /\ ~c.bs /\ ~c.lic /\ c.addr = a /\ c.byte = d
  /\ \A a, d : LET c == Cyc(TRUE, TRUE, FALSE, a, d) IN c.read /\ c.bs /\ ~c.lic /\ c.addr = a /\ c.byte = d
BY DEF Cyc

LEMMA IdleFields ==
  /\ Idle(TRUE).read /\ ~Idle(TRUE).bs /\ Idle(TRUE).lic /\ Idle(TRUE).addr = "ffff"
  /\ Idle(FALSE).read /\ ~Idle(FALSE).bs /\ ~Idle(FALSE).lic /\ Idle(FALSE).addr = "ffff"
BY DEF Idle, Cyc

LEMMA OpenedFields ==
  ASSUME NEW p, Opened(p)
  PROVE  /\ cpu'.doing = "fetch" \/ (cpu'.doing = "enter" /\ cpu'.left = 1)
         /\ cpu'.pc = p /\ cyc' = Cyc(TRUE, FALSE, FALSE, p, 0)
         /\ cyc'.read /\ ~cyc'.bs /\ ~cyc'.lic /\ cyc'.addr = p
BY CycFields DEF Opened

LEMMA ShowsNext ==
  ASSUME CpuKnows(cpu), CpuKnows(cpu'), NEW value, Moves(value), SameProgram
  PROVE  BusShows'
<1>1. /\ cpu.left \in Nat /\ cpu.frame \in {12, 14} /\ cpu'.frame = cpu.frame
      /\ cpu'.left \in Nat
  BY CpuFields DEF SameProgram
<1>2. ASSUME NEW p, Opened(p) PROVE BusShows'
  <2>1. CASE cpu'.doing = "fetch"
    BY <1>2, <2>1 DEF Opened, BusShows
  <2>2. CASE cpu'.doing = "enter" /\ cpu'.left = 1
    <3>1. cyc'.read /\ ~cyc'.bs /\ ~cyc'.lic /\ cyc'.addr = cpu'.pc
      BY <1>2 DEF Opened, Cyc
    <3> QED
      BY <2>2, <3>1 DEF BusShows
  <2> QED
    BY <1>2, <2>1, <2>2 DEF Opened
<1>3. CASE cpu.doing = "push" /\ cpu.left > 1 /\ cpu'.doing = "push" /\ cpu'.left = cpu.left - 1
           /\ cyc' = Cyc(FALSE, FALSE, FALSE, "stack", cpu.frame - cpu.left + 2)
  <2>1. cpu.frame - cpu.left + 2 = cpu'.frame - cpu'.left + 1
    BY <1>1, <1>3
  <2> QED
    BY <1>3, <2>1 DEF BusShows
<1>4. CASE cpu'.doing = "push" /\ cpu'.left = cpu.frame /\ cyc' = Cyc(FALSE, FALSE, FALSE, "stack", 1)
  <2>1. cpu'.frame - cpu'.left + 1 = 1
    BY <1>1, <1>4
  <2> QED
    BY <1>4, <2>1 DEF BusShows
<1>5. CASE cpu'.doing = "insn" /\ (cyc'.lic <=> cpu'.left = 1) /\ cpu'.left >= 1
  BY <1>5 DEF BusShows
<1>6. CASE cpu'.doing = "enter" /\ cpu'.left \in 1 .. 2 /\ cyc' = Idle(FALSE)
  BY <1>6, IdleFields DEF BusShows
<1>7. CASE \/ cpu'.doing = "pushed" /\ cyc' = Idle(FALSE)
           \/ cpu'.doing = "last" /\ cyc' = Idle(TRUE)
           \/ cpu'.doing = "wait" /\ cyc' = Idle(FALSE)
           \/ cpu'.doing = "vector" /\ cpu'.left \in 1 .. 2 /\ cyc' = Cyc(TRUE, TRUE, FALSE, cpu'.vector, 0)
  BY <1>7 DEF BusShows
<1>8. CASE \/ cpu.doing = "insn" /\ cpu.left = 1 /\ Opened(cpu.pc)
           \/ cpu.doing = "last" /\ Opened("handler")
  BY <1>2, <1>8
<1>9. CASE /\ cpu.doing = "insn" /\ cpu.left > 1
           /\ cpu'.doing = "insn" /\ cpu'.left = cpu.left - 1 /\ (cyc'.lic <=> cpu'.left = 1)
  BY <1>1, <1>5, <1>9
<1>10. CASE (cpu'.left = 1 \/ cpu'.left = 2) /\ cpu'.doing = "enter" /\ cyc' = Idle(FALSE)
  BY <1>6, <1>10
<1>11. CASE (cpu'.left = 1 \/ cpu'.left = 2) /\ cpu'.doing = "vector" /\ cyc' = Cyc(TRUE, TRUE, FALSE, cpu'.vector, 0)
  BY <1>7, <1>11
<1>12. CASE cpu.doing \in {"insn", "last"}
  BY <1>8, <1>9, <1>12 DEF Moves
<1>13. CASE cpu.doing = "fetch"
  <2>1. CASE value = "swi"
    BY <1>10, <1>13, <2>1 DEF Moves
  <2>2. CASE value # "swi"
    <3>1. cpu'.doing = "insn" /\ cpu'.left >= 1 /\ (cyc'.lic <=> cpu'.left = 1)
      BY <1>13, <2>2 DEF Moves
    <3> QED
      BY <1>5, <3>1
  <2> QED
    BY <2>1, <2>2
<1>14. CASE cpu.doing = "enter"
  BY <1>4, <1>10, <1>14 DEF Moves
<1>15. CASE cpu.doing = "wait"
  BY <1>7, <1>10, <1>15 DEF Moves
<1>16. CASE cpu.doing = "push"
  BY <1>3, <1>7, <1>16 DEF Moves
<1>17. CASE cpu.doing \in {"pushed", "vector"}
  BY <1>7, <1>11, <1>17 DEF Moves
<1> QED
  BY CpuFields, <1>12, <1>13, <1>14, <1>15, <1>16, <1>17 DEF Doing

\* A CPU that is to finish what it does comes, at LIC, to the opcode.
LEMMA FinishingStep ==
  ASSUME CpuKnows(cpu), CpuKnows(cpu'), BusShows, NEW value, Moves(value), SameProgram, Enough,
         NEW m \in Nat, Finishing(m), cpu.doing = "wait" /\ m = 4 => nmi
  PROVE  IF cyc.lic THEN AtOpcode(m + 1)' ELSE Finishing(m + 1)'
<1>1. /\ cpu.left \in Nat /\ cpu.frame \in {12, 14} /\ cpu'.frame = cpu.frame
      /\ cpu'.resume = cpu.resume /\ cpu'.left \in Nat /\ MaxCycles \in Nat
  BY CpuFields, BoundsAssumption DEF SameProgram
<1>2. CASE cpu.doing = "insn" /\ cpu.left > 1 /\ cpu'.doing = "insn" /\ cpu'.left = cpu.left - 1
           /\ cpu'.pc = cpu.pc
  <2>1. ~cyc.lic
    BY <1>1, <1>2 DEF BusShows
  <2>2. m + 1 + cpu'.left + cpu'.frame + 3 <= MaxCycles
    BY <1>1, <1>2 DEF Finishing
  <2> QED
    BY <1>1, <1>2, <2>1, <2>2 DEF Finishing
<1>3. CASE cpu.doing = "insn" /\ cpu.left = 1 /\ Opened(cpu.pc)
  <2>1. cyc.lic
    BY <1>3 DEF BusShows
  <2>2. cpu.pc = cpu.resume /\ m + 1 + cpu.frame + 3 <= MaxCycles
    BY <1>1, <1>3 DEF Finishing
  <2> QED
    BY <1>1, <1>3, <2>1, <2>2, OpenedFields DEF AtOpcode
<1>4. CASE cpu.doing = "last" /\ Opened("handler")
  <2>1. cyc.lic
    BY <1>4, IdleFields DEF BusShows
  <2>2. cpu.resume = "handler" /\ m + 1 + cpu.frame + 3 <= MaxCycles
    BY <1>1, <1>4 DEF Finishing
  <2> QED
    BY <1>1, <1>4, <2>1, <2>2, OpenedFields DEF AtOpcode
<1>5. ~cyc.lic \/ cpu.doing \in {"insn", "last"}
  BY DEF BusShows, Finishing, Cyc, Idle
<1>6. CASE cpu.doing = "enter" /\ cpu.left = 2 /\ cpu'.doing = "enter" /\ cpu'.left = 1
  BY <1>1, <1>5, <1>6 DEF Finishing
<1>7. CASE cpu.doing = "enter" /\ cpu.left = 1 /\ cpu'.doing = "push" /\ cpu'.left = cpu.frame
  BY <1>1, <1>5, <1>7 DEF Finishing
<1>8. CASE cpu.doing = "push" /\ cpu.left > 1 /\ cpu'.doing = "push" /\ cpu'.left = cpu.left - 1
  BY <1>1, <1>5, <1>8 DEF Finishing
<1>9. CASE cpu.doing = "push" /\ cpu.left = 1 /\ cpu'.doing = "pushed"
  BY <1>1, <1>5, <1>9 DEF Finishing
<1>10. CASE cpu.doing = "pushed" /\ cpu'.doing = "vector" /\ cpu'.left = 2
  BY <1>1, <1>5, <1>10 DEF Finishing
<1>11. CASE cpu.doing = "vector" /\ cpu.left = 2 /\ cpu'.doing = "vector" /\ cpu'.left = 1
  BY <1>1, <1>5, <1>11 DEF Finishing
<1>12. CASE cpu.doing = "vector" /\ cpu.left = 1 /\ cpu'.doing = "last"
  BY <1>1, <1>5, <1>12 DEF Finishing
<1>13. CASE cpu.doing = "wait" /\ cpu'.doing = "enter" /\ cpu'.left = 2
  BY <1>1, <1>5, <1>13 DEF Finishing, Enough
<1>14. CASE cpu.doing = "wait" /\ cpu'.doing = "pushed"
  BY <1>1, <1>5, <1>14 DEF Finishing, Enough
<1>15. CASE cpu.doing = "wait" /\ ~nmi /\ cpu'.doing = "wait"
  BY <1>1, <1>5, <1>15 DEF Finishing
<1>16. cpu.doing # "fetch"
  BY DEF Finishing
<1> QED
  BY <1>2, <1>3, <1>4, <1>6, <1>7, <1>8, <1>9, <1>10, <1>11, <1>12, <1>13, <1>14, <1>15, <1>16 DEF Moves

\* A CPU that was given the SWI stacks its frame, a byte at each write.
LEMMA StackingStep ==
  ASSUME CpuKnows(cpu), CpuKnows(cpu'), BusShows, NEW value, Moves(value), SameProgram,
         NEW m \in Nat, NEW k \in Nat, Stacking(m, k), m < MaxCycles,
         cpu.doing = "fetch" => value = "swi",
         cpu.doing = "vector" => FALSE
  PROVE  /\ IF cyc.read THEN Stacking(m + 1, k)' ELSE Stacking(m + 1, k + 1)'
         /\ ~cyc.read => cyc.byte = k + 1
         /\ cpu'.doing # "fetch"
<1>1. /\ cpu.left \in Nat /\ cpu.frame \in {12, 14} /\ cpu'.frame = cpu.frame
      /\ cpu'.left \in Nat /\ MaxCycles \in Nat
  BY CpuFields, BoundsAssumption DEF SameProgram
<1>2. cpu.doing \in {"fetch", "enter", "push", "pushed"}
  BY DEF Stacking
<1>3. /\ cpu.doing = "push" => ~cyc.read /\ cyc.byte = cpu.frame - cpu.left + 1
      /\ cpu.doing # "push" => cyc.read
  BY <1>2 DEF BusShows, Cyc, Idle
<1>4. CASE cpu.doing = "fetch" /\ cpu'.doing = "enter" /\ cpu'.left = 2
  BY <1>1, <1>3, <1>4 DEF Stacking
<1>5. CASE cpu.doing = "enter" /\ cpu.left = 2 /\ cpu'.doing = "enter" /\ cpu'.left = 1
  BY <1>1, <1>3, <1>5 DEF Stacking
<1>6. CASE cpu.doing = "enter" /\ cpu.left = 1 /\ cpu'.doing = "push" /\ cpu'.left = cpu.frame
  BY <1>1, <1>3, <1>6 DEF Stacking
<1>7. CASE cpu.doing = "push" /\ cpu.left > 1 /\ cpu'.doing = "push" /\ cpu'.left = cpu.left - 1
  BY <1>1, <1>3, <1>7 DEF Stacking
<1>8. CASE cpu.doing = "push" /\ cpu.left = 1 /\ cpu'.doing = "pushed"
  BY <1>1, <1>3, <1>8 DEF Stacking
<1>9. CASE cpu.doing = "pushed" /\ cpu'.doing = "vector" /\ cpu'.left = 2
  BY <1>1, <1>3, <1>9 DEF Stacking
<1> QED
  BY <1>2, <1>4, <1>5, <1>6, <1>7, <1>8, <1>9 DEF Moves

LEMMA CaptureInit == ASSUME Entry = "limit", Enough, Init PROVE CInv
<1>0. /\ pos = "sync" /\ n = 0 /\ pio = "loop" /\ streak = 0 /\ bytes = << >>
      /\ state = IF prevLic THEN "Inject" ELSE "AwaitLic"
      /\ MaxInsn \in Nat /\ MaxCycles \in Nat
  BY BoundsAssumption DEF Init
<1>1. PICK f \in {12, 14} : Somewhere(f)
  BY DEF Init
<1> DEFINE At(d, k, p) == [doing |-> d, left |-> k, pc |-> p, vector |-> "fff8", frame |-> f, resume |-> p]
<1>2. ~Ahead
  BY <1>0 DEF Ahead
<1>3. ASSUME ~prevLic, BusShows, Finishing(0) PROVE CInv
  BY <1>0, <1>2, <1>3 DEF CInv, Awaiting
<1>4. ASSUME prevLic, BusShows, AtOpcode(0) PROVE CInv
  BY <1>0, <1>4 DEF CInv, Injecting
<1>5. CASE \E k \in 1 .. MaxInsn : \E now \in InsnCycles(k = 1) : InitCpu(At("insn", k, "next"), FALSE, now)
  <2>1. PICK k \in 1 .. MaxInsn : \E now \in InsnCycles(k = 1) : InitCpu(At("insn", k, "next"), FALSE, now)
    BY <1>5
  <2>2. PICK now \in InsnCycles(k = 1) : InitCpu(At("insn", k, "next"), FALSE, now)
    BY <2>1
  <2>3. now.lic <=> k = 1
    BY <2>2, InsnLic
  <2>4. /\ ~prevLic /\ (cyc.lic <=> k = 1) /\ cpu.doing = "insn" /\ cpu.left = k /\ cpu.pc = "next"
        /\ cpu.frame = f /\ cpu.resume = "next"
    BY <2>2, <2>3 DEF InitCpu
  <2>5. BusShows
    BY <1>0, <2>1, <2>4 DEF BusShows
  <2>6. Finishing(0)
    BY <1>0, <1>1, <2>1, <2>4 DEF Finishing, Enough
  <2> QED
    BY <1>3, <2>4, <2>5, <2>6
<1>6. CASE InitCpu(At("fetch", 0, "next"), TRUE, Cyc(TRUE, FALSE, FALSE, "next", 0))
  <2>1. /\ prevLic /\ cyc = Cyc(TRUE, FALSE, FALSE, "next", 0) /\ cpu.doing = "fetch" /\ cpu.pc = "next"
        /\ cpu.frame = f /\ cpu.resume = "next"
    BY <1>6 DEF InitCpu
  <2>2. BusShows
    BY <2>1 DEF BusShows
  <2>3. AtOpcode(0)
    BY <1>0, <1>1, <2>1 DEF AtOpcode, Enough, Cyc
  <2> QED
    BY <1>4, <2>1, <2>2, <2>3
<1>7. CASE InitCpu(At("enter", 1, "next"), TRUE, Cyc(TRUE, FALSE, FALSE, "next", 0))
  <2>1. /\ prevLic /\ cyc = Cyc(TRUE, FALSE, FALSE, "next", 0) /\ cpu.doing = "enter" /\ cpu.left = 1
        /\ cpu.pc = "next" /\ cpu.frame = f /\ cpu.resume = "next"
    BY <1>7 DEF InitCpu
  <2>2. BusShows
    BY <2>1 DEF BusShows, Cyc
  <2>3. AtOpcode(0)
    BY <1>0, <1>1, <2>1 DEF AtOpcode, Enough, Cyc
  <2> QED
    BY <1>4, <2>1, <2>2, <2>3
<1>8. CASE \E k \in 1 .. f : InitCpu(At("push", k, "handler"), FALSE, Cyc(FALSE, FALSE, FALSE, "stack", f - k + 1))
  <2>1. PICK k \in 1 .. f : InitCpu(At("push", k, "handler"), FALSE, Cyc(FALSE, FALSE, FALSE, "stack", f - k + 1))
    BY <1>8
  <2>2. /\ ~prevLic /\ cyc = Cyc(FALSE, FALSE, FALSE, "stack", f - k + 1) /\ cpu.doing = "push"
        /\ cpu.left = k /\ cpu.frame = f /\ cpu.resume = "handler"
    BY <2>1 DEF InitCpu
  <2>3. BusShows
    BY <2>2 DEF BusShows
  <2>4. Finishing(0)
    BY <1>0, <1>1, <2>1, <2>2 DEF Finishing, Enough
  <2> QED
    BY <1>3, <2>2, <2>3, <2>4
<1>9. CASE InitCpu(At("wait", 0, "handler"), FALSE, Idle(FALSE))
  <2>1. /\ ~prevLic /\ cyc = Idle(FALSE) /\ cpu.doing = "wait" /\ cpu.frame = f /\ cpu.resume = "handler"
    BY <1>9 DEF InitCpu
  <2>2. BusShows
    BY <2>1 DEF BusShows
  <2>3. Finishing(0)
    BY <2>1 DEF Finishing
  <2> QED
    BY <1>3, <2>1, <2>2, <2>3
<1> QED
  BY <1>1, <1>5, <1>6, <1>7, <1>8, <1>9 DEF Somewhere

\* Time is left as long as Core 1 has something to wait for.
LEMMA TimeIsLeft ==
  ASSUME CpuKnows(cpu), BusShows, Enough, NEW m \in Nat
  PROVE  /\ Finishing(m) => m < MaxCycles
         /\ AtOpcode(m) => m < MaxCycles
         /\ \A k : Stacking(m, k) /\ cpu.doing \in {"fetch", "enter", "push"} => m < MaxCycles
<1>1. /\ cpu.left \in Nat /\ cpu.frame \in {12, 14} /\ MaxCycles \in Nat
      /\ cpu.doing = "insn" => cpu.left >= 1
      /\ cpu.doing = "push" => cpu.left >= 1
      /\ cpu.doing = "enter" => cpu.left >= 1
  BY CpuFields, BoundsAssumption DEF BusShows, CpuKnows
<1>2. Finishing(m) => m < MaxCycles
  BY <1>1 DEF Finishing, Enough
<1>3. AtOpcode(m) => m < MaxCycles
  BY <1>1 DEF AtOpcode
<1>4. \A k : Stacking(m, k) /\ cpu.doing \in {"fetch", "enter", "push"} => m < MaxCycles
  BY <1>1 DEF Stacking
<1> QED
  BY <1>2, <1>3, <1>4

\* What the CPU reads and writes.
LEMMA BusReads ==
  ASSUME BusShows
  PROVE  /\ cpu.doing \in {"fetch", "enter", "pushed", "vector"} => cyc.read
         /\ cpu.doing = "push" => ~cyc.read
         /\ cpu.doing \in {"enter", "pushed", "fetch"} => ~cyc.bs
         /\ cpu.doing = "vector" => cyc.bs /\ cyc.addr = cpu.vector
BY DEF BusShows, Cyc, Idle

\* A step of the CPU, in the middle of a cycle of Core 1.
LEMMA LateCaptures ==
  ASSUME HInv, CpuKnows(cpu'), CInv, Core1Typed, Core1Counts, Enough,
         NEW value, CpuStep(value), pos \in {"late", "last"}, pio = "mid", pio' = "loop",
         cpu.doing = "fetch" /\ tx = <<"swi">> => value = "swi",
         reading <=> cyc.read,
         NEW d \in Byte, rx' = <<Word(d)>>, ~cyc.read => d = cyc.byte,
         UNCHANGED core
  PROVE  CInv'
<1>1. CpuKnows(cpu) /\ BusShows
  BY DEF HInv, CInv
<1>2. Moves(value) /\ SameProgram
  BY <1>1, CpuMoves
<1>3. BusShows'
  BY <1>1, <1>2, ShowsNext
<1>4. ~Ahead /\ Ahead'
  BY DEF Ahead, core
<1>5. rx'[1].lic = cyc.lic /\ rx'[1].byte = d
  BY DEF Word
<1>6. n \in Nat /\ MaxCycles \in Nat
  BY BoundsAssumption DEF Core1Typed
<1>7. PICK m \in Nat : m = n
  BY <1>6
<1>8. n' = m /\ streak' = streak /\ pos' = pos /\ state' = state /\ bytes' = bytes /\ nmi' = nmi
      /\ reading' = reading /\ injected' = injected
  BY <1>7 DEF core
<1>9. CASE state = "AwaitLic" /\ pos # "done"
  <2>1. Awaiting
    BY <1>9 DEF CInv
  <2>2. Finishing(m) /\ (cpu.doing = "wait" /\ m = 4 => nmi)
    BY <1>4, <1>7, <2>1 DEF Awaiting
  <2>3. IF cyc.lic THEN AtOpcode(m + 1)' ELSE Finishing(m + 1)'
    BY <1>1, <1>2, <2>2, FinishingStep
  <2>4. IF rx'[1].lic THEN AtOpcode(n + 1)' ELSE Finishing(n + 1)'
    BY <1>5, <1>8, <2>3 DEF AtOpcode, Finishing
  <2>5. Awaiting'
    BY <1>4, <1>8, <2>1, <2>4 DEF Awaiting
  <2> QED
    BY <1>3, <1>8, <1>9, <2>5 DEF CInv
<1>10. CASE state = "AwaitStack"
  <2>1. Collecting /\ pos = "late"
    BY <1>10 DEF CInv, Collecting
  <2>2. Stacking(m, streak) /\ (cpu.doing = "fetch" => tx = <<"swi">>) /\ cpu.doing # "vector"
    BY <1>4, <1>7, <2>1 DEF Collecting
  <2>3. streak \in Nat /\ m < MaxCycles
    BY <1>6, <1>7, <2>1 DEF Core1Typed, Core1Counts
  <2>4. PICK k \in Nat : k = streak
    BY <2>3
  <2>5. /\ IF cyc.read THEN Stacking(m + 1, k)' ELSE Stacking(m + 1, k + 1)'
        /\ ~cyc.read => cyc.byte = k + 1
        /\ cpu'.doing # "fetch"
    BY <1>1, <1>2, <2>2, <2>3, <2>4, StackingStep
  <2>6. /\ reading' => Stacking(n + 1, streak)'
        /\ ~reading' => Stacking(n + 1, streak + 1)' /\ rx'[1].byte = streak' + 1
    BY <1>5, <1>8, <2>4, <2>5 DEF Stacking
  <2>7. injected' = cpu'.resume /\ Frame(streak)'
    BY <1>2, <1>8, <2>1 DEF Collecting, SameProgram, Frame
  <2>8. Collecting'
    BY <1>4, <1>8, <2>1, <2>5, <2>6, <2>7 DEF Collecting
  <2> QED
    BY <1>3, <1>8, <1>10, <2>1, <2>8 DEF CInv
<1>11. CASE state = "Done"
  <2>1. Collected
    BY <1>11 DEF CInv
  <2>2. Collected'
    BY <1>2, <1>8, <2>1 DEF Collected, Frame, SameProgram, Captured
  <2> QED
    BY <1>3, <1>8, <1>11, <2>2 DEF CInv
<1>12. state # "Inject"
  BY DEF CInv, Injecting
<1> QED
  BY <1>9, <1>10, <1>11, <1>12 DEF HInv

LEMMA HamsterCaptures ==
  ASSUME HInv, HInv', CInv, Core1Typed, Core1Counts, Enough, Hamster
  PROVE  CInv'
<1>1. CpuKnows(cpu) /\ CpuKnows(cpu') /\ cyc \in CycType /\ InStep
  BY DEF HInv
<1>2. CASE Early
  <2>1. Called
    BY <1>1, <1>2, OneWord DEF Early, InStep, Quiet, Called, Shown, Replied, ReadDone, Writing, Written
  <2>2. ~Ahead /\ ~Ahead' /\ tx # <<"swi">> /\ UNCHANGED <<core, cpu, cyc>>
    BY <1>2, <2>1, OneWord DEF Early, Called, Ahead, core
  <2>3. Awaiting => Awaiting'
    BY <2>2 DEF Awaiting, Finishing, core
  <2>4. Injecting => Injecting'
    BY <2>2 DEF Injecting, AtOpcode, core
  <2>5. Collecting => Collecting'
    BY <2>2 DEF Collecting, Stacking, Frame, core
  <2>6. Collected => Collected'
    BY <2>2 DEF Collected, Frame, Captured, core
  <2>7. BusShows'
    BY <2>2 DEF CInv, BusShows
  <2> QED
    BY <2>2, <2>3, <2>4, <2>5, <2>6, <2>7 DEF CInv, core
<1>3. CASE LateRead
  <2>1. Replied
    BY <1>1, <1>3, OneWord DEF LateRead, InStep, Quiet, Called, Shown, Replied, ReadDone, Writing, Written
  <2>2. /\ pos \in {"late", "last"} /\ pio = "mid" /\ pio' = "loop" /\ reading /\ cyc.read
        /\ rx' = <<Word(Noise)>> /\ UNCHANGED core
    BY <1>3, <2>1, OneWord DEF LateRead, Replied
  <2>3. tx = <<"swi">> => Head(tx) = "swi"
    BY OneWord
  <2> QED
    BY <1>1, <1>3, <2>2, <2>3, SmallBytes, LateCaptures DEF LateRead
<1>4. CASE LateWrite
  <2>1. Writing
    BY <1>1, <1>4, OneWord DEF LateWrite, InStep, Quiet, Called, Shown, Replied, ReadDone, Writing, Written
  <2>2. /\ pos \in {"late", "last"} /\ pio = "mid" /\ pio' = "loop" /\ ~reading /\ ~cyc.read
        /\ rx' = <<Word(cyc.byte)>> /\ UNCHANGED core /\ tx = << >>
    BY <1>4, <2>1, OneWord DEF LateWrite, Writing
  <2>3. cyc.byte \in Byte /\ tx # <<"swi">>
    BY <1>1, <2>2, OneWord DEF CycType
  <2> QED
    BY <1>1, <1>4, <2>2, <2>3, LateCaptures DEF LateWrite
<1> QED
  BY <1>2, <1>3, <1>4 DEF Hamster

LEMMA Core1Captures ==
  ASSUME HInv, CInv, Core1Typed, Core1Counts, Enough, Core1
  PROVE  CInv'
<1>1. /\ CpuKnows(cpu) /\ cyc \in CycType /\ InStep /\ BusShows
      /\ n \in Nat /\ MaxCycles \in Nat /\ streak \in Nat /\ nmi \in BOOLEAN
      /\ cpu.left \in Nat /\ cpu.frame \in {12, 14}
      /\ bytes \in Seq(Byte) /\ cpu.vector \in Vector
      /\ state \in {"AwaitLic", "Inject", "AwaitStack", "Done"}
  BY CpuFields, BoundsAssumption DEF HInv, CInv, Core1Typed
<1>2. SUFFICES ASSUME UNCHANGED board
               PROVE  /\ state' = "AwaitLic" => Awaiting'
                      /\ state' = "Inject" => Injecting'
                      /\ state' = "AwaitStack" /\ pos' # "done" => Collecting'
                      /\ state' = "Done" \/ pos' = "done" => Collected'
  <2>1. UNCHANGED board
    BY DEF Core1, Sync, Finish, EarlyVector, EarlyRead, EarlyWrite, LateOfRead, LateOfWrite, LateOfVector
  <2>2. BusShows'
    BY <1>1, <2>1 DEF BusShows, board
  <2> QED
    BY <1>2, <2>1, <2>2 DEF CInv
<1>a. cpu' = cpu /\ cyc' = cyc /\ pio' = pio
  BY <1>2 DEF board
<1>3. CASE Sync
  <2>1. Quiet
    BY <1>1, <1>3 DEF Sync, InStep, Quiet, Called, Shown, Replied, ReadDone, Writing, Written
  <2>2. ~Ahead /\ ~Ahead' /\ tx # <<"swi">> /\ pos = "sync" /\ pos' = "early"
        /\ UNCHANGED <<state, n, streak, bytes, injected>>
    BY <1>3, <1>a, <2>1, OneWord DEF Sync, Quiet, Ahead
  <2>3. state = "AwaitLic" /\ n = 4 => nmi'
    <3>1. n = 4 => n >= 4
      OBVIOUS
    <3>2. nmi' = (nmi \/ (state = "AwaitLic" /\ n >= 4))
      BY <1>3 DEF Sync
    <3> QED
      BY <3>1, <3>2, Zenon
  <2>4. ASSUME state = "AwaitLic" PROVE Awaiting'
    <3>1. Awaiting
      BY <2>4 DEF CInv
    <3> QED
      BY <1>a, <2>2, <2>3, <2>4, <3>1 DEF Awaiting, Finishing
  <2>5. ASSUME state = "Inject" PROVE Injecting'
    BY <1>a, <2>2, <2>5 DEF CInv, Injecting, AtOpcode
  <2>6. ASSUME state = "AwaitStack" PROVE Collecting'
    <3>1. Collecting
      BY <2>2, <2>6 DEF CInv
    <3> QED
      BY <1>a, <2>2, <3>1 DEF Collecting, Stacking, Frame
  <2>7. state # "Done"
    BY <2>2 DEF CInv, Collected
  <2> QED
    BY <2>2, <2>4, <2>5, <2>6, <2>7
<1>4. CASE Finish
  <2>1. Quiet
    BY <1>1, <1>4 DEF Finish, InStep, Quiet, Called, Shown, Replied, ReadDone, Writing, Written
  <2>2. /\ ~Ahead /\ tx # <<"swi">> /\ pos' = "done" /\ halt' = TRUE /\ nmi' = FALSE
        /\ regs' = [valid |-> Complete, frame |-> IF Complete THEN bytes ELSE << >>, pc |-> injected]
        /\ UNCHANGED <<state, n, streak, bytes, injected>>
        /\ pos = "end" \/ (pos = "sync" /\ n = MaxCycles)
    BY <1>4, <2>1, OneWord DEF Finish, Quiet, Ahead
  <2>3. pos = "end" \/ (~Finishing(n) /\ ~AtOpcode(n))
    BY <1>1, <2>2, TimeIsLeft
  <2>4. state # "AwaitLic" /\ state # "Inject"
    BY <2>2, <2>3 DEF CInv, Awaiting, Injecting
  <2>5. injected = cpu.resume /\ streak = cpu.frame /\ Frame(streak)
    <3>1. CASE state = "AwaitStack"
      <4>1. Collecting /\ pos = "sync" /\ n = MaxCycles
        BY <2>2, <3>1 DEF CInv, Collecting
      <4>2. Stacking(n, streak) /\ cpu.doing # "fetch"
        BY <2>2, <4>1 DEF Collecting
      <4>3. cpu.doing \in {"pushed", "vector"}
        <5>1. cpu.doing \in {"fetch", "enter", "push"} => n < MaxCycles
          BY <1>1, <4>2, TimeIsLeft
        <5> QED
          BY <1>1, <4>1, <4>2, <5>1 DEF Stacking
      <4> QED
        BY <4>1, <4>2, <4>3 DEF Collecting, Stacking
    <3>2. CASE state = "Done"
      BY <3>2 DEF CInv, Collected
    <3> QED
      BY <1>1, <2>4, <3>1, <3>2
  <2>6. bytes = [i \in 1 .. cpu.frame |-> i]
    <3>1. Len(bytes) = cpu.frame /\ \A i \in 1 .. cpu.frame : bytes[i] = i
      BY <2>5 DEF Frame
    <3> QED
      BY <1>1, <3>1
  <2>7. Complete
    BY <1>1, <2>5 DEF Complete
  <2>8. regs' = [valid |-> TRUE, frame |-> [i \in 1 .. cpu.frame |-> i], pc |-> cpu.resume]
    BY <2>2, <2>5, <2>6, <2>7
  <2>9. Collected'
    BY <1>a, <2>2, <2>5, <2>8 DEF Collected, Captured, Frame
  <2> QED
    BY <2>2, <2>4, <2>9
<1>5. ASSUME NEW w, pos = "early", Take(w)
      PROVE  Shown /\ w = Word(Noise) /\ w.read = cyc.read /\ w.bs = cyc.bs /\ ~Ahead /\ tx = << >> /\ tx # <<"swi">>
  BY <1>1, <1>5, OneWord DEF Take, InStep, Quiet, Called, Shown, Replied, ReadDone, Writing, Written, Word, Ahead
<1>6. ASSUME NEW w, pos \in {"late", "last"}, Take(w)
      PROVE  Ahead /\ rx[1] = w
  BY <1>1, <1>6, OneWord DEF Take, InStep, Quiet, Called, Shown, Replied, ReadDone, Writing, Written, Ahead
<1>7. ASSUME NEW w, EarlyVector(w)
      PROVE  /\ state' = "AwaitLic" => Awaiting'
             /\ state' = "Inject" => Injecting'
             /\ state' = "AwaitStack" /\ pos' # "done" => Collecting'
             /\ state' = "Done" \/ pos' = "done" => Collected'
  <2>1. /\ pos = "early" /\ Take(w) /\ w.read /\ Complete /\ state' = "Done" /\ pos' = "last"
        /\ UNCHANGED <<streak, bytes, injected>>
    BY <1>7 DEF EarlyVector
  <2>2. cyc.read /\ ~Ahead /\ tx # <<"swi">>
    BY <1>5, <2>1
  <2>3. streak # 0
    BY <2>1 DEF Complete
  <2>4. state = "AwaitStack"
    BY <1>1, <2>1, <2>3 DEF CInv, Awaiting, Injecting, Collected
  <2>5. Collecting
    BY <2>1, <2>4 DEF CInv
  <2>6. Stacking(n, streak) /\ cpu.doing # "fetch"
    BY <2>2, <2>5 DEF Collecting
  <2>7. cpu.doing # "push" /\ cpu.doing # "enter"
    BY <1>1, <2>2, <2>3, <2>6, BusReads DEF Stacking
  <2>8. streak = cpu.frame
    BY <2>6, <2>7 DEF Stacking
  <2>9. Collected'
    BY <1>a, <2>1, <2>5, <2>8 DEF Collected, Collecting, Frame, Captured
  <2> QED
    BY <2>1, <2>9
<1>8. ASSUME NEW w, EarlyRead(w)
      PROVE  /\ state' = "AwaitLic" => Awaiting'
             /\ state' = "Inject" => Injecting'
             /\ state' = "AwaitStack" /\ pos' # "done" => Collecting'
             /\ state' = "Done" \/ pos' = "done" => Collected'
  <2>1. /\ pos = "early" /\ Take(w) /\ w.read /\ pos' = "late"
        /\ ~(Complete /\ (cyc.addr = "fffa" \/ (w.bs /\ cyc.addr \in Vector)))
        /\ streak' = IF Complete THEN streak ELSE 0
        /\ UNCHANGED <<n, bytes, nmi>>
    BY <1>8 DEF EarlyRead
  <2>2. cyc.read /\ ~Ahead /\ tx # <<"swi">> /\ w.bs = cyc.bs /\ pio = "mid"
    BY <1>5, <2>1 DEF Shown
  <2>3. ~Ahead'
    BY <1>a, <2>2 DEF Ahead
  <2>4. CASE state = "AwaitLic"
    <3>1. Awaiting /\ state' = "AwaitLic"
      BY <1>8, <2>4 DEF CInv, EarlyRead
    <3>2. streak' = 0
      BY <2>1, <3>1 DEF Awaiting
    <3>3. Awaiting'
      BY <1>a, <2>1, <2>2, <2>3, <3>1, <3>2 DEF Awaiting, Finishing
    <3> QED
      BY <2>1, <3>1, <3>3
  <2>5. CASE state = "Inject"
    <3>1. Injecting /\ state' = "AwaitStack" /\ injected' = cyc.addr /\ tx' = Append(tx, "swi")
      BY <1>8, <2>5 DEF CInv, EarlyRead
    <3>2. streak' = 0 /\ tx' = <<"swi">>
      BY <1>5, <2>1, <3>1, OneWord DEF Injecting
    <3>3. Stacking(n, 0)
      BY <1>1, <3>1 DEF Injecting, AtOpcode, Stacking
    <3>4. injected' = cpu.resume /\ cpu.doing # "vector" /\ bytes = << >>
      BY <3>1 DEF Injecting, AtOpcode
    <3>5. Stacking(n, streak)' /\ Frame(streak)' /\ injected' = cpu'.resume
      BY <1>a, <2>1, <3>2, <3>3, <3>4 DEF Stacking, Frame
    <3>6. Collecting'
      BY <1>a, <2>1, <2>3, <3>2, <3>4, <3>5 DEF Collecting
    <3> QED
      BY <2>1, <3>1, <3>6
  <2>6. CASE state = "AwaitStack"
    <3>1. Collecting /\ state' = "AwaitStack" /\ injected' = injected
      BY <1>8, <2>1, <2>6 DEF CInv, EarlyRead
    <3>2. Stacking(n, streak) /\ cpu.doing # "fetch"
      BY <2>2, <3>1 DEF Collecting
    <3>3. cpu.doing # "push"
      BY <1>1, <2>2, BusReads
    <3>4. streak' = streak
      BY <1>1, <2>1, <3>2, <3>3 DEF Stacking, Complete
    <3>5. cpu.doing # "vector"
      <4>1. cpu.doing = "vector" => Complete /\ w.bs /\ cyc.addr \in Vector
        BY <1>1, <2>2, <3>2, BusReads DEF Stacking, Complete
      <4> QED
        BY <2>1, <4>1
    <3>6. Stacking(n, streak)' /\ Frame(streak)' /\ injected' = cpu'.resume
      BY <1>a, <2>1, <3>1, <3>2, <3>4 DEF Collecting, Stacking, Frame
    <3>7. Collecting'
      BY <1>a, <2>1, <2>3, <3>2, <3>5, <3>6 DEF Collecting
    <3> QED
      BY <2>1, <3>1, <3>7
  <2>7. state # "Done"
    BY <2>1 DEF CInv, Collected
  <2> QED
    BY <1>1, <2>4, <2>5, <2>6, <2>7
<1>9. ASSUME NEW w, EarlyWrite(w)
      PROVE  /\ state' = "AwaitLic" => Awaiting'
             /\ state' = "Inject" => Injecting'
             /\ state' = "AwaitStack" /\ pos' # "done" => Collecting'
             /\ state' = "Done" \/ pos' = "done" => Collected'
  <2>1. /\ pos = "early" /\ Take(w) /\ ~w.read /\ pos' = "late"
        /\ UNCHANGED <<state, n, streak, bytes, injected, nmi, tx>>
    BY <1>9 DEF EarlyWrite
  <2>2. ~cyc.read /\ ~Ahead /\ tx # <<"swi">> /\ pio = "mid"
    BY <1>5, <2>1 DEF Shown
  <2>3. ~Ahead'
    BY <1>a, <2>2 DEF Ahead
  <2>4. ASSUME state = "AwaitLic" PROVE Awaiting'
    <3>1. Awaiting
      BY <2>4 DEF CInv
    <3> QED
      BY <1>a, <2>1, <2>2, <2>3, <3>1 DEF Awaiting, Finishing
  <2>5. state # "Inject"
    BY <1>1, <2>2, BusReads DEF CInv, Injecting, AtOpcode
  <2>6. ASSUME state = "AwaitStack" PROVE Collecting'
    <3>1. Collecting
      BY <2>1, <2>6 DEF CInv
    <3>2. cpu.doing # "vector"
      BY <1>1, <2>2, BusReads
    <3> QED
      BY <1>a, <2>1, <2>2, <2>3, <3>1, <3>2 DEF Collecting, Stacking, Frame
  <2>7. state # "Done"
    BY <2>1 DEF CInv, Collected
  <2> QED
    BY <2>1, <2>4, <2>5, <2>6, <2>7
<1>10. ASSUME NEW w, LateOfRead(w)
       PROVE  /\ state' = "AwaitLic" => Awaiting'
              /\ state' = "Inject" => Injecting'
              /\ state' = "AwaitStack" /\ pos' # "done" => Collecting'
              /\ state' = "Done" \/ pos' = "done" => Collected'
  <2>1. /\ pos = "late" /\ reading /\ Take(w) /\ state' = AfterLic(w) /\ n' = n + 1 /\ pos' = "sync"
        /\ UNCHANGED <<streak, bytes, injected, nmi>>
    BY <1>10 DEF LateOfRead
  <2>2. Ahead /\ rx[1] = w
    BY <1>6, <2>1
  <2>3. ~Ahead'
    BY <2>1 DEF Ahead
  <2>4. CASE state = "AwaitLic"
    <3>1. Awaiting
      BY <2>4 DEF CInv
    <3>2. CASE w.lic
      <4>1. state' = "Inject" /\ AtOpcode(n + 1)
        BY <2>1, <2>2, <2>4, <3>1, <3>2 DEF AfterLic, Awaiting
      <4>2. Injecting'
        BY <1>a, <2>1, <3>1, <4>1 DEF Injecting, Awaiting, AtOpcode
      <4> QED
        BY <2>1, <4>1, <4>2
    <3>3. CASE ~w.lic
      <4>1. state' = "AwaitLic" /\ Finishing(n + 1)
        BY <2>1, <2>2, <2>4, <3>1, <3>3 DEF AfterLic, Awaiting
      <4>2. Awaiting'
        BY <1>a, <2>1, <2>3, <3>1, <4>1 DEF Awaiting, Finishing
      <4> QED
        BY <2>1, <4>1, <4>2
    <3> QED
      BY <3>2, <3>3
  <2>5. CASE state = "AwaitStack"
    <3>1. Collecting /\ state' = "AwaitStack"
      BY <2>1, <2>5 DEF CInv, AfterLic
    <3>2. Stacking(n + 1, streak) /\ cpu.doing # "fetch"
      BY <2>1, <2>2, <3>1 DEF Collecting
    <3>3. Stacking(n, streak)' /\ Frame(streak)' /\ injected' = cpu'.resume
      BY <1>a, <2>1, <3>1, <3>2 DEF Collecting, Stacking, Frame
    <3>4. Collecting'
      BY <1>a, <2>1, <2>3, <3>2, <3>3 DEF Collecting
    <3> QED
      BY <2>1, <3>1, <3>4
  <2>6. state # "Done" /\ state # "Inject"
    BY <2>1 DEF CInv, Collected, Injecting
  <2> QED
    BY <1>1, <2>4, <2>5, <2>6
<1>11. ASSUME NEW w, LateOfWrite(w)
       PROVE  /\ state' = "AwaitLic" => Awaiting'
              /\ state' = "Inject" => Injecting'
              /\ state' = "AwaitStack" /\ pos' # "done" => Collecting'
              /\ state' = "Done" \/ pos' = "done" => Collected'
  <2>1. /\ pos = "late" /\ ~reading /\ Take(w) /\ state' = AfterLic(w) /\ n' = n + 1 /\ pos' = "sync"
        /\ UNCHANGED <<injected, nmi>>
    BY <1>11 DEF LateOfWrite
  <2>2. Ahead /\ rx[1] = w
    BY <1>6, <2>1
  <2>3. ~Ahead'
    BY <2>1 DEF Ahead
  <2>4. CASE state = "AwaitLic"
    <3>1. Awaiting /\ UNCHANGED <<streak, bytes>>
      BY <1>11, <2>4 DEF CInv, LateOfWrite
    <3>2. CASE w.lic
      <4>1. state' = "Inject" /\ AtOpcode(n + 1)
        BY <2>1, <2>2, <2>4, <3>1, <3>2 DEF AfterLic, Awaiting
      <4>2. Injecting'
        BY <1>a, <2>1, <3>1, <4>1 DEF Injecting, Awaiting, AtOpcode
      <4> QED
        BY <2>1, <4>1, <4>2
    <3>3. CASE ~w.lic
      <4>1. state' = "AwaitLic" /\ Finishing(n + 1)
        BY <2>1, <2>2, <2>4, <3>1, <3>3 DEF AfterLic, Awaiting
      <4>2. Awaiting'
        BY <1>a, <2>1, <2>3, <3>1, <4>1 DEF Awaiting, Finishing
      <4> QED
        BY <2>1, <4>1, <4>2
    <3> QED
      BY <3>2, <3>3
  <2>5. CASE state = "AwaitStack"
    <3>1. Collecting /\ state' = "AwaitStack"
      BY <2>1, <2>5 DEF CInv, AfterLic
    <3>2. Stacking(n + 1, streak + 1) /\ cpu.doing # "fetch" /\ w.byte = streak + 1 /\ Frame(streak)
      BY <2>1, <2>2, <3>1 DEF Collecting
    <3>3. streak < 14
      BY <1>1, <3>2 DEF Stacking, CpuKnows
    <3>4. /\ bytes' = IF streak = 0 THEN <<w.byte>>
                      ELSE IF streak < 16 THEN Append(bytes, w.byte) ELSE bytes
          /\ streak' = streak + 1
      BY <1>11, <2>5 DEF LateOfWrite
    <3>5. bytes' = Append(bytes, w.byte)
      <4>1. streak = 0 => bytes = << >>
        BY <1>1, <3>2 DEF Frame
      <4>2. streak < 16
        BY <1>1, <3>3
      <4>3. CASE streak = 0
        <5>1. bytes' = <<w.byte>> /\ bytes = << >>
          BY <3>4, <4>1, <4>3
        <5> QED
          BY <5>1, OneWord
      <4>4. CASE streak # 0
        BY <3>4, <4>2, <4>4
      <4> QED
        BY <4>3, <4>4
    <3>6. Len(bytes') = streak + 1 /\ \A i \in 1 .. streak + 1 : bytes'[i] = i
      BY <1>1, <3>2, <3>5 DEF Frame
    <3>7. Frame(streak)'
      BY <3>4, <3>6 DEF Frame
    <3>8. Stacking(n, streak)' /\ injected' = cpu'.resume
      BY <1>a, <2>1, <3>1, <3>2, <3>4 DEF Collecting, Stacking
    <3>9. Collecting'
      BY <1>a, <2>1, <2>3, <3>2, <3>7, <3>8 DEF Collecting
    <3> QED
      BY <2>1, <3>1, <3>9
  <2>6. state # "Done" /\ state # "Inject"
    BY <2>1 DEF CInv, Collected, Injecting
  <2> QED
    BY <1>1, <2>4, <2>5, <2>6
<1>12. ASSUME NEW w, LateOfVector(w)
       PROVE  /\ state' = "AwaitLic" => Awaiting'
              /\ state' = "Inject" => Injecting'
              /\ state' = "AwaitStack" /\ pos' # "done" => Collecting'
              /\ state' = "Done" \/ pos' = "done" => Collected'
  <2>1. pos = "last" /\ pos' = "end" /\ UNCHANGED <<state, streak, bytes, injected>>
    BY <1>12 DEF LateOfVector
  <2>2. state = "Done"
    BY <1>1, <2>1 DEF CInv, Awaiting, Injecting, Collecting
  <2>3. Collected'
    BY <1>a, <2>1, <2>2 DEF CInv, Collected, Frame, Captured
  <2> QED
    BY <2>1, <2>2, <2>3
<1> QED
  BY <1>3, <1>4, <1>7, <1>8, <1>9, <1>10, <1>11, <1>12 DEF Core1

LEMMA CaptureNext ==
  ASSUME HInv, HInv', CInv, Core1Typed, Core1Counts, Enough, [Next]_vars
  PROVE  CInv'
<1>1. CASE UNCHANGED vars
  <2>1. UNCHANGED <<core, cpu, cyc, pio, tx, rx>>
    BY <1>1 DEF vars, core
  <2>2. BusShows' /\ Ahead' = Ahead
    BY <2>1 DEF CInv, BusShows, Ahead, core
  <2>3. Awaiting => Awaiting'
    BY <2>1 DEF Awaiting, Finishing, AtOpcode, Ahead, core
  <2>4. Injecting => Injecting'
    BY <2>1 DEF Injecting, AtOpcode, core
  <2>5. Collecting => Collecting'
    BY <2>1 DEF Collecting, Stacking, Frame, Ahead, core
  <2>6. Collected => Collected'
    BY <2>1 DEF Collected, Frame, Captured, core
  <2> QED
    BY <2>1, <2>2, <2>3, <2>4, <2>5, <2>6 DEF CInv, core
<1> QED
  BY <1>1, HamsterCaptures, Core1Captures DEF Next

LEMMA CapturedThen == CInv => Captured
BY DEF CInv, Collected, Captured

\* Wherever the CPU is when Phase 4 begins after a whole bus cycle, in an
\* instruction of any length that P4_MAX_CYCLES has room for, about to take an
\* interrupt, stacking one or asleep, the capture ends with its whole frame in
\* order, with the PC the program would have gone on at, and with the CPU
\* halted (the loop of Phase 4, from AWAIT_LIC to DONE).
THEOREM CaptureSucceeds == ASSUME Entry = "limit", Enough PROVE Spec => []Captured
<1>1. Init => Core1Typed /\ Core1Counts /\ CInv
  BY Core1TypedInit, CaptureInit
<1>2. HInv /\ Core1Typed /\ Core1Counts /\ [Next]_vars => (Core1Typed /\ Core1Counts)'
  BY Core1TypedNext
<1>3. HInv /\ HInv' /\ CInv /\ Core1Typed /\ Core1Counts /\ [Next]_vars => CInv'
  BY CaptureNext
<1> QED
  BY <1>1, <1>2, <1>3, HandshakeKept, CapturedThen, PTL DEF Spec
==============================================================================
