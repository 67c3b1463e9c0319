----------------------------- MODULE AciaProofs -----------------------------
(***************************************************************************)
(* The emulated ACIA keeps its promises for every size of the ring, every  *)
(* length of a group and every program: term_input is a bounded queue, the *)
(* status register tells the truth until a tick races with Core 1, every   *)
(* session starts clean, and the pin is what Core 1 remembers of it.       *)
(*                                                                         *)
(* The invariants say what each party still knows of what another one may  *)
(* change: Core 0 of the room in the ring, Core 1 of the input and of the  *)
(* status it loaded, the callback of the status it loaded, a restart of    *)
(* the parties it has stopped already.                                     *)
(***************************************************************************)
EXTENDS Acia, SequenceTheorems, TLAPS

\* Room, once seen by Core 0, stays; input, once seen by Core 1, stays; and a
\* ring is cleared only while Core 1 is off.
RingKnows ==
  /\ c0 \in {"store", "publish"} => ~Full
  /\ c0 = "publish" => buf[nextIn] = char
  /\ c1 \in {"take", "rx"} => ~Empty
  /\ c0 \in {"cancel", "clear", "config"} => c1 = "off"

\* From the cancelled timer on no callback comes, and from the clearing on
\* there is nothing in the ACIA, until Core 1 fetches the reset vector.
RestartKnows ==
  /\ c0 \in {"clear", "config", "timer"} => ~timer /\ isr = "idle"
  /\ c0 = "config" \/ (c0 = "timer" /\ c1 = "phase1") => status = {} /\ control = {} /\ Empty

\* What has been loaded is still the status, as long as no tick raced with
\* Core 1; the timer bit is the tick that is due; the RX bit is set only for
\* input, or is about to be cleared.
StatusKnows ==
  "tick" \notin glitch =>
    /\ c1 \in Window => loaded = status
    /\ isr = "loaded" => seen = status
    /\ "timer" \in status <=> due
    /\ c1 \in {"phase1", "top", "irq", "cycle"} /\ "rx" \in status => ~Empty
    /\ c1 \in {"ackload", "ack"} /\ "rx" \in status => ~Empty \/ "rx" \in acks

\* After ReleaseIRQ the pin stays released, unless Core 1 asserts it.
PinKnows ==
  /\ c1 = "phase1" => ~prevIrq
  /\ "irq" \notin glitch =>
       /\ c0 = "reset" => ~irq
       /\ c0 # "reset" /\ c1 \in InGroup => irq = prevIrq
       /\ c0 # "reset" /\ c1 \in {"off", "phase1"} => ~irq

-----------------------------------------------------------------------------
(* Types.                                                                  *)

\* Advancing an index stays in the ring, and never makes two indices meet.
LEMMA SuccIndex == \A i \in Index : Succ(i) \in Index
  BY SizeAssumption DEF Succ, Index

LEMMA SuccInjective == \A i, j \in Index : Succ(i) = Succ(j) => i = j
  BY SizeAssumption DEF Succ, Index

LEMMA ZeroIndex == 0 \in Index
  BY SizeAssumption DEF Index

\* The end of a bus cycle keeps the count of a group.
LEMMA CycleEndsType ==
  ASSUME left \in 1 .. GroupSize, CycleEnds
  PROVE  left' \in 1 .. GroupSize /\ c1' \in {"top", "cycle"}
  BY GroupAssumption DEF CycleEnds

LEMMA InitTypeOK == Init => TypeOK
<1> SUFFICES ASSUME Init PROVE TypeOK
  OBVIOUS
<1>1. buf \in [Index -> Item] /\ char \in Item /\ got \in Item
  BY BlankAssumption DEF Init
<1>2. nextIn \in Index /\ nextOut \in Index /\ left \in 1 .. GroupSize
  BY ZeroIndex, GroupAssumption DEF Init
<1>3. /\ irq \in BOOLEAN /\ timer \in BOOLEAN /\ prevIrq \in BOOLEAN /\ due \in BOOLEAN
      /\ isr \in {"idle", "loaded"}
  BY DEF Init
<1> QED
  BY <1>1, <1>2, <1>3 DEF Init, TypeOK

LEMMA StepTypeOK == TypeOK /\ [Next]_vars => TypeOK'
<1> SUFFICES ASSUME TypeOK, [Next]_vars PROVE TypeOK'
  OBVIOUS
<1> USE DEF TypeOK, ring, core0, tick, core1, Bits, InGroup, Main, Go
<1>1. ASSUME NEW x \in Item, Byte(x) PROVE TypeOK'
  BY <1>1 DEF Byte
<1>2. CASE Drop \/ Room \/ SeeFault
  BY <1>2 DEF Drop, Room, SeeFault
<1>3. CASE Store
  BY <1>3 DEF Store
<1>4. CASE Publish
  BY <1>4, SuccIndex DEF Publish
<1>5. CASE ReleaseIrq
  BY <1>5 DEF ReleaseIrq
<1>6. CASE ResetCore1
  BY <1>6 DEF ResetCore1
<1>7. CASE CancelTimer \/ AddTimer
  BY <1>7 DEF CancelTimer, AddTimer
<1>8. CASE Clear
  BY <1>8, ZeroIndex DEF Clear
<1>9. CASE Start
  BY <1>9 DEF Start
<1>10. CASE TickLoad
  BY <1>10 DEF TickLoad
<1>11. CASE TickStore
  BY <1>11 DEF TickStore
<1>12. ASSUME NEW v \in Enables, WriteControl(v) PROVE TypeOK'
  BY <1>12, CycleEndsType, EnablesAssumption DEF WriteControl
<1>13. ASSUME NEW v \in SUBSET Bits, WriteStatus(v) PROVE TypeOK'
  BY <1>13 DEF WriteStatus
<1>14. CASE ReadNothing \/ Other \/ TakenOne
  BY <1>14, CycleEndsType DEF ReadNothing, Other, TakenOne
<1>15. CASE ReadInput \/ SeeNoInput \/ TakenLast
  BY <1>15 DEF ReadInput, SeeNoInput, TakenLast
<1>16. CASE SeeInput \/ AckLoad
  BY <1>16 DEF SeeInput, AckLoad
<1>17. CASE Stop
  BY <1>17 DEF Stop
<1>18. CASE Enter
  BY <1>18, GroupAssumption DEF Enter
<1>19. CASE SetRx
  BY <1>19 DEF SetRx, Raced
<1>20. CASE Drive
  BY <1>20 DEF Drive
<1>21. CASE AckStore
  BY <1>21, CycleEndsType DEF AckStore, Raced
<1>22. CASE Take
  BY <1>22, SuccIndex DEF Take
<1>23. CASE Finish
  BY <1>23 DEF Finish
<1>24. CASE UNCHANGED vars
  BY <1>24 DEF vars
<1> HIDE DEF TypeOK, ring, core0, tick, core1, Bits, InGroup, Main, Go
<1> QED
  BY <1>1, <1>2, <1>3, <1>4, <1>5, <1>6, <1>7, <1>8, <1>9, <1>10, <1>11, <1>12, <1>13, <1>14,
     <1>15, <1>16, <1>17, <1>18, <1>19, <1>20, <1>21, <1>22, <1>23, <1>24
     DEF Next, Console, Restart, Cpu, Engine

\* Type correctness of the ACIA and of the three parties' locals.
THEOREM TypeCorrect == Spec => []TypeOK
  BY InitTypeOK, StepTypeOK, PTL DEF Spec

-----------------------------------------------------------------------------
(* term_input.                                                             *)

LEMMA InitRing == Init => RingKnows
  BY DEF Init, RingKnows

LEMMA StepRing == TypeOK /\ RingKnows /\ [Next]_vars => RingKnows'
<1> SUFFICES ASSUME TypeOK, RingKnows, [Next]_vars PROVE RingKnows'
  OBVIOUS
<1>0. nextIn \in Index /\ nextOut \in Index /\ buf \in [Index -> Item]
  BY DEF TypeOK
<1> USE DEF RingKnows, Full, Empty, ring, core0, tick, core1, Main, Go
<1>1. ASSUME NEW x \in Item, Byte(x) PROVE RingKnows'
  BY <1>1 DEF Byte
<1>2. CASE Drop \/ Room \/ SeeFault
  BY <1>2 DEF Drop, Room, SeeFault
<1>3. CASE Store
  BY <1>0, <1>3 DEF Store
<1>4. CASE Publish
  BY <1>0, <1>4 DEF Publish
<1>5. CASE ReleaseIrq
  BY <1>5 DEF ReleaseIrq
<1>6. CASE ResetCore1
  BY <1>6 DEF ResetCore1
<1>7. CASE CancelTimer \/ AddTimer
  BY <1>7 DEF CancelTimer, AddTimer
<1>8. CASE Clear
  BY <1>8 DEF Clear
<1>9. CASE Start
  BY <1>9 DEF Start
<1>10. CASE TickLoad \/ TickStore
  BY <1>10 DEF TickLoad, TickStore
<1>11. ASSUME NEW v \in Enables, WriteControl(v) PROVE RingKnows'
  BY <1>11 DEF WriteControl, CycleEnds
<1>12. ASSUME NEW v \in SUBSET Bits, WriteStatus(v) PROVE RingKnows'
  BY <1>12 DEF WriteStatus
<1>13. CASE ReadNothing \/ Other \/ TakenOne
  BY <1>13 DEF ReadNothing, Other, TakenOne, CycleEnds
<1>14. CASE ReadInput \/ SeeNoInput \/ TakenLast \/ SeeInput
  BY <1>14 DEF ReadInput, SeeNoInput, TakenLast, SeeInput
<1>15. CASE Stop \/ Enter \/ Finish \/ Drive
  BY <1>15 DEF Stop, Enter, Finish, Drive
<1>16. CASE SetRx \/ AckLoad
  BY <1>16 DEF SetRx, AckLoad
<1>17. CASE AckStore
  BY <1>17 DEF AckStore, CycleEnds
<1>18. CASE Take
  BY <1>0, <1>18, SuccInjective DEF Take
<1>19. CASE UNCHANGED vars
  BY <1>19 DEF vars
<1> HIDE DEF RingKnows, Full, Empty, ring, core0, tick, core1, Main, Go
<1> QED
  BY <1>1, <1>2, <1>3, <1>4, <1>5, <1>6, <1>7, <1>8, <1>9, <1>10, <1>11, <1>12, <1>13, <1>14,
     <1>15, <1>16, <1>17, <1>18, <1>19
     DEF Next, Console, Restart, Cpu, Engine

THEOREM RingInvariance == Spec => [](TypeOK /\ RingKnows)
  BY InitTypeOK, StepTypeOK, InitRing, StepRing, PTL DEF Spec

-----------------------------------------------------------------------------
(* A restart.                                                              *)

LEMMA InitRestart == Init => RestartKnows
  BY DEF Init, RestartKnows, Empty

LEMMA StepRestart == RingKnows /\ RestartKnows /\ [Next]_vars => RestartKnows'
<1> SUFFICES ASSUME RingKnows, RestartKnows, [Next]_vars PROVE RestartKnows'
  OBVIOUS
<1> USE DEF RestartKnows, RingKnows, Empty, ring, core0, tick, core1, Main, Go
<1>1. ASSUME NEW x \in Item, Byte(x) PROVE RestartKnows'
  BY <1>1 DEF Byte
<1>2. CASE Drop \/ Room \/ Store \/ SeeFault
  BY <1>2 DEF Drop, Room, Store, SeeFault
<1>3. CASE Publish
  BY <1>3 DEF Publish
<1>4. CASE ReleaseIrq
  BY <1>4 DEF ReleaseIrq
<1>5. CASE ResetCore1
  BY <1>5 DEF ResetCore1
<1>6. CASE CancelTimer
  BY <1>6 DEF CancelTimer
<1>7. CASE AddTimer
  BY <1>7 DEF AddTimer
<1>8. CASE Clear
  BY <1>8 DEF Clear
<1>9. CASE Start
  BY <1>9 DEF Start
<1>10. CASE TickLoad
  BY <1>10 DEF TickLoad
<1>11. CASE TickStore
  BY <1>11 DEF TickStore
<1>12. ASSUME NEW v \in Enables, WriteControl(v) PROVE RestartKnows'
  BY <1>12 DEF WriteControl, CycleEnds
<1>13. ASSUME NEW v \in SUBSET Bits, WriteStatus(v) PROVE RestartKnows'
  BY <1>13 DEF WriteStatus
<1>14. CASE ReadNothing \/ Other \/ TakenOne
  BY <1>14 DEF ReadNothing, Other, TakenOne, CycleEnds
<1>15. CASE ReadInput \/ SeeNoInput
  BY <1>15 DEF ReadInput, SeeNoInput
<1>16. CASE TakenLast
  BY <1>16 DEF TakenLast
<1>17. CASE SeeInput
  BY <1>17 DEF SeeInput
<1>18. CASE Stop
  BY <1>18 DEF Stop
<1>19. CASE Enter
  BY <1>19 DEF Enter
<1>20. CASE SetRx
  BY <1>20 DEF SetRx
<1>21. CASE Drive
  BY <1>21 DEF Drive
<1>22. CASE AckLoad
  BY <1>22 DEF AckLoad
<1>23. CASE AckStore
  BY <1>23 DEF AckStore, CycleEnds
<1>24. CASE Take
  BY <1>24 DEF Take
<1>25. CASE Finish
  BY <1>25 DEF Finish
<1>26. CASE UNCHANGED vars
  BY <1>26 DEF vars
<1> HIDE DEF RestartKnows, RingKnows, Empty, ring, core0, tick, core1, Main, Go
<1> QED
  BY <1>1, <1>2, <1>3, <1>4, <1>5, <1>6, <1>7, <1>8, <1>9, <1>10, <1>11, <1>12, <1>13, <1>14,
     <1>15, <1>16, <1>17, <1>18, <1>19, <1>20, <1>21, <1>22, <1>23, <1>24, <1>25, <1>26
     DEF Next, Console, Restart, Cpu, Engine

\* A session starts with no bit set or enabled, no input and no callback under
\* way, whatever the session before was doing when it was stopped.
THEOREM CleanStart == Spec => []StartsClean
<1>1. RestartKnows => StartsClean
  BY DEF RestartKnows, StartsClean
<1> QED
  BY <1>1, RingInvariance, InitRestart, StepRestart, PTL DEF Spec

-----------------------------------------------------------------------------
(* The IRQ pin.                                                            *)

LEMMA InitPin == Init => PinKnows
  BY DEF Init, PinKnows, InGroup

LEMMA StepPin == TypeOK /\ RingKnows /\ PinKnows /\ [Next]_vars => PinKnows'
<1> SUFFICES ASSUME TypeOK, RingKnows, PinKnows, [Next]_vars PROVE PinKnows'
  OBVIOUS
<1>0. irq \in BOOLEAN /\ prevIrq \in BOOLEAN
  BY DEF TypeOK
<1> USE DEF PinKnows, RingKnows, InGroup, ring, core0, tick, core1, Main, Go
<1>1. ASSUME NEW x \in Item, Byte(x) PROVE PinKnows'
  BY <1>1 DEF Byte
<1>2. CASE Drop \/ Room \/ Store \/ SeeFault
  BY <1>2 DEF Drop, Room, Store, SeeFault
<1>3. CASE Publish
  BY <1>3 DEF Publish
<1>4. CASE ReleaseIrq
  BY <1>4 DEF ReleaseIrq
<1>5. CASE ResetCore1
  BY <1>5 DEF ResetCore1
<1>6. CASE CancelTimer
  BY <1>6 DEF CancelTimer
<1>7. CASE AddTimer
  BY <1>7 DEF AddTimer
<1>8. CASE Clear
  BY <1>8 DEF Clear
<1>9. CASE Start
  BY <1>0, <1>9 DEF Start
<1>10. CASE TickLoad
  BY <1>10 DEF TickLoad
<1>11. CASE TickStore
  BY <1>11 DEF TickStore, Window
<1>12. ASSUME NEW v \in Enables, WriteControl(v) PROVE PinKnows'
  BY <1>12 DEF WriteControl, CycleEnds
<1>13. ASSUME NEW v \in SUBSET Bits, WriteStatus(v) PROVE PinKnows'
  BY <1>13 DEF WriteStatus
<1>14. CASE ReadNothing \/ Other \/ TakenOne
  BY <1>14 DEF ReadNothing, Other, TakenOne, CycleEnds
<1>15. CASE ReadInput \/ SeeNoInput
  BY <1>15 DEF ReadInput, SeeNoInput
<1>16. CASE TakenLast
  BY <1>16 DEF TakenLast
<1>17. CASE SeeInput
  BY <1>17 DEF SeeInput
<1>18. CASE Stop
  BY <1>18 DEF Stop
<1>19. CASE Enter
  BY <1>0, <1>19 DEF Enter
<1>20. CASE SetRx
  BY <1>20 DEF SetRx, Raced, Window
<1>21. CASE Drive
  <2> DEFINE needed == status \cap control # {}
  <2>1. c1 = "irq" /\ c1' = "cycle" /\ c0' = c0
    BY <1>21 DEF Drive
  <2>2. CASE needed /\ ~prevIrq
    <3>1. irq' = TRUE /\ prevIrq' = TRUE /\ (c0 = "reset" => "irq" \in glitch')
      BY <1>21, <2>2 DEF Drive
    <3> QED
      BY <2>1, <3>1
  <2>3. CASE ~needed /\ prevIrq
    <3>1. irq' = FALSE /\ prevIrq' = FALSE
      BY <1>21, <2>3 DEF Drive
    <3> QED
      BY <2>1, <3>1
  <2>4. CASE (needed /\ prevIrq) \/ (~needed /\ ~prevIrq)
    <3>1. UNCHANGED <<irq, prevIrq, glitch>>
      BY <1>0, <1>21, <2>4 DEF Drive
    <3> QED
      BY <2>1, <3>1
  <2> QED
    BY <2>2, <2>3, <2>4
<1>22. CASE AckLoad
  BY <1>22 DEF AckLoad
<1>23. CASE AckStore
  BY <1>23 DEF AckStore, CycleEnds, Raced
<1>24. CASE Take
  BY <1>24 DEF Take
<1>25. CASE Finish
  BY <1>25 DEF Finish
<1>26. CASE UNCHANGED vars
  BY <1>26 DEF vars
<1> HIDE DEF PinKnows, RingKnows, InGroup, ring, core0, tick, core1, Main, Go
<1> QED
  BY <1>1, <1>2, <1>3, <1>4, <1>5, <1>6, <1>7, <1>8, <1>9, <1>10, <1>11, <1>12, <1>13, <1>14,
     <1>15, <1>16, <1>17, <1>18, <1>19, <1>20, <1>21, <1>22, <1>23, <1>24, <1>25, <1>26
     DEF Next, Console, Restart, Cpu, Engine

\* The pin and prev_irq_needed agree while Core 1 runs, and no session that has
\* ended interrupts the next one, but for an assertion between ReleaseIRQ and
\* multicore_reset_core1.
THEOREM PinMirrored == Spec => []IrqMirrors
<1>1. PinKnows => IrqMirrors
  BY DEF PinKnows, IrqMirrors
<1> QED
  BY <1>1, RingInvariance, InitPin, StepPin, PTL DEF Spec

-----------------------------------------------------------------------------
(* The status register.                                                    *)

LEMMA InitStatus == Init => StatusKnows
  BY DEF Init, StatusKnows, Window

LEMMA StepStatus == RingKnows /\ RestartKnows /\ StatusKnows /\ [Next]_vars => StatusKnows'
<1> SUFFICES ASSUME RingKnows, RestartKnows, StatusKnows, [Next]_vars PROVE StatusKnows'
  OBVIOUS
<1>0. c0 = "config" => status = {}
  BY DEF RestartKnows
<1> USE DEF StatusKnows, RingKnows, Window, Empty, Full, ring, core0, tick, core1, Main, Go
<1>1. ASSUME NEW x \in Item, Byte(x) PROVE StatusKnows'
  BY <1>1 DEF Byte
<1>2. CASE Drop \/ Room \/ Store \/ SeeFault
  BY <1>2 DEF Drop, Room, Store, SeeFault
<1>3. CASE Publish
  BY <1>3 DEF Publish
<1>4. CASE ReleaseIrq
  BY <1>4 DEF ReleaseIrq
<1>5. CASE ResetCore1
  BY <1>5 DEF ResetCore1
<1>6. CASE CancelTimer
  BY <1>6 DEF CancelTimer
<1>7. CASE AddTimer
  BY <1>7 DEF AddTimer
<1>8. CASE Clear
  BY <1>8 DEF Clear
<1>9. CASE Start
  BY <1>0, <1>9 DEF Start
<1>10. CASE TickLoad
  BY <1>10 DEF TickLoad
<1>11. CASE TickStore
  BY <1>11 DEF TickStore
<1>12. ASSUME NEW v \in Enables, WriteControl(v) PROVE StatusKnows'
  BY <1>12 DEF WriteControl, CycleEnds
<1>13. ASSUME NEW v \in SUBSET Bits, WriteStatus(v) PROVE StatusKnows'
  BY <1>13 DEF WriteStatus
<1>14. CASE ReadNothing \/ Other \/ TakenOne
  BY <1>14 DEF ReadNothing, Other, TakenOne, CycleEnds
<1>15. CASE ReadInput \/ SeeNoInput
  BY <1>15 DEF ReadInput, SeeNoInput
<1>16. CASE TakenLast
  BY <1>16 DEF TakenLast
<1>17. CASE SeeInput
  BY <1>17 DEF SeeInput
<1>18. CASE Stop
  BY <1>18 DEF Stop
<1>19. CASE Enter
  BY <1>19 DEF Enter
<1>20. CASE SetRx
  BY <1>20 DEF SetRx, Raced
<1>21. CASE Drive
  BY <1>21 DEF Drive
<1>22. CASE AckLoad
  BY <1>22 DEF AckLoad
<1>23. CASE AckStore
  BY <1>23 DEF AckStore, CycleEnds, Raced, NextAck
<1>24. CASE Take
  BY <1>24 DEF Take
<1>25. CASE Finish
  BY <1>25 DEF Finish
<1>26. CASE UNCHANGED vars
  BY <1>26 DEF vars
<1> HIDE DEF StatusKnows, RingKnows, Window, Empty, Full, ring, core0, tick, core1, Main, Go
<1> QED
  BY <1>1, <1>2, <1>3, <1>4, <1>5, <1>6, <1>7, <1>8, <1>9, <1>10, <1>11, <1>12, <1>13, <1>14,
     <1>15, <1>16, <1>17, <1>18, <1>19, <1>20, <1>21, <1>22, <1>23, <1>24, <1>25, <1>26
     DEF Next, Console, Restart, Cpu, Engine

\* Until a tick falls between a load and a store of Core 1, the timer bit is
\* the tick that is due and the RX bit is set only while input waits.
THEOREM StatusTold == Spec => []StatusTrue
<1>1. StatusKnows => StatusTrue
  BY DEF StatusKnows, StatusTrue, Window
<1> QED
  BY <1>1, RingInvariance, InitRestart, StepRestart, InitStatus, StepStatus, PTL DEF Spec

-----------------------------------------------------------------------------
(* term_input implements the bounded queue.                                *)

Typing == c0 \in {"room", "store", "publish"}

\* What the queue shows of the ring.
shown == <<Waiting, Typing, char, got>>

\* Used counts slots, and Slot enumerates as many distinct ones from nextOut
\* on; the next one after them is the slot at nextIn, which holds no byte.
LEMMA SlotFacts ==
  ASSUME nextIn \in Index, nextOut \in Index
  PROVE  /\ Used \in 0 .. Size - 1
         /\ \A k \in 1 .. Used : Slot(k) \in Index /\ Slot(k) # nextIn
         /\ Slot(Used + 1) = nextIn
  BY SizeAssumption DEF Used, Slot, Index

\* What waits is a sequence of Used bytes.
LEMMA WaitingSeq ==
  ASSUME TypeOK
  PROVE  /\ Waiting \in Seq(Item)
         /\ Len(Waiting) = Used
         /\ Used \in 0 .. Size - 1
         /\ \A k \in 1 .. Used : Waiting[k] = buf[Slot(k)]
<1>1. Used \in Nat /\ \A k \in 1 .. Used : buf[Slot(k)] \in Item
  BY SlotFacts, SizeAssumption DEF TypeOK, Index
<1>2. Waiting = [k \in 1 .. Used |-> buf[Slot(k)]]
  BY DEF Waiting
<1>3. Waiting \in Seq(Item) /\ Len(Waiting) = Used
  BY <1>1, <1>2
<1> QED
  BY <1>2, <1>3, SlotFacts DEF TypeOK

\* A step that leaves the ring alone leaves alone what waits.
LEMMA OtherIsHidden ==
  ASSUME UNCHANGED ring
  PROVE  UNCHANGED Waiting
<1>1. Used' = Used /\ \A k : Slot(k)' = Slot(k)
  BY DEF ring, Used, Slot
<1> QED
  BY <1>1 DEF ring, Waiting

\* Put takes effect when it advances nextIn: the byte is then the newest.
LEMMA PublishIsPush ==
  ASSUME TypeOK, RingKnows, Publish
  PROVE  Queue!Push
<1>1. /\ c0 = "publish" /\ c0' = "packets"
      /\ nextIn' = Succ(nextIn) /\ UNCHANGED <<buf, nextOut, char, got>>
  BY DEF Publish, Main, core1
<1>2. nextIn \in Index /\ nextOut \in Index /\ buf \in [Index -> Item] /\ char \in Item
  BY DEF TypeOK
<1>3. Succ(nextIn) # nextOut /\ buf[nextIn] = char
  BY <1>1 DEF RingKnows, Full
<1>4. Used' = Used + 1 /\ Used + 1 <= Size - 1
  BY <1>1, <1>2, <1>3, SizeAssumption DEF Used, Succ, Index
<1>5. \A k : Slot(k)' = Slot(k)
  BY <1>1 DEF Slot
<1>6. buf[Slot(Used + 1)] = char
  BY <1>2, <1>3, SlotFacts
<1>7. Waiting' = [k \in 1 .. Used + 1 |-> buf[Slot(k)]]
  BY <1>1, <1>4, <1>5 DEF Waiting
<1>8. /\ Waiting \in Seq(Item) /\ Len(Waiting) = Used /\ Used \in Nat
      /\ \A k \in 1 .. Used : Waiting[k] = buf[Slot(k)]
  BY WaitingSeq
<1>9. \A k \in 1 .. Used + 1 : buf[Slot(k)] \in Item
  BY <1>2, <1>6, <1>8, SlotFacts
<1>10. Waiting' \in Seq(Item) /\ Len(Waiting') = Used + 1
  BY <1>7, <1>8, <1>9
<1>11. \A k \in 1 .. Used + 1 : Waiting'[k] = Append(Waiting, char)[k]
  BY <1>2, <1>6, <1>7, <1>8, AppendProperties
<1>12. Waiting' = Append(Waiting, char)
  BY <1>2, <1>8, <1>10, <1>11, AppendProperties, SeqEqual
<1>13. Len(Waiting) < Size - 1
  BY <1>4, <1>8, SizeAssumption
<1> QED
  BY <1>1, <1>12, <1>13 DEF Queue!Push

\* Take returns the oldest byte.
LEMMA TakeIsPop ==
  ASSUME TypeOK, RingKnows, Take
  PROVE  Queue!Pop
<1>1. /\ c1 = "take" /\ got' = buf[nextOut] /\ nextOut' = Succ(nextOut)
      /\ UNCHANGED <<buf, nextIn, c0, char>>
  BY DEF Take, Go, core0
<1>2. nextIn \in Index /\ nextOut \in Index /\ nextIn # nextOut
  BY <1>1 DEF TypeOK, RingKnows, Empty
<1>3. Used # 0 /\ Used' = Used - 1
  BY <1>1, <1>2, SizeAssumption DEF Used, Succ, Index
<1>4. \A k \in 1 .. Used - 1 : Slot(k)' = Slot(k + 1)
  BY <1>1, <1>2, SlotFacts, SizeAssumption DEF Used, Slot, Succ, Index
<1>5. Slot(1) = nextOut
  BY <1>2, SizeAssumption DEF Slot, Index
<1>6. /\ Waiting \in Seq(Item) /\ Len(Waiting) = Used /\ Used \in Nat
      /\ \A k \in 1 .. Used : Waiting[k] = buf[Slot(k)]
  BY WaitingSeq
<1>7. Waiting # << >>
  BY <1>3, <1>6
<1>8. Head(Waiting) = got'
  BY <1>1, <1>3, <1>5, <1>6, <1>7
<1>9. Waiting' = [k \in 1 .. Used - 1 |-> buf[Slot(k + 1)]]
  BY <1>1, <1>3, <1>4 DEF Waiting
<1>10. \A k \in 1 .. Used - 1 : buf[Slot(k + 1)] \in Item
  BY <1>2, <1>6, SlotFacts DEF TypeOK
<1>11. Waiting' \in Seq(Item) /\ Len(Waiting') = Used - 1
  BY <1>3, <1>6, <1>9, <1>10
<1>12. \A k \in 1 .. Used - 1 : Waiting'[k] = Tail(Waiting)[k]
  BY <1>3, <1>6, <1>7, <1>9, HeadTailProperties
<1>13. Waiting' = Tail(Waiting)
  BY <1>3, <1>6, <1>7, <1>11, <1>12, HeadTailProperties, SeqEqual
<1> QED
  BY <1>1, <1>7, <1>8, <1>13 DEF Queue!Pop

\* A byte is dropped only when Size - 1 wait.
LEMMA DropIsRefuse ==
  ASSUME TypeOK, Drop
  PROVE  Queue!Refuse
<1>1. c0 = "room" /\ c0' = "packets" /\ UNCHANGED <<buf, nextIn, nextOut, char, got>> /\ Full
  BY DEF Drop, Main, ring, core1
<1>2. Used = Size - 1
  BY <1>1, SizeAssumption DEF TypeOK, Full, Used, Succ, Index
<1>3. Len(Waiting) = Size - 1 /\ UNCHANGED Waiting
  BY <1>1, <1>2, WaitingSeq, OtherIsHidden DEF ring
<1> QED
  BY <1>1, <1>3 DEF Queue!Refuse

\* The store of a byte is not yet visible: its slot is not in use.
LEMMA StoreIsHidden ==
  ASSUME TypeOK, Store
  PROVE  UNCHANGED shown
<1>1. /\ c0 = "store" /\ c0' = "publish" /\ UNCHANGED <<nextIn, nextOut, char, got>>
      /\ buf' = [buf EXCEPT ![nextIn] = char]
  BY DEF Store, Main, core1
<1>2. Used' = Used /\ \A k : Slot(k)' = Slot(k)
  BY <1>1 DEF Used, Slot
<1>3. \A k \in 1 .. Used : buf'[Slot(k)] = buf[Slot(k)]
  BY <1>1, SlotFacts DEF TypeOK
<1>4. UNCHANGED Waiting
  BY <1>2, <1>3 DEF Waiting
<1> QED
  BY <1>1, <1>4 DEF shown, Typing

\* The ring is reset, between two lines of input.
LEMMA ClearIsClear ==
  ASSUME Clear
  PROVE  Queue!Clear
<1>1. c0 = "clear" /\ c0' = "config" /\ nextIn' = 0 /\ nextOut' = 0 /\ UNCHANGED <<char, got>>
  BY DEF Clear, Main, core1
<1>2. Used' = 0
  BY <1>1 DEF Used
<1>3. Waiting' = << >>
  BY <1>2 DEF Waiting
<1> QED
  BY <1>1, <1>3 DEF Queue!Clear

\* Every other step is hidden from the queue.
LEMMA OtherSteps ==
  ASSUME UNCHANGED <<ring, c0, char, got>>
  PROVE  UNCHANGED shown
  BY OtherIsHidden DEF shown, Typing

\* Every step of the ACIA is a step of the queue, or hidden from it.
LEMMA StepRefines == TypeOK /\ RingKnows /\ [Next]_vars => [Queue!Next]_shown
<1> SUFFICES ASSUME TypeOK, RingKnows, [Next]_vars
             PROVE  Queue!Next \/ UNCHANGED shown
  OBVIOUS
<1>1. ASSUME NEW x \in Item, Byte(x)
      PROVE  Queue!Next
  <2>1. c0 = "packets" /\ c0' = "room" /\ char' = x /\ UNCHANGED <<ring, got>>
    BY <1>1 DEF Byte, Main, core1
  <2>2. UNCHANGED Waiting
    BY <2>1, OtherIsHidden
  <2>3. Queue!Offer(x)
    BY <2>1, <2>2 DEF Queue!Offer
  <2> QED
    BY <2>3 DEF Queue!Next
<1>2. CASE Drop
  BY <1>2, DropIsRefuse DEF Queue!Next
<1>3. CASE Store
  BY <1>3, StoreIsHidden
<1>4. CASE Publish
  BY <1>4, PublishIsPush DEF Queue!Next
<1>5. CASE Take
  BY <1>5, TakeIsPop DEF Queue!Next
<1>6. CASE Clear
  BY <1>6, ClearIsClear DEF Queue!Next
<1>7. CASE Room
  <2>1. c0 = "room" /\ c0' = "store" /\ UNCHANGED <<ring, char, got>>
    BY <1>7 DEF Room, Main, core1
  <2>2. UNCHANGED Typing
    BY <2>1 DEF Typing
  <2> QED
    BY <2>1, <2>2, OtherIsHidden DEF shown
<1>8. CASE SeeFault \/ ReleaseIrq \/ ResetCore1 \/ CancelTimer \/ Start \/ AddTimer
  <2>1. /\ UNCHANGED <<ring, char, got>>
        /\ c0 \in {"packets", "halted", "config", "reset", "cancel", "timer"}
        /\ c0' \in {"packets", "halted", "reset", "cancel", "clear", "timer"}
    BY <1>8 DEF SeeFault, ReleaseIrq, ResetCore1, CancelTimer, Start, AddTimer, Main, core1
  <2>2. UNCHANGED Typing
    BY <2>1 DEF Typing
  <2> QED
    BY <2>1, <2>2, OtherIsHidden DEF shown
<1>9. CASE TickLoad \/ TickStore
  BY <1>9, OtherSteps DEF TickLoad, TickStore, core0, core1
<1>10. ASSUME NEW v \in Enables, WriteControl(v) PROVE UNCHANGED shown
  BY <1>10, OtherSteps DEF WriteControl, core0
<1>11. ASSUME NEW v \in SUBSET Bits, WriteStatus(v) PROVE UNCHANGED shown
  BY <1>11, OtherSteps DEF WriteStatus, core0
<1>12. CASE ReadNothing \/ ReadInput \/ Other \/ Stop \/ Finish \/ Enter
  BY <1>12, OtherSteps DEF ReadNothing, ReadInput, Other, Stop, Finish, Enter, core0
<1>13. CASE SeeInput \/ SetRx \/ SeeNoInput \/ Drive
  BY <1>13, OtherSteps DEF SeeInput, SetRx, SeeNoInput, Drive, core0
<1>14. CASE AckLoad \/ AckStore \/ TakenLast \/ TakenOne
  BY <1>14, OtherSteps DEF AckLoad, AckStore, TakenLast, TakenOne, core0
<1>15. CASE UNCHANGED vars
  BY <1>15, OtherSteps DEF vars, ring
<1> QED
  BY <1>1, <1>2, <1>3, <1>4, <1>5, <1>6, <1>7, <1>8, <1>9, <1>10, <1>11, <1>12, <1>13, <1>14,
     <1>15 DEF Next, Console, Restart, Cpu, Engine

LEMMA InitRefines == Init => Queue!Init
<1> SUFFICES ASSUME Init
             PROVE  Waiting = << >> /\ ~Typing /\ char = Blank /\ got = Blank
  BY DEF Queue!Init, Typing
<1>1. Used = 0
  BY DEF Init, Used
<1> QED
  BY <1>1 DEF Init, Waiting, Typing

\* term_input is a bounded queue of Size - 1 bytes: console input reaches the
\* 6309 in order and once, and a byte is dropped only when the ring is full,
\* for every interleaving of the two cores and every restart.
THEOREM InputIsQueue == Spec => InputQueue
  BY RingInvariance, InitRefines, StepRefines, PTL
     DEF Spec, InputQueue, Queue!Spec, Queue!vars, shown, Typing
=============================================================================
