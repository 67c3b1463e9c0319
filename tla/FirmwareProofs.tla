--------------------------- MODULE FirmwareProofs ---------------------------
(***************************************************************************)
(* Sessions of the firmware, for every trace FIFO capacity, queue length,  *)
(* set of configurations and bound: types, and, with a host that starts    *)
(* only what it has seen restart, the safety properties of Firmware.       *)
(***************************************************************************)
EXTENDS Firmware, SequenceTheorems, TLAPS

-----------------------------------------------------------------------------
(* Types.                                                                  *)

\* The record types are closed under the updates the firmware makes.
\* Every reason a fault is raised with is one.
LEMMA ReasonFacts ==
  {"none", "RED_PAGE", "ZERO_VECTOR", "MAX_CYCLES", "MAX_TIME", "BRA_SELF",
   "MAX_WATCHPOINT", "SIGINT"} \subseteq Reasons
  BY DEF Reasons

\* Configurations: what a restart, a trigger hit and Phase 3 store.
LEMMA ConfigFacts ==
  /\ NoConfig \in ConfigType
  /\ \A c \in ConfigType, n \in Nat :
       /\ c.trace \in BOOLEAN
       /\ [c EXCEPT !.watch = @ \ {"trigger"}] \in ConfigType
       /\ [c EXCEPT !.trigger = n] \in ConfigType
  BY DEF NoConfig, ConfigType

\* The fault record.
LEMMA FaultFacts ==
  /\ NoFault \in FaultType
  /\ \A f \in FaultType, r \in Reasons, n \in Nat :
       /\ f.cycle \in Nat /\ f.reason \in Reasons
       /\ [f EXCEPT !.triggered = TRUE] \in FaultType
       /\ [f EXCEPT !.reason = r] \in FaultType
       /\ [f EXCEPT !.cycle = n] \in FaultType
  BY ReasonFacts DEF NoFault, FaultType

\* The fault Core 1 is recording.
LEMMA CauseFacts ==
  /\ NoCause \in CauseType
  /\ \A r \in Reasons, n \in Nat, then \in {"phase4", "watch", "watchdog"} :
       [reason |-> r, cycle |-> n, then |-> then] \in CauseType
  /\ \A c \in CauseType :
       c.reason \in Reasons /\ c.cycle \in Nat /\ c.then \in {"phase4", "watch", "watchdog"}
  BY ReasonFacts DEF NoCause, CauseType

\* The C_FAULT packet.
LEMMA HeaderFacts ==
  /\ NoHeader \in HeaderType
  /\ \A r \in Reasons, n \in Nat : [reason |-> r, cycle |-> n] \in HeaderType
  BY ReasonFacts DEF NoHeader, HeaderType

\* A config packet carries a configuration.
LEMMA PacketFacts ==
  \A p \in Packets : p.kind = "config" => p.cfg \in ConfigType
  BY FirmwareAssumption DEF Packets

\* What taking a packet of a kind gives and leaves.
LEMMA TakeFacts ==
  ASSUME TypeOK, NEW kind, Take(kind)
  PROVE  /\ Head(rx) \in Packets /\ Head(rx).kind = kind
         /\ rx' \in Seq(Packets) /\ Len(rx') <= RxMax
         /\ UNCHANGED <<loop, drained>> /\ c0 \in C0Places
  BY FirmwareAssumption DEF TypeOK, Take

\* Every step of either core and of the host keeps the types.
LEMMA StepTypeOK == TypeOK /\ [Next]_vars => TypeOK'
<1> SUFFICES ASSUME TypeOK, [Next]_vars PROVE TypeOK'
  OBVIOUS
<1>1. CASE HostSend
  BY <1>1, FirmwareAssumption DEF HostSend, TypeOK, locals, flags, engine, shared, seen
<1>2. CASE Dispatch
  BY <1>2 DEF Dispatch, TypeOK, locals, flags, engine, shared, seen, C0Places
<1>3. CASE Drain
  <2>1. drained' \in 0 .. DrainMax
    BY <1>3, FirmwareAssumption DEF Drain, TypeOK
  <2>2. fifo' \in Seq(Nat) /\ Len(fifo') <= Capacity
    BY <1>3, FirmwareAssumption DEF Drain, TypeOK, SendRecord
  <2>3. owed' \in Seq(Nat)
    BY <1>3 DEF Drain, TypeOK, SendRecord
  <2> QED
    BY <1>3, <2>1, <2>2, <2>3 DEF Drain, TypeOK, locals, flags, engine
<1>4. CASE DrainDone
  BY <1>4, FirmwareAssumption
     DEF DrainDone, TypeOK, locals, flags, engine, shared, seen, C0Places
<1>5. CASE NoMorePackets
  BY <1>5
     DEF NoMorePackets, TypeOK, IterationEnd, locals, flags, engine, shared, seen,
         C0Places
<1>6. CASE CheckFault
  BY <1>6 DEF CheckFault, TypeOK, locals, flags, engine, seen, C0Places, FwStates
<1>7. CASE Restart
  <2>1. rx' \in Seq(Packets) /\ Len(rx') <= RxMax
    BY <1>7, TakeFacts DEF Restart, TypeOK
  <2>2. c1' \in C1Places
    BY <1>7 DEF Restart, TypeOK, ResetEngine, C1Places
  <2>3. cycles' \in Nat
    BY <1>7 DEF Restart, TypeOK, ResetEngine
  <2>4. event' \in AllEvents
    BY <1>7 DEF Restart, TypeOK, ResetEngine, AllEvents
  <2>5. emit' \in BOOLEAN
    BY <1>7 DEF Restart, TypeOK, ResetEngine
  <2>6. cause' \in CauseType
    BY <1>7, CauseFacts, ReasonFacts DEF Restart, TypeOK, ResetEngine
  <2>7. owed' \in Seq(Nat)
    BY <1>7 DEF Restart, TypeOK, ResetEngine
  <2>8. interrupted' \in BOOLEAN
    BY <1>7 DEF Restart, TypeOK, ResetEngine
  <2>9. header' \in HeaderType
    BY <1>7, HeaderFacts DEF Restart, TypeOK, ResetEngine
  <2>10. fw' \in FwStates
    BY <1>7 DEF Restart, TypeOK, FwStates
  <2>11. cfg' \in ConfigType
    BY <1>7, ConfigFacts DEF Restart, TypeOK
  <2>12. cpu_started' \in BOOLEAN
    BY <1>7 DEF Restart, TypeOK
  <2>13. foreground_running' \in BOOLEAN
    BY <1>7 DEF Restart, TypeOK
  <2>14. current_phase' \in 0 .. 4
    BY <1>7 DEF Restart, TypeOK
  <2>15. fault' \in FaultType
    BY <1>7, FaultFacts, ReasonFacts DEF Restart, TypeOK
  <2>16. fifo' \in Seq(Nat) /\ Len(fifo') <= Capacity
    BY <1>7, FirmwareAssumption DEF Restart, TypeOK
  <2>17. halted' \in BOOLEAN
    BY <1>7 DEF Restart, TypeOK
  <2>18. c0' \in C0Places
    BY <1>7 DEF Restart, TypeOK, IterationEnd, C0Places
  <2> QED
    BY <1>7, <2>1, <2>2, <2>3, <2>4, <2>5, <2>6, <2>7, <2>8, <2>9, <2>10, <2>11, <2>12,
     <2>13, <2>14, <2>15, <2>16, <2>17, <2>18
       DEF Restart, TypeOK, Take
<1>8. CASE Config
  <2>1. rx' \in Seq(Packets) /\ Len(rx') <= RxMax
    BY <1>8, TakeFacts DEF Config, TypeOK
  <2>2. cfg' \in ConfigType
    <3>1. Head(rx) \in Packets /\ Head(rx).kind = "config"
      BY <1>8 DEF Config, Take, TypeOK
    <3> QED
      BY <1>8, <3>1, PacketFacts DEF Config
  <2> QED
    BY <1>8, <2>1, <2>2 DEF Config, TypeOK, Take, locals, flags, engine, seen
<1>9. CASE Start
  BY <1>9, TakeFacts DEF Start, TypeOK, locals, flags, engine, shared, seen, C0Places
<1>10. CASE ClearFifo
  BY <1>10, FirmwareAssumption
     DEF ClearFifo, TypeOK, locals, flags, engine, seen, C0Places
<1>11. CASE Launch
  <2>1. cpu_started' \in BOOLEAN
    BY <1>11 DEF Launch, TypeOK
  <2>2. foreground_running' \in BOOLEAN
    BY <1>11 DEF Launch, TypeOK
  <2>3. c1' \in C1Places
    BY <1>11 DEF Launch, TypeOK, ResetEngine, C1Places
  <2>4. cycles' \in Nat
    BY <1>11 DEF Launch, TypeOK, ResetEngine
  <2>5. event' \in AllEvents
    BY <1>11 DEF Launch, TypeOK, ResetEngine, AllEvents
  <2>6. emit' \in BOOLEAN
    BY <1>11 DEF Launch, TypeOK, ResetEngine
  <2>7. cause' \in CauseType
    BY <1>11, CauseFacts, ReasonFacts DEF Launch, TypeOK, ResetEngine
  <2>8. owed' \in Seq(Nat)
    BY <1>11 DEF Launch, TypeOK, ResetEngine
  <2>9. interrupted' \in BOOLEAN
    BY <1>11 DEF Launch, TypeOK, ResetEngine
  <2>10. header' \in HeaderType
    BY <1>11, HeaderFacts DEF Launch, TypeOK, ResetEngine
  <2>11. c0' \in C0Places
    BY <1>11 DEF Launch, TypeOK, C0Places
  <2> QED
    BY <1>11, <2>1, <2>2, <2>3, <2>4, <2>5, <2>6, <2>7, <2>8, <2>9, <2>10, <2>11
       DEF Launch, TypeOK
<1>12. CASE AwaitForeground
  BY <1>12 DEF AwaitForeground, TypeOK, locals, flags, engine, shared, seen, C0Places
<1>13. CASE Release
  BY <1>13 DEF Release, TypeOK, locals, engine, seen, C0Places
<1>14. CASE Run
  <2>1. halted' \in BOOLEAN
    BY <1>14 DEF Run, TypeOK
  <2>2. fw' \in FwStates
    BY <1>14 DEF Run, TypeOK, FwStates
  <2>3. c0' \in C0Places
    BY <1>14 DEF Run, TypeOK, C0Places
  <2> QED
    BY <1>14, <2>1, <2>2, <2>3 DEF Run, TypeOK, locals, flags, engine, seen
<1>15. CASE Sigint
  BY <1>15, TakeFacts DEF Sigint, TypeOK, locals, flags, engine, shared, seen, C0Places
<1>16. CASE SigintReason
  <2>1. fault' \in FaultType
    BY <1>16, FaultFacts, ReasonFacts DEF SigintReason, TypeOK
  <2>2. interrupted' \in BOOLEAN
    BY <1>16 DEF SigintReason, TypeOK
  <2>3. c0' \in C0Places
    BY <1>16 DEF SigintReason, TypeOK, C0Places
  <2> QED
    BY <1>16, <2>1, <2>2, <2>3 DEF SigintReason, TypeOK, locals, flags, engine
<1>17. CASE SigintCycle
  <2>1. fault' \in FaultType
    BY <1>17, FaultFacts, ReasonFacts DEF SigintCycle, TypeOK
  <2>2. c0' \in C0Places
    BY <1>17 DEF SigintCycle, TypeOK, C0Places
  <2> QED
    BY <1>17, <2>1, <2>2 DEF SigintCycle, TypeOK, locals, flags, engine, seen
<1>18. CASE SigintLatch
  <2>1. fault' \in FaultType
    BY <1>18, FaultFacts, ReasonFacts DEF SigintLatch, TypeOK
  <2>2. c0' \in C0Places
    BY <1>18 DEF SigintLatch, TypeOK, C0Places
  <2> QED
    BY <1>18, <2>1, <2>2 DEF SigintLatch, TypeOK, locals, flags, engine, seen
<1>19. CASE AwaitPhase4
  BY <1>19 DEF AwaitPhase4, TypeOK, locals, flags, engine, shared, seen, C0Places
<1>20. CASE DumpTrace
  <2>1. fifo' \in Seq(Nat) /\ Len(fifo') <= Capacity
    BY <1>20, FirmwareAssumption DEF DumpTrace, TypeOK, SendRecord
  <2>2. owed' \in Seq(Nat)
    BY <1>20 DEF DumpTrace, TypeOK, SendRecord
  <2> QED
    BY <1>20, <2>1, <2>2 DEF DumpTrace, TypeOK, core0, locals, flags, engine
<1>21. CASE DumpHeader
  <2>1. header' \in HeaderType
    <3>1. fault.reason \in Reasons /\ fault.cycle \in Nat
      BY ReasonFacts, FaultFacts DEF TypeOK
    <3> QED
      BY <1>21, <3>1, HeaderFacts DEF DumpHeader
  <2>2. c0' \in C0Places
    BY <1>21 DEF DumpHeader, TypeOK, C0Places
  <2> QED
    BY <1>21, <2>1, <2>2 DEF DumpHeader, TypeOK, locals, flags, engine, shared
<1>22. CASE DumpCore
  BY <1>22 DEF DumpCore, TypeOK, locals, flags, engine, seen, C0Places, FwStates
<1>23. CASE Boot
  BY <1>23 DEF Boot, TypeOK, host, core0, locals, C1Places
<1>24. CASE EnterPhase1
  BY <1>24 DEF EnterPhase1, TypeOK, host, core0, locals, C1Places
<1>25. CASE AwaitVector
  <2>1. c1' \in C1Places
    BY <1>25 DEF AwaitVector, TypeOK, Raise, C1Places
  <2>2. cycles' \in Nat
    BY <1>25 DEF AwaitVector, TypeOK
  <2>3. cause' \in CauseType
    BY <1>25, CauseFacts, ReasonFacts DEF AwaitVector, TypeOK, Raise
  <2> QED
    BY <1>25, <2>1, <2>2, <2>3 DEF AwaitVector, TypeOK, host, core0
<1>26. CASE Watchdog
  BY <1>26 DEF Watchdog, TypeOK, host, core0, locals, C1Places
<1>27. CASE EnterPhase2
  BY <1>27 DEF EnterPhase2, TypeOK, host, core0, locals, C1Places
<1>28. CASE EnterPhase3
  <2>1. cfg' \in ConfigType
    BY <1>28, ConfigFacts DEF EnterPhase3, TypeOK
  <2>2. current_phase' \in 0 .. 4
    BY <1>28 DEF EnterPhase3, TypeOK
  <2>3. c1' \in C1Places
    BY <1>28 DEF EnterPhase3, TypeOK, C1Places
  <2>4. event' \in AllEvents
    BY <1>28 DEF EnterPhase3, TypeOK, AllEvents
  <2>5. emit' \in BOOLEAN
    BY <1>28 DEF EnterPhase3, TypeOK
  <2> QED
    BY <1>28, <2>1, <2>2, <2>3, <2>4, <2>5 DEF EnterPhase3, TypeOK, host, core0
<1>29. CASE Group
  <2>1. fault' \in FaultType
    BY <1>29, FaultFacts, ReasonFacts, CauseFacts DEF Group, TypeOK, FillIn
  <2>2. c1' \in C1Places
    BY <1>29 DEF Group, TypeOK, Raise, FillIn, C1Places
  <2>3. cause' \in CauseType
    BY <1>29, CauseFacts, ReasonFacts DEF Group, TypeOK, Raise
  <2> QED
    BY <1>29, <2>1, <2>2, <2>3 DEF Group, TypeOK, host, core0
<1>30. CASE ReachTrigger
  BY <1>30 DEF ReachTrigger, TypeOK, TriggerCycle, host, core0, locals, C1Places
<1>31. CASE BusCycle
  <2>1. cycles' \in Nat
    BY <1>31 DEF BusCycle, TypeOK
  <2>2. event' \in AllEvents
    BY <1>31, FirmwareAssumption DEF BusCycle, TypeOK, AllEvents
  <2>3. emit' \in BOOLEAN
    BY <1>31, ConfigFacts DEF BusCycle, TypeOK
  <2>4. owed' \in Seq(Nat)
    BY <1>31 DEF BusCycle, TypeOK
  <2>5. cause' \in CauseType
    <3>1. CASE cause' = cause
      BY <3>1 DEF TypeOK
    <3>2. ASSUME NEW then \in {"phase4", "watch"},
                 NEW r \in {"RED_PAGE", "ZERO_VECTOR", "BRA_SELF"},
                 cause' = [reason |-> r, cycle |-> cycles', then |-> then]
          PROVE  cause' \in CauseType
      <4>1. r \in Reasons
        BY DEF Reasons
      <4> QED
        BY <2>1, <3>2, <4>1, CauseFacts
    <3> QED
      BY <1>31, <3>1, <3>2 DEF BusCycle, Raise
  <2>6. c1' \in C1Places
    BY <1>31 DEF BusCycle, TypeOK, Raise, C1Places
  <2> QED
    BY <1>31, <2>1, <2>2, <2>3, <2>4, <2>5, <2>6 DEF BusCycle, TypeOK, host, core0
<1>32. CASE Watch
  <2>1. emit' \in BOOLEAN
    <3>1. emit \in BOOLEAN /\ cfg.trace \in BOOLEAN
      BY ConfigFacts DEF TypeOK
    <3> QED
      BY <1>32, <3>1 DEF Watch
  <2>2. owed' \in Seq(Nat)
    <3>1. owed' = owed \/ owed' = Append(owed, cycles)
      BY <1>32 DEF Watch
    <3>2. owed \in Seq(Nat) /\ cycles \in Nat
      BY DEF TypeOK
    <3> QED
      BY <3>1, <3>2, AppendProperties
  <2>3. c1' \in C1Places
    BY <1>32 DEF Watch, TypeOK, Raise, C1Places
  <2>4. cause' \in CauseType
    BY <1>32, CauseFacts, ReasonFacts DEF Watch, TypeOK, Raise
  <2>5. cfg' \in ConfigType
    BY <1>32, ConfigFacts DEF Watch, TypeOK
  <2> QED
    BY <1>32, <2>1, <2>2, <2>3, <2>4, <2>5 DEF Watch, TypeOK, host, core0
<1>33. CASE Trace
  <2>1. fifo' \in Seq(Nat) /\ Len(fifo') <= Capacity
    <3>1. (Len(fifo) < Capacity /\ fifo' = Append(fifo, cycles)) \/ fifo' = fifo
      BY <1>33 DEF Trace
    <3>2. fifo \in Seq(Nat) /\ cycles \in Nat /\ Len(fifo) <= Capacity
      BY DEF TypeOK
    <3> QED
      BY <3>1, <3>2, FirmwareAssumption, AppendProperties
  <2>2. c1' \in C1Places
    BY <1>33 DEF Trace, TypeOK, AfterTrace, C1Places
  <2> QED
    BY <1>33, <2>1, <2>2 DEF Trace, TypeOK, host, core0, locals
<1>34. CASE TraceFull
  <2>1. c1' \in C1Places
    BY <1>34 DEF TraceFull, TypeOK, AfterTrace, C1Places
  <2> QED
    BY <1>34, <2>1 DEF TraceFull, TypeOK, host, core0, locals
<1>35. CASE LogEnd
  BY <1>35 DEF LogEnd, TypeOK, host, core0, locals, C1Places
<1>36. CASE Checks
  <2>1. c1' \in C1Places
    BY <1>36 DEF Checks, TypeOK, Raise, C1Places
  <2>2. cause' \in CauseType
    BY <1>36, CauseFacts, ReasonFacts DEF Checks, TypeOK, Raise
  <2> QED
    BY <1>36, <2>1, <2>2 DEF Checks, TypeOK, host, core0
<1>37. CASE LastCheck
  <2>1. c1' \in C1Places
    BY <1>37 DEF LastCheck, TypeOK, FillIn, C1Places
  <2>2. fault' \in FaultType
    BY <1>37, FaultFacts, ReasonFacts, CauseFacts DEF LastCheck, TypeOK, FillIn
  <2>3. event' \in AllEvents
    BY <1>37 DEF LastCheck, TypeOK, AllEvents
  <2>4. emit' \in BOOLEAN
    BY <1>37 DEF LastCheck, TypeOK
  <2> QED
    BY <1>37, <2>1, <2>2, <2>3, <2>4 DEF LastCheck, TypeOK, host, core0
<1>38. CASE RaiseReason
  <2>1. fault' \in FaultType
    BY <1>38, FaultFacts, ReasonFacts, CauseFacts DEF RaiseReason, TypeOK
  <2>2. c1' \in C1Places
    BY <1>38 DEF RaiseReason, TypeOK, C1Places
  <2> QED
    BY <1>38, <2>1, <2>2 DEF RaiseReason, TypeOK, host, core0, locals
<1>39. CASE RaiseCycle
  <2>1. fault' \in FaultType
    BY <1>39, FaultFacts, ReasonFacts, CauseFacts DEF RaiseCycle, TypeOK
  <2>2. c1' \in C1Places
    BY <1>39 DEF RaiseCycle, TypeOK, C1Places
  <2> QED
    BY <1>39, <2>1, <2>2 DEF RaiseCycle, TypeOK, host, core0, locals
<1>40. CASE RaiseLatch
  <2>1. fault' \in FaultType
    BY <1>40, FaultFacts, ReasonFacts, CauseFacts DEF RaiseLatch, TypeOK
  <2>2. c1' \in C1Places
    BY <1>40, CauseFacts DEF RaiseLatch, TypeOK, C1Places
  <2>3. cause' \in CauseType
    BY <1>40, CauseFacts, ReasonFacts DEF RaiseLatch, TypeOK
  <2> QED
    BY <1>40, <2>1, <2>2, <2>3 DEF RaiseLatch, TypeOK, host, core0
<1>41. CASE EnterPhase4
  <2>1. current_phase' \in 0 .. 4
    BY <1>41 DEF EnterPhase4, TypeOK
  <2>2. c1' \in C1Places
    BY <1>41 DEF EnterPhase4, TypeOK, C1Places
  <2>3. event' \in AllEvents
    BY <1>41 DEF EnterPhase4, TypeOK, AllEvents
  <2>4. emit' \in BOOLEAN
    BY <1>41 DEF EnterPhase4, TypeOK
  <2> QED
    BY <1>41, <2>1, <2>2, <2>3, <2>4 DEF EnterPhase4, TypeOK, host, core0
<1>42. CASE Capture
  BY <1>42 DEF Capture, TypeOK, host, core0, locals, C1Places
<1>43. CASE LeavePhase4
  BY <1>43 DEF LeavePhase4, TypeOK, host, core0, locals, C1Places
<1>44. CASE Return
  <2>1. foreground_running' \in BOOLEAN
    BY <1>44 DEF Return, TypeOK
  <2>2. c1' \in C1Places
    BY <1>44 DEF Return, TypeOK, C1Places
  <2> QED
    BY <1>44, <2>1, <2>2 DEF Return, TypeOK, host, core0, locals
<1>45. CASE UNCHANGED vars
  BY <1>45 DEF vars, TypeOK, flags, core0, locals
<1> QED
  BY <1>1, <1>2, <1>3, <1>4, <1>5, <1>6, <1>7, <1>8, <1>9, <1>10, <1>11, <1>12, <1>13,
     <1>14, <1>15, <1>16, <1>17, <1>18, <1>19, <1>20, <1>21, <1>22, <1>23, <1>24, <1>25,
     <1>26, <1>27, <1>28, <1>29, <1>30, <1>31, <1>32, <1>33, <1>34, <1>35, <1>36, <1>37,
     <1>38, <1>39, <1>40, <1>41, <1>42, <1>43, <1>44, <1>45
     DEF Next, Core0, Core1

\* The types hold initially.
LEMMA InitTypeOK == Init => TypeOK
<1> SUFFICES ASSUME Init PROVE TypeOK
  OBVIOUS
<1>1. /\ fw \in FwStates /\ loop \in FwStates /\ c0 \in C0Places /\ c1 \in C1Places
      /\ event \in AllEvents
  BY DEF Init, FwStates, C0Places, C1Places, AllEvents
<1>2. /\ cfg \in ConfigType /\ fault \in FaultType /\ cause \in CauseType
      /\ header \in HeaderType
  BY ConfigFacts, FaultFacts, CauseFacts, HeaderFacts DEF Init
<1>3. /\ fifo \in Seq(Nat) /\ Len(fifo) <= Capacity /\ owed \in Seq(Nat)
      /\ rx \in Seq(Packets) /\ Len(rx) <= RxMax
  BY FirmwareAssumption DEF Init
<1>4. current_phase \in 0 .. 4 /\ drained \in 0 .. DrainMax /\ cycles \in Nat
  BY FirmwareAssumption DEF Init
<1>5. /\ cpu_started \in BOOLEAN /\ foreground_running \in BOOLEAN /\ halted \in BOOLEAN
      /\ emit \in BOOLEAN /\ interrupted \in BOOLEAN
  BY DEF Init
<1> QED
  BY <1>1, <1>2, <1>3, <1>4, <1>5 DEF TypeOK

\* Type correctness of both cores, for every value of the constants.
THEOREM SessionTypes == Spec => []TypeOK
  BY InitTypeOK, StepTypeOK, PTL DEF Spec

-----------------------------------------------------------------------------
(* Where the two cores can be.                                             *)

\* Core 0 handles the start RPC; stores a SIGINT; Core 1 has not run the CPU yet; is
\* past Phase 4; records a fault.
Starting == {"clear", "launch", "await_foreground", "release", "run"}
Signalling == {"sigint_reason", "sigint_cycle", "sigint_latch"}
Early == {"boot", "phase1", "await_vector"}
Ended == {"return", "off"}
Raising == {"reason", "record", "latch"}

\* Between a restart and the launch of Core 1.
AtRest ==
  /\ c1 = "off" /\ halted /\ ~fault.triggered /\ current_phase = 0
  /\ fifo = << >> /\ owed = << >> /\ header = NoHeader

\* A start or a configuration waits only for a firmware that has restarted, and
\* only behind SIGINTs.
QueueInv ==
  \A i \in 1 .. Len(rx) : rx[i].kind \in {"config", "start"} =>
    /\ fw = "WAIT_CONFIG" /\ c0 \notin Starting
    /\ \A j \in 1 .. i - 1 : rx[j].kind = "sigint"

\* In which state of the firmware Core 0 can be where.
Core0Inv ==
  /\ fw = "WAIT_CONFIG" => c0 \in {"top", "packets", "check"} \cup Starting
  /\ fw = "RUNNING" => c0 \in {"top", "drain", "packets", "check"} \cup Signalling
  /\ fw = "FAULT" => c0 \in {"top", "await_phase4", "dump", "core"} /\ fault.triggered
  /\ fw = "HALTED" => c0 \in {"top", "packets"} /\ fault.triggered /\ c1 \in Ended
  /\ c0 = "packets" /\ loop = "RUNNING" => fw = "RUNNING"
  /\ c0 \in Signalling => loop = "RUNNING"
  /\ c0 \in {"dump", "core"} => c1 \in Ended

\* Core 1 is launched in peace, and does not get past Phase 1 before Core 0 has
\* released the CPU.
StartInv ==
  /\ fw = "WAIT_CONFIG" /\ c0 \notin {"await_foreground", "release", "run"} => AtRest
  /\ c0 \in {"await_foreground", "release", "run"} => c1 \in Early /\ halted
  /\ c0 \in {"await_foreground", "release"} => ~cpu_started
  /\ c0 \in {"release", "run"} => c1 # "boot"
  /\ fw # "WAIT_CONFIG" => c1 # "boot"

\* What the shared flags say of the place of Core 1.
Core1Inv ==
  /\ c1 \in Early => ~fault.triggered /\ current_phase \in {0, 1} /\ c0 \notin Signalling
  /\ c1 = "boot" => ~foreground_running
  /\ c1 \in Ended => current_phase = 0
  /\ c1 \notin Ended \cup {"boot", "phase1"} => current_phase # 0
  /\ c1 \in Ended \cup {"leave"} => halted

SessionInv == QueueInv /\ Core0Inv /\ StartInv /\ Core1Inv

\* The flags, the state machine of Core 0 and the place of Core 1 agree.
LEMMA StepPlaces ==
  ASSUME TypeOK, SessionInv, [Next]_vars
  PROVE  (Core0Inv /\ StartInv /\ Core1Inv)'
<1>a. fw \in FwStates /\ current_phase \in 0 .. 4 /\ fault \in FaultType
  BY DEF TypeOK
<1> USE <1>a DEF SessionInv, Core0Inv, StartInv, Core1Inv, AtRest, Starting, Signalling,
        Early, Ended, FwStates
<1>1. CASE HostSend
  BY <1>1 DEF HostSend, locals, flags, engine, shared, seen
<1>2. CASE Dispatch
  BY <1>2 DEF Dispatch, locals, flags, engine, shared, seen
<1>3. CASE Drain
  BY <1>3 DEF Drain, SendRecord, locals, flags, engine
<1>4. CASE DrainDone
  BY <1>4 DEF DrainDone, locals, flags, engine, shared, seen
<1>5. CASE NoMorePackets
  BY <1>5 DEF NoMorePackets, IterationEnd, locals, flags, engine, shared, seen
<1>6. CASE CheckFault
  BY <1>6 DEF CheckFault, locals, flags, engine, seen
<1>7. CASE Restart
  <2>1. ~fault'.triggered
    BY <1>7 DEF Restart, NoFault
  <2> QED
    BY <1>7, <2>1 DEF Restart, ResetEngine, Take, IterationEnd
<1>8. CASE Config
  BY <1>8 DEF Config, Take, locals, flags, engine, seen
<1>9. CASE Start
  <2>1. fw = "WAIT_CONFIG"
    BY <1>9 DEF Start, Take, QueueInv, TypeOK
  <2> QED
    BY <1>9, <2>1 DEF Start, Take, locals, flags, engine, shared, seen
<1>10. CASE ClearFifo
  BY <1>10 DEF ClearFifo, locals, flags, engine, seen
<1>11. CASE Launch
  BY <1>11 DEF Launch, ResetEngine
<1>12. CASE AwaitForeground
  BY <1>12 DEF AwaitForeground, locals, flags, engine, shared, seen
<1>13. CASE Release
  BY <1>13 DEF Release, locals, engine, seen
<1>14. CASE Run
  BY <1>14 DEF Run, locals, flags, engine, seen
<1>15. CASE Sigint
  BY <1>15 DEF Sigint, Take, locals, flags, engine, shared, seen
<1>16. CASE SigintReason
  BY <1>16 DEF SigintReason, locals, flags, engine
<1>17. CASE SigintCycle
  BY <1>17 DEF SigintCycle, locals, flags, engine, seen
<1>18. CASE SigintLatch
  BY <1>18 DEF SigintLatch, locals, flags, engine, seen
<1>19. CASE AwaitPhase4
  BY <1>19 DEF AwaitPhase4, locals, flags, engine, shared, seen
<1>20. CASE DumpTrace
  BY <1>20 DEF DumpTrace, SendRecord, core0, locals, flags, engine
<1>21. CASE DumpHeader
  BY <1>21 DEF DumpHeader, locals, flags, engine, shared
<1>22. CASE DumpCore
  BY <1>22 DEF DumpCore, locals, flags, engine, seen
<1>23. CASE Boot
  BY <1>23 DEF Boot, host, core0, locals
<1>24. CASE EnterPhase1
  BY <1>24 DEF EnterPhase1, host, core0, locals
<1>25. CASE AwaitVector
  BY <1>25 DEF AwaitVector, Raise, host, core0
<1>26. CASE Watchdog
  BY <1>26 DEF Watchdog, host, core0, locals
<1>27. CASE EnterPhase2
  BY <1>27 DEF EnterPhase2, host, core0, locals
<1>28. CASE EnterPhase3
  BY <1>28 DEF EnterPhase3, host, core0
<1>29. CASE Group
  <2>1. fault'.triggered = fault.triggered
    BY <1>29 DEF Group, FillIn, FaultType
  <2> QED
    BY <1>29, <2>1 DEF Group, Raise, FillIn, host, core0
<1>30. CASE ReachTrigger
  BY <1>30 DEF ReachTrigger, TriggerCycle, host, core0, locals
<1>31. CASE BusCycle
  BY <1>31 DEF BusCycle, Raise, TriggerCycle, host, core0
<1>32. CASE Watch
  BY <1>32 DEF Watch, Raise, host, core0
<1>33. CASE Trace
  BY <1>33 DEF Trace, AfterTrace, host, core0, locals
<1>34. CASE TraceFull
  BY <1>34 DEF TraceFull, AfterTrace, host, core0, locals
<1>35. CASE LogEnd
  BY <1>35 DEF LogEnd, host, core0, locals
<1>36. CASE Checks
  BY <1>36 DEF Checks, Raise, host, core0
<1>37. CASE LastCheck
  <2>1. fault'.triggered = fault.triggered
    BY <1>37 DEF LastCheck, FillIn, FaultType
  <2> QED
    BY <1>37, <2>1 DEF LastCheck, FillIn, host, core0
<1>38. CASE RaiseReason
  BY <1>38 DEF RaiseReason, host, core0, locals
<1>39. CASE RaiseCycle
  BY <1>39 DEF RaiseCycle, host, core0, locals
<1>40. CASE RaiseLatch
  <2>1. cause.then \in {"phase4", "watch", "watchdog"}
    BY CauseFacts DEF TypeOK
  <2>2. fault'.triggered
    BY <1>40 DEF RaiseLatch, FaultType
  <2> QED
    BY <1>40, <2>1, <2>2 DEF RaiseLatch, host, core0
<1>41. CASE EnterPhase4
  BY <1>41 DEF EnterPhase4, host, core0
<1>42. CASE Capture
  BY <1>42 DEF Capture, host, core0, locals
<1>43. CASE LeavePhase4
  BY <1>43 DEF LeavePhase4, host, core0, locals
<1>44. CASE Return
  BY <1>44 DEF Return, host, core0, locals
<1>45. CASE UNCHANGED vars
  BY <1>45 DEF vars, flags, core0, locals
<1> QED
  BY <1>1, <1>2, <1>3, <1>4, <1>5, <1>6, <1>7, <1>8, <1>9, <1>10, <1>11, <1>12, <1>13,
     <1>14, <1>15, <1>16, <1>17, <1>18, <1>19, <1>20, <1>21, <1>22, <1>23, <1>24, <1>25,
     <1>26, <1>27, <1>28, <1>29, <1>30, <1>31, <1>32, <1>33, <1>34, <1>35, <1>36, <1>37,
     <1>38, <1>39, <1>40, <1>41, <1>42, <1>43, <1>44, <1>45
     DEF Next, Core0, Core1

\* Taking a packet keeps what is known of the others, and a restart, a
\* configuration or a start is never followed by one of the last two.
LEMMA TakeQueue ==
  ASSUME TypeOK, QueueInv, NEW kind, Take(kind)
  PROVE  \A i \in 1 .. Len(rx') : rx'[i].kind \in {"config", "start"} =>
           /\ kind = "sigint" /\ fw = "WAIT_CONFIG"
           /\ \A j \in 1 .. i - 1 : rx'[j].kind = "sigint"
<1>1. rx \in Seq(Packets) /\ rx # << >>
  BY DEF TypeOK, Take
<1>2. Len(rx') = Len(rx) - 1 /\ \A i \in 1 .. Len(rx') : rx'[i] = rx[i + 1]
  BY <1>1, HeadTailProperties DEF Take
<1>3. rx[1].kind = kind
  BY <1>1 DEF Take
<1> SUFFICES ASSUME NEW i \in 1 .. Len(rx'), rx'[i].kind \in {"config", "start"}
             PROVE  /\ kind = "sigint" /\ fw = "WAIT_CONFIG"
                    /\ \A j \in 1 .. i - 1 : rx'[j].kind = "sigint"
  OBVIOUS
<1>4. i \in Nat /\ i + 1 \in 1 .. Len(rx) /\ rx[i + 1].kind \in {"config", "start"}
  BY <1>1, <1>2
<1>5. fw = "WAIT_CONFIG" /\ \A j \in 1 .. i : rx[j].kind = "sigint"
  BY <1>4 DEF QueueInv
<1>6. kind = "sigint"
  BY <1>3, <1>4, <1>5
<1>7. ASSUME NEW j \in 1 .. i - 1
      PROVE  rx'[j].kind = "sigint"
  BY <1>2, <1>4, <1>5
<1> QED
  BY <1>5, <1>6, <1>7

\* Core 1 touches neither the packets nor the state machine of Core 0.
LEMMA EngineOnly == Core1 => UNCHANGED <<rx, fw, c0>>
  BY DEF Core1, Boot, EnterPhase1, AwaitVector, Watchdog, EnterPhase2, EnterPhase3, Group,
         ReachTrigger, BusCycle, Watch, Trace, TraceFull, LogEnd, Checks,
         LastCheck, RaiseReason, RaiseCycle, RaiseLatch, EnterPhase4, Capture, LeavePhase4,
         Return,
         host, core0

\* The queue of packets of a host that starts only what it has seen restart.
LEMMA StepQueue ==
  ASSUME TetherHost, TypeOK, SessionInv, [Next]_vars
  PROVE  QueueInv'
<1>a. c0 \in C0Places
  BY DEF TypeOK
<1> DEFINE Pending == \E i \in 1 .. Len(rx) : rx[i].kind \in {"config", "start"}
<1>b. Pending => fw = "WAIT_CONFIG" /\ c0 \in {"top", "packets", "check"}
  BY DEF SessionInv, QueueInv, Core0Inv, Starting
<1>c. UNCHANGED <<rx, fw, c0>> => QueueInv'
  BY DEF SessionInv, QueueInv
<1>d. rx' = rx /\ (Pending => fw' = fw /\ c0' \notin Starting) => QueueInv'
  BY DEF SessionInv, QueueInv
<1> HIDE DEF Pending
<1>1. CASE HostSend
  <2>1. PICK p \in Packets : HostMay(p) /\ rx' = Append(rx, p)
    BY <1>1 DEF HostSend
  <2>2. rx \in Seq(Packets) /\ fw' = fw /\ c0' = "top"
    BY <1>1 DEF TypeOK, HostSend, shared
  <2>3. /\ Len(rx') = Len(rx) + 1 /\ rx'[Len(rx) + 1] = p
        /\ \A i \in 1 .. Len(rx) : rx'[i] = rx[i]
    BY <2>1, <2>2, AppendProperties
  <2>4. p.kind \in {"config", "start"} =>
          fw = "WAIT_CONFIG" /\ \A i \in 1 .. Len(rx) : rx[i].kind = "sigint"
    BY <2>1, TetherHost DEF HostMay
  <2> SUFFICES ASSUME NEW i \in 1 .. Len(rx'), rx'[i].kind \in {"config", "start"}
               PROVE  /\ fw' = "WAIT_CONFIG" /\ c0' \notin Starting
                      /\ \A j \in 1 .. i - 1 : rx'[j].kind = "sigint"
    BY DEF QueueInv
  <2>5. CASE i = Len(rx) + 1
    BY <2>2, <2>3, <2>4, <2>5 DEF Starting
  <2>6. CASE i \in 1 .. Len(rx)
    BY <2>2, <2>3, <2>6 DEF SessionInv, QueueInv, Starting
  <2> QED
    BY <2>2, <2>3, <2>5, <2>6
<1>2. CASE Dispatch
  BY <1>2, <1>b, <1>d DEF Dispatch, shared, Starting
<1>3. CASE Drain
  BY <1>3, <1>b, <1>d DEF Drain, Starting
<1>4. CASE DrainDone
  BY <1>4, <1>b, <1>d DEF DrainDone, shared, Starting
<1>5. CASE NoMorePackets
  BY <1>5, <1>b, <1>d DEF NoMorePackets, IterationEnd, shared, Starting
<1>6. CASE CheckFault
  BY <1>6, <1>b, <1>d DEF CheckFault, SessionInv, StartInv, AtRest, Starting
<1>7. CASE Restart
  BY <1>7, TakeQueue DEF Restart, SessionInv, QueueInv
<1>8. CASE Config
  BY <1>8, TakeQueue DEF Config, SessionInv, QueueInv
<1>9. CASE Start
  BY <1>9, TakeQueue DEF Start, SessionInv, QueueInv
<1>10. CASE ClearFifo
  BY <1>10, <1>b, <1>d DEF ClearFifo, Starting
<1>11. CASE Launch
  BY <1>11, <1>b, <1>d DEF Launch, Starting
<1>12. CASE AwaitForeground
  BY <1>12, <1>b, <1>d DEF AwaitForeground, shared, Starting
<1>13. CASE Release
  BY <1>13, <1>b, <1>d DEF Release, Starting
<1>14. CASE Run
  BY <1>14, <1>b, <1>d DEF Run, Starting
<1>15. CASE Sigint
  <2>1. UNCHANGED fw /\ c0' \notin Starting
    BY <1>15 DEF Sigint, shared, Starting
  <2> QED
    BY <1>15, <2>1, TakeQueue DEF Sigint, SessionInv, QueueInv
<1>16. CASE SigintReason
  BY <1>16, <1>b, <1>d DEF SigintReason, Starting
<1>17. CASE SigintCycle
  BY <1>17, <1>b, <1>d DEF SigintCycle, Starting
<1>18. CASE SigintLatch
  BY <1>18, <1>b, <1>d DEF SigintLatch, Starting
<1>19. CASE AwaitPhase4
  BY <1>19, <1>b, <1>d DEF AwaitPhase4, shared, Starting
<1>20. CASE DumpTrace
  BY <1>20, <1>b, <1>d DEF DumpTrace, core0, Starting
<1>21. CASE DumpHeader
  BY <1>21, <1>b, <1>d DEF DumpHeader, shared, Starting
<1>22. CASE DumpCore
  BY <1>22, <1>b, <1>d DEF DumpCore, Starting
<1>23. CASE Core1
  BY <1>23, <1>c, EngineOnly
<1>24. CASE UNCHANGED vars
  BY <1>24, <1>c DEF vars, core0
<1> QED
  BY <1>1, <1>2, <1>3, <1>4, <1>5, <1>6, <1>7, <1>8, <1>9, <1>10, <1>11, <1>12, <1>13,
     <1>14, <1>15, <1>16, <1>17, <1>18, <1>19, <1>20, <1>21, <1>22, <1>23, <1>24
     DEF Next, Core0

\* The session invariant holds initially.
LEMMA InitSession == Init => SessionInv
  BY DEF Init, SessionInv, QueueInv, Core0Inv, StartInv, Core1Inv, AtRest, Starting,
         Signalling, Early, Ended, NoFault

\* What the inductive invariant says of the dump and of the halted CPU.
LEMMA SessionQuiescent == TypeOK /\ SessionInv => DumpQuiescent
  BY DEF TypeOK, FwStates, SessionInv, Core0Inv, StartInv, Core1Inv, DumpQuiescent,
         Starting, Signalling, Ended

\* A CPU that is not halted has its bus engine.
LEMMA SessionServed == SessionInv => ServedWhileRunning
  BY DEF SessionInv, Core1Inv, ServedWhileRunning, Ended

-----------------------------------------------------------------------------
(* The trace.                                                              *)

\* The record of this cycle is still to be pushed.
Owing == owed = Append(fifo, cycles)

\* Core 1 runs the watchpoint hook, or will when it has recorded a zero vector.
InHook == c1 = "watch" \/ (c1 \in Raising /\ cause.then = "watch")

\* Between the cycles nothing is missing, in a cycle at most its own record; a
\* record is dropped only with a latched fault, which ends the run.
TraceInv ==
  /\ owed = fifo \/ Owing
  /\ c1 \in Early \cup {"phase2", "cycle"} => owed = fifo
  /\ c1 \in {"phase3", "group", "logged", "checks", "last"} => owed = fifo \/ fault.triggered
  /\ InHook \/ c1 \in {"trace", "full"} => IF emit THEN Owing ELSE owed = fifo
  /\ c1 = "full" => emit
  /\ InHook /\ emit => current_phase = 3
  /\ current_phase = 3 => "trigger" \notin cfg.watch

\* Sending a record takes it from the head of both sequences.
LEMMA SendKeeps ==
  ASSUME TypeOK, SendRecord, cycles' = cycles
  PROVE  (owed = fifo => owed' = fifo') /\ (Owing => Owing')
<1>1. fifo \in Seq(Nat) /\ fifo # << >> /\ cycles \in Nat
  BY DEF TypeOK, SendRecord
<1>2. /\ Append(fifo, cycles) # << >> /\ Head(Append(fifo, cycles)) = Head(fifo)
      /\ Tail(Append(fifo, cycles)) = Append(Tail(fifo), cycles)
  BY <1>1
<1> QED
  BY <1>1, <1>2 DEF SendRecord, Owing

\* Every step keeps the relation between the FIFO and the cycles owed to the host.
LEMMA StepTrace ==
  ASSUME TypeOK, SessionInv, TraceInv, [Next]_vars
  PROVE  TraceInv'
<1>a. current_phase \in 0 .. 4 /\ c1 \in C1Places /\ fault.triggered \in BOOLEAN
  BY DEF TypeOK, FaultType
<1> USE <1>a DEF TraceInv, Owing, InHook, Early, Raising
<1>1. CASE HostSend
  BY <1>1 DEF HostSend, locals, flags, engine, shared, seen
<1>2. CASE Dispatch
  BY <1>2 DEF Dispatch, locals, flags, engine, shared, seen
<1>3. CASE Drain
  BY <1>3, SendKeeps DEF Drain, locals, flags, engine
<1>4. CASE DrainDone
  BY <1>4 DEF DrainDone, locals, flags, engine, shared, seen
<1>5. CASE NoMorePackets
  BY <1>5 DEF NoMorePackets, IterationEnd, locals, flags, engine, shared, seen
<1>6. CASE CheckFault
  BY <1>6 DEF CheckFault, locals, flags, engine, seen
<1>7. CASE Restart
  BY <1>7 DEF Restart, ResetEngine, Take, IterationEnd
<1>8. CASE Config
  <2>1. fw = "WAIT_CONFIG" /\ c0 = "packets"
    BY <1>8 DEF Config, Take, TypeOK, SessionInv, QueueInv
  <2>2. AtRest
    BY <2>1 DEF SessionInv, StartInv
  <2> QED
    BY <1>8, <2>2 DEF Config, AtRest, locals, flags, engine, seen
<1>9. CASE Start
  BY <1>9 DEF Start, Take, locals, flags, engine, shared, seen
<1>10. CASE ClearFifo
  <2>1. AtRest
    BY <1>10 DEF ClearFifo, TypeOK, FwStates, SessionInv, Core0Inv, StartInv, Starting, Signalling
  <2> QED
    BY <1>10, <2>1 DEF ClearFifo, AtRest, locals, flags, engine, seen
<1>11. CASE Launch
  <2>1. AtRest
    BY <1>11 DEF Launch, TypeOK, FwStates, SessionInv, Core0Inv, StartInv, Starting, Signalling
  <2> QED
    BY <1>11, <2>1 DEF Launch, AtRest, ResetEngine
<1>12. CASE AwaitForeground
  BY <1>12 DEF AwaitForeground, locals, flags, engine, shared, seen
<1>13. CASE Release
  BY <1>13 DEF Release, locals, engine, seen
<1>14. CASE Run
  BY <1>14 DEF Run, locals, flags, engine, seen
<1>15. CASE Sigint
  BY <1>15 DEF Sigint, Take, locals, flags, engine, shared, seen
<1>16. CASE SigintReason
  BY <1>16 DEF SigintReason, locals, flags, engine
<1>17. CASE SigintCycle
  BY <1>17 DEF SigintCycle, locals, flags, engine, seen
<1>18. CASE SigintLatch
  BY <1>18 DEF SigintLatch, locals, flags, engine, seen
<1>19. CASE AwaitPhase4
  BY <1>19 DEF AwaitPhase4, locals, flags, engine, shared, seen
<1>20. CASE DumpTrace
  BY <1>20, SendKeeps DEF DumpTrace, core0, locals, flags, engine
<1>21. CASE DumpHeader
  BY <1>21 DEF DumpHeader, locals, flags, engine, shared
<1>22. CASE DumpCore
  BY <1>22 DEF DumpCore, locals, flags, engine, seen
<1>23. CASE Boot
  BY <1>23 DEF Boot, host, core0, locals
<1>24. CASE EnterPhase1
  BY <1>24 DEF EnterPhase1, host, core0, locals
<1>25. CASE AwaitVector
  BY <1>25 DEF AwaitVector, Raise, host, core0
<1>26. CASE Watchdog
  BY <1>26 DEF Watchdog, host, core0, locals
<1>27. CASE EnterPhase2
  BY <1>27 DEF EnterPhase2, host, core0, locals
<1>28. CASE EnterPhase3
  BY <1>28 DEF EnterPhase3, host, core0
<1>29. CASE Group
  BY <1>29 DEF Group, Raise, FillIn, host, core0
<1>30. CASE ReachTrigger
  BY <1>30 DEF ReachTrigger, TriggerCycle, host, core0, locals
<1>31. CASE BusCycle
  BY <1>31 DEF BusCycle, Raise, TriggerCycle, host, core0
<1>32. CASE Watch
  <2> USE DEF host, core0
  <2>1. IF emit THEN Owing ELSE owed = fifo
    BY <1>32 DEF Watch
  <2>2. UNCHANGED <<current_phase, cycles, fifo, fault>> /\ c1 = "watch"
    BY <1>32 DEF Watch
  <2>3. CASE emit' = TRUE /\ owed' = (IF emit THEN owed ELSE Append(owed, cycles))
             /\ c1' = "trace" /\ UNCHANGED cfg
    BY <2>1, <2>2, <2>3
  <2>4. CASE Raise("MAX_WATCHPOINT", cycles, "phase4") /\ UNCHANGED <<emit, cfg, owed>>
    BY <2>1, <2>2, <2>4 DEF Raise
  <2>5. CASE /\ "trigger" \in cfg.watch /\ cfg' = [cfg EXCEPT !.trigger = cycles]
             /\ owed' = (IF emit' THEN Append(owed, cycles) ELSE owed)
             /\ c1' = "trace"
    BY <2>1, <2>2, <2>5
  <2>6. CASE c1' \in {"phase4", "trace"} /\ UNCHANGED <<emit, cfg, owed>>
    BY <2>1, <2>2, <2>6
  <2>7. CASE c1' = "checks" /\ current_phase = 2 /\ UNCHANGED <<emit, cfg, owed>>
    BY <2>1, <2>2, <2>7
  <2> QED
    BY <1>32, <2>3, <2>4, <2>5, <2>6, <2>7 DEF Watch
<1>33. CASE Trace
  BY <1>33 DEF Trace, AfterTrace, host, core0, locals
<1>34. CASE TraceFull
  BY <1>34 DEF TraceFull, AfterTrace, host, core0, locals
<1>35. CASE LogEnd
  BY <1>35 DEF LogEnd, host, core0, locals
<1>36. CASE Checks
  BY <1>36 DEF Checks, Raise, host, core0
<1>37. CASE LastCheck
  BY <1>37 DEF LastCheck, FillIn, host, core0
<1>38. CASE RaiseReason
  BY <1>38 DEF RaiseReason, host, core0, locals
<1>39. CASE RaiseCycle
  BY <1>39 DEF RaiseCycle, host, core0, locals
<1>40. CASE RaiseLatch
  <2>1. cause.then \in {"phase4", "watch", "watchdog"}
    BY CauseFacts DEF TypeOK
  <2>2. fault'.triggered
    BY <1>40 DEF RaiseLatch, TypeOK, FaultType
  <2> QED
    BY <1>40, <2>1, <2>2 DEF RaiseLatch, host, core0
<1>41. CASE EnterPhase4
  BY <1>41 DEF EnterPhase4, host, core0
<1>42. CASE Capture
  BY <1>42 DEF Capture, host, core0, locals
<1>43. CASE LeavePhase4
  BY <1>43 DEF LeavePhase4, host, core0, locals
<1>44. CASE Return
  BY <1>44 DEF Return, host, core0, locals
<1>45. CASE UNCHANGED vars
  BY <1>45 DEF vars, flags, core0, locals
<1> QED
  BY <1>1, <1>2, <1>3, <1>4, <1>5, <1>6, <1>7, <1>8, <1>9, <1>10, <1>11, <1>12, <1>13,
     <1>14, <1>15, <1>16, <1>17, <1>18, <1>19, <1>20, <1>21, <1>22, <1>23, <1>24, <1>25,
     <1>26, <1>27, <1>28, <1>29, <1>30, <1>31, <1>32, <1>33, <1>34, <1>35, <1>36, <1>37,
     <1>38, <1>39, <1>40, <1>41, <1>42, <1>43, <1>44, <1>45
     DEF Next, Core0, Core1

-----------------------------------------------------------------------------
(* The fault record.                                                       *)

\* Core 1 records the cycle it stands in and stays in it; after a fault of its
\* own it begins no other cycle.
RecordInv ==
  /\ c1 \in Early => cycles = 0
  /\ c1 \in Raising => cause.reason # "none" /\ cause.cycle = cycles
  /\ c1 \in Raising /\ cause.then = "watch" => event = "zero"
  /\ c1 \in {"trace", "full"} /\ event = "zero" => current_phase # 2
  /\ c0 \in {"sigint_cycle", "sigint_latch"} => interrupted
  /\ ~interrupted /\ c1 \in {"record", "latch"} => fault.reason = cause.reason
  /\ ~interrupted /\ c1 = "latch" => fault.cycle = cycles
  /\ ~interrupted /\ fault.triggered =>
       /\ fault.reason # "none" /\ fault.cycle = cycles
       /\ c1 \notin {"phase2", "phase3", "group", "cycle"}
       /\ c1 \in {"watch", "trace", "full"} => event = "zero"
  /\ header # NoHeader =>
       /\ fifo = << >> /\ c1 \in Ended
       /\ fw = "HALTED" \/ c0 = "core"
       /\ ~interrupted => header.reason # "none" /\ header.cycle = cycles

\* Every step keeps the fault record true.
LEMMA StepRecord ==
  ASSUME TypeOK, SessionInv, RecordInv, [Next]_vars
  PROVE  RecordInv'
<1>a. /\ current_phase \in 0 .. 4 /\ c1 \in C1Places /\ fw \in FwStates
      /\ fault \in FaultType /\ cause \in CauseType
  BY DEF TypeOK
<1> USE <1>a DEF RecordInv, Early, Raising, Ended
<1>1. CASE HostSend
  BY <1>1 DEF HostSend, locals, flags, engine, shared, seen
<1>2. CASE Dispatch
  BY <1>2 DEF Dispatch, locals, flags, engine, shared, seen
<1>3. CASE Drain
  BY <1>3 DEF Drain, SendRecord, locals, flags, engine
<1>4. CASE DrainDone
  BY <1>4 DEF DrainDone, locals, flags, engine, shared, seen
<1>5. CASE NoMorePackets
  BY <1>5 DEF NoMorePackets, IterationEnd, locals, flags, engine, shared, seen
<1>6. CASE CheckFault
  <2>1. header = NoHeader
    BY <1>6 DEF CheckFault, SessionInv, Core0Inv
  <2> QED
    BY <1>6, <2>1 DEF CheckFault, locals, flags, engine, seen
<1>7. CASE Restart
  <2>1. ~fault'.triggered /\ header' = NoHeader /\ c1' = "off"
    BY <1>7 DEF Restart, ResetEngine, NoFault
  <2>2. c0' \in {"check", "top"}
    BY <1>7 DEF Restart, IterationEnd
  <2> QED
    BY <2>1, <2>2
<1>8. CASE Config
  BY <1>8 DEF Config, Take, locals, flags, engine, seen
<1>9. CASE Start
  BY <1>9 DEF Start, Take, locals, flags, engine, shared, seen
<1>10. CASE ClearFifo
  BY <1>10 DEF ClearFifo, locals, flags, engine, seen
<1>11. CASE Launch
  <2>1. ~fault.triggered
    BY <1>11 DEF Launch, SessionInv, Core0Inv, StartInv, AtRest, Starting, Signalling, FwStates
  <2> QED
    BY <1>11, <2>1 DEF Launch, ResetEngine
<1>12. CASE AwaitForeground
  BY <1>12 DEF AwaitForeground, locals, flags, engine, shared, seen
<1>13. CASE Release
  BY <1>13 DEF Release, locals, engine, seen
<1>14. CASE Run
  <2>1. header = NoHeader
    BY <1>14 DEF Run, SessionInv, Core0Inv
  <2> QED
    BY <1>14, <2>1 DEF Run, locals, flags, engine, seen
<1>15. CASE Sigint
  BY <1>15 DEF Sigint, Take, locals, flags, engine, shared, seen
<1>16. CASE SigintReason
  BY <1>16 DEF SigintReason, locals, flags, engine
<1>17. CASE SigintCycle
  BY <1>17 DEF SigintCycle, locals, flags, engine, seen
<1>18. CASE SigintLatch
  BY <1>18 DEF SigintLatch, locals, flags, engine, seen
<1>19. CASE AwaitPhase4
  BY <1>19 DEF AwaitPhase4, locals, flags, engine, shared, seen
<1>20. CASE DumpTrace
  BY <1>20 DEF DumpTrace, SendRecord, core0, locals, flags, engine
<1>21. CASE DumpHeader
  <2>1. c1 \in Ended /\ fault.triggered /\ UNCHANGED <<c1, cycles, fault, fifo, interrupted>>
    BY <1>21 DEF DumpHeader, SessionInv, Core0Inv, Starting, Signalling, FwStates, shared, engine,
              locals
  <2>2. ~interrupted => header'.reason # "none" /\ header'.cycle = cycles
    BY <1>21, <2>1 DEF DumpHeader
  <2> QED
    BY <1>21, <2>1, <2>2 DEF DumpHeader, engine, locals, shared
<1>22. CASE DumpCore
  BY <1>22 DEF DumpCore, locals, flags, engine, seen
<1>23. CASE Boot
  BY <1>23 DEF Boot, host, core0, locals
<1>24. CASE EnterPhase1
  BY <1>24 DEF EnterPhase1, host, core0, locals
<1>25. CASE AwaitVector
  BY <1>25 DEF AwaitVector, Raise, host, core0
<1>26. CASE Watchdog
  BY <1>26 DEF Watchdog, host, core0, locals
<1>27. CASE EnterPhase2
  BY <1>27 DEF EnterPhase2, host, core0, locals
<1>28. CASE EnterPhase3
  BY <1>28 DEF EnterPhase3, host, core0
<1>29. CASE Group
  BY <1>29 DEF Group, Raise, FillIn, host, core0
<1>30. CASE ReachTrigger
  BY <1>30 DEF ReachTrigger, TriggerCycle, host, core0, locals
<1>31. CASE BusCycle
  BY <1>31 DEF BusCycle, Raise, TriggerCycle, host, core0
<1>32. CASE Watch
  <2> USE DEF host, core0
  <2>1. UNCHANGED <<header, interrupted, c0, fw, fifo, current_phase, fault, cycles, event>>
        /\ c1 = "watch"
    BY <1>32 DEF Watch
  <2>2. CASE Raise("MAX_WATCHPOINT", cycles, "phase4")
    BY <2>1, <2>2 DEF Raise
  <2>3. CASE c1' \in {"phase4", "checks"} /\ UNCHANGED cause
    BY <2>1, <2>3
  <2>4. CASE c1' = "trace" /\ event \in {"log", "trigger"} /\ UNCHANGED cause
    BY <2>1, <2>4
  <2>5. CASE c1' = "trace" /\ current_phase # 2 /\ UNCHANGED cause
    BY <2>1, <2>5
  <2> QED
    BY <1>32, <2>2, <2>3, <2>4, <2>5 DEF Watch
<1>33. CASE Trace
  BY <1>33 DEF Trace, AfterTrace, host, core0, locals
<1>34. CASE TraceFull
  BY <1>34 DEF TraceFull, AfterTrace, host, core0, locals
<1>35. CASE LogEnd
  BY <1>35 DEF LogEnd, host, core0, locals
<1>36. CASE Checks
  BY <1>36 DEF Checks, Raise, host, core0
<1>37. CASE LastCheck
  <2>1. /\ fault'.reason = fault.reason /\ fault'.triggered = fault.triggered
        /\ fault'.cycle \in {fault.cycle, cycles}
    BY <1>37 DEF LastCheck, FillIn, FaultType
  <2>2. c1' = "phase4" \/ (~fault.triggered /\ c1' \in {"cycle", "group"})
    BY <1>37 DEF LastCheck, FillIn
  <2> QED
    BY <1>37, <2>1, <2>2 DEF LastCheck, host, core0
<1>38. CASE RaiseReason
  BY <1>38 DEF RaiseReason, host, core0, locals
<1>39. CASE RaiseCycle
  BY <1>39 DEF RaiseCycle, host, core0, locals
<1>40. CASE RaiseLatch
  <2>1. cause.then \in {"phase4", "watch", "watchdog"}
    BY CauseFacts
  <2>2. fault'.reason = fault.reason /\ fault'.cycle = fault.cycle
    BY <1>40 DEF RaiseLatch, FaultType
  <2> QED
    BY <1>40, <2>1, <2>2 DEF RaiseLatch, host, core0
<1>41. CASE EnterPhase4
  BY <1>41 DEF EnterPhase4, host, core0
<1>42. CASE Capture
  BY <1>42 DEF Capture, host, core0, locals
<1>43. CASE LeavePhase4
  BY <1>43 DEF LeavePhase4, host, core0, locals
<1>44. CASE Return
  BY <1>44 DEF Return, host, core0, locals
<1>45. CASE UNCHANGED vars
  BY <1>45 DEF vars, flags, core0, locals
<1> QED
  BY <1>1, <1>2, <1>3, <1>4, <1>5, <1>6, <1>7, <1>8, <1>9, <1>10, <1>11, <1>12, <1>13,
     <1>14, <1>15, <1>16, <1>17, <1>18, <1>19, <1>20, <1>21, <1>22, <1>23, <1>24, <1>25,
     <1>26, <1>27, <1>28, <1>29, <1>30, <1>31, <1>32, <1>33, <1>34, <1>35, <1>36, <1>37,
     <1>38, <1>39, <1>40, <1>41, <1>42, <1>43, <1>44, <1>45
     DEF Next, Core0, Core1

-----------------------------------------------------------------------------
(* The theorems.                                                           *)

IInv == TypeOK /\ SessionInv /\ TraceInv /\ RecordInv

\* The inductive invariant holds initially.
LEMMA InitIInv == Init => IInv
<1> SUFFICES ASSUME Init PROVE IInv
  OBVIOUS
<1>1. TraceInv
  BY DEF Init, TraceInv, InHook, Early, Raising
<1>2. RecordInv
  BY DEF Init, RecordInv, Early, Raising, NoFault
<1> QED
  BY <1>1, <1>2, InitTypeOK, InitSession DEF IInv

\* Every step preserves it.
LEMMA StepIInv ==
  ASSUME TetherHost
  PROVE  IInv /\ [Next]_vars => IInv'
<1> SUFFICES ASSUME IInv, [Next]_vars PROVE IInv'
  OBVIOUS
<1>1. TypeOK'
  BY StepTypeOK DEF IInv
<1>2. SessionInv'
  BY TetherHost, StepPlaces, StepQueue DEF IInv, SessionInv
<1>3. TraceInv'
  BY StepTrace DEF IInv
<1>4. RecordInv'
  BY StepRecord DEF IInv
<1> QED
  BY <1>1, <1>2, <1>3, <1>4 DEF IInv

\* With a host that starts only what it has seen restart, whatever the
\* configurations, the size of the trace FIFO and the number of queued packets:
\* the inductive invariant.
THEOREM SessionInvariance ==
  ASSUME TetherHost
  PROVE  Spec => []IInv
  BY TetherHost, InitIInv, StepIInv, PTL DEF Spec

\* The CPU never runs without its bus engine.
THEOREM CpuIsServed ==
  ASSUME TetherHost
  PROVE  Spec => []ServedWhileRunning
<1>1. IInv => ServedWhileRunning
  BY SessionServed DEF IInv
<1> QED
  BY <1>1, SessionInvariance, PTL

\* Nobody changes what is being dumped.
THEOREM DumpIsQuiescent ==
  ASSUME TetherHost
  PROVE  Spec => []DumpQuiescent
<1>1. IInv => DumpQuiescent
  BY SessionQuiescent DEF IInv
<1> QED
  BY <1>1, SessionInvariance, PTL

\* The trace loses at most its last record.
THEOREM TraceLosesOnlyTheLast ==
  ASSUME TetherHost
  PROVE  Spec => []TraceComplete
<1>1. IInv => TraceComplete
  <2> SUFFICES ASSUME IInv PROVE TraceComplete
    OBVIOUS
  <2>1. fifo \in Seq(Nat) /\ cycles \in Nat
    BY DEF IInv, TypeOK
  <2>2. CASE owed = fifo
    BY <2>1, <2>2 DEF TraceComplete, IsPrefix
  <2>3. CASE Owing
    <3>1. Len(owed) = Len(fifo) + 1 /\ \A i \in 1 .. Len(fifo) : owed[i] = fifo[i]
      BY <2>1, <2>3, AppendProperties DEF Owing
    <3>2. SubSeq(owed, 1, Len(fifo)) = SubSeq(fifo, 1, Len(fifo))
      BY <2>1, <3>1, SubSeqOfConcat1, AppendIsConcat, SubSeqFull DEF Owing
    <3>3. c1 = "cycle" => fifo = owed
      BY DEF IInv, TraceInv
    <3> QED
      BY <2>1, <3>1, <3>2, <3>3 DEF TraceComplete, IsPrefix
  <2> QED
    BY <2>2, <2>3 DEF IInv, TraceInv
<1> QED
  BY <1>1, SessionInvariance, PTL

\* The fault packet follows the last record and, unless SIGINT came in between,
\* tells a cause and the cycle Core 1 stopped at.
THEOREM FaultPacketIsExact ==
  ASSUME TetherHost
  PROVE  Spec => []HeaderExact
<1>1. IInv => HeaderExact
  BY DEF IInv, RecordInv, HeaderExact
<1> QED
  BY <1>1, SessionInvariance, PTL
=============================================================================
