------------------------------ MODULE Firmware ------------------------------
(***************************************************************************)
(* A session of the TurboLab firmware (firmware/main.cpp): Core 0, which   *)
(* serves the host, and Core 1, which serves every bus cycle of the 6309,  *)
(* from the restart through the start RPC and the run to the fault and the *)
(* core dump.  The two cores share no lock: they meet in the trace FIFO,   *)
(* in the fault record and in a few volatile flags, and Core 0 resets      *)
(* Core 1 where it stands.                                                 *)
(*                                                                         *)
(* Every access to a variable both cores use is a step of its own.  The    *)
(* trace FIFO is the bounded queue that CrossCoreFifo is proved to         *)
(* implement, so one push or pop of it is one step.                        *)
(*                                                                         *)
(* Abstracted: addresses and data of bus cycles (a cycle is an event of    *)
(* BusEvents), console characters, the register frame Phase 4 captures     *)
(* and the content of the core dump.  The 50-cycle groups of Core 1 may    *)
(* end after any cycle.  A local that is out of scope has its first value  *)
(* again, so that it tells no states apart.                                *)
(***************************************************************************)
EXTENDS Naturals, Sequences, SequencesExt

CONSTANTS
  Configs,      \* the config RPCs the host may send
  BusEvents,    \* what the 6309 does in a cycle, a subset of AllEvents
  Capacity,     \* items the trace FIFO holds; 8191 in the firmware
  DrainMax,     \* records Core 0 takes per iteration; 10 batches of 20 there
  RxMax,        \* packets queued for Core 0; 63 there
  TetherHost,   \* TRUE: the host starts only what it has seen restart;
                \*   FALSE: it starts in any state
  CycleBound    \* bounds sessions without a cycle limit

\* log, trigger, stop: the cycle is at the address of that watchpoint.
AllEvents   == {"plain", "red", "zero", "bra", "log", "trigger", "stop"}
Watchpoints == {"log", "trigger", "stop"}

\* trace: some trace flag is set.  trigger: cycle tracing starts at.  max:
\* cycle limit, 0 for none.  watch: the watchpoints in the chain.  timed:
\* there is a time limit.
ConfigType == [trace : BOOLEAN, trigger : Nat, max : Nat, watch : SUBSET Watchpoints,
               timed : BOOLEAN]
NoConfig   == [trace |-> FALSE, trigger |-> 0, max |-> 0, watch |-> {}, timed |-> FALSE]

ASSUME FirmwareAssumption ==
  /\ Configs \subseteq ConfigType
  /\ BusEvents \subseteq AllEvents
  /\ Capacity \in Nat \ {0}
  /\ DrainMax \in Nat \ {0}
  /\ RxMax \in Nat \ {0}
  /\ TetherHost \in BOOLEAN
  /\ CycleBound \in Nat

Reasons == {"none", "RED_PAGE", "ZERO_VECTOR", "MAX_CYCLES", "MAX_TIME",
            "BRA_SELF", "MAX_WATCHPOINT", "SIGINT"}
Packets == [kind : {"restart", "start", "sigint"}] \cup [kind : {"config"}, cfg : Configs]

NoHeader == [reason |-> "none", cycle |-> 0]
NoFault  == [triggered |-> FALSE, reason |-> "none", cycle |-> 0]
NoCause  == [reason |-> "none", cycle |-> 0, then |-> "phase4"]

VARIABLES
  \* shared by the cores
  fw,            \* fw_state, less its STATE_ prefix
  cfg,           \* trace_flags, trigger_cycle, max_cycles, the watchpoints...
  cpu_started, foreground_running, current_phase,
  fault,         \* fault_triggered, fault_reason, fault_cycle
  fifo,          \* fg2bg_trace: the cycle numbers of its records
  halted,        \* the HALT pin is asserted
  \* Core 0
  c0,            \* where it is
  loop,          \* the fw_state whose branch of the main loop it is in
  rx,            \* usb_rx_packets
  drained,       \* records taken in this iteration
  \* Core 1
  c1,            \* where it is; "off" when it is not running
  cycles,        \* its cycle counter
  event, emit,   \* this bus cycle, and whether it is to be traced
  cause,         \* the fault it is recording, and where it goes then
  \* history of the session
  owed,          \* the cycles that were to be traced and were not sent yet
  interrupted,   \* SIGINT was recorded
  header         \* the C_FAULT packet sent, or NoHeader

core0  == <<c0, loop, rx, drained>>
locals == <<cycles, event, emit, cause>>
flags  == <<cpu_started, foreground_running, current_phase>>
host   == <<fw, cpu_started, core0, interrupted, header>>    \* Core 1 leaves these alone
vars   == <<fw, cfg, flags, fault, fifo, halted, core0, c1, locals, owed, interrupted, header>>

-----------------------------------------------------------------------------
(* Core 1: foreground_loop.                                                *)

\* A fault is recorded by three stores: reason, cycle (with address and data),
\* and last the latch.
Raise(reason, at, then) ==
  /\ c1' = "reason"
  /\ cause' = [reason |-> reason, cycle |-> at, then |-> then]

RaiseReason ==
  /\ c1 = "reason"
  /\ fault' = [fault EXCEPT !.reason = cause.reason]
  /\ c1' = "record"
  /\ UNCHANGED <<host, cfg, foreground_running, current_phase, fifo, halted, locals, owed>>

RaiseCycle ==
  /\ c1 = "record"
  /\ fault' = [fault EXCEPT !.cycle = cause.cycle]
  /\ c1' = "latch"
  /\ UNCHANGED <<host, cfg, foreground_running, current_phase, fifo, halted, locals, owed>>

RaiseLatch ==
  /\ c1 = "latch"
  /\ fault' = [fault EXCEPT !.triggered = TRUE]
  /\ c1' = cause.then
  /\ cause' = NoCause
  /\ UNCHANGED <<host, cfg, foreground_running, current_phase, fifo, halted, cycles, event,
                 emit, owed>>

\* Leaving for Phase 4 on a latch that Core 0 set: SIGINT records cycle 0, and
\* Core 1 fills in where it stopped.
FillIn ==
  /\ fault' = IF fault.cycle = 0 THEN [fault EXCEPT !.cycle = cycles] ELSE fault
  /\ c1' = "phase4"

Boot ==
  /\ c1 = "boot"
  /\ foreground_running' = TRUE
  /\ c1' = "phase1"
  /\ UNCHANGED <<host, cfg, current_phase, fault, fifo, halted, locals, owed>>

EnterPhase1 ==
  /\ c1 = "phase1"
  /\ current_phase' = 1
  /\ c1' = "await_vector"
  /\ UNCHANGED <<host, cfg, foreground_running, fault, fifo, halted, locals, owed>>

\* Phase 1: until Core 0 releases the CPU its cycles are served and not
\* counted; then the reset vector is fetched, which takes a CPU that is not
\* halted, or the watchdog of 100000 cycles bites, which takes longer than Core 0
\* needs from cpu_started to HaltOff.
AwaitVector ==
  /\ c1 = "await_vector"
  /\ \/ /\ fault.triggered
        /\ c1' = "phase4"
        /\ UNCHANGED <<cycles, cause>>
     \/ /\ ~fault.triggered /\ cpu_started /\ ~halted
        /\ cycles' = 2
        /\ c1' = "phase2"
        /\ UNCHANGED cause
     \/ /\ ~fault.triggered /\ cpu_started /\ ~halted
        /\ Raise("ZERO_VECTOR", 0, "watchdog")
        /\ UNCHANGED cycles
  /\ UNCHANGED <<host, cfg, foreground_running, current_phase, fault, fifo, halted, event,
                 emit, owed>>

Watchdog ==
  /\ c1 = "watchdog"
  /\ halted' = TRUE
  /\ c1' = "phase4"
  /\ UNCHANGED <<host, cfg, foreground_running, current_phase, fault, fifo, locals, owed>>

EnterPhase2 ==
  /\ c1 = "phase2"
  /\ current_phase' = 2
  /\ c1' = IF cfg.trace /\ cycles >= cfg.trigger THEN "phase3" ELSE "group"
  /\ UNCHANGED <<host, cfg, foreground_running, fault, fifo, halted, locals, owed>>

\* On every way to Phase 3 the trigger watchpoint leaves the chain.
EnterPhase3 ==
  /\ c1 = "phase3"
  /\ cfg' = [cfg EXCEPT !.watch = @ \ {"trigger"}]
  /\ current_phase' = 3
  /\ c1' = "group"
  /\ event' = "plain" /\ emit' = FALSE
  /\ UNCHANGED <<host, foreground_running, fault, fifo, halted, cycles, cause, owed>>

\* The top of a group of cycles.
Group ==
  /\ c1 = "group"
  /\ \/ fault.triggered /\ FillIn /\ UNCHANGED cause
     \/ /\ ~fault.triggered /\ cfg.timed
        /\ Raise("MAX_TIME", cycles, "phase4")
        /\ UNCHANGED fault
     \/ /\ ~fault.triggered
        /\ c1' = "cycle"
        /\ UNCHANGED <<fault, cause>>
  /\ UNCHANGED <<host, cfg, foreground_running, current_phase, fifo, halted, cycles, event,
                 emit, owed>>

\* Phase 2 hands over in time for Phase 3 to trace the trigger cycle.
TriggerCycle == current_phase = 2 /\ cfg.trace /\ cycles + 1 >= cfg.trigger

ReachTrigger ==
  /\ c1 = "cycle"
  /\ TriggerCycle
  /\ c1' = "phase3"
  /\ UNCHANGED <<host, cfg, foreground_running, current_phase, fault, fifo, halted, locals,
                 owed>>

\* One bus cycle of Phase 2 or 3, up to the watchpoints.  A red-page access
\* ends the cycle at once; a zero vector is recorded and the cycle goes on; BRA
\* to itself is looked at before the watchpoints in Phase 2, after the trace in
\* Phase 3.
BusCycle ==
  /\ c1 = "cycle"
  /\ ~TriggerCycle
  /\ cycles < CycleBound
  /\ cycles' = cycles + 1
  /\ event' \in BusEvents
  /\ emit' \in {FALSE, cfg.trace /\ current_phase = 3}
  /\ owed' = IF emit' THEN Append(owed, cycles') ELSE owed
  /\ CASE event' = "red"  -> Raise("RED_PAGE", cycles', "phase4")
       [] event' = "zero" -> Raise("ZERO_VECTOR", cycles', "watch")
       [] event' = "bra" /\ current_phase = 2 -> Raise("BRA_SELF", cycles', "phase4")
       [] OTHER -> c1' = "watch" /\ UNCHANGED cause
  /\ UNCHANGED <<host, cfg, foreground_running, current_phase, fault, fifo, halted>>

\* The watchpoint hook.  Log traces the cycle whatever the flags say; trigger,
\* which is in the chain in Phase 2 only, makes it the trigger cycle and traces
\* it if the flags select it; stop is a fault.  A fault latched by the end of
\* the hook ends the cycle here, without filling in the fault cycle.
Watch ==
  /\ c1 = "watch"
  /\ \/ /\ event \in cfg.watch \cap {"log"}
        /\ emit' = TRUE
        /\ owed' = IF emit THEN owed ELSE Append(owed, cycles)
        /\ c1' = "trace"
        /\ UNCHANGED <<cause, cfg>>
     \/ /\ event \in cfg.watch \cap {"stop"}
        /\ Raise("MAX_WATCHPOINT", cycles, "phase4")
        /\ UNCHANGED <<emit, cfg, owed>>
     \/ /\ event \in cfg.watch \cap {"trigger"} /\ ~fault.triggered
        /\ cfg' = [cfg EXCEPT !.trigger = cycles]
        /\ emit' \in {FALSE, cfg.trace}
        /\ owed' = IF emit' THEN Append(owed, cycles) ELSE owed
        /\ c1' = "trace"
        /\ UNCHANGED cause
     \/ /\ cfg.watch # {} /\ event \notin cfg.watch \cap {"log", "stop"} /\ fault.triggered
        /\ c1' = "phase4"
        /\ UNCHANGED <<cause, emit, cfg, owed>>
     \/ /\ event \notin cfg.watch /\ (cfg.watch = {} \/ ~fault.triggered)
        /\ c1' = IF current_phase = 2 THEN "checks" ELSE "trace"
        /\ UNCHANGED <<cause, emit, cfg, owed>>
  /\ UNCHANGED <<host, foreground_running, current_phase, fault, fifo, halted, cycles, event>>

Logged == event \in cfg.watch \cap {"log"}

AfterTrace == CASE Logged -> "logged"
                [] ~Logged /\ current_phase = 2 -> "phase3"
                [] OTHER -> "checks"

\* Fault: push finds room where there is none.
TraceOverfull ==
  /\ c1 = "trace"
  /\ emit
  /\ Len(fifo) <= Capacity
  /\ fifo' = Append(fifo, cycles)
  /\ c1' = AfterTrace
  /\ UNCHANGED <<host, cfg, foreground_running, current_phase, fault, halted, locals, owed>>

\* Fault: the result of push is ignored, as it is for console characters.
TraceUnchecked ==
  /\ c1 = "trace"
  /\ fifo' = IF emit /\ Len(fifo) < Capacity THEN Append(fifo, cycles) ELSE fifo
  /\ c1' = AfterTrace
  /\ UNCHANGED <<host, cfg, foreground_running, current_phase, fault, halted, locals, owed>>

\* push of the record: when the FIFO is full, try again unless a fault is
\* latched; then the record is dropped.
Trace ==
  /\ c1 = "trace"
  /\ \/ /\ ~emit
        /\ c1' = AfterTrace
        /\ UNCHANGED fifo
     \/ /\ emit /\ Len(fifo) < Capacity
        /\ fifo' = Append(fifo, cycles)
        /\ c1' = AfterTrace
     \/ /\ emit /\ Len(fifo) = Capacity
        /\ c1' = "full"
        /\ UNCHANGED fifo
  /\ UNCHANGED <<host, cfg, foreground_running, current_phase, fault, halted, locals, owed>>

TraceFull ==
  /\ c1 = "full"
  /\ c1' = IF fault.triggered THEN AfterTrace ELSE "trace"
  /\ UNCHANGED <<host, cfg, foreground_running, current_phase, fault, fifo, halted, locals,
                 owed>>

LogEnd ==
  /\ c1 = "logged"
  /\ c1' = IF fault.triggered THEN "phase4" ELSE "checks"
  /\ UNCHANGED <<host, cfg, foreground_running, current_phase, fault, fifo, halted, locals,
                 owed>>

\* Fault: the limit is compared for equality, but a cycle can skip the test.
ChecksEqual ==
  /\ c1 = "checks"
  /\ LET bra == event = "bra" /\ current_phase = 3
     IN \/ bra /\ Raise("BRA_SELF", cycles, "phase4")
        \/ ~bra /\ cycles = cfg.max /\ Raise("MAX_CYCLES", cycles, "phase4")
        \/ ~bra /\ cycles # cfg.max /\ c1' = "last" /\ UNCHANGED cause
  /\ UNCHANGED <<host, cfg, foreground_running, current_phase, fault, fifo, halted, cycles,
                 event, emit, owed>>

\* BRA to itself in Phase 3, and the cycle limit.
Checks ==
  /\ c1 = "checks"
  /\ LET bra   == event = "bra" /\ current_phase = 3
         limit == cfg.max > 0 /\ cycles >= cfg.max
     IN \/ bra /\ Raise("BRA_SELF", cycles, "phase4")
        \/ ~bra /\ limit /\ Raise("MAX_CYCLES", cycles, "phase4")
        \/ ~bra /\ ~limit /\ c1' = "last" /\ UNCHANGED cause
  /\ UNCHANGED <<host, cfg, foreground_running, current_phase, fault, fifo, halted, cycles,
                 event, emit, owed>>

LastCheck ==
  /\ c1 = "last"
  /\ \/ fault.triggered /\ FillIn
     \/ ~fault.triggered /\ c1' \in {"cycle", "group"} /\ UNCHANGED fault
  /\ event' = "plain" /\ emit' = FALSE
  /\ UNCHANGED <<host, cfg, foreground_running, current_phase, fifo, halted, cycles, cause,
                 owed>>

\* Phase 4 captures the registers, or gives up after 256 cycles, and halts.
EnterPhase4 ==
  /\ c1 = "phase4"
  /\ current_phase' = 4
  /\ c1' = "capture"
  /\ event' = "plain" /\ emit' = FALSE
  /\ UNCHANGED <<host, cfg, foreground_running, fault, fifo, halted, cycles, cause, owed>>

\* Fault: the fallback HaltOn is forgotten.
CaptureRunning ==
  /\ c1 = "capture"
  /\ c1' = "leave"
  /\ UNCHANGED <<host, cfg, foreground_running, current_phase, fault, fifo, halted, locals, owed>>

Capture ==
  /\ c1 = "capture"
  /\ halted' = TRUE
  /\ c1' = "leave"
  /\ UNCHANGED <<host, cfg, foreground_running, current_phase, fault, fifo, locals, owed>>

LeavePhase4 ==
  /\ c1 = "leave"
  /\ current_phase' = 0
  /\ c1' = "return"
  /\ UNCHANGED <<host, cfg, foreground_running, fault, fifo, halted, locals, owed>>

Return ==
  /\ c1 = "return"
  /\ foreground_running' = FALSE
  /\ c1' = "off"
  /\ UNCHANGED <<host, cfg, current_phase, fault, fifo, halted, locals, owed>>

-----------------------------------------------------------------------------
(* Core 0: the main loop.                                                  *)

\* Core 1 and everything but what an action of the main loop says.
engine == <<c1, locals>>
shared == <<fw, cfg, flags, fault, fifo, halted>>
seen   == <<owed, interrupted, header>>

\* A packet of the host reaches the queue; pump_usb_rx fills it at the top of
\* every iteration only.  The Tether waits for the answer to each RPC, and
\* starts a session once: after it has seen the restart and configured it.
\* Other hosts may start in any state, but they too configure only a firmware
\* that waits for it.
HostMay(p) ==
  p.kind \in {"config", "start"} =>
    /\ p.kind = "config" => fw = "WAIT_CONFIG"
    /\ TetherHost => /\ fw = "WAIT_CONFIG"
                     /\ p.kind = "start" => cfg # NoConfig
                     /\ \A i \in 1 .. Len(rx) : rx[i].kind = "sigint"

HostSend ==
  /\ c0 = "top"
  /\ Len(rx) < RxMax
  /\ \E p \in Packets : HostMay(p) /\ rx' = Append(rx, p)
  /\ UNCHANGED <<shared, c0, loop, drained, engine, seen>>

\* One branch of the main loop is chosen per iteration.
Dispatch ==
  /\ c0 = "top"
  /\ loop' = fw
  /\ c0' = CASE fw = "RUNNING" -> "drain"
             [] fw = "FAULT"   -> "await_phase4"
             [] OTHER          -> "packets"
  /\ UNCHANGED <<shared, rx, drained, engine, seen>>

\* A record is sent in a C_TRACE_CYCLES packet.
SendRecord ==
  /\ fifo # << >>
  /\ fifo' = Tail(fifo)
  /\ owed' = IF owed # << >> /\ Head(owed) = Head(fifo) THEN Tail(owed) ELSE owed

\* STATE_RUNNING: send trace records until none is left or the iteration has
\* sent its share.
Drain ==
  /\ c0 = "drain"
  /\ drained < DrainMax
  /\ SendRecord
  /\ drained' = drained + 1
  /\ UNCHANGED <<fw, cfg, flags, fault, halted, c0, loop, rx, engine, interrupted, header>>

DrainDone ==
  /\ c0 = "drain"
  /\ fifo = << >> \/ drained = DrainMax
  /\ drained' = 0
  /\ c0' = "packets"
  /\ UNCHANGED <<shared, loop, rx, engine, seen>>

\* Taking the next packet of an iteration.
Take(kind) ==
  /\ c0 = "packets"
  /\ rx # << >>
  /\ Head(rx).kind = kind
  /\ rx' = Tail(rx)
  /\ UNCHANGED <<loop, drained>>

\* RUNNING looks for a fault before the next iteration, the others do not.
IterationEnd == IF loop = "RUNNING" THEN "check" ELSE "top"

NoMorePackets ==
  /\ c0 = "packets"
  /\ rx = << >>
  /\ c0' = IterationEnd
  /\ UNCHANGED <<shared, loop, rx, drained, engine, seen>>

ResetEngine(place) ==
  /\ c1' = place
  /\ cycles' = 0 /\ event' = "plain" /\ emit' = FALSE /\ cause' = NoCause
  /\ owed' = << >> /\ interrupted' = FALSE /\ header' = NoHeader

\* Fault: the latch of the last session survives.
RestartLatched ==
  /\ Take("restart")
  /\ ResetEngine("off")
  /\ fw' = "WAIT_CONFIG" /\ cfg' = NoConfig
  /\ cpu_started' = FALSE /\ foreground_running' = FALSE /\ current_phase' = 0
  /\ fifo' = << >> /\ halted' = TRUE
  /\ c0' = IterationEnd
  /\ UNCHANGED fault

\* Fault: the state of the main loop is left alone.
RestartInPlace ==
  /\ Take("restart")
  /\ ResetEngine("off")
  /\ cfg' = NoConfig
  /\ cpu_started' = FALSE /\ foreground_running' = FALSE /\ current_phase' = 0
  /\ fault' = NoFault /\ fifo' = << >> /\ halted' = TRUE
  /\ c0' = IterationEnd
  /\ UNCHANGED fw

\* T_RESTART_NOW_PLEASE: restart_to_restarted_state resets Core 1 wherever it
\* is, and then everything else; the rest of the queue waits.
Restart ==
  /\ Take("restart")
  /\ ResetEngine("off")
  /\ fw' = "WAIT_CONFIG"
  /\ cfg' = NoConfig
  /\ cpu_started' = FALSE
  /\ foreground_running' = FALSE
  /\ current_phase' = 0
  /\ fault' = NoFault
  /\ fifo' = << >>
  /\ halted' = TRUE
  /\ c0' = IterationEnd

\* The config RPC.
Config ==
  /\ Take("config")
  /\ cfg' = Head(rx).cfg
  /\ UNCHANGED <<fw, flags, fault, fifo, halted, c0, engine, seen>>

\* The start RPC: it answers, clears the FIFO, then resets and launches Core 1,
\* waits for it to run, and releases the CPU.
Start ==
  /\ Take("start")
  /\ c0' = "clear"
  /\ UNCHANGED <<shared, engine, seen>>

ClearFifo ==
  /\ c0 = "clear"
  /\ fifo' = << >>
  /\ halted' = TRUE
  /\ c0' = "launch"
  /\ UNCHANGED <<fw, cfg, flags, fault, loop, rx, drained, engine, seen>>

Launch ==
  /\ c0 = "launch"
  /\ cpu_started' = FALSE
  /\ foreground_running' = FALSE
  /\ ResetEngine("boot")
  /\ c0' = "await_foreground"
  /\ UNCHANGED <<fw, cfg, current_phase, fault, fifo, halted, loop, rx, drained>>

AwaitForeground ==
  /\ c0 = "await_foreground"
  /\ foreground_running
  /\ c0' = "release"
  /\ UNCHANGED <<shared, loop, rx, drained, engine, seen>>

Release ==
  /\ c0 = "release"
  /\ cpu_started' = TRUE
  /\ c0' = "run"
  /\ UNCHANGED <<fw, cfg, foreground_running, current_phase, fault, fifo, halted, loop, rx,
                 drained, engine, seen>>

Run ==
  /\ c0 = "run"
  /\ halted' = FALSE
  /\ fw' = "RUNNING"
  /\ c0' = "packets"
  /\ UNCHANGED <<cfg, flags, fault, fifo, loop, rx, drained, engine, seen>>

\* T_SIGINT: heard in RUNNING, and only while Core 1 is seen in Phase 2 or 3.
\* The stores that follow are not guarded by that test any more.
Sigint ==
  /\ Take("sigint")
  /\ c0' = IF loop = "RUNNING" /\ cpu_started /\ current_phase \in {2, 3}
             THEN "sigint_reason" ELSE "packets"
  /\ UNCHANGED <<shared, engine, seen>>

SigintReason ==
  /\ c0 = "sigint_reason"
  /\ fault' = [fault EXCEPT !.reason = "SIGINT"]
  /\ interrupted' = TRUE
  /\ c0' = "sigint_cycle"
  /\ UNCHANGED <<fw, cfg, flags, fifo, halted, loop, rx, drained, engine, owed, header>>

SigintCycle ==
  /\ c0 = "sigint_cycle"
  /\ fault' = [fault EXCEPT !.cycle = 0]
  /\ c0' = "sigint_latch"
  /\ UNCHANGED <<fw, cfg, flags, fifo, halted, loop, rx, drained, engine, seen>>

SigintLatch ==
  /\ c0 = "sigint_latch"
  /\ fault' = [fault EXCEPT !.triggered = TRUE]
  /\ c0' = "packets"
  /\ UNCHANGED <<fw, cfg, flags, fifo, halted, loop, rx, drained, engine, seen>>

\* Fault: Core 0 looks for Phase 4 instead of the latch.
CheckFaultPhase ==
  /\ c0 = "check"
  /\ fw' = IF current_phase = 4 THEN "FAULT" ELSE fw
  /\ c0' = "top"
  /\ UNCHANGED <<cfg, flags, fault, fifo, halted, loop, rx, drained, engine, seen>>

CheckFault ==
  /\ c0 = "check"
  /\ fw' = IF fault.triggered THEN "FAULT" ELSE fw
  /\ c0' = "top"
  /\ UNCHANGED <<cfg, flags, fault, fifo, halted, loop, rx, drained, engine, seen>>

\* Fault: the dump does not wait for Phase 4.
AwaitNothing ==
  /\ c0 = "await_phase4"
  /\ c0' = "dump"
  /\ UNCHANGED <<shared, loop, rx, drained, engine, seen>>

\* STATE_FAULT: wait for Phase 4 to end.  The wait gives up after 50 ms, a
\* hundred times what the 256 cycles of Phase 4 take; that is not modelled.
AwaitPhase4 ==
  /\ c0 = "await_phase4"
  /\ current_phase = 0
  /\ c0' = "dump"
  /\ UNCHANGED <<shared, loop, rx, drained, engine, seen>>

\* transmit_core_dump: first what is left of the trace, then the fault record,
\* then the memory.
DumpTrace ==
  /\ c0 = "dump"
  /\ SendRecord
  /\ UNCHANGED <<fw, cfg, flags, fault, halted, core0, engine, interrupted, header>>

\* Fault: the fault record is sent before the rest of the trace.
DumpHeaderFirst ==
  /\ c0 = "dump"
  /\ header' = [reason |-> fault.reason, cycle |-> fault.cycle]
  /\ c0' = "core"
  /\ UNCHANGED <<shared, loop, rx, drained, engine, owed, interrupted>>

DumpHeader ==
  /\ c0 = "dump"
  /\ fifo = << >>
  /\ header' = [reason |-> fault.reason, cycle |-> fault.cycle]
  /\ c0' = "core"
  /\ UNCHANGED <<shared, loop, rx, drained, engine, owed, interrupted>>

DumpCore ==
  /\ c0 = "core"
  /\ fw' = "HALTED"
  /\ c0' = "top"
  /\ UNCHANGED <<cfg, flags, fault, fifo, halted, loop, rx, drained, engine, seen>>

-----------------------------------------------------------------------------
\* The state main enters its loop in, after its first restart.
Init ==
  /\ fw = "WAIT_CONFIG" /\ cfg = NoConfig
  /\ cpu_started = FALSE /\ foreground_running = FALSE /\ current_phase = 0
  /\ fault = NoFault /\ fifo = << >> /\ halted = TRUE
  /\ c0 = "top" /\ loop = "WAIT_CONFIG" /\ rx = << >> /\ drained = 0
  /\ c1 = "off" /\ cycles = 0 /\ event = "plain" /\ emit = FALSE /\ cause = NoCause
  /\ owed = << >> /\ interrupted = FALSE /\ header = NoHeader

Core0 ==
  \/ Dispatch \/ Drain \/ DrainDone \/ NoMorePackets \/ CheckFault
  \/ Restart \/ Config
  \/ Start \/ ClearFifo \/ Launch \/ AwaitForeground \/ Release \/ Run
  \/ Sigint \/ SigintReason \/ SigintCycle \/ SigintLatch
  \/ AwaitPhase4 \/ DumpTrace \/ DumpHeader \/ DumpCore

Core1 ==
  \/ Boot \/ EnterPhase1 \/ AwaitVector \/ Watchdog \/ EnterPhase2 \/ EnterPhase3
  \/ Group \/ ReachTrigger \/ BusCycle \/ Watch \/ Trace \/ TraceFull \/ LogEnd
  \/ Checks \/ LastCheck \/ RaiseReason \/ RaiseCycle \/ RaiseLatch
  \/ EnterPhase4 \/ Capture \/ LeavePhase4 \/ Return

Next == HostSend \/ Core0 \/ Core1

Spec == Init /\ [][Next]_vars

\* Each core runs its loop without ever blocking on the other; the 6309 is
\* clocked by Core 1 and so fetches its reset vector or trips the watchdog.
FairSpec == Spec /\ WF_vars(Core0) /\ WF_vars(Core1)

-----------------------------------------------------------------------------
(* Properties.                                                             *)

C0Places == {"top", "drain", "packets", "check", "clear", "launch", "await_foreground",
             "release", "run", "sigint_reason", "sigint_cycle", "sigint_latch",
             "await_phase4", "dump", "core"}
C1Places == {"off", "boot", "phase1", "await_vector", "watchdog", "phase2", "phase3", "group",
             "cycle", "watch", "trace", "full", "logged", "checks", "last", "reason",
             "record", "latch", "phase4", "capture", "leave", "return"}
FwStates == {"WAIT_CONFIG", "RUNNING", "FAULT", "HALTED"}

FaultType  == [triggered : BOOLEAN, reason : Reasons, cycle : Nat]
CauseType  == [reason : Reasons, cycle : Nat, then : {"phase4", "watch", "watchdog"}]
HeaderType == [reason : Reasons, cycle : Nat]

TypeOK ==
  /\ fw \in FwStates /\ loop \in FwStates
  /\ cfg \in ConfigType
  /\ cpu_started \in BOOLEAN /\ foreground_running \in BOOLEAN
  /\ current_phase \in 0 .. 4
  /\ fault \in FaultType
  /\ fifo \in Seq(Nat) /\ Len(fifo) <= Capacity
  /\ halted \in BOOLEAN
  /\ c0 \in C0Places /\ rx \in Seq(Packets) /\ Len(rx) <= RxMax /\ drained \in 0 .. DrainMax
  /\ c1 \in C1Places /\ cycles \in Nat /\ event \in AllEvents /\ emit \in BOOLEAN
  /\ cause \in CauseType
  /\ owed \in Seq(Nat) /\ interrupted \in BOOLEAN
  /\ header \in HeaderType

\* The trace loses at most its last record: the FIFO holds, in order, the
\* cycles that were to be traced and were not sent yet, except possibly the one
\* in which Core 1 stopped; when Core 1 begins another cycle none is missing.
TraceComplete ==
  /\ IsPrefix(fifo, owed)
  /\ Len(owed) <= Len(fifo) + 1
  /\ c1 = "cycle" => fifo = owed

\* While Core 0 sends the rest of the trace, the fault record and the memory,
\* nobody changes them: Core 1 is past Phase 4 and the CPU is halted.
DumpQuiescent ==
  c0 \in {"dump", "core"} => c1 \in {"return", "off"} /\ halted /\ fault.triggered

\* Every trace record is sent before the C_FAULT packet, and unless SIGINT came
\* in between, that packet tells a cause and the cycle Core 1 stopped at (0 when
\* the watchdog stopped it before any cycle).
HeaderExact ==
  header # NoHeader =>
    /\ fifo = << >>
    /\ ~interrupted => header.reason # "none" /\ header.cycle = cycles

\* The CPU never runs without its bus engine: when HALT is released, Core 1 is
\* in its loop.
ServedWhileRunning == ~halted => c1 # "off"

\* A latched fault is reported: Core 1 leaves whatever it is doing, a push into
\* a full FIFO included, and Core 0 sends the dump, unless the host restarts.
FaultReported == fault.triggered ~> (fw = "HALTED" \/ ~fault.triggered)

\* The start RPC terminates: Core 0 sees Core 1 running.
StartReturns == (c0 = "await_foreground") ~> (c0 # "await_foreground")

\* A restart request is obeyed, whatever the firmware is doing.
RestartObeyed == (\E i \in 1 .. Len(rx) : rx[i].kind = "restart") ~> (fw = "WAIT_CONFIG")

\* A session with a cycle limit ends by itself, however small the FIFO is.
LimitEnds == (fw = "RUNNING" /\ cfg.max > 0) ~> (fw # "RUNNING")

\* What the documentation promises and the code does not do:
\* "Stop after exactly 50,000 cycles" (docs/spec.md, --stop=c:50k): a run that
\* ends by its cycle limit, and not by SIGINT, ends at it.
StopsExactly == header.reason = "MAX_CYCLES" /\ ~interrupted => header.cycle = cfg.max
=============================================================================
