---------------------------- MODULE Watchpoints ----------------------------
(***************************************************************************)
(* The watchpoint chain of TurboLab and the tracing it starts              *)
(* (firmware/main.cpp).  The RPC config builds, from a fixed pool, a       *)
(* linked list of nodes: the logging watchpoints, then the trigger, then   *)
(* the stop.  Core 1 walks the list in every bus cycle of Phase 2 (tracing *)
(* has not begun) and Phase 3 (it has); a node whose address and kind      *)
(* match counts down, and fires at zero.  The trigger is taken out of the  *)
(* list when tracing begins.                                               *)
(*                                                                         *)
(* Core 0 may latch a SIGINT into fault_triggered at any time, so that a   *)
(* walk takes one step for each node.  A bus cycle is its address and its  *)
(* kind; the data, the flags of a trace record and the record's way to     *)
(* Core 0 (CrossCoreFifo) are left out.  KIND_OPCODE_CONT is a read here.  *)
(***************************************************************************)
EXTENDS Integers, Sequences

CONSTANTS
  Addr,        \* the addresses of the bus
  Request,     \* the config requests the Tether sends: see RequestAssumption
  Pool,        \* MAX_WP_POOL, 32 in the firmware
  Counts,      \* how many values count has, 2^32; the largest marks "fired"
  MaxCycles    \* bound: bus cycles of a session

Never == MaxCycles + 2      \* UINT64_MAX, which no cycle reaches
Kind  == {"idle", "fic", "read", "write"}
Point == [type : {"none", "r", "w", "x", "any"}, addr : Addr, count : 0 .. Counts - 1]

ASSUME AddrAssumption == Addr # {}
ASSUME BoundsAssumption ==
  Pool \in Nat /\ Pool >= 1 /\ Counts \in Nat /\ Counts >= 2 /\ MaxCycles \in Nat
\* As watchpoint.go and main.go build them: trace_flags as the kinds it
\* selects, trigger_cycle, and the three sorts of watchpoints.
ASSUME RequestAssumption ==
  \A r \in Request :
    /\ r.watches \in Seq(Point)
    /\ r.trigger \in Point
    /\ r.stop \in Point
    /\ r.traced \subseteq Kind
    /\ r.from \in 0 .. MaxCycles

VARIABLES
  pool, used,            \* wp_pool, wp_pool_used
  head, hook,            \* wp_chain_head (0 is nullptr), wp_hook is set
  trigNode, trigPrev,    \* wp_trigger_node, wp_trigger_prev
  triggerCycle, traced,  \* trigger_cycle; the kinds trace_flags asks for
  phase,                 \* 0 while no session runs, else the phase of Core 1
  fault,                 \* what fault_triggered was latched for, or "none"
  cycles, addr, kind,    \* the bus cycle under way or last completed
  pc, node,              \* where Core 1 is in it; the node it looks at
  logged, hit,           \* cycle_logged_by_wp, trigger_wp_hit
  seen,                  \* history: the cycles of this session that match
  records                \* history: the records this cycle has emitted

chain   == <<pool, used, head, hook, trigNode, trigPrev>>
config  == <<triggerCycle, traced>>
bus     == <<cycles, addr, kind, seen>>
vars    == <<pool, used, head, hook, trigNode, trigPrev, triggerCycle, traced, phase, fault,
             cycles, addr, kind, pc, node, logged, hit, seen, records>>

\* wp_check_read, _write, _exec and _any, without the count.
Matches(w, a, k) ==
  /\ a = w.addr
  /\ CASE w.type = "r" -> k \in {"fic", "read"}
       [] w.type = "w" -> k = "write"
       [] w.type = "x" -> k = "fic"
       [] OTHER        -> k # "idle"

-----------------------------------------------------------------------------
(* The RPC config.                                                         *)

\* asked is history: the count the request gave.
Wish(p, does) ==
  [type |-> p.type, addr |-> p.addr, count |-> p.count, asked |-> p.count, action |-> does]

\* Type 0 or count 0 asks for no trigger, and for no stop.
Asked(p) == p.type # "none" /\ p.count > 0

Optional(p, does) == IF Asked(p) THEN <<Wish(p, does)>> ELSE << >>

\* The nodes asked for, in the order in which they are appended.
Wanted(r) ==
  [i \in 1 .. Len(r.watches) |-> Wish(r.watches[i], "log")]
    \o Optional(r.trigger, "trigger") \o Optional(r.stop, "stop")

\* Fault: the pool is never full.
FittingAll(r) == Len(Wanted(r))

\* append_wp returns nullptr when the pool is used up: the node is dropped.
Fitting(r) == IF Len(Wanted(r)) < Pool THEN Len(Wanted(r)) ELSE Pool

\* The node of index i, linked to the one appended after it.
Linked(r, i) ==
  LET w == Wanted(r)[i]
  IN  [type |-> w.type, addr |-> w.addr, count |-> w.count, asked |-> w.asked,
       action |-> w.action, next |-> IF i < Fitting(r) THEN i + 1 ELSE 0]

Configure(r) ==
  /\ phase = 0
  /\ used' = Fitting(r)
  /\ pool' = [i \in 1 .. Pool |-> IF i <= Fitting(r) THEN Linked(r, i) ELSE pool[i]]
  /\ head' = IF Fitting(r) = 0 THEN 0 ELSE 1
  /\ hook' = (head' # 0)
  /\ trigNode' = IF Asked(r.trigger) /\ Len(r.watches) < Pool THEN Len(r.watches) + 1 ELSE 0
  /\ trigPrev' = IF ~Asked(r.trigger) THEN 0
                 ELSE IF Len(r.watches) < Pool THEN Len(r.watches) ELSE Pool
  /\ triggerCycle' = IF Asked(r.trigger) THEN Never ELSE r.from
  /\ traced' = r.traced
  /\ UNCHANGED <<phase, fault, bus, pc, node, logged, hit, records>>

\* Fault: the list is cut at its head, whatever comes before the trigger.
DetachHead ==
  /\ IF trigNode = 0
     THEN UNCHANGED chain
     ELSE /\ head' = pool[trigNode].next
          /\ hook' = (head' # 0)
          /\ trigNode' = 0
          /\ UNCHANGED <<pool, used, trigPrev>>

\* wp_detach_trigger().
Detach ==
  IF trigNode = 0
  THEN UNCHANGED chain
  ELSE /\ IF trigPrev # 0
          THEN /\ pool' = [pool EXCEPT ![trigPrev].next = pool[trigNode].next]
               /\ UNCHANGED head
          ELSE /\ head' = pool[trigNode].next
               /\ UNCHANGED pool
       /\ trigNode' = 0
       /\ hook' = IF head' = 0 THEN FALSE ELSE hook
       /\ UNCHANGED <<used, trigPrev>>

\* start, Phase 1 and the entry of Phase 2.  cycles counts from here; the two
\* cycles of the reset vector are left out of it.
Start ==
  /\ phase = 0
  /\ cycles' = 0
  /\ seen' = [i \in 1 .. Pool |-> 0]
  /\ IF traced # {} /\ triggerCycle = 0
     THEN phase' = 3 /\ Detach
     ELSE phase' = 2 /\ UNCHANGED chain
  /\ pc' = "next" /\ node' = 0 /\ logged' = FALSE /\ hit' = FALSE /\ records' = 0
  /\ UNCHANGED <<config, fault, addr, kind>>

\* restart_to_restarted_state(), at any time.  Core 1 is reset where it is.
Restart ==
  /\ phase' = 0 /\ fault' = "none"
  /\ used' = 0 /\ head' = 0 /\ hook' = FALSE /\ trigNode' = 0 /\ trigPrev' = 0
  /\ triggerCycle' = 0 /\ traced' = {}
  /\ pc' = "next" /\ node' = 0 /\ cycles' = 0 /\ records' = 0
  /\ UNCHANGED <<pool, addr, kind, logged, hit, seen>>

\* T_SIGINT, taken by Core 0 while Core 1 runs: it overwrites whatever
\* reason is latched.
Sigint ==
  /\ phase \in {2, 3}
  /\ fault' = "sigint"
  /\ UNCHANGED <<chain, config, phase, bus, pc, node, logged, hit, records>>

-----------------------------------------------------------------------------
(* Core 1: one bus cycle.                                                  *)

Running == phase \in {2, 3}

\* Phase 2 looks at trigger_cycle before each cycle.
TracingDue == phase = 2 /\ traced # {} /\ cycles + 1 >= triggerCycle

BeginTracing ==
  /\ pc = "next" /\ TracingDue
  /\ phase' = 3
  /\ Detach
  /\ UNCHANGED <<config, fault, bus, pc, node, logged, hit, records>>

Cycle(a, k) ==
  /\ pc = "next" /\ Running /\ ~TracingDue
  /\ cycles < MaxCycles
  /\ cycles' = cycles + 1 /\ addr' = a /\ kind' = k
  /\ seen' = [i \in 1 .. Pool |-> IF i <= used /\ Matches(pool[i], a, k) THEN seen[i] + 1 ELSE seen[i]]
  /\ records' = 0
  /\ logged' = IF hook \/ phase = 3 THEN FALSE ELSE logged
  /\ hit' = IF hook /\ phase = 2 THEN FALSE ELSE hit
  /\ IF hook
     THEN pc' = "walk" /\ node' = head
     ELSE pc' = (IF phase = 3 THEN "trace" ELSE "end") /\ node' = node
  /\ UNCHANGED <<chain, config, phase, fault>>

\* A record is pushed; with a fault latched a full ring is not waited for.
Emit == records' = records + 1 \/ (fault # "none" /\ records' = records)

\* Fault: 0 and not 0xFFFFFFFF marks a watchpoint that has fired.
CountedOnce(c) == IF c > 0 THEN c - 1 ELSE 0

\* wp_match_count: what it leaves in count.
Counted(c) == IF c = 0 THEN 0 ELSE IF c = 1 THEN Counts - 1 ELSE c - 1

\* Fault: it is the match after the last that fires.
FiresLate(c) == c = 0 \/ c = Counts - 1

\* ... and whether it says yes.
Fires(c) == c \in {0, 1}

\* run_watchpoint_chain looks at one node.
Visit ==
  /\ pc = "walk" /\ node # 0
  /\ LET w == pool[node]
         matched == Matches(w, addr, kind)
         fires == matched /\ Fires(w.count)
     IN  /\ pool' = IF matched THEN [pool EXCEPT ![node].count = Counted(w.count)] ELSE pool
         /\ IF fires /\ w.action = "log" /\ ~logged
            THEN logged' = TRUE /\ Emit
            ELSE UNCHANGED <<logged, records>>
         /\ hit' = (hit \/ (fires /\ w.action = "trigger"))
         /\ fault' = IF fires /\ w.action = "stop" THEN "stop" ELSE fault
         /\ node' = IF fires /\ fault' # "none" THEN 0 ELSE w.next
  /\ UNCHANGED <<used, head, hook, trigNode, trigPrev, config, phase, bus, pc>>

\* The walk is over.  A latched fault ends the session ...
WalkFaulted ==
  /\ pc = "walk" /\ node = 0 /\ fault # "none"
  /\ phase' = 4 /\ pc' = "next"
  /\ UNCHANGED <<chain, config, fault, bus, node, logged, hit, records>>

\* Fault: the cycle of the trigger is traced although a watchpoint logged it.
TriggerTwice ==
  /\ pc = "walk" /\ node = 0 /\ fault = "none" /\ phase = 2 /\ hit
  /\ triggerCycle' = cycles
  /\ IF kind \in traced THEN Emit ELSE UNCHANGED records
  /\ Detach
  /\ phase' = 3 /\ pc' = "next"
  /\ UNCHANGED <<traced, fault, bus, node, logged, hit>>

\* ... the trigger begins Phase 3, with this cycle as the first one traced ...
Trigger ==
  /\ pc = "walk" /\ node = 0 /\ fault = "none" /\ phase = 2 /\ hit
  /\ triggerCycle' = cycles
  /\ IF ~logged /\ kind \in traced THEN Emit ELSE UNCHANGED records
  /\ Detach
  /\ phase' = 3 /\ pc' = "next"
  /\ UNCHANGED <<traced, fault, bus, node, logged, hit>>

\* ... and otherwise the cycle goes on.
WalkDone ==
  /\ pc = "walk" /\ node = 0 /\ fault = "none"
  /\ phase = 2 => ~hit
  /\ pc' = IF phase = 3 /\ ~logged THEN "trace" ELSE "end"
  /\ UNCHANGED <<chain, config, phase, fault, bus, node, logged, hit, records>>

\* fg_loop_trace_cycle in Phase 3.
Trace ==
  /\ pc = "trace"
  /\ IF kind \in traced THEN Emit ELSE UNCHANGED records
  /\ pc' = "end"
  /\ UNCHANGED <<chain, config, phase, fault, bus, node, logged, hit>>

\* The limits and the bus faults come last; a latched fault is seen here or at
\* the top of a group.
EndCycle ==
  /\ pc = "end" /\ fault = "none"
  /\ pc' = "next"
  /\ UNCHANGED <<chain, config, phase, fault, bus, node, logged, hit, records>>

Limit ==
  /\ pc = "end"
  /\ fault' = "limit"
  /\ phase' = 4 /\ pc' = "next"
  /\ UNCHANGED <<chain, config, bus, node, logged, hit, records>>

SeeFault ==
  /\ pc \in {"end", "next"} /\ Running /\ fault # "none"
  /\ phase' = 4 /\ pc' = "next"
  /\ UNCHANGED <<chain, config, fault, bus, node, logged, hit, records>>

-----------------------------------------------------------------------------
Init ==
  /\ pool = [i \in 1 .. Pool |-> [type |-> "any", addr |-> CHOOSE a \in Addr : TRUE, count |-> 0,
                                  asked |-> 0, action |-> "log", next |-> 0]]
  /\ used = 0 /\ head = 0 /\ hook = FALSE /\ trigNode = 0 /\ trigPrev = 0
  /\ triggerCycle = 0 /\ traced = {}
  /\ phase = 0 /\ fault = "none"
  /\ cycles = 0 /\ addr = (CHOOSE a \in Addr : TRUE) /\ kind = "idle"
  /\ pc = "next" /\ node = 0 /\ logged = FALSE /\ hit = FALSE
  /\ seen = [i \in 1 .. Pool |-> 0] /\ records = 0

Session == (\E r \in Request : Configure(r)) \/ Start \/ Restart \/ Sigint
Walk    == Visit \/ WalkFaulted \/ Trigger \/ WalkDone
Engine  == (\E a \in Addr, k \in Kind : Cycle(a, k)) \/ BeginTracing \/ Walk \/ Trace \/ EndCycle \/ Limit
             \/ SeeFault

Next == Session \/ Engine

Spec == Init /\ [][Next]_vars

-----------------------------------------------------------------------------
(* Properties.                                                             *)

Node == [type : {"none", "r", "w", "x", "any"}, addr : Addr, count : 0 .. Counts - 1,
         asked : 0 .. Counts - 1, action : {"log", "trigger", "stop"}, next : 0 .. Pool]

TypeOK ==
  /\ pool \in [1 .. Pool -> Node] /\ used \in 0 .. Pool
  /\ head \in 0 .. Pool /\ hook \in BOOLEAN
  /\ trigNode \in 0 .. Pool /\ trigPrev \in 0 .. Pool
  /\ triggerCycle \in 0 .. Never /\ traced \subseteq Kind
  /\ phase \in {0, 2, 3, 4} /\ fault \in {"none", "sigint", "stop", "limit"}
  /\ cycles \in 0 .. MaxCycles /\ addr \in Addr /\ kind \in Kind
  /\ pc \in {"next", "walk", "trace", "end"} /\ node \in 0 .. Pool
  /\ logged \in BOOLEAN /\ hit \in BOOLEAN
  /\ seen \in [1 .. Pool -> Nat] /\ records \in Nat

\* The nodes that should be in the list: those the pool had room for, less
\* the trigger once it is detached.
Live == {i \in 1 .. used : pool[i].action = "trigger" => trigNode = i}

\* j is the first live node from i on, or 0 if there is none.
FirstFrom(i, j) ==
  IF \E k \in Live : k >= i
  THEN j \in Live /\ j >= i /\ \A k \in Live : k >= i => k >= j
  ELSE j = 0

\* The list is whole: from the head it goes through every live node, in the
\* order logs, trigger, stop, and ends; and wp_hook is set exactly when there
\* is one.  Taking the trigger out, from the front, the middle or the end,
\* loses no other watchpoint, and neither does a second config, a pool that
\* overflows or a restart in the middle of a cycle.
ChainWhole ==
  /\ FirstFrom(1, head)
  /\ \A i \in Live : FirstFrom(i + 1, pool[i].next)
  /\ hook <=> Live # {}

\* Between two cycles of a session that goes on.
Settled == pc = "next" /\ Running /\ fault = "none"

\* Every live watchpoint counts every bus cycle that matches it, once: none is
\* skipped because another one fired, logged or was detached.  It counts down
\* to the match it was asked for, and from there on from the largest value, so
\* that it does not fire again before that has run down.  What the count is
\* after that is not stated here: FiresOnce says what is wrong with it.
CountExact ==
  Settled => \A i \in Live :
    LET c    == pool[i].asked
        past == seen[i] - c
    IN  /\ c = 0 => pool[i].count = 0
        /\ seen[i] < c => pool[i].count = c - seen[i]
        /\ c > 0 /\ past \in 0 .. Counts - 2 => pool[i].count = Counts - 1 - past

\* A session does not go on after the match its stop watchpoint asked for,
\* and tracing begins with the match its trigger asked for, neither before
\* nor after.
LimitsHonoured ==
  Settled => \A i \in 1 .. used :
    CASE pool[i].action = "stop"    -> seen[i] < pool[i].asked
      [] pool[i].action = "trigger" -> (phase = 2) <=> (seen[i] < pool[i].asked)
      [] OTHER                      -> TRUE

\* The cycle just completed was logged by some watchpoint.
LogFired ==
  \E i \in 1 .. used :
    /\ pool[i].action = "log" /\ Matches(pool[i], addr, kind)
    /\ pool[i].count \in {0, Counts - 1} /\ seen[i] >= pool[i].asked

\* A cycle that is traced, logged by a watchpoint, by two, or traced and
\* logged, is sent to Core 0 once; no other cycle is sent.
OneRecord ==
  (Settled /\ cycles > 0) =>
    records = IF LogFired \/ (phase = 3 /\ cycles >= triggerCycle /\ kind \in traced) THEN 1 ELSE 0

\* A logging watchpoint with a count N fires "only on the Nth matching access"
\* (docs/spec.md, --watch): a cycle that is sent to Core 0 without being traced
\* is the Nth match of a watchpoint asked for with N, or a match of one without.
FiresOnce ==
  (Settled /\ records > 0) =>
    \/ phase = 3 /\ cycles >= triggerCycle /\ kind \in traced
    \/ \E i \in 1 .. used : /\ pool[i].action = "log" /\ Matches(pool[i], addr, kind)
                            /\ pool[i].asked \in {0, seen[i]}
=============================================================================
