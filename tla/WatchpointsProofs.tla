------------------------- MODULE WatchpointsProofs -------------------------
(***************************************************************************)
(* The chain of watchpoints is well typed and whole, for every size of the *)
(* pool, every width of the counts and every configuration.                *)
(***************************************************************************)
EXTENDS Watchpoints, SequenceTheorems, TLAPS

-----------------------------------------------------------------------------
(* The nodes a configuration asks for.                                     *)

\* A node before it is linked.
Wished == [type : {"none", "r", "w", "x", "any"}, addr : Addr, count : 0 .. Counts - 1,
           asked : 0 .. Counts - 1, action : {"log", "trigger", "stop"}]

LEMMA WishType ==
  ASSUME NEW p \in Point, NEW does \in {"log", "trigger", "stop"}
  PROVE  Wish(p, does) \in Wished
  BY DEF Point, Wish, Wished

LEMMA OptionalType ==
  ASSUME NEW p \in Point, NEW does \in {"log", "trigger", "stop"}
  PROVE  /\ Optional(p, does) \in Seq(Wished)
         /\ Asked(p) => Optional(p, does) = <<Wish(p, does)>> /\ Len(Optional(p, does)) = 1
         /\ ~Asked(p) => Optional(p, does) = << >> /\ Len(Optional(p, does)) = 0
  BY WishType DEF Optional

\* The trigger comes right after the logging watchpoints, and nothing else is
\* a trigger; the trigger and the stop have a count.
LEMMA WantedFacts ==
  ASSUME NEW r \in Request
  PROVE  /\ Wanted(r) \in Seq(Wished)
         /\ Len(r.watches) \in Nat
         /\ Asked(r.trigger) => Len(Wanted(r)) > Len(r.watches)
         /\ \A i \in 1 .. Len(Wanted(r)) :
              /\ Wanted(r)[i].action = "trigger" <=> (Asked(r.trigger) /\ i = Len(r.watches) + 1)
              /\ Wanted(r)[i].action # "log" => Wanted(r)[i].asked > 0
              /\ Wanted(r)[i].count = Wanted(r)[i].asked
<1> DEFINE logs == [i \in 1 .. Len(r.watches) |-> Wish(r.watches[i], "log")]
           trig == Optional(r.trigger, "trigger")
           stop == Optional(r.stop, "stop")
           n    == Len(r.watches)
<1>1. r.watches \in Seq(Point) /\ r.trigger \in Point /\ r.stop \in Point
  BY RequestAssumption
<1>2. /\ logs \in Seq(Wished) /\ Len(logs) = Len(r.watches) /\ Len(r.watches) \in Nat
      /\ \A i \in 1 .. Len(r.watches) : logs[i].action = "log" /\ logs[i].count = logs[i].asked
  <2>1. \A i \in 1 .. Len(r.watches) : r.watches[i] \in Point
    BY <1>1
  <2>2. \A i \in 1 .. Len(r.watches) : Wish(r.watches[i], "log") \in Wished
    BY <2>1, WishType
  <2>3. \A i \in 1 .. Len(r.watches) :
          /\ Wish(r.watches[i], "log").action = "log"
          /\ Wish(r.watches[i], "log").count = Wish(r.watches[i], "log").asked
    BY DEF Wish
  <2>5. Len(r.watches) \in Nat
    BY <1>1
  <2> QED
    BY <2>2, <2>3, <2>5
<1>3. /\ trig \in Seq(Wished) /\ stop \in Seq(Wished)
      /\ Asked(r.trigger) => trig = <<Wish(r.trigger, "trigger")>> /\ Len(trig) = 1
      /\ ~Asked(r.trigger) => Len(trig) = 0
      /\ Asked(r.stop) => stop = <<Wish(r.stop, "stop")>> /\ Len(stop) = 1
      /\ ~Asked(r.stop) => Len(stop) = 0
  BY <1>1, OptionalType
<1>6. Wanted(r) = (logs \o trig) \o stop
  BY DEF Wanted
<1> HIDE DEF logs, trig, stop
<1>4. \A i \in 1 .. Len(trig) :
        Asked(r.trigger) /\ i = 1 /\ trig[i].action = "trigger"
          /\ trig[i].asked > 0 /\ trig[i].count = trig[i].asked
  <2>1. Asked(r.trigger) => /\ Wish(r.trigger, "trigger").action = "trigger"
                            /\ Wish(r.trigger, "trigger").asked > 0
                            /\ Wish(r.trigger, "trigger").count = Wish(r.trigger, "trigger").asked
    BY DEF Asked, Wish
  <2>2. CASE Asked(r.trigger)
    <3>1. Len(trig) = 1 /\ trig[1] = Wish(r.trigger, "trigger")
      BY <1>3, <2>2
    <3> QED
      BY <2>1, <2>2, <3>1
  <2>3. CASE ~Asked(r.trigger)
    BY <1>3, <2>3
  <2> QED
    BY <2>2, <2>3
<1>5. \A i \in 1 .. Len(stop) :
        stop[i].action = "stop" /\ stop[i].asked > 0 /\ stop[i].count = stop[i].asked
  <2>1. Asked(r.stop) => /\ Wish(r.stop, "stop").action = "stop"
                         /\ Wish(r.stop, "stop").asked > 0
                         /\ Wish(r.stop, "stop").count = Wish(r.stop, "stop").asked
    BY DEF Asked, Wish
  <2>2. CASE Asked(r.stop)
    <3>1. Len(stop) = 1 /\ stop[1] = Wish(r.stop, "stop")
      BY <1>3, <2>2
    <3> QED
      BY <2>1, <2>2, <3>1
  <2>3. CASE ~Asked(r.stop)
    BY <1>3, <2>3
  <2> QED
    BY <2>2, <2>3
<1>7. /\ logs \o trig \in Seq(Wished) /\ Len(logs \o trig) = n + Len(trig)
      /\ \A i \in 1 .. n + Len(trig) :
           (logs \o trig)[i] = IF i <= n THEN logs[i] ELSE trig[i - n]
  <2>1. logs \in Seq(Wished) /\ trig \in Seq(Wished) /\ Len(logs) = n
    BY <1>2, <1>3
  <2> HIDE DEF n
  <2>2. /\ logs \o trig \in Seq(Wished) /\ Len(logs \o trig) = Len(logs) + Len(trig)
        /\ \A i \in 1 .. Len(logs) + Len(trig) :
             (logs \o trig)[i] = IF i <= Len(logs) THEN logs[i] ELSE trig[i - Len(logs)]
    BY <2>1, ConcatProperties
  <2> QED
    BY <2>1, <2>2
<1>8. /\ Wanted(r) \in Seq(Wished) /\ Len(Wanted(r)) = n + Len(trig) + Len(stop)
      /\ \A i \in 1 .. n + Len(trig) + Len(stop) :
           Wanted(r)[i] = IF i <= n + Len(trig) THEN (logs \o trig)[i]
                          ELSE stop[i - (n + Len(trig))]
  <2>1. logs \o trig \in Seq(Wished) /\ stop \in Seq(Wished) /\ Len(logs \o trig) = n + Len(trig)
    BY <1>3, <1>7
  <2> HIDE DEF n
  <2>2. /\ (logs \o trig) \o stop \in Seq(Wished)
        /\ Len((logs \o trig) \o stop) = n + Len(trig) + Len(stop)
        /\ \A i \in 1 .. n + Len(trig) + Len(stop) :
             ((logs \o trig) \o stop)[i] = IF i <= n + Len(trig) THEN (logs \o trig)[i]
                                           ELSE stop[i - (n + Len(trig))]
    BY <2>1, ConcatProperties
  <2> QED
    BY <1>6, <2>2
<1>9. Len(trig) \in Nat /\ Len(stop) \in Nat /\ n \in Nat
  BY <1>2, <1>3
<1>10. ASSUME NEW i \in 1 .. Len(Wanted(r))
       PROVE  /\ Wanted(r)[i].action = "trigger" <=> (Asked(r.trigger) /\ i = n + 1)
              /\ Wanted(r)[i].action # "log" => Wanted(r)[i].asked > 0
              /\ Wanted(r)[i].count = Wanted(r)[i].asked
  <2>1. CASE i <= n
    <3>1. Wanted(r)[i] = logs[i]
      BY <1>7, <1>8, <1>9, <2>1
    <3> QED
      BY <1>2, <1>9, <2>1, <3>1
  <2>2. CASE i > n /\ i <= n + Len(trig)
    <3>1. Wanted(r)[i] = trig[i - n] /\ i - n \in 1 .. Len(trig)
      BY <1>7, <1>8, <1>9, <2>2
    <3> QED
      BY <1>4, <1>9, <3>1
  <2>3. CASE i > n + Len(trig)
    <3>1. Wanted(r)[i] = stop[i - (n + Len(trig))] /\ i - (n + Len(trig)) \in 1 .. Len(stop)
      BY <1>8, <1>9, <2>3
    <3>2. ~(Asked(r.trigger) /\ i = n + 1)
      BY <1>3, <1>9, <2>3
    <3> QED
      BY <1>5, <3>1, <3>2
  <2> QED
    BY <1>9, <2>1, <2>2, <2>3
<1>11. ASSUME Asked(r.trigger) PROVE Len(Wanted(r)) > n
  <2>1. Len(trig) = 1
    BY <1>3, <1>11
  <2> QED
    BY <1>8, <1>9, <2>1
<1> QED
  BY <1>8, <1>9, <1>10, <1>11

LEMMA FittingFacts ==
  ASSUME NEW r \in Request
  PROVE  Fitting(r) \in 0 .. Pool /\ Fitting(r) <= Len(Wanted(r)) /\ Len(Wanted(r)) \in Nat
<1>1. Len(Wanted(r)) \in Nat
  BY WantedFacts
<1> QED
  BY <1>1, BoundsAssumption DEF Fitting

\* A node in the pool, and the link of it to the one appended next.
LEMMA LinkedFacts ==
  ASSUME NEW r \in Request, NEW i \in 1 .. Fitting(r)
  PROVE  /\ Linked(r, i) \in Node
         /\ Linked(r, i).action = Wanted(r)[i].action
         /\ Linked(r, i).asked = Wanted(r)[i].asked
         /\ Linked(r, i).count = Wanted(r)[i].count
         /\ Linked(r, i).next = IF i < Fitting(r) THEN i + 1 ELSE 0
<1>1. Wanted(r)[i] \in Wished
  BY WantedFacts, FittingFacts, BoundsAssumption
<1>2. i < Fitting(r) => i + 1 \in 0 .. Pool
  BY FittingFacts, BoundsAssumption
<1>3. Linked(r, i).next \in 0 .. Pool
  BY <1>2, BoundsAssumption DEF Linked
<1> QED
  BY <1>1, <1>3 DEF Linked, Wished, Node

-----------------------------------------------------------------------------
(* Types.                                                                  *)

\* What a step does to one node of the pool: a new link, a new count.
LEMMA NextChange ==
  ASSUME NEW w \in Node, NEW n \in 0 .. Pool
  PROVE  /\ [w EXCEPT !.next = n] \in Node
         /\ [w EXCEPT !.next = n].next = n
         /\ [w EXCEPT !.next = n].action = w.action
         /\ [w EXCEPT !.next = n].asked = w.asked
         /\ [w EXCEPT !.next = n].count = w.count
         /\ [w EXCEPT !.next = n].type = w.type
         /\ [w EXCEPT !.next = n].addr = w.addr
  BY DEF Node

LEMMA CountChange ==
  ASSUME NEW w \in Node, NEW c \in 0 .. Counts - 1
  PROVE  /\ [w EXCEPT !.count = c] \in Node
         /\ [w EXCEPT !.count = c].count = c
         /\ [w EXCEPT !.count = c].next = w.next
         /\ [w EXCEPT !.count = c].action = w.action
         /\ [w EXCEPT !.count = c].asked = w.asked
         /\ [w EXCEPT !.count = c].type = w.type
         /\ [w EXCEPT !.count = c].addr = w.addr
  BY DEF Node

LEMMA NodeFields ==
  ASSUME NEW w \in Node
  PROVE  /\ w.next \in 0 .. Pool /\ w.count \in 0 .. Counts - 1 /\ w.asked \in 0 .. Counts - 1
         /\ w.action \in {"log", "trigger", "stop"}
  BY DEF Node

LEMMA CountedType == \A c \in 0 .. Counts - 1 : Counted(c) \in 0 .. Counts - 1
  BY BoundsAssumption DEF Counted

\* The chain has its types.
ChainType ==
  /\ pool \in [1 .. Pool -> Node] /\ used \in 0 .. Pool
  /\ head \in 0 .. Pool /\ hook \in BOOLEAN
  /\ trigNode \in 0 .. Pool /\ trigPrev \in 0 .. Pool

LEMMA DetachType ==
  ASSUME ChainType, Detach
  PROVE  ChainType'
<1> USE DEF ChainType
<1>1. CASE trigNode = 0
  BY <1>1 DEF Detach, chain
<1>2. CASE trigNode # 0
  <2>1. trigNode \in 1 .. Pool /\ pool[trigNode] \in Node
    BY <1>2, BoundsAssumption
  <2>2. pool[trigNode].next \in 0 .. Pool
    BY <2>1, NodeFields
  <2>3. trigNode' = 0 /\ used' = used /\ trigPrev' = trigPrev
    BY <1>2 DEF Detach
  <2>4. hook' \in BOOLEAN
    <3>1. hook' = FALSE \/ hook' = hook
      BY <1>2 DEF Detach
    <3> QED
      BY <3>1
  <2>5. CASE trigPrev # 0
    <3>1. pool' = [pool EXCEPT ![trigPrev].next = pool[trigNode].next] /\ head' = head
      BY <1>2, <2>5 DEF Detach
    <3>2. pool[trigPrev] \in Node
      BY <2>5, BoundsAssumption
    <3>3. [pool[trigPrev] EXCEPT !.next = pool[trigNode].next] \in Node
      BY <2>2, <3>2, NextChange
    <3>4. pool' \in [1 .. Pool -> Node]
      BY <3>1, <3>3
    <3> QED
      BY <2>3, <2>4, <3>1, <3>4, BoundsAssumption
  <2>6. CASE trigPrev = 0
    <3>1. pool' = pool /\ head' = pool[trigNode].next
      BY <1>2, <2>6 DEF Detach
    <3> QED
      BY <2>2, <2>3, <2>4, <3>1, BoundsAssumption
  <2> QED
    BY <2>5, <2>6
<1> QED
  BY <1>1, <1>2

LEMMA ConfigureType ==
  ASSUME ChainType, NEW r \in Request, Configure(r)
  PROVE  ChainType' /\ triggerCycle' \in 0 .. Never /\ traced' \subseteq Kind
<1>1. Fitting(r) \in 0 .. Pool /\ Len(r.watches) \in Nat
  BY FittingFacts, WantedFacts
<1>2. pool' \in [1 .. Pool -> Node]
  <2>1. \A i \in 1 .. Pool : i <= Fitting(r) => Linked(r, i) \in Node
    BY <1>1, LinkedFacts, BoundsAssumption
  <2>2. \A i \in 1 .. Pool : ~(i <= Fitting(r)) => pool[i] \in Node
    BY DEF ChainType
  <2> QED
    BY <2>1, <2>2 DEF Configure
<1>3. used' \in 0 .. Pool /\ head' \in 0 .. Pool
  BY <1>1, BoundsAssumption DEF Configure
<1>4. hook' \in BOOLEAN
  BY DEF Configure
<1>5. trigNode' \in 0 .. Pool /\ trigPrev' \in 0 .. Pool
  BY <1>1, BoundsAssumption DEF Configure
<1>6. triggerCycle' \in 0 .. Never /\ traced' \subseteq Kind
  BY RequestAssumption, BoundsAssumption DEF Configure, Never
<1> QED
  BY <1>2, <1>3, <1>4, <1>5, <1>6 DEF ChainType

LEMMA VisitType ==
  ASSUME ChainType, node \in 0 .. Pool, Visit
  PROVE  ChainType' /\ node' \in 0 .. Pool
<1>1. node \in 1 .. Pool /\ pool[node] \in Node
  BY BoundsAssumption DEF Visit, ChainType
<1>2. pool[node].next \in 0 .. Pool /\ Counted(pool[node].count) \in 0 .. Counts - 1
  BY <1>1, NodeFields, CountedType
<1>3. [pool[node] EXCEPT !.count = Counted(pool[node].count)] \in Node
  BY <1>1, <1>2, CountChange
<1>4. \/ pool' = pool
      \/ pool' = [pool EXCEPT ![node].count = Counted(pool[node].count)]
  BY DEF Visit
<1>5. pool' \in [1 .. Pool -> Node]
  BY <1>1, <1>3, <1>4 DEF ChainType
<1>6. node' \in {0, pool[node].next}
  BY DEF Visit
<1> QED
  BY <1>2, <1>5, <1>6, BoundsAssumption DEF ChainType, Visit

LEMMA InitTypeOK == Init => TypeOK
<1> SUFFICES ASSUME Init PROVE TypeOK
  OBVIOUS
<1>1. (CHOOSE a \in Addr : TRUE) \in Addr
  BY AddrAssumption
<1>2. pool \in [1 .. Pool -> Node]
  <2> DEFINE blank == [type |-> "any", addr |-> CHOOSE a \in Addr : TRUE, count |-> 0,
                       asked |-> 0, action |-> "log", next |-> 0]
  <2>1. blank \in Node
    BY <1>1, BoundsAssumption DEF Node
  <2>2. pool = [i \in 1 .. Pool |-> blank]
    BY DEF Init
  <2> HIDE DEF blank
  <2> QED
    BY <2>1, <2>2
<1>3. used \in 0 .. Pool /\ head \in 0 .. Pool /\ trigNode \in 0 .. Pool /\ trigPrev \in 0 .. Pool
      /\ node \in 0 .. Pool /\ triggerCycle \in 0 .. Never /\ cycles \in 0 .. MaxCycles
      /\ records \in Nat /\ seen \in [1 .. Pool -> Nat]
  BY BoundsAssumption DEF Init, Never
<1>4. hook \in BOOLEAN /\ logged \in BOOLEAN /\ hit \in BOOLEAN
  BY DEF Init
<1> QED
  BY <1>1, <1>2, <1>3, <1>4 DEF Init, TypeOK, Kind

\* The rest of the types.
OtherType ==
  /\ triggerCycle \in 0 .. Never /\ traced \subseteq Kind
  /\ phase \in {0, 2, 3, 4} /\ fault \in {"none", "sigint", "stop", "limit"}
  /\ cycles \in 0 .. MaxCycles /\ addr \in Addr /\ kind \in Kind
  /\ pc \in {"next", "walk", "trace", "end"} /\ node \in 0 .. Pool
  /\ logged \in BOOLEAN /\ hit \in BOOLEAN
  /\ seen \in [1 .. Pool -> Nat] /\ records \in Nat

LEMMA TwoTypes == TypeOK <=> ChainType /\ OtherType
  BY DEF TypeOK, ChainType, OtherType

LEMMA ChainTypeKept == ChainType /\ UNCHANGED chain => ChainType'
  BY DEF ChainType, chain

LEMMA EmitType == records \in Nat /\ Emit => records' \in Nat
  BY DEF Emit

LEMMA StepTypeOK == TypeOK /\ [Next]_vars => TypeOK'
<1> SUFFICES ASSUME ChainType, OtherType, [Next]_vars PROVE ChainType' /\ OtherType'
  BY TwoTypes DEF TypeOK, ChainType, OtherType
<1>1. ASSUME NEW r \in Request, Configure(r) PROVE ChainType' /\ OtherType'
  <2>1. ChainType' /\ triggerCycle' \in 0 .. Never /\ traced' \subseteq Kind
    BY <1>1, ConfigureType
  <2>2. UNCHANGED <<phase, fault, bus, pc, node, logged, hit, records>>
    BY <1>1 DEF Configure
  <2> QED
    BY <2>1, <2>2 DEF OtherType, bus
<1>2. CASE Start
  <2>1. ChainType'
    BY <1>2, DetachType, ChainTypeKept DEF Start
  <2>2. phase' \in {0, 2, 3, 4}
    BY <1>2 DEF Start
  <2>3. seen' \in [1 .. Pool -> Nat]
    BY <1>2 DEF Start
  <2>4. cycles' \in 0 .. MaxCycles /\ node' \in 0 .. Pool /\ records' \in Nat
    BY <1>2, BoundsAssumption DEF Start
  <2>5. pc' = "next" /\ logged' = FALSE /\ hit' = FALSE
        /\ UNCHANGED <<triggerCycle, traced, fault, addr, kind>>
    BY <1>2 DEF Start, config
  <2> QED
    BY <2>1, <2>2, <2>3, <2>4, <2>5 DEF OtherType
<1>3. CASE Restart
  <2>1. ChainType'
    <3>1. hook' \in BOOLEAN
      BY <1>3 DEF Restart
    <3>2. pool' = pool /\ used' = 0 /\ head' = 0 /\ trigNode' = 0 /\ trigPrev' = 0
      BY <1>3 DEF Restart
    <3> QED
      BY <3>1, <3>2, BoundsAssumption DEF ChainType
  <2>2. triggerCycle' \in 0 .. Never /\ node' \in 0 .. Pool /\ cycles' \in 0 .. MaxCycles
        /\ records' \in Nat
    BY <1>3, BoundsAssumption DEF Restart, Never
  <2>3. /\ phase' = 0 /\ fault' = "none" /\ pc' = "next" /\ traced' = {}
        /\ UNCHANGED <<addr, kind, logged, hit, seen>>
    BY <1>3 DEF Restart
  <2> QED
    BY <2>1, <2>2, <2>3 DEF OtherType
<1>4. CASE Sigint
  BY <1>4, ChainTypeKept DEF Sigint, OtherType, config, bus
<1>5. CASE BeginTracing
  BY <1>5, DetachType DEF BeginTracing, OtherType, config, bus
<1>6. ASSUME NEW a \in Addr, NEW k \in Kind, Cycle(a, k) PROVE ChainType' /\ OtherType'
  <2>1. ChainType'
    BY <1>6, ChainTypeKept DEF Cycle
  <2>2. seen' \in [1 .. Pool -> Nat]
    <3>1. \A i \in 1 .. Pool : seen[i] + 1 \in Nat /\ seen[i] \in Nat
      BY DEF OtherType
    <3> QED
      BY <1>6, <3>1 DEF Cycle
  <2>3. cycles' \in 0 .. MaxCycles /\ records' \in Nat
    BY <1>6, BoundsAssumption DEF Cycle, OtherType
  <2>4. node' \in 0 .. Pool /\ pc' \in {"next", "walk", "trace", "end"}
    BY <1>6 DEF Cycle, OtherType, ChainType
  <2>5. logged' \in BOOLEAN /\ hit' \in BOOLEAN
    <3>1. logged' \in {FALSE, logged} /\ hit' \in {FALSE, hit}
      BY <1>6 DEF Cycle
    <3> QED
      BY <3>1 DEF OtherType
  <2>6. addr' = a /\ kind' = k /\ UNCHANGED <<triggerCycle, traced, phase, fault>>
    BY <1>6 DEF Cycle, config
  <2> QED
    BY <2>1, <2>2, <2>3, <2>4, <2>5, <2>6 DEF OtherType
<1>7. CASE Visit
  <2>1. ChainType' /\ node' \in 0 .. Pool
    BY <1>7, VisitType DEF OtherType
  <2>2. records' \in Nat
    BY <1>7, EmitType DEF Visit, OtherType
  <2>3. logged' \in BOOLEAN /\ hit' \in BOOLEAN
    <3>1. logged' = TRUE \/ logged' = logged
      BY <1>7 DEF Visit
    <3>2. hit' \in BOOLEAN
      BY <1>7 DEF Visit
    <3> QED
      BY <3>1, <3>2 DEF OtherType
  <2>4. fault' \in {"stop", fault}
    BY <1>7 DEF Visit
  <2>5. UNCHANGED <<triggerCycle, traced, phase, cycles, addr, kind, seen, pc>>
    BY <1>7 DEF Visit, config, bus
  <2> QED
    BY <2>1, <2>2, <2>3, <2>4, <2>5 DEF OtherType
<1>8. CASE Trigger
  <2>1. ChainType'
    BY <1>8, DetachType DEF Trigger
  <2>2. records' \in Nat
    BY <1>8, EmitType DEF Trigger, OtherType
  <2>3. triggerCycle' \in 0 .. Never
    BY <1>8, BoundsAssumption DEF Trigger, OtherType, Never
  <2>4. phase' = 3 /\ pc' = "next" /\ UNCHANGED <<traced, fault, cycles, addr, kind, seen, node, logged, hit>>
    BY <1>8 DEF Trigger, bus
  <2> QED
    BY <2>1, <2>2, <2>3, <2>4 DEF OtherType
<1>9. CASE WalkFaulted
  BY <1>9, ChainTypeKept DEF WalkFaulted, OtherType, config, bus
<1>10. CASE WalkDone
  BY <1>10, ChainTypeKept DEF WalkDone, OtherType, config, bus
<1>11. CASE Trace
  BY <1>11, ChainTypeKept, EmitType DEF Trace, OtherType, config, bus
<1>12. CASE EndCycle
  BY <1>12, ChainTypeKept DEF EndCycle, OtherType, config, bus
<1>13. CASE Limit
  BY <1>13, ChainTypeKept DEF Limit, OtherType, config, bus
<1>14. CASE SeeFault
  BY <1>14, ChainTypeKept DEF SeeFault, OtherType, config, bus
<1>15. CASE UNCHANGED vars
  BY <1>15 DEF vars, ChainType, OtherType
<1> QED
  BY <1>1, <1>2, <1>3, <1>4, <1>5, <1>6, <1>7, <1>8, <1>9, <1>10, <1>11, <1>12, <1>13, <1>14,
     <1>15 DEF Next, Session, Engine, Walk

\* Type correctness of the chain and of Core 1's walk along it.
THEOREM TypeCorrect == Spec => []TypeOK
  BY InitTypeOK, StepTypeOK, PTL DEF Spec

-----------------------------------------------------------------------------
(* The chain.                                                              *)

\* While the trigger is in the list, it is the node after the last logging
\* watchpoint, and trigPrev is that one.
TriggerKnows ==
  trigNode # 0 =>
    /\ trigNode \in 1 .. used /\ trigPrev = trigNode - 1
    /\ pool[trigNode].action = "trigger"
    /\ \A i \in 1 .. trigPrev : pool[i].action # "trigger"

ChainKnows == ChainWhole /\ TriggerKnows

\* The nodes of the pool differ in their counts at most.
SameNodes ==
  \A i \in 1 .. Pool : pool'[i].action = pool[i].action /\ pool'[i].next = pool[i].next

LEMMA SameChain ==
  ASSUME ChainType, ChainKnows, SameNodes, UNCHANGED <<used, head, hook, trigNode, trigPrev>>
  PROVE  ChainKnows'
<1>1. Live' = Live
  BY BoundsAssumption DEF ChainType, Live, SameNodes
<1>2. \A i, j : FirstFrom(i, j)' <=> FirstFrom(i, j)
  BY <1>1 DEF FirstFrom
<1>3. \A i \in Live : pool'[i].next = pool[i].next
  BY BoundsAssumption DEF Live, ChainType, SameNodes
<1>4. ChainWhole'
  BY <1>1, <1>2, <1>3 DEF ChainKnows, ChainWhole
<1>5. TriggerKnows'
  BY BoundsAssumption DEF ChainKnows, TriggerKnows, ChainType, SameNodes
<1> QED
  BY <1>4, <1>5 DEF ChainKnows

LEMMA VisitChain ==
  ASSUME ChainType, ChainKnows, node \in 0 .. Pool, Visit
  PROVE  ChainKnows'
<1>1. node \in 1 .. Pool /\ pool[node] \in Node
  BY BoundsAssumption DEF Visit, ChainType
<1>2. Counted(pool[node].count) \in 0 .. Counts - 1
  BY <1>1, NodeFields, CountedType
<1>3. \/ pool' = pool
      \/ pool' = [pool EXCEPT ![node] = [pool[node] EXCEPT !.count = Counted(pool[node].count)]]
  BY DEF Visit
<1>4. \A i \in 1 .. Pool : i # node => pool'[i] = pool[i]
  BY <1>1, <1>3 DEF ChainType
<1>5. pool'[node].action = pool[node].action /\ pool'[node].next = pool[node].next
  <2>1. CASE pool' = pool
    BY <2>1
  <2>2. CASE pool' = [pool EXCEPT ![node] = [pool[node] EXCEPT !.count = Counted(pool[node].count)]]
    <3>1. pool'[node] = [pool[node] EXCEPT !.count = Counted(pool[node].count)]
      BY <1>1, <2>2 DEF ChainType
    <3> QED
      BY <1>1, <1>2, <3>1, CountChange
  <2> QED
    BY <1>3, <2>1, <2>2
<1>6. SameNodes
  BY <1>4, <1>5 DEF SameNodes
<1> QED
  BY <1>6, SameChain DEF Visit

LEMMA ConfigureChain ==
  ASSUME ChainType, NEW r \in Request, Configure(r)
  PROVE  ChainKnows'
<1> DEFINE n == Fitting(r)
<1>1. n \in 0 .. Pool /\ n <= Len(Wanted(r)) /\ Len(Wanted(r)) \in Nat /\ Len(r.watches) \in Nat
  BY FittingFacts, WantedFacts
<1>2. \A i \in 1 .. n : pool'[i] = Linked(r, i)
  BY <1>1, BoundsAssumption DEF Configure
<1>3. \A i \in 1 .. n : pool'[i].next = IF i < n THEN i + 1 ELSE 0
  BY <1>2, LinkedFacts
<1>4. \A i \in 1 .. n :
        pool'[i].action = "trigger" <=> (Asked(r.trigger) /\ i = Len(r.watches) + 1)
  BY <1>1, <1>2, LinkedFacts, WantedFacts
<1>5. used' = n /\ head' = (IF n = 0 THEN 0 ELSE 1) /\ (hook' <=> head' # 0)
  BY DEF Configure
<1>6. /\ trigNode' = IF Asked(r.trigger) /\ Len(r.watches) < Pool THEN Len(r.watches) + 1 ELSE 0
      /\ trigNode' # 0 => trigPrev' = Len(r.watches)
  BY <1>1 DEF Configure
<1>7. Asked(r.trigger) /\ Len(r.watches) < Pool => Len(r.watches) + 1 \in 1 .. n
  <2>1. Asked(r.trigger) => Len(Wanted(r)) > Len(r.watches)
    BY WantedFacts
  <2> QED
    BY <1>1, <2>1, BoundsAssumption DEF Fitting
<1>8. \A i \in 1 .. n : pool'[i].action = "trigger" => trigNode' = i
  BY <1>1, <1>4, <1>6, BoundsAssumption
<1>9. Live' = 1 .. n
  BY <1>5, <1>8 DEF Live
<1>10. FirstFrom(1, head)'
  BY <1>1, <1>5, <1>9 DEF FirstFrom
<1>11. \A i \in Live' : FirstFrom(i + 1, pool[i].next)'
  <2> SUFFICES ASSUME NEW i \in 1 .. n PROVE FirstFrom(i + 1, pool[i].next)'
    BY <1>9
  <2>1. pool'[i].next = IF i < n THEN i + 1 ELSE 0
    BY <1>3
  <2> HIDE DEF n
  <2> QED
    BY <1>1, <1>9, <2>1 DEF FirstFrom
<1>12. hook' <=> Live' # {}
  BY <1>1, <1>5, <1>9
<1>13. TriggerKnows'
  <2> SUFFICES ASSUME trigNode' # 0
               PROVE  /\ trigNode' \in 1 .. used' /\ trigPrev' = trigNode' - 1
                      /\ pool'[trigNode'].action = "trigger"
                      /\ \A i \in 1 .. trigPrev' : pool'[i].action # "trigger"
    BY DEF TriggerKnows
  <2>1. /\ Asked(r.trigger) /\ Len(r.watches) < Pool
        /\ trigNode' = Len(r.watches) + 1 /\ trigPrev' = Len(r.watches)
    BY <1>6
  <2>2. Len(r.watches) + 1 \in 1 .. n
    BY <1>7, <2>1
  <2> HIDE DEF n
  <2> QED
    BY <1>1, <1>4, <1>5, <2>1, <2>2
<1> QED
  BY <1>10, <1>11, <1>12, <1>13 DEF ChainKnows, ChainWhole

\* Taking the trigger out: its predecessor, or the head, takes over its link.
LEMMA DetachChain ==
  ASSUME ChainType, ChainKnows, Detach
  PROVE  /\ ChainKnows' /\ trigNode' = 0 /\ used' = used
         /\ Live' = Live \ {trigNode}
         /\ \A i \in 1 .. Pool :
              /\ pool'[i].action = pool[i].action /\ pool'[i].count = pool[i].count
              /\ pool'[i].asked = pool[i].asked /\ pool'[i].type = pool[i].type
              /\ pool'[i].addr = pool[i].addr
<1>1. CASE trigNode = 0
  <2>1. UNCHANGED chain
    BY <1>1 DEF Detach
  <2>2. ChainKnows'
    BY <2>1, SameChain DEF chain, SameNodes
  <2>3. Live' = Live /\ trigNode \notin Live
    BY <1>1, <2>1 DEF chain, Live
  <2> QED
    BY <1>1, <2>1, <2>2, <2>3 DEF chain
<1>2. ASSUME NEW t, t = trigNode, t # 0
      PROVE  /\ ChainKnows' /\ trigNode' = 0 /\ used' = used
             /\ Live' = Live \ {trigNode}
             /\ \A i \in 1 .. Pool :
                  /\ pool'[i].action = pool[i].action /\ pool'[i].count = pool[i].count
                  /\ pool'[i].asked = pool[i].asked /\ pool'[i].type = pool[i].type
                  /\ pool'[i].addr = pool[i].addr
  <2>1. /\ t \in 1 .. used /\ trigPrev = t - 1 /\ pool[t].action = "trigger"
        /\ \A i \in 1 .. t - 1 : pool[i].action # "trigger"
    BY <1>2 DEF ChainKnows, TriggerKnows
  <2>2. /\ t \in 1 .. Pool /\ used \in 0 .. Pool /\ pool \in [1 .. Pool -> Node]
        /\ pool[t].next \in 0 .. Pool
    <3>1. t \in 1 .. Pool /\ pool[t] \in Node
      BY <2>1, BoundsAssumption DEF ChainType
    <3> QED
      BY <3>1, NodeFields DEF ChainType
  <2>3. \A i \in 1 .. t : i \in Live
    BY <1>2, <2>1, <2>2, BoundsAssumption DEF Live
  <2>4. trigNode' = 0 /\ used' = used /\ trigPrev' = trigPrev
    BY <1>2 DEF Detach
  <2>5. \A i \in 1 .. Pool : i # t - 1 => pool'[i] = pool[i]
    BY <1>2, <2>1, <2>2 DEF Detach
  <2>6. t > 1 => /\ pool'[t - 1] = [pool[t - 1] EXCEPT !.next = pool[t].next]
                 /\ pool[t - 1] \in Node /\ head' = head
    BY <1>2, <2>1, <2>2, BoundsAssumption DEF Detach
  <2>7. \A i \in 1 .. Pool :
          /\ pool'[i].action = pool[i].action /\ pool'[i].count = pool[i].count
          /\ pool'[i].asked = pool[i].asked /\ pool'[i].type = pool[i].type
          /\ pool'[i].addr = pool[i].addr
    <3> SUFFICES ASSUME NEW i \in 1 .. Pool
                 PROVE  /\ pool'[i].action = pool[i].action /\ pool'[i].count = pool[i].count
                        /\ pool'[i].asked = pool[i].asked /\ pool'[i].type = pool[i].type
                        /\ pool'[i].addr = pool[i].addr
      OBVIOUS
    <3>1. CASE i = t - 1
      <4>1. t > 1
        BY <2>2, <3>1
      <4>2. pool'[i] = [pool[i] EXCEPT !.next = pool[t].next] /\ pool[i] \in Node
        BY <2>6, <3>1, <4>1
      <4> QED
        BY <2>2, <4>2, NextChange
    <3>2. CASE i # t - 1
      BY <2>5, <3>2
    <3> QED
      BY <3>1, <3>2
  <2>8. Live' = Live \ {t}
    BY <1>2, <2>1, <2>2, <2>4, <2>7, BoundsAssumption DEF Live
  <2>9. FirstFrom(t + 1, pool[t].next) /\ Live \subseteq 1 .. used
    BY <2>1, <2>3 DEF ChainKnows, ChainWhole, Live
  <2>10. \A i \in 1 .. Pool : \A j : i # t - 1 /\ i # t /\ FirstFrom(i + 1, j) => FirstFrom(i + 1, j)'
    <3> SUFFICES ASSUME NEW i \in 1 .. Pool, NEW j, i # t - 1, i # t, FirstFrom(i + 1, j)
                 PROVE  FirstFrom(i + 1, j)'
      OBVIOUS
    <3>1. CASE i > t
      BY <2>2, <2>8, <2>9, <3>1 DEF FirstFrom
    <3>2. CASE i < t - 1
      <4>1. i + 1 \in Live /\ i + 1 \in Live' /\ i + 1 < t
        BY <2>2, <2>3, <2>8, <3>2
      <4>2. j = i + 1
        <5>1. j \in Live /\ j >= i + 1 /\ \A k \in Live : k >= i + 1 => k >= j
          BY <2>2, <4>1 DEF FirstFrom
        <5>2. i + 1 >= j
          BY <2>2, <4>1, <5>1
        <5> QED
          BY <2>2, <2>9, <5>1, <5>2
      <4> QED
        BY <2>2, <2>8, <2>9, <4>1, <4>2 DEF FirstFrom
    <3> QED
      BY <2>2, <3>1, <3>2
  <2>11. \A j : FirstFrom(t + 1, j) => FirstFrom(t, j)'
    <3>1. \A k : (k \in Live' /\ k >= t) <=> (k \in Live /\ k >= t + 1)
      <4>1. \A k \in Live : k \in Int
        BY <2>2, <2>9
      <4> QED
        BY <2>2, <2>8, <4>1
    <3> SUFFICES ASSUME NEW j, FirstFrom(t + 1, j) PROVE FirstFrom(t, j)'
      OBVIOUS
    <3>2. CASE \E k \in Live : k >= t + 1
      BY <3>1, <3>2 DEF FirstFrom
    <3>3. CASE ~\E k \in Live : k >= t + 1
      BY <3>1, <3>3 DEF FirstFrom
    <3> QED
      BY <3>2, <3>3
  <2>12. FirstFrom(1, head)'
    <3>1. CASE t = 1
      <4>1. head' = pool[t].next
        BY <1>2, <2>1, <2>2, <3>1 DEF Detach
      <4> QED
        BY <2>9, <2>11, <3>1, <4>1
    <3>2. CASE t > 1
      <4>1. head' = head /\ FirstFrom(1, head)
        BY <2>6, <3>2 DEF ChainKnows, ChainWhole
      <4>2. 1 \in Live /\ 1 \in Live'
        BY <2>2, <2>3, <2>8, <3>2
      <4>3. head = 1
        <5>1. head \in Live /\ 1 >= head
          BY <4>1, <4>2 DEF FirstFrom
        <5> QED
          BY <2>2, <2>9, <5>1
      <4>4. \A k \in Live' : k >= 1
        BY <2>2, <2>8, <2>9
      <4> QED
        BY <4>1, <4>2, <4>3, <4>4 DEF FirstFrom
    <3> QED
      BY <2>2, <3>1, <3>2
  <2>13. \A i \in Live' : FirstFrom(i + 1, pool[i].next)'
    <3> SUFFICES ASSUME NEW i \in Live, i # t PROVE FirstFrom(i + 1, pool[i].next)'
      BY <2>8
    <3>1. i \in 1 .. Pool /\ FirstFrom(i + 1, pool[i].next)
      <4>1. FirstFrom(i + 1, pool[i].next)
        BY DEF ChainKnows, ChainWhole
      <4>2. i \in 1 .. used
        BY <2>9
      <4> QED
        BY <2>2, <4>1, <4>2, BoundsAssumption
    <3>2. CASE i = t - 1
      <4>1. t > 1 /\ pool[i] \in Node
        BY <2>2, <3>1, <3>2
      <4>2. pool'[i].next = pool[t].next
        <5>1. pool'[i] = [pool[i] EXCEPT !.next = pool[t].next]
          BY <2>6, <3>2, <4>1
        <5> QED
          BY <2>2, <4>1, <5>1, NextChange
      <4>3. FirstFrom(t, pool[i].next)'
        BY <2>9, <2>11, <4>2
      <4> QED
        BY <2>2, <3>2, <4>3
    <3>3. CASE i # t - 1
      <4>1. pool'[i] = pool[i]
        BY <2>5, <3>1, <3>3
      <4> QED
        BY <2>10, <3>1, <3>3, <4>1
    <3> QED
      BY <3>2, <3>3
  <2>14. hook' <=> Live' # {}
    <3>1. \A k \in Live' : k >= 1
      BY <2>2, <2>8, <2>9
    <3>2. Live' # {} => head' \in Live'
      BY <2>12, <3>1 DEF FirstFrom
    <3>3. Live' = {} => head' = 0
      BY <2>12 DEF FirstFrom
    <3>4. hook
      BY <2>2, <2>3 DEF ChainKnows, ChainWhole
    <3>5. hook' = IF head' = 0 THEN FALSE ELSE hook
      BY <1>2 DEF Detach
    <3>6. Live' # {} => head' # 0
      BY <3>1, <3>2
    <3> QED
      BY <3>3, <3>4, <3>5, <3>6
  <2>15. ChainKnows'
    BY <2>4, <2>12, <2>13, <2>14 DEF ChainKnows, ChainWhole, TriggerKnows
  <2> QED
    BY <1>2, <2>4, <2>7, <2>8, <2>15
<1> QED
  BY <1>1, <1>2

LEMMA InitChain == Init => ChainKnows
<1> SUFFICES ASSUME Init PROVE ChainKnows
  OBVIOUS
<1>1. used = 0 /\ head = 0 /\ hook = FALSE /\ trigNode = 0
  BY DEF Init
<1>2. Live = {}
  BY <1>1 DEF Live
<1> QED
  BY <1>1, <1>2 DEF ChainKnows, ChainWhole, TriggerKnows, FirstFrom

LEMMA RestartChain ==
  ASSUME Restart
  PROVE  ChainKnows' /\ Live' = {}
<1>1. used' = 0 /\ head' = 0 /\ hook' = FALSE /\ trigNode' = 0
  BY DEF Restart
<1>2. Live' = {}
  BY <1>1 DEF Live
<1> QED
  BY <1>1, <1>2 DEF ChainKnows, ChainWhole, TriggerKnows, FirstFrom

LEMMA KeptChain ==
  ASSUME ChainType, ChainKnows, UNCHANGED chain
  PROVE  ChainKnows'
  BY SameChain DEF chain, SameNodes

LEMMA StepChain == TypeOK /\ ChainKnows /\ [Next]_vars => ChainKnows'
<1> SUFFICES ASSUME ChainType, node \in 0 .. Pool, ChainKnows, [Next]_vars PROVE ChainKnows'
  BY TwoTypes DEF OtherType
<1>1. ASSUME NEW r \in Request, Configure(r) PROVE ChainKnows'
  BY <1>1, ConfigureChain
<1>2. CASE Start
  BY <1>2, DetachChain, KeptChain DEF Start
<1>3. CASE Restart
  BY <1>3, RestartChain
<1>4. CASE BeginTracing \/ Trigger
  BY <1>4, DetachChain DEF BeginTracing, Trigger
<1>5. CASE Visit
  BY <1>5, VisitChain
<1>6. ASSUME NEW a \in Addr, NEW k \in Kind, Cycle(a, k) PROVE ChainKnows'
  BY <1>6, KeptChain DEF Cycle
<1>7. CASE Sigint \/ WalkFaulted \/ WalkDone \/ Trace \/ EndCycle \/ Limit \/ SeeFault
  BY <1>7, KeptChain DEF Sigint, WalkFaulted, WalkDone, Trace, EndCycle, Limit, SeeFault
<1>8. CASE UNCHANGED vars
  BY <1>8, KeptChain DEF vars, chain
<1> QED
  BY <1>1, <1>2, <1>3, <1>4, <1>5, <1>6, <1>7, <1>8 DEF Next, Session, Engine, Walk

THEOREM ChainInvariance == Spec => [](TypeOK /\ ChainKnows)
  BY InitTypeOK, StepTypeOK, InitChain, StepChain, PTL DEF Spec

\* The chain goes through every live node in order and wp_hook is set exactly
\* when there is one, whatever configurations, overflows of the pool, detached
\* triggers and restarts came before.
THEOREM ChainIsWhole == Spec => []ChainWhole
<1>1. ChainKnows => ChainWhole
  BY DEF ChainKnows
<1> QED
  BY <1>1, ChainInvariance, PTL
=============================================================================
