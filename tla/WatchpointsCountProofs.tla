----------------------- MODULE WatchpointsCountProofs -----------------------
(***************************************************************************)
(* What the watchpoints do, for every size of the pool, every width of the *)
(* counts and every configuration: every live watchpoint counts every      *)
(* matching cycle once, the stop and the trigger take effect at the match  *)
(* they were asked for, and a cycle is recorded once.                      *)
(***************************************************************************)
EXTENDS WatchpointsProofs

-----------------------------------------------------------------------------
(* Counting down, past zero and round again.                               *)

\* A larger quotient leaves no room for a remainder below the divisor.
LEMMA QuotientOrder ==
  ASSUME NEW m \in Nat, m >= 1, NEW a \in Int, NEW b \in Int, a < b,
         NEW s \in 0 .. m - 1, NEW t \in 0 .. m - 1
  PROVE  m * a + s # m * b + t
<1> DEFINE k == b - a - 1
           P == m * a
           K == m * k
<1>1. k \in Nat /\ b = a + 1 + k
  OBVIOUS
<1>2. P \in Int /\ K \in Nat
  BY <1>1
<1>3. m * (a + 1 + k) = m * a + m + m * k
  BY <1>1
<1>4. m * b = P + m + K
  BY <1>1, <1>3
<1> HIDE DEF k, K
<1>5. P + s # P + m + K + t
  BY <1>2
<1> QED
  BY <1>4, <1>5

\* Quotient and remainder are unique.
LEMMA RemainderUnique ==
  ASSUME NEW m \in Nat, m >= 1, NEW a \in Int, NEW b \in Int,
         NEW s \in 0 .. m - 1, NEW t \in 0 .. m - 1, m * a + s = m * b + t
  PROVE  s = t
<1>1. ~ (a < b) /\ ~ (b < a)
  BY QuotientOrder
<1>2. a = b
  BY <1>1
<1> DEFINE P == m * a
<1>3. P \in Int /\ P + s = P + t
  BY <1>2
<1> HIDE DEF P
<1> QED
  BY <1>3

LEMMA ModStep ==
  ASSUME NEW m \in Nat, m >= 1, NEW x \in Nat
  PROVE  x % m \in 0 .. m - 1 /\ (x + 1) % m = IF x % m = m - 1 THEN 0 ELSE (x % m) + 1
<1> DEFINE q == x \div m
           r == x % m
           Q == (x + 1) \div m
           R == (x + 1) % m
<1>1. r \in 0 .. m - 1 /\ q \in Int /\ x = m * q + r
  OBVIOUS
<1>2. Q \in Int /\ R \in 0 .. m - 1 /\ x + 1 = m * Q + R
  OBVIOUS
<1> HIDE DEF q, r, Q, R
<1>3. CASE r = m - 1
  <2>1. m * (q + 1) = m * q + m
    BY <1>1
  <2>2. x + 1 = m * (q + 1) + 0
    BY <1>1, <1>3, <2>1
  <2>3. m * Q + R = m * (q + 1) + 0 /\ q + 1 \in Int /\ 0 \in 0 .. m - 1
    BY <1>1, <1>2, <2>2
  <2>4. R = 0
    BY <1>2, <2>3, RemainderUnique
  <2> QED
    BY <1>1, <1>3, <2>4 DEF r, R
<1>4. CASE r # m - 1
  <2>1. x + 1 = m * q + (r + 1) /\ r + 1 \in 0 .. m - 1
    BY <1>1, <1>4
  <2>2. m * Q + R = m * q + (r + 1)
    BY <1>2, <2>1
  <2>3. R = r + 1
    BY <1>1, <1>2, <2>1, <2>2, RemainderUnique
  <2> QED
    BY <1>1, <1>4, <2>3 DEF r, R
<1> QED
  BY <1>3, <1>4

\* What is left of a count after s matches: it fires at the match it was asked
\* for, then counts down again from the largest value.
Remaining(c, s) ==
  IF c = 0 THEN 0 ELSE IF s < c THEN c - s ELSE (Counts - 1) - ((s - c) % (Counts - 1))

LEMMA RemainingFacts ==
  ASSUME NEW c \in 0 .. Counts - 1, NEW s \in Nat
  PROVE  /\ Remaining(c, s) \in 0 .. Counts - 1
         /\ c # 0 /\ s < c => Remaining(c, s) = c - s
         /\ Remaining(c, s) = 0 <=> c = 0
         /\ Remaining(c, 0) = c
<1>1. (s - c) \in Nat => (s - c) % (Counts - 1) \in 0 .. (Counts - 1) - 1
  BY ModStep, BoundsAssumption
<1> QED
  BY <1>1, BoundsAssumption DEF Remaining

\* Until the count comes round.
LEMMA RemainingPast ==
  ASSUME NEW c \in 1 .. Counts - 1, NEW s \in Nat, s - c \in 0 .. Counts - 2
  PROVE  Remaining(c, s) = Counts - 1 - (s - c)
<1> DEFINE m == Counts - 1
           x == s - c
           q == x \div m
           r == x % m
<1>1. m \in Nat /\ m >= 1 /\ x \in 0 .. m - 1
  BY BoundsAssumption
<1>2. Remaining(c, s) = m - r
  BY <1>1 DEF Remaining
<1>3. q \in Int /\ r \in 0 .. m - 1 /\ x = m * q + r
  <2> HIDE DEF x, m
  <2> QED
    BY <1>1
<1> HIDE DEF q, r
<1>4. m * q + r = m * 0 + x
  <2> HIDE DEF x, m
  <2> QED
    BY <1>1, <1>3
<1>5. r = x
  <2> HIDE DEF x, m
  <2> QED
    BY <1>1, <1>3, <1>4, RemainderUnique
<1> QED
  BY <1>2, <1>5

\* One match more counts down by one.
LEMMA RemainingStep ==
  ASSUME NEW c \in 0 .. Counts - 1, NEW s \in Nat
  PROVE  Remaining(c, s + 1) = Counted(Remaining(c, s))
<1> DEFINE m == Counts - 1
<1>0. m \in Nat /\ m >= 1 /\ c \in 0 .. m /\ 0 % m = 0
  BY BoundsAssumption
<1>1. CASE c = 0
  BY <1>1 DEF Remaining, Counted
<1>2. CASE c # 0 /\ s + 1 < c
  BY <1>0, <1>2 DEF Remaining, Counted
<1>3. CASE c # 0 /\ s + 1 = c
  <2>1. Remaining(c, s) = 1
    BY <1>0, <1>3 DEF Remaining
  <2>2. (s + 1) - c = 0
    BY <1>0, <1>3
  <2>3. Remaining(c, s + 1) = m - (((s + 1) - c) % m)
    BY <1>0, <1>3 DEF Remaining
  <2> QED
    BY <1>0, <2>1, <2>2, <2>3 DEF Counted
<1>4. CASE c # 0 /\ s >= c
  <2> DEFINE x == s - c
             r == x % m
  <2>1. x \in Nat /\ (s + 1) - c = x + 1
    BY <1>0, <1>4
  <2>2. r \in 0 .. m - 1 /\ (x + 1) % m = IF r = m - 1 THEN 0 ELSE r + 1
    <3> HIDE DEF m, x
    <3> QED
      BY <1>0, <2>1, ModStep
  <2>3. Remaining(c, s) = m - r
    BY <1>0, <1>4 DEF Remaining
  <2>4. Remaining(c, s + 1) = m - ((x + 1) % m)
    BY <1>0, <1>4, <2>1 DEF Remaining
  <2>5. Counts - 1 = m
    OBVIOUS
  <2> HIDE DEF r, x, m
  <2> QED
    BY <1>0, <2>2, <2>3, <2>4, <2>5 DEF Counted
<1> QED
  BY <1>0, <1>1, <1>2, <1>3, <1>4
-----------------------------------------------------------------------------
(* The invariant.                                                          *)

\* The walk has yet to come to node i, which matches the cycle.
Waits(i) == pc = "walk" /\ node # 0 /\ i >= node /\ Matches(pool[i], addr, kind)

\* The matches node i has counted.
Done(i) == IF Waits(i) THEN seen[i] - 1 ELSE seen[i]

Going == Running /\ fault = "none"

\* The trigger is in the list until tracing begins, and what is asked for is
\* still to come when a session begins.
SessionKnows ==
  /\ phase \in {0, 4} => pc = "next"
  /\ phase \in {0, 2} => \A i \in 1 .. used : pool[i].action = "trigger" => trigNode = i
  /\ (phase \in {0, 2} /\ trigNode # 0) => triggerCycle = Never
  /\ phase = 3 => trigNode = 0
  /\ \A i \in 1 .. used : pool[i].action # "log" => pool[i].asked > 0
  /\ phase = 0 => \A i \in 1 .. used : pool[i].count = pool[i].asked

WalkKnows ==
  pc = "walk" => (node = 0 \/ node \in Live) /\ \A i \in Live : Waits(i) => seen[i] >= 1

\* The one node that may have fired and not been obeyed is a trigger, in the
\* walk in which it fires.
CountKnows ==
  Going => \A i \in Live :
    /\ pool[i].count = Remaining(pool[i].asked, Done(i))
    /\ pool[i].action # "log" /\ Done(i) >= pool[i].asked =>
         pool[i].action = "trigger" /\ pc = "walk" /\ phase = 2 /\ hit

HitKnows ==
  (Going /\ pc = "walk" /\ phase = 2 /\ hit) =>
    trigNode # 0 /\ seen[trigNode] >= pool[trigNode].asked

DetachedKnows ==
  (Going /\ phase = 3) =>
    \A i \in 1 .. used : pool[i].action = "trigger" => seen[i] >= pool[i].asked

TracingKnows ==
  /\ (phase = 2 /\ cycles > 0) => traced = {} \/ cycles < triggerCycle
  /\ phase = 3 => cycles + 1 >= triggerCycle
  /\ (phase = 3 /\ pc # "next") => cycles >= triggerCycle

\* Node i has logged the cycle, or would have if none had before it.
Logs(i) ==
  /\ pool[i].action = "log" /\ Matches(pool[i], addr, kind)
  /\ pool[i].count \in {0, Counts - 1} /\ seen[i] >= pool[i].asked

LoggedSoFar == \E i \in 1 .. used : Logs(i) /\ ~Waits(i)

Recorded == LogFired \/ (phase = 3 /\ cycles >= triggerCycle /\ kind \in traced)

RecordKnows ==
  Going =>
    /\ pc = "walk" => (logged <=> LoggedSoFar) /\ records = (IF logged THEN 1 ELSE 0)
    /\ pc = "trace" => ~LogFired /\ records = 0 /\ phase = 3
    /\ (pc \in {"end", "next"} /\ cycles > 0) => records = IF Recorded THEN 1 ELSE 0

CountInv ==
  /\ SessionKnows /\ WalkKnows /\ CountKnows /\ HitKnows /\ DetachedKnows
  /\ TracingKnows /\ RecordKnows

-----------------------------------------------------------------------------
(* Steps that begin or end a session.                                      *)

\* Outside a session, and once a fault is latched, little is to be known.
LEMMA Idle ==
  ~Going => CountKnows /\ HitKnows /\ DetachedKnows /\ RecordKnows
  BY DEF CountKnows, HitKnows, DetachedKnows, RecordKnows

LEMMA LiveFacts ==
  ASSUME ChainType
  PROVE  /\ used \in 0 .. Pool /\ Live \subseteq 1 .. used /\ 1 .. used \subseteq 1 .. Pool
         /\ \A i \in 1 .. Pool : pool[i] \in Node
  BY BoundsAssumption DEF ChainType, Live

LEMMA InitCount == Init => CountInv
<1> SUFFICES ASSUME Init PROVE CountInv
  OBVIOUS
<1>1. phase = 0 /\ pc = "next" /\ used = 0 /\ trigNode = 0
  BY DEF Init
<1>2. ~Going
  BY <1>1 DEF Going, Running
<1>3. SessionKnows /\ WalkKnows /\ TracingKnows
  BY <1>1 DEF SessionKnows, WalkKnows, TracingKnows
<1> QED
  BY <1>2, <1>3, Idle DEF CountInv

LEMMA RestartCount == Restart => CountInv'
<1> SUFFICES ASSUME Restart PROVE CountInv'
  OBVIOUS
<1>1. phase' = 0 /\ pc' = "next" /\ used' = 0 /\ trigNode' = 0
  BY DEF Restart
<1>2. ~Going'
  BY <1>1 DEF Going, Running
<1>3. SessionKnows' /\ WalkKnows' /\ TracingKnows'
  BY <1>1 DEF SessionKnows, WalkKnows, TracingKnows
<1>4. CountKnows' /\ HitKnows' /\ DetachedKnows' /\ RecordKnows'
  BY <1>2 DEF CountKnows, HitKnows, DetachedKnows, RecordKnows
<1> QED
  BY <1>3, <1>4 DEF CountInv

LEMMA ConfigureCount ==
  ASSUME TypeOK, CountInv, NEW r \in Request, Configure(r)
  PROVE  CountInv'
<1>1. /\ Fitting(r) \in 0 .. Pool /\ Fitting(r) <= Len(Wanted(r)) /\ Len(Wanted(r)) \in Nat
      /\ Len(r.watches) \in Nat
  BY FittingFacts, WantedFacts
<1>2. phase = 0 /\ phase' = 0 /\ pc' = pc /\ used' = Fitting(r)
  BY DEF Configure
<1>3. pc' = "next"
  BY <1>2 DEF CountInv, SessionKnows
<1>4. \A i \in 1 .. Fitting(r) : pool'[i] = Linked(r, i)
  BY <1>1, BoundsAssumption DEF Configure
<1>5. \A i \in 1 .. Fitting(r) :
        /\ pool'[i].action = "trigger" <=> (Asked(r.trigger) /\ i = Len(r.watches) + 1)
        /\ pool'[i].action # "log" => pool'[i].asked > 0
        /\ pool'[i].count = pool'[i].asked
  BY <1>1, <1>4, LinkedFacts, WantedFacts
<1>6. trigNode' = IF Asked(r.trigger) /\ Len(r.watches) < Pool THEN Len(r.watches) + 1 ELSE 0
  BY DEF Configure
<1>7. \A i \in 1 .. used' : pool'[i].action = "trigger" => trigNode' = i
  BY <1>1, <1>2, <1>5, <1>6, BoundsAssumption
<1>8. trigNode' # 0 => triggerCycle' = Never
  BY <1>6 DEF Configure
<1>9. SessionKnows'
  BY <1>2, <1>3, <1>5, <1>7, <1>8 DEF SessionKnows
<1>10. WalkKnows' /\ TracingKnows'
  BY <1>2, <1>3 DEF WalkKnows, TracingKnows
<1>11. CountKnows' /\ HitKnows' /\ DetachedKnows' /\ RecordKnows'
  BY <1>2 DEF CountKnows, HitKnows, DetachedKnows, RecordKnows, Going, Running
<1> QED
  BY <1>9, <1>10, <1>11 DEF CountInv

\* A step that latches a fault or ends the session on one.
LEMMA FaultCount ==
  ASSUME CountInv, Sigint \/ WalkFaulted \/ Limit \/ SeeFault
  PROVE  CountInv'
<1>1. /\ pool' = pool /\ used' = used /\ trigNode' = trigNode
      /\ triggerCycle' = triggerCycle /\ traced' = traced
      /\ UNCHANGED <<cycles, addr, kind, seen, node>>
  BY DEF Sigint, WalkFaulted, Limit, SeeFault, chain, config, bus
<1>2. \/ phase' = phase /\ pc' = pc /\ phase \in {2, 3}
      \/ phase' = 4 /\ pc' = "next"
  BY DEF Sigint, WalkFaulted, Limit, SeeFault
<1>3. fault' # "none"
  BY DEF Sigint, WalkFaulted, Limit, SeeFault
<1>4. SessionKnows'
  BY <1>1, <1>2 DEF CountInv, SessionKnows
<1>5. WalkKnows'
  BY <1>1, <1>2 DEF CountInv, WalkKnows, Live, Waits
<1>6. TracingKnows'
  BY <1>1, <1>2 DEF CountInv, TracingKnows
<1>7. CountKnows' /\ HitKnows' /\ DetachedKnows' /\ RecordKnows'
  BY <1>3 DEF CountKnows, HitKnows, DetachedKnows, RecordKnows, Going
<1> QED
  BY <1>4, <1>5, <1>6, <1>7 DEF CountInv

-----------------------------------------------------------------------------
(* Steps between the walk and the next cycle.                              *)

\* When no node is waited for, what a live node has counted is what has come.
LEMMA NothingWaits ==
  (pc # "walk" \/ node = 0) => \A i : ~Waits(i) /\ Done(i) = seen[i]
  BY DEF Waits, Done

\* What LogFired and LoggedSoFar say when no node is waited for.
LEMMA LoggedAll ==
  /\ LogFired <=> \E i \in 1 .. used : Logs(i)
  /\ (pc # "walk" \/ node = 0) => (LoggedSoFar <=> LogFired)
  BY DEF LogFired, LoggedSoFar, Logs, Waits

LEMMA AfterWalkCount ==
  ASSUME TypeOK, CountInv, WalkDone \/ Trace \/ EndCycle
  PROVE  CountInv'
<1>1. /\ pool' = pool /\ used' = used /\ trigNode' = trigNode /\ phase' = phase /\ fault' = fault
      /\ triggerCycle' = triggerCycle /\ traced' = traced
      /\ UNCHANGED <<cycles, addr, kind, seen, node, hit, logged>>
  BY DEF WalkDone, Trace, EndCycle, chain, config, bus
<1>2. /\ pc' # "walk" /\ (pc = "walk" => node = 0) /\ pc # "next"
      /\ pc = "walk" => (phase = 2 => ~hit)
  BY DEF WalkDone, Trace, EndCycle
<1>3. phase \in {2, 3}
  BY <1>2 DEF CountInv, SessionKnows, TypeOK
<1>4. SessionKnows'
  BY <1>1, <1>3 DEF CountInv, SessionKnows
<1>5. WalkKnows' /\ HitKnows'
  BY <1>2 DEF WalkKnows, HitKnows
<1>6. CountKnows'
  <2> SUFFICES ASSUME Going', NEW i \in Live'
               PROVE  /\ pool'[i].count = Remaining(pool'[i].asked, Done(i)')
                      /\ ~(pool'[i].action # "log" /\ Done(i)' >= pool'[i].asked)
    BY DEF CountKnows
  <2>1. Going /\ i \in Live
    BY <1>1 DEF Going, Running, Live
  <2>2. Done(i) = seen[i] /\ Done(i)' = seen'[i]
    BY <1>2 DEF Waits, Done
  <2>3. pool[i].count = Remaining(pool[i].asked, Done(i))
        /\ ~(pool[i].action # "log" /\ Done(i) >= pool[i].asked)
    BY <1>2, <2>1 DEF CountInv, CountKnows
  <2> QED
    BY <1>1, <2>2, <2>3
<1>7. DetachedKnows'
  BY <1>1 DEF CountInv, DetachedKnows, Going, Running
<1>8. TracingKnows'
  BY <1>1, <1>2 DEF CountInv, TracingKnows
<1>9. RecordKnows'
  <2> SUFFICES ASSUME Going'
               PROVE  /\ pc' = "trace" => ~LogFired' /\ records' = 0 /\ phase' = 3
                      /\ (pc' \in {"end", "next"} /\ cycles' > 0) => records' = IF Recorded' THEN 1 ELSE 0
    BY <1>2 DEF RecordKnows
  <2>1. Going /\ fault = "none"
    BY <1>1 DEF Going, Running
  <2>2. (LogFired' <=> LogFired) /\ (Recorded' <=> Recorded)
    BY <1>1 DEF LogFired, Recorded
  <2>3. phase = 3 => cycles >= triggerCycle
    BY <1>2 DEF CountInv, TracingKnows
  <2>4. CASE WalkDone
    <3>1. (logged <=> LogFired) /\ records = (IF logged THEN 1 ELSE 0) /\ records' = records
      BY <2>1, <2>4, LoggedAll DEF CountInv, RecordKnows, WalkDone
    <3>2. CASE phase = 3 /\ ~logged
      BY <1>1, <2>2, <2>4, <3>1, <3>2 DEF WalkDone
    <3>3. CASE ~(phase = 3 /\ ~logged)
      <4>1. pc' = "end" /\ (Recorded <=> logged)
        BY <1>3, <2>4, <3>1, <3>3 DEF WalkDone, Recorded
      <4> QED
        BY <2>2, <3>1, <4>1
    <3> QED
      BY <3>2, <3>3
  <2>5. CASE Trace
    <3>1. ~LogFired /\ records = 0 /\ phase = 3 /\ pc = "trace" /\ pc' = "end"
      BY <2>1, <2>5 DEF CountInv, RecordKnows, Trace
    <3>2. Recorded <=> kind \in traced
      BY <2>3, <3>1 DEF Recorded
    <3>3. records' = IF kind \in traced THEN 1 ELSE 0
      BY <2>1, <2>5, <3>1 DEF Trace, Emit
    <3> QED
      BY <2>2, <3>1, <3>2, <3>3
  <2>6. CASE EndCycle
    <3>1. pc = "end" /\ pc' = "next" /\ records' = records
      BY <2>6 DEF EndCycle
    <3> QED
      BY <1>1, <2>1, <2>2, <3>1 DEF CountInv, RecordKnows
  <2> QED
    BY <2>4, <2>5, <2>6
<1> QED
  BY <1>4, <1>5, <1>6, <1>7, <1>8, <1>9 DEF CountInv

-----------------------------------------------------------------------------
(* Steps that begin a session or tracing.                                  *)

LEMMA MatchesSame ==
  ASSUME NEW v, NEW w, v.type = w.type, v.addr = w.addr, NEW a, NEW k
  PROVE  Matches(v, a, k) <=> Matches(w, a, k)
  BY DEF Matches

\* The pool may be relinked; what a node asks for and has counted stays.
SamePoints ==
  \A i \in 1 .. Pool :
    /\ pool'[i].action = pool[i].action /\ pool'[i].count = pool[i].count
    /\ pool'[i].asked = pool[i].asked /\ pool'[i].type = pool[i].type
    /\ pool'[i].addr = pool[i].addr

LEMMA LogFiredSame ==
  ASSUME ChainType, SamePoints, UNCHANGED <<used, addr, kind, seen>>
  PROVE  LogFired' <=> LogFired
<1>1. \A i \in 1 .. used : i \in 1 .. Pool
  BY LiveFacts
<1>2. \A i \in 1 .. used : Matches(pool'[i], addr, kind) <=> Matches(pool[i], addr, kind)
  BY <1>1, MatchesSame DEF SamePoints
<1> QED
  BY <1>1, <1>2 DEF LogFired, SamePoints

LEMMA StartCount ==
  ASSUME TypeOK, ChainKnows, CountInv, Start
  PROVE  CountInv'
<1>0. ChainType
  BY TwoTypes
<1>1. /\ phase = 0 /\ cycles' = 0 /\ pc' = "next" /\ fault' = fault
      /\ triggerCycle' = triggerCycle /\ traced' = traced
      /\ seen' = [i \in 1 .. Pool |-> 0]
  BY DEF Start, config
<1>2. /\ SamePoints /\ used' = used /\ Live' \subseteq Live
      /\ \/ phase' = 3 /\ triggerCycle = 0 /\ trigNode' = 0
         \/ phase' = 2 /\ trigNode' = trigNode
  <2>1. CASE traced # {} /\ triggerCycle = 0
    BY <1>0, <2>1, DetachChain DEF Start, SamePoints
  <2>2. CASE ~(traced # {} /\ triggerCycle = 0)
    BY <2>2 DEF Start, chain, SamePoints, Live
  <2> QED
    BY <2>1, <2>2
<1>3. /\ \A i \in 1 .. used : i \in 1 .. Pool /\ pool[i] \in Node
      /\ Live \subseteq 1 .. used
  BY <1>0, LiveFacts
<1>4. \A i \in 1 .. used :
        /\ pool[i].action = "trigger" => trigNode = i
        /\ pool[i].action # "log" => pool[i].asked > 0
        /\ pool[i].count = pool[i].asked
  BY <1>1 DEF CountInv, SessionKnows
<1>5. trigNode # 0 => triggerCycle = Never
  BY <1>1 DEF CountInv, SessionKnows
<1>6. SessionKnows'
  BY <1>1, <1>2, <1>3, <1>4, <1>5 DEF SessionKnows, SamePoints
<1>7. WalkKnows' /\ HitKnows'
  BY <1>1 DEF WalkKnows, HitKnows
<1>8. CountKnows'
  <2> SUFFICES ASSUME NEW i \in Live'
               PROVE  /\ pool'[i].count = Remaining(pool'[i].asked, Done(i)')
                      /\ ~(pool'[i].action # "log" /\ Done(i)' >= pool'[i].asked)
    BY DEF CountKnows
  <2>1. i \in 1 .. used /\ i \in 1 .. Pool
    BY <1>2, <1>3
  <2>2. Done(i)' = 0
    BY <1>1, <2>1 DEF Waits, Done
  <2>3. pool[i].asked \in 0 .. Counts - 1 /\ pool[i].count = pool[i].asked
        /\ (pool[i].action # "log" => pool[i].asked > 0)
    BY <1>3, <1>4, <2>1, NodeFields
  <2>4. Remaining(pool[i].asked, 0) = pool[i].asked
    BY <2>3, RemainingFacts
  <2> QED
    BY <1>2, <2>1, <2>2, <2>3, <2>4, BoundsAssumption DEF SamePoints
<1>9. DetachedKnows'
  <2> SUFFICES ASSUME phase' = 3, NEW i \in 1 .. used, pool'[i].action = "trigger" PROVE FALSE
    BY <1>2 DEF DetachedKnows
  <2>1. trigNode = i
    BY <1>2, <1>3, <1>4 DEF SamePoints
  <2>2. i # 0
    BY <1>0, LiveFacts, BoundsAssumption
  <2> QED
    BY <1>2, <1>5, <2>1, <2>2, BoundsAssumption DEF Never
<1>10. TracingKnows'
  BY <1>1, <1>2 DEF TracingKnows
<1>11. RecordKnows'
  BY <1>1 DEF RecordKnows
<1> QED
  BY <1>6, <1>7, <1>8, <1>9, <1>10, <1>11 DEF CountInv

\* Tracing that begins at a cycle asked for, not at a trigger: there is none.
LEMMA BeginTracingCount ==
  ASSUME TypeOK, ChainKnows, CountInv, BeginTracing
  PROVE  CountInv'
<1>0. ChainType /\ OtherType
  BY TwoTypes
<1>1. /\ phase = 2 /\ phase' = 3 /\ pc = "next" /\ pc' = "next" /\ fault' = fault
      /\ cycles + 1 >= triggerCycle
      /\ UNCHANGED <<triggerCycle, traced, cycles, addr, kind, seen, records>>
  BY DEF BeginTracing, TracingDue, config, bus
<1>2. trigNode = 0
  BY <1>0, <1>1, BoundsAssumption DEF CountInv, SessionKnows, OtherType, Never
<1>3. /\ SamePoints /\ used' = used /\ trigNode' = 0 /\ Live' \subseteq Live
  BY <1>0, DetachChain DEF BeginTracing, SamePoints
<1>4. /\ \A i \in 1 .. used : i \in 1 .. Pool /\ i # 0
      /\ Live \subseteq 1 .. used
  BY <1>0, LiveFacts, BoundsAssumption
<1>5. \A i \in 1 .. used : pool'[i].action # "trigger"
  BY <1>1, <1>2, <1>3, <1>4 DEF CountInv, SessionKnows, SamePoints
<1>6. SessionKnows'
  BY <1>1, <1>3, <1>4 DEF CountInv, SessionKnows, SamePoints
<1>7. WalkKnows' /\ HitKnows'
  BY <1>1 DEF WalkKnows, HitKnows
<1>8. CountKnows'
  <2> SUFFICES ASSUME Going', NEW i \in Live'
               PROVE  /\ pool'[i].count = Remaining(pool'[i].asked, Done(i)')
                      /\ ~(pool'[i].action # "log" /\ Done(i)' >= pool'[i].asked)
    BY DEF CountKnows
  <2>1. Going /\ i \in Live /\ i \in 1 .. Pool
    BY <1>1, <1>3, <1>4 DEF Going, Running
  <2>2. Done(i) = seen[i] /\ Done(i)' = seen[i]
    BY <1>1 DEF Waits, Done
  <2>3. pool[i].count = Remaining(pool[i].asked, Done(i))
        /\ ~(pool[i].action # "log" /\ Done(i) >= pool[i].asked)
    BY <1>1, <2>1 DEF CountInv, CountKnows
  <2> QED
    BY <1>3, <2>1, <2>2, <2>3 DEF SamePoints
<1>9. DetachedKnows'
  BY <1>3, <1>5 DEF DetachedKnows
<1>10. TracingKnows'
  BY <1>1 DEF TracingKnows
<1>11. RecordKnows'
  <2> SUFFICES ASSUME Going', cycles' > 0 PROVE records' = IF Recorded' THEN 1 ELSE 0
    BY <1>1 DEF RecordKnows
  <2>1. Going /\ cycles > 0
    BY <1>1 DEF Going, Running
  <2>2. LogFired' <=> LogFired
    BY <1>0, <1>1, <1>3, LogFiredSame
  <2>3. traced = {} \/ ~(cycles >= triggerCycle)
    BY <1>0, <1>1, <2>1, BoundsAssumption DEF CountInv, TracingKnows, OtherType, Never
  <2>4. Recorded' <=> Recorded
    BY <1>1, <2>2, <2>3 DEF Recorded
  <2> QED
    BY <1>1, <2>1, <2>4 DEF CountInv, RecordKnows
<1> QED
  BY <1>6, <1>7, <1>8, <1>9, <1>10, <1>11 DEF CountInv

\* Tracing that begins at the trigger.
LEMMA TriggerCount ==
  ASSUME TypeOK, ChainKnows, CountInv, Trigger
  PROVE  CountInv'
<1>0. ChainType /\ OtherType
  BY TwoTypes
<1>1. /\ pc = "walk" /\ node = 0 /\ fault = "none" /\ phase = 2 /\ hit
      /\ phase' = 3 /\ pc' = "next" /\ fault' = fault /\ triggerCycle' = cycles
      /\ UNCHANGED <<traced, cycles, addr, kind, seen>>
  BY DEF Trigger, bus
<1>2. Going
  BY <1>1 DEF Going, Running
<1>3. seen[trigNode] >= pool[trigNode].asked
  BY <1>1, <1>2 DEF CountInv, HitKnows
<1>4. /\ SamePoints /\ used' = used /\ trigNode' = 0 /\ Live' = Live \ {trigNode}
  BY <1>0, DetachChain DEF Trigger, SamePoints
<1>5. /\ \A i \in 1 .. used : i \in 1 .. Pool
      /\ Live \subseteq 1 .. used
  BY <1>0, LiveFacts
<1>6. \A i \in 1 .. used : pool[i].action = "trigger" => trigNode = i
  BY <1>1 DEF CountInv, SessionKnows
<1>7. SessionKnows'
  BY <1>1, <1>4, <1>5 DEF CountInv, SessionKnows, SamePoints
<1>8. WalkKnows' /\ HitKnows'
  BY <1>1 DEF WalkKnows, HitKnows
<1>9. CountKnows'
  <2> SUFFICES ASSUME NEW i \in Live'
               PROVE  /\ pool'[i].count = Remaining(pool'[i].asked, Done(i)')
                      /\ ~(pool'[i].action # "log" /\ Done(i)' >= pool'[i].asked)
    BY DEF CountKnows
  <2>1. i \in Live /\ i \in 1 .. Pool /\ pool[i].action # "trigger"
    BY <1>4, <1>5, <1>6
  <2>2. Done(i) = seen[i] /\ Done(i)' = seen[i]
    BY <1>1 DEF Waits, Done
  <2>3. pool[i].count = Remaining(pool[i].asked, Done(i))
        /\ ~(pool[i].action # "log" /\ Done(i) >= pool[i].asked)
    BY <1>2, <2>1 DEF CountInv, CountKnows
  <2> QED
    BY <1>4, <2>1, <2>2, <2>3 DEF SamePoints
<1>10. DetachedKnows'
  BY <1>1, <1>3, <1>4, <1>5, <1>6 DEF DetachedKnows, SamePoints
<1>11. TracingKnows'
  BY <1>0, <1>1, BoundsAssumption DEF TracingKnows, OtherType
<1>12. RecordKnows'
  <2> SUFFICES records' = IF Recorded' THEN 1 ELSE 0
    BY <1>1 DEF RecordKnows
  <2>1. LogFired' <=> LogFired
    BY <1>0, <1>1, <1>4, LogFiredSame
  <2>2. (logged <=> LogFired) /\ records = (IF logged THEN 1 ELSE 0)
    BY <1>1, <1>2, LoggedAll DEF CountInv, RecordKnows
  <2>3. Recorded' <=> LogFired \/ kind \in traced
    BY <1>0, <1>1, <2>1, BoundsAssumption DEF Recorded, OtherType
  <2>4. records' = IF ~logged /\ kind \in traced THEN records + 1 ELSE records
    BY <1>1 DEF Trigger, Emit
  <2> QED
    BY <2>2, <2>3, <2>4
<1> QED
  BY <1>7, <1>8, <1>9, <1>10, <1>11, <1>12 DEF CountInv

-----------------------------------------------------------------------------
(* A bus cycle begins.                                                     *)

LEMMA CycleCount ==
  ASSUME TypeOK, ChainKnows, CountInv, NEW a \in Addr, NEW k \in Kind, Cycle(a, k)
  PROVE  CountInv'
<1>0. ChainType /\ OtherType
  BY TwoTypes
<1>1. /\ pc = "next" /\ phase \in {2, 3} /\ phase' = phase /\ fault' = fault
      /\ cycles' = cycles + 1 /\ addr' = a /\ kind' = k /\ records' = 0
      /\ pool' = pool /\ used' = used /\ trigNode' = trigNode
      /\ triggerCycle' = triggerCycle /\ traced' = traced
  BY DEF Cycle, Running, chain, config
<1>2. /\ \A i \in 1 .. used : i \in 1 .. Pool /\ pool[i] \in Node /\ seen[i] \in Nat
      /\ Live \subseteq 1 .. used /\ Live' = Live
      /\ \A i \in 1 .. used : pool[i].action = "log" => i \in Live
  BY <1>0, <1>1, LiveFacts DEF OtherType, Live
<1>3. \A i \in 1 .. used : seen'[i] = IF Matches(pool[i], a, k) THEN seen[i] + 1 ELSE seen[i]
  BY <1>2 DEF Cycle
<1>4. hook <=> Live # {}
  BY DEF ChainKnows, ChainWhole
<1>5. hook => /\ pc' = "walk" /\ node' = head /\ logged' = FALSE
              /\ phase = 2 => hit' = FALSE
  BY DEF Cycle
<1>6. ~hook => pc' = IF phase = 3 THEN "trace" ELSE "end"
  BY DEF Cycle
<1>7. hook => head \in Live /\ head # 0 /\ \A i \in Live : i >= head
  <2>1. FirstFrom(1, head) /\ \A i \in Live : i >= 1
    BY <1>0, <1>2, LiveFacts DEF ChainKnows, ChainWhole
  <2>2. hook => head \in Live /\ \A i \in Live : i >= head
    <3>1. hook => \E i \in Live : i >= 1
      BY <1>4, <2>1
    <3> QED
      BY <2>1, <3>1 DEF FirstFrom
  <2> QED
    BY <2>1, <2>2
<1>8. \A i \in Live : Waits(i)' <=> Matches(pool[i], a, k)
  BY <1>1, <1>4, <1>5, <1>7 DEF Waits
<1>9. SessionKnows'
  BY <1>1 DEF CountInv, SessionKnows
<1>10. WalkKnows'
  <2>1. pc' = "walk" => node' \in Live
    BY <1>1, <1>5, <1>6, <1>7
  <2>2. \A i \in Live : Waits(i)' => seen'[i] >= 1
    BY <1>2, <1>3, <1>8
  <2> QED
    BY <1>2, <2>1, <2>2 DEF WalkKnows
<1>11. CountKnows'
  <2> SUFFICES ASSUME Going', NEW i \in Live
               PROVE  /\ pool[i].count = Remaining(pool[i].asked, Done(i)')
                      /\ ~(pool[i].action # "log" /\ Done(i)' >= pool[i].asked)
    BY <1>1, <1>2 DEF CountKnows
  <2>1. Going
    BY <1>1 DEF Going, Running
  <2>2. Done(i) = seen[i] /\ Done(i)' = seen[i]
    <3>1. Done(i) = seen[i]
      BY <1>1 DEF Waits, Done
    <3>2. Done(i)' = IF Matches(pool[i], a, k) THEN seen'[i] - 1 ELSE seen'[i]
      BY <1>8 DEF Done
    <3> QED
      BY <1>2, <1>3, <3>1, <3>2
  <2> QED
    BY <1>1, <2>1, <2>2 DEF CountInv, CountKnows
<1>12. HitKnows'
  BY <1>1, <1>5, <1>6 DEF HitKnows
<1>13. DetachedKnows'
  <2> SUFFICES ASSUME Going', phase = 3, NEW i \in 1 .. used, pool[i].action = "trigger"
               PROVE  seen'[i] >= pool[i].asked
    BY <1>1 DEF DetachedKnows
  <2>1. seen[i] >= pool[i].asked
    BY <1>1 DEF CountInv, DetachedKnows, Going, Running
  <2>2. pool[i].asked \in Nat /\ seen[i] \in Nat
    BY <1>2, NodeFields, BoundsAssumption
  <2> QED
    BY <1>3, <2>1, <2>2
<1>14. TracingKnows'
  <2>1. phase = 2 => traced = {} \/ cycles' < triggerCycle
    BY <1>0, <1>1, BoundsAssumption DEF Cycle, TracingDue, OtherType, Never
  <2>2. phase = 3 => cycles + 1 >= triggerCycle
    BY DEF CountInv, TracingKnows
  <2>3. phase = 3 => cycles' >= triggerCycle /\ cycles' + 1 >= triggerCycle
    BY <1>0, <1>1, <2>2, BoundsAssumption DEF OtherType, Never
  <2> QED
    BY <1>1, <2>1, <2>3 DEF TracingKnows
<1>15. RecordKnows'
  <2>1. CASE hook
    <3>1. ~LoggedSoFar'
      BY <1>1, <1>2, <1>8 DEF LoggedSoFar, Logs
    <3> QED
      BY <1>1, <1>5, <2>1, <3>1 DEF RecordKnows
  <2>2. CASE ~hook
    <3>1. ~LogFired'
      BY <1>1, <1>2, <1>4, <2>2 DEF LogFired
    <3>2. phase = 2 => ~Recorded'
      BY <1>1, <3>1 DEF Recorded
    <3> QED
      BY <1>1, <1>6, <2>2, <3>1, <3>2 DEF RecordKnows
  <2> QED
    BY <2>1, <2>2
<1> QED
  BY <1>9, <1>10, <1>11, <1>12, <1>13, <1>14, <1>15 DEF CountInv

-----------------------------------------------------------------------------
(* The walk looks at a node.                                               *)

\* What the count of a node says, before and after it counts a match.
LEMMA FiresFacts ==
  ASSUME NEW c \in 0 .. Counts - 1, NEW d \in Nat
  PROVE  /\ Fires(Remaining(c, d)) <=> Counted(Remaining(c, d)) \in {0, Counts - 1}
         /\ Fires(Remaining(c, d)) => d + 1 >= c
         /\ c > 0 /\ d < c /\ d + 1 >= c => Fires(Remaining(c, d))
<1>1. /\ Remaining(c, d) \in 0 .. Counts - 1
      /\ c # 0 /\ d < c => Remaining(c, d) = c - d
  BY RemainingFacts
<1>2. \A r \in 0 .. Counts - 1 : Fires(r) <=> Counted(r) \in {0, Counts - 1}
  BY BoundsAssumption DEF Fires, Counted
<1> QED
  BY <1>1, <1>2, BoundsAssumption DEF Fires

\* The step: which nodes wait, what changes in the pool.
LEMMA VisitFacts ==
  ASSUME TypeOK, ChainKnows, CountInv, Visit
  PROVE  /\ node \in Live /\ pc = "walk" /\ phase \in {2, 3} /\ Live' = Live
         /\ \A i \in 1 .. Pool : i # node => pool'[i] = pool[i]
         /\ SameNodes
         /\ \A i \in 1 .. Pool : pool'[i].asked = pool[i].asked
              /\ pool'[i].type = pool[i].type /\ pool'[i].addr = pool[i].addr
         /\ pool'[node].count = IF Matches(pool[node], addr, kind)
                                THEN Counted(pool[node].count) ELSE pool[node].count
         /\ UNCHANGED <<used, trigNode, triggerCycle, traced, phase, cycles, addr, kind, seen, pc>>
<1>1. ChainType /\ OtherType
  BY TwoTypes
<1>2. pc = "walk" /\ node # 0 /\ UNCHANGED <<used, trigNode, triggerCycle, traced, phase, cycles, addr, kind, seen, pc>>
  BY DEF Visit, config, bus
<1>3. phase \in {2, 3}
  BY <1>1, <1>2 DEF CountInv, SessionKnows, OtherType
<1>4. node \in Live
  BY <1>2 DEF CountInv, WalkKnows
<1>5. node \in 1 .. Pool /\ pool[node] \in Node /\ Live \subseteq 1 .. Pool
  BY <1>1, <1>4, LiveFacts
<1>6. Counted(pool[node].count) \in 0 .. Counts - 1
  BY <1>5, NodeFields, CountedType
<1>7. pool' = IF Matches(pool[node], addr, kind)
              THEN [pool EXCEPT ![node] = [pool[node] EXCEPT !.count = Counted(pool[node].count)]]
              ELSE pool
  BY DEF Visit
<1>8. \A i \in 1 .. Pool : i # node => pool'[i] = pool[i]
  BY <1>1, <1>7 DEF ChainType
<1>9. /\ pool'[node].action = pool[node].action /\ pool'[node].next = pool[node].next
      /\ pool'[node].asked = pool[node].asked
      /\ pool'[node].type = pool[node].type /\ pool'[node].addr = pool[node].addr
      /\ pool'[node].count = IF Matches(pool[node], addr, kind)
                             THEN Counted(pool[node].count) ELSE pool[node].count
  <2>1. CASE Matches(pool[node], addr, kind)
    <3>1. pool'[node] = [pool[node] EXCEPT !.count = Counted(pool[node].count)]
      BY <1>1, <1>5, <1>7, <2>1 DEF ChainType
    <3> QED
      BY <1>5, <1>6, <2>1, <3>1, CountChange
  <2>2. CASE ~Matches(pool[node], addr, kind)
    BY <1>7, <2>2
  <2> QED
    BY <2>1, <2>2
<1>10. \A i \in 1 .. Pool :
         /\ pool'[i].action = pool[i].action /\ pool'[i].next = pool[i].next
         /\ pool'[i].asked = pool[i].asked
         /\ pool'[i].type = pool[i].type /\ pool'[i].addr = pool[i].addr
  BY <1>8, <1>9
<1>11. Live' = Live
  BY <1>1, <1>2, <1>10, LiveFacts DEF Live
<1> QED
  BY <1>2, <1>3, <1>4, <1>8, <1>9, <1>10, <1>11 DEF SameNodes

\* The walk goes on to the next live node: one node less is waited for.
LEMMA VisitWaits ==
  ASSUME TypeOK, ChainKnows, CountInv, Visit
  PROVE  /\ node' = 0 \/ node' \in Live
         /\ \A i \in Live : Waits(i)' => Waits(i)
         /\ \A i \in Live : i = node => ~Waits(i)'
         /\ fault' = "none" => \A i \in Live : i # node => (Waits(i)' <=> Waits(i))
<1>1. ChainType
  BY TwoTypes
<1>2. /\ node \in Live /\ node # 0 /\ pc = "walk" /\ pc' = "walk" /\ addr' = addr /\ kind' = kind
      /\ \A i \in 1 .. Pool : pool'[i].type = pool[i].type /\ pool'[i].addr = pool[i].addr
  BY VisitFacts DEF Visit
<1>3. Live \subseteq 1 .. Pool
  BY <1>1, LiveFacts
<1>11. node \in Nat /\ \A i \in Live : i \in Nat
  BY <1>2, <1>3, BoundsAssumption
<1>4. \A i \in Live : Matches(pool'[i], addr, kind) <=> Matches(pool[i], addr, kind)
  BY <1>2, <1>3, MatchesSame
<1>5. \A i \in Live : /\ Waits(i) <=> i >= node /\ Matches(pool[i], addr, kind)
                      /\ Waits(i)' <=> node' # 0 /\ i >= node' /\ Matches(pool[i], addr, kind)
  BY <1>2, <1>4 DEF Waits
<1> DEFINE next == pool[node].next
<1>6. FirstFrom(node + 1, next)
  BY <1>2 DEF ChainKnows, ChainWhole
<1>7. next = 0 \/ (next \in Live /\ next > node)
  <2>1. next = 0 \/ (next \in Live /\ next >= node + 1)
    BY <1>6 DEF FirstFrom
  <2> HIDE DEF next
  <2> QED
    BY <1>11, <2>1
<1>8. \A i \in Live : i > node => next # 0 /\ i >= next
  <2> SUFFICES ASSUME NEW i \in Live, i > node PROVE next # 0 /\ i >= next
    OBVIOUS
  <2>1. i >= node + 1
    BY <1>2, <1>3, BoundsAssumption
  <2>2. next \in Live /\ \A k \in Live : k >= node + 1 => k >= next
    BY <1>6, <2>1 DEF FirstFrom
  <2> HIDE DEF next
  <2> QED
    BY <1>3, <2>1, <2>2, BoundsAssumption
<1>9. node' \in {0, next} /\ (fault' = "none" => node' = next)
  BY DEF Visit
<1> HIDE DEF next
<1>10. \A i \in Live : Waits(i)' => i > node
  <2> SUFFICES ASSUME NEW i \in Live, Waits(i)' PROVE i > node
    OBVIOUS
  <2>1. node' # 0 /\ i >= node'
    BY <1>5
  <2>2. node' \in Live /\ node' > node
    BY <1>7, <1>9, <2>1
  <2> QED
    BY <1>11, <2>1, <2>2
<1>12. \A i \in Live : Waits(i)' => Waits(i)
  BY <1>5, <1>10, <1>11
<1>13. \A i \in Live : i = node => ~Waits(i)'
  BY <1>10, <1>11
<1>14. ASSUME fault' = "none", NEW i \in Live, i # node PROVE Waits(i)' <=> Waits(i)
  <2>1. Waits(i) => i > node
    BY <1>5, <1>11, <1>14
  <2>2. Waits(i) => Waits(i)'
    BY <1>5, <1>8, <1>9, <1>14, <2>1
  <2> QED
    BY <1>12, <2>2
<1> QED
  BY <1>7, <1>9, <1>12, <1>13, <1>14

LEMMA VisitCounted ==
  ASSUME TypeOK, ChainKnows, CountInv, Visit, Going'
  PROVE  /\ Going /\ CountKnows' /\ HitKnows'
         /\ Matches(pool[node], addr, kind) =>
              /\ pool'[node].count \in {0, Counts - 1} <=> Fires(pool[node].count)
              /\ Fires(pool[node].count) => seen[node] >= pool[node].asked
<1>1. /\ node \in Live /\ pc = "walk" /\ phase \in {2, 3} /\ Live' = Live
      /\ \A i \in 1 .. Pool : i # node => pool'[i] = pool[i]
      /\ \A i \in 1 .. Pool : pool'[i].action = pool[i].action /\ pool'[i].asked = pool[i].asked
      /\ pool'[node].count = IF Matches(pool[node], addr, kind)
                             THEN Counted(pool[node].count) ELSE pool[node].count
      /\ UNCHANGED <<used, trigNode, phase, seen, pc, addr, kind>>
  BY VisitFacts DEF SameNodes
<1>2. /\ \A i \in Live : i \in 1 .. Pool /\ seen[i] \in Nat /\ pool[i].asked \in 0 .. Counts - 1
                           /\ pool[i].action \in {"log", "trigger", "stop"}
      /\ Live \subseteq 1 .. used
  <2>1. \A i \in 1 .. Pool : pool[i] \in Node
    BY TwoTypes, LiveFacts
  <2>2. Live \subseteq 1 .. Pool /\ Live \subseteq 1 .. used
    BY TwoTypes, LiveFacts
  <2> QED
    BY <2>1, <2>2, NodeFields DEF TypeOK
<1> DEFINE w == pool[node]
           matched == Matches(w, addr, kind)
           fires == matched /\ Fires(w.count)
           d == Done(node)
<1>3. fault' = "none" /\ fault = "none" /\ ~(fires /\ w.action = "stop")
      /\ (hit' <=> hit \/ (fires /\ w.action = "trigger"))
  BY DEF Visit, Going
<1>4. Going
  BY <1>1, <1>3 DEF Going, Running
<1>5. /\ Waits(node) <=> matched
      /\ matched => d = seen[node] - 1 /\ d \in Nat /\ d + 1 = seen[node]
      /\ ~matched => d = seen[node]
      /\ d \in Nat
  <2>1. Waits(node) <=> matched
    BY <1>1, <1>2 DEF Waits, Visit
  <2>2. matched => seen[node] >= 1
    BY <1>1, <2>1 DEF CountInv, WalkKnows
  <2> HIDE DEF matched, w
  <2> QED
    BY <1>1, <1>2, <2>1, <2>2 DEF Done
<1>6. w.count = Remaining(w.asked, d)
  BY <1>1, <1>4 DEF CountInv, CountKnows
<1>7. w.asked \in 0 .. Counts - 1 /\ w.action \in {"log", "trigger", "stop"}
  BY <1>1, <1>2
<1>8. matched => /\ pool'[node].count \in {0, Counts - 1} <=> Fires(w.count)
                 /\ Fires(w.count) => seen[node] >= w.asked
                 /\ (w.asked > 0 /\ d < w.asked /\ seen[node] >= w.asked) => Fires(w.count)
                 /\ pool'[node].count = Remaining(w.asked, seen[node])
  <2>1. pool'[node].count = IF matched THEN Counted(w.count) ELSE w.count
    BY <1>1
  <2> HIDE DEF matched, d, w
  <2> QED
    BY <1>5, <1>6, <1>7, <2>1, FiresFacts, RemainingStep
<1>9. w.action # "log" => w.asked > 0
  BY <1>1, <1>2 DEF CountInv, SessionKnows
<1>10. w.action = "trigger" => trigNode = node /\ phase = 2
  <2>1. w.action = "trigger" => trigNode = node
    BY <1>1 DEF Live
  <2>2. node # 0
    BY DEF Visit
  <2> QED
    BY <1>1, <2>1, <2>2 DEF CountInv, SessionKnows
<1>11. w.action # "log" /\ d >= w.asked => w.action = "trigger" /\ hit
  BY <1>1, <1>4 DEF CountInv, CountKnows
<1>12. CountKnows'
  <2> SUFFICES ASSUME NEW i \in Live
               PROVE  /\ pool'[i].count = Remaining(pool'[i].asked, Done(i)')
                      /\ pool'[i].action # "log" /\ Done(i)' >= pool'[i].asked =>
                           pool'[i].action = "trigger" /\ phase = 2 /\ hit'
    BY <1>1 DEF CountKnows
  <2>1. CASE i # node
    <3>1. pool'[i] = pool[i] /\ Done(i)' = Done(i)
      BY <1>1, <1>2, <1>3, <2>1, VisitWaits DEF Done
    <3>2. /\ pool[i].count = Remaining(pool[i].asked, Done(i))
          /\ pool[i].action # "log" /\ Done(i) >= pool[i].asked =>
               pool[i].action = "trigger" /\ phase = 2 /\ hit
      BY <1>4 DEF CountInv, CountKnows
    <3> QED
      BY <1>3, <3>1, <3>2
  <2>2. CASE i = node
    <3>1. Done(i)' = seen[i]
      BY <1>1, <2>2, VisitWaits DEF Done
    <3>2. pool'[i].asked = w.asked /\ pool'[i].action = w.action
      BY <1>1, <1>2, <2>2
    <3>3. pool'[i].count = Remaining(w.asked, seen[i])
      BY <1>1, <1>5, <1>6, <1>8, <2>2
    <3>4. w.action # "log" /\ seen[i] >= w.asked => w.action = "trigger" /\ phase = 2 /\ hit'
      <4> SUFFICES ASSUME w.action # "log", seen[i] >= w.asked
                   PROVE  w.action = "trigger" /\ phase = 2 /\ hit'
        OBVIOUS
      <4>1. CASE d >= w.asked
        BY <1>3, <1>10, <1>11, <4>1
      <4>2. CASE ~(d >= w.asked)
        <5>1. matched /\ d < w.asked
          BY <1>5, <1>7, <2>2, <4>2, BoundsAssumption
        <5>2. fires
          BY <1>8, <1>9, <2>2, <5>1
        <5>3. w.action = "trigger"
          BY <1>3, <1>7, <5>2
        <5> QED
          BY <1>3, <1>10, <5>2, <5>3
      <4> QED
        BY <4>1, <4>2
    <3> QED
      BY <3>1, <3>2, <3>3, <3>4
  <2> QED
    BY <2>1, <2>2
<1>13. HitKnows'
  <2> SUFFICES ASSUME phase = 2, hit' PROVE trigNode # 0 /\ seen[trigNode] >= pool'[trigNode].asked
    BY <1>1 DEF HitKnows
  <2>1. CASE hit
    <3>1. trigNode # 0 /\ seen[trigNode] >= pool[trigNode].asked
      BY <1>1, <1>4, <2>1 DEF CountInv, HitKnows
    <3>2. trigNode \in 1 .. Pool
      BY <3>1, BoundsAssumption DEF TypeOK
    <3> QED
      BY <1>1, <3>1, <3>2
  <2>2. CASE fires /\ w.action = "trigger"
    <3>1. trigNode = node /\ node # 0 /\ node \in 1 .. Pool
      BY <1>1, <1>2, <1>10, <2>2 DEF Visit
    <3> QED
      BY <1>1, <1>8, <2>2, <3>1
  <2> QED
    BY <1>3, <2>1, <2>2
<1> QED
  BY <1>4, <1>8, <1>12, <1>13

LEMMA VisitRecord ==
  ASSUME TypeOK, ChainKnows, CountInv, Visit
  PROVE  RecordKnows'
<1>1. /\ node \in Live /\ pc = "walk" /\ Live' = Live
      /\ \A i \in 1 .. Pool : i # node => pool'[i] = pool[i]
      /\ \A i \in 1 .. Pool :
           /\ pool'[i].action = pool[i].action /\ pool'[i].asked = pool[i].asked
           /\ pool'[i].type = pool[i].type /\ pool'[i].addr = pool[i].addr
      /\ UNCHANGED <<used, phase, seen, pc, addr, kind>>
  BY VisitFacts DEF SameNodes
<1> SUFFICES ASSUME Going'
             PROVE  (logged' <=> LoggedSoFar') /\ records' = (IF logged' THEN 1 ELSE 0)
  BY <1>1 DEF RecordKnows
<1> DEFINE w == pool[node]
           matched == Matches(w, addr, kind)
           logs == matched /\ Fires(w.count) /\ w.action = "log"
<1>2. /\ \A i \in 1 .. used : i \in 1 .. Pool
      /\ Live \subseteq 1 .. used
      /\ \A i \in 1 .. used : pool[i].action = "log" => i \in Live
  BY TwoTypes, LiveFacts DEF Live
<1>3. /\ Going
      /\ matched => /\ pool'[node].count \in {0, Counts - 1} <=> Fires(w.count)
                    /\ Fires(w.count) => seen[node] >= w.asked
  BY VisitCounted
<1>4. fault = "none" /\ fault' = "none"
  BY <1>3 DEF Going
<1>5. (logged <=> LoggedSoFar) /\ records = (IF logged THEN 1 ELSE 0)
  BY <1>1, <1>3 DEF CountInv, RecordKnows
<1>6. /\ logged' <=> logged \/ logs
      /\ records' = IF logs /\ ~logged THEN records + 1 ELSE records
  <2>1. CASE logs /\ ~logged
    BY <1>4, <2>1 DEF Visit, Emit
  <2>2. CASE ~(logs /\ ~logged)
    <3>1. logged' = logged /\ records' = records
      BY <2>2 DEF Visit
    <3> QED
      BY <2>2, <3>1
  <2> QED
    BY <2>1, <2>2
<1>7. \A i \in 1 .. used : i # node => (Logs(i)' /\ ~Waits(i)' <=> Logs(i) /\ ~Waits(i))
  <2> SUFFICES ASSUME NEW i \in 1 .. used, i # node
               PROVE  Logs(i)' /\ ~Waits(i)' <=> Logs(i) /\ ~Waits(i)
    OBVIOUS
  <2>1. Logs(i)' <=> Logs(i)
    BY <1>1, <1>2 DEF Logs
  <2>2. Logs(i) => (Waits(i)' <=> Waits(i))
    BY <1>2, <1>4, VisitWaits DEF Logs
  <2> QED
    BY <2>1, <2>2
<1>8. \A i \in 1 .. used : i = node => (Logs(i)' /\ ~Waits(i)' <=> logs)
  <2> SUFFICES ASSUME NEW i \in 1 .. used, i = node PROVE Logs(i)' /\ ~Waits(i)' <=> logs
    OBVIOUS
  <2>1. ~Waits(i)'
    BY <1>1, VisitWaits
  <2>2. Matches(pool'[i], addr, kind) <=> matched
    BY <1>1, <1>2, MatchesSame
  <2>3. Logs(i)' <=> /\ w.action = "log" /\ matched
                     /\ pool'[i].count \in {0, Counts - 1} /\ seen[i] >= w.asked
    BY <1>1, <1>2, <2>2 DEF Logs
  <2> HIDE DEF matched, w
  <2> QED
    BY <1>3, <2>1, <2>3
<1>9. \A i \in 1 .. used : i = node => ~(Logs(i) /\ ~Waits(i))
  BY <1>1 DEF Logs, Waits, Visit, Live
<1>10. LoggedSoFar' <=> LoggedSoFar \/ logs
  <2>1. node \in 1 .. used
    BY <1>1, <1>2
  <2>2. LoggedSoFar' <=> \E i \in 1 .. used : Logs(i)' /\ ~Waits(i)'
    BY <1>1 DEF LoggedSoFar
  <2> HIDE DEF logs
  <2> QED
    BY <1>7, <1>8, <1>9, <2>1, <2>2 DEF LoggedSoFar
<1> HIDE DEF logs
<1> QED
  BY <1>5, <1>6, <1>10

LEMMA VisitCount ==
  ASSUME TypeOK, ChainKnows, CountInv, Visit
  PROVE  CountInv'
<1>1. /\ phase \in {2, 3} /\ Live' = Live
      /\ \A i \in 1 .. Pool : pool'[i].action = pool[i].action /\ pool'[i].asked = pool[i].asked
      /\ UNCHANGED <<used, trigNode, triggerCycle, traced, phase, cycles, addr, kind, seen, pc>>
  BY VisitFacts DEF SameNodes
<1>2. \A i \in 1 .. used : i \in 1 .. Pool
  BY TwoTypes, LiveFacts
<1>3. SessionKnows'
  BY <1>1, <1>2 DEF CountInv, SessionKnows
<1>4. WalkKnows'
  BY <1>1, VisitWaits DEF CountInv, WalkKnows
<1>5. CountKnows' /\ HitKnows'
  BY VisitCounted DEF CountKnows, HitKnows
<1>6. DetachedKnows'
  <2> SUFFICES ASSUME Going', phase = 3, NEW i \in 1 .. used, pool[i].action = "trigger"
               PROVE  seen[i] >= pool[i].asked
    BY <1>1, <1>2 DEF DetachedKnows
  <2>1. Going
    BY VisitCounted
  <2> QED
    BY <2>1 DEF CountInv, DetachedKnows
<1>7. TracingKnows'
  BY <1>1 DEF CountInv, TracingKnows
<1> QED
  BY <1>3, <1>4, <1>5, <1>6, <1>7, VisitRecord DEF CountInv

-----------------------------------------------------------------------------
(* The theorems.                                                           *)

LEMMA StutterCount == CountInv /\ UNCHANGED vars => CountInv'
<1> SUFFICES ASSUME CountInv, UNCHANGED vars PROVE CountInv'
  OBVIOUS
<1>1. /\ UNCHANGED <<pool, used, trigNode, triggerCycle, traced, phase, fault>>
      /\ UNCHANGED <<cycles, addr, kind, pc, node, logged, hit, seen, records>>
  BY DEF vars
<1>2. SessionKnows' /\ WalkKnows' /\ HitKnows' /\ DetachedKnows' /\ TracingKnows'
  BY <1>1 DEF CountInv, SessionKnows, WalkKnows, HitKnows, DetachedKnows, TracingKnows, Waits,
              Live, Going, Running
<1>3. CountKnows'
  BY <1>1 DEF CountInv, CountKnows, Done, Waits, Live, Going, Running
<1>4. RecordKnows'
  BY <1>1 DEF CountInv, RecordKnows, LoggedSoFar, Logs, Waits, Recorded, LogFired, Going, Running
<1> QED
  BY <1>2, <1>3, <1>4 DEF CountInv

LEMMA StepCount == TypeOK /\ ChainKnows /\ CountInv /\ [Next]_vars => CountInv'
<1> SUFFICES ASSUME TypeOK, ChainKnows, CountInv, [Next]_vars PROVE CountInv'
  OBVIOUS
<1>1. ASSUME NEW r \in Request, Configure(r) PROVE CountInv'
  BY <1>1, ConfigureCount
<1>2. CASE Start
  BY <1>2, StartCount
<1>3. CASE Restart
  BY <1>3, RestartCount
<1>4. CASE Sigint \/ WalkFaulted \/ Limit \/ SeeFault
  BY <1>4, FaultCount
<1>5. ASSUME NEW a \in Addr, NEW k \in Kind, Cycle(a, k) PROVE CountInv'
  BY <1>5, CycleCount
<1>6. CASE BeginTracing
  BY <1>6, BeginTracingCount
<1>7. CASE Visit
  BY <1>7, VisitCount
<1>8. CASE Trigger
  BY <1>8, TriggerCount
<1>9. CASE WalkDone \/ Trace \/ EndCycle
  BY <1>9, AfterWalkCount
<1>10. CASE UNCHANGED vars
  BY <1>10, StutterCount
<1> QED
  BY <1>1, <1>2, <1>3, <1>4, <1>5, <1>6, <1>7, <1>8, <1>9, <1>10 DEF Next, Session, Engine, Walk

THEOREM CountInvariance == Spec => [](TypeOK /\ ChainKnows /\ CountInv)
  BY InitTypeOK, StepTypeOK, InitChain, StepChain, InitCount, StepCount, PTL DEF Spec

\* Every live watchpoint has counted every bus cycle that matches it, once, down
\* to the match it was asked for and on until the count comes round.
THEOREM CountsAreExact == Spec => []CountExact
<1>1. TypeOK /\ CountInv => CountExact
  <2> SUFFICES ASSUME TypeOK, CountInv, Settled, NEW i \in Live,
                      NEW c, c = pool[i].asked, NEW past, past = seen[i] - c
               PROVE  /\ c = 0 => pool[i].count = 0
                      /\ seen[i] < c => pool[i].count = c - seen[i]
                      /\ c > 0 /\ past \in 0 .. Counts - 2 => pool[i].count = Counts - 1 - past
    BY DEF CountExact
  <2>1. c \in 0 .. Counts - 1 /\ seen[i] \in Nat
    <3>1. i \in 1 .. Pool /\ pool[i] \in Node
      BY TwoTypes, LiveFacts DEF Live
    <3> QED
      BY <3>1, NodeFields DEF TypeOK
  <2>2. pool[i].count = Remaining(c, seen[i])
    BY NothingWaits DEF CountInv, CountKnows, Settled, Going
  <2>3. c = 0 => pool[i].count = 0
    BY <2>1, <2>2, RemainingFacts
  <2>4. ASSUME seen[i] < c
        PROVE  pool[i].count = c - seen[i]
    <3>1. c # 0
      BY <2>1, <2>4, BoundsAssumption
    <3>2. Remaining(c, seen[i]) = c - seen[i]
      BY <2>1, <2>4, <3>1, RemainingFacts
    <3> QED
      BY <2>2, <3>2
  <2>5. ASSUME c > 0, past \in 0 .. Counts - 2
        PROVE  pool[i].count = Counts - 1 - past
    <3>1. c \in 1 .. Counts - 1 /\ seen[i] \in Nat /\ seen[i] - c \in 0 .. Counts - 2
      BY <2>1, <2>5, BoundsAssumption
    <3>2. Remaining(c, seen[i]) = Counts - 1 - (seen[i] - c)
      BY <3>1, RemainingPast
    <3> QED
      BY <2>2, <3>2
  <2> QED
    BY <2>3, <2>4, <2>5
<1> QED
  BY <1>1, CountInvariance, PTL

\* The stop ends the session at the match it was asked for, and the trigger
\* begins tracing at its own, neither before nor after.
THEOREM LimitsAreHonoured == Spec => []LimitsHonoured
<1>1. TypeOK /\ CountInv => LimitsHonoured
  <2> SUFFICES ASSUME TypeOK, CountInv, Settled, NEW i \in 1 .. used
               PROVE  /\ pool[i].action = "stop" => seen[i] < pool[i].asked
                      /\ pool[i].action = "trigger" => (phase = 2 <=> seen[i] < pool[i].asked)
    BY DEF LimitsHonoured
  <2>1. i \in 1 .. Pool /\ pool[i].asked \in Nat /\ seen[i] \in Nat
    <3>1. i \in 1 .. Pool /\ pool[i] \in Node
      BY TwoTypes, LiveFacts
    <3> QED
      BY <3>1, NodeFields, BoundsAssumption DEF TypeOK
  <2>2. Going /\ pc = "next" /\ phase \in {2, 3}
    BY DEF Settled, Going, Running
  <2>3. i \in Live /\ pool[i].action # "log" => seen[i] < pool[i].asked
    BY <2>1, <2>2, NothingWaits DEF CountInv, CountKnows
  <2>4. CASE pool[i].action = "stop"
    BY <2>3, <2>4 DEF Live
  <2>5. CASE pool[i].action = "trigger"
    <3>1. phase = 2 => trigNode = i
      BY <2>2, <2>5 DEF CountInv, SessionKnows
    <3>2. phase = 2 => seen[i] < pool[i].asked
      BY <2>3, <2>5, <3>1 DEF Live
    <3>3. phase = 3 => ~(seen[i] < pool[i].asked)
      BY <2>1, <2>2, <2>5 DEF CountInv, DetachedKnows
    <3> QED
      BY <2>2, <2>5, <3>2, <3>3
  <2> QED
    BY <2>4, <2>5
<1> QED
  BY <1>1, CountInvariance, PTL

\* A cycle that is traced, logged by a watchpoint, by two, or traced and
\* logged, is sent to Core 0 once; no other cycle is sent.
THEOREM RecordsAreSingle == Spec => []OneRecord
<1>1. CountInv => OneRecord
  BY DEF CountInv, RecordKnows, OneRecord, Settled, Going, Recorded
<1> QED
  BY <1>1, CountInvariance, PTL
=============================================================================
