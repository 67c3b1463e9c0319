----------------------------- MODULE TetherProofs -----------------------------
(***************************************************************************)
(* Sessions of the Tether, for every number of uploads, of packets in a    *)
(* core dump, of packets under way and of launches: types, and, as long as *)
(* no more Tethers are launched than a session has RPCs, the safety        *)
(* properties of Tether.                                                   *)
(*                                                                         *)
(* The argument follows the packets.  A call, its answer, and what the run *)
(* it starts sends pass through three queues: toPico, up and inbox.  In    *)
(* each of them, and from one to the next, they are in the order of the    *)
(* sessions, which tells what the Pico has seen when a packet reaches the  *)
(* Tether.  The one exception is an answer that a dead Tether did not live *)
(* to read: it may be taken for the answer to the same call of the next    *)
(* session.  Such answers are counted: a Tether leaves at most one more    *)
(* than it found.                                                          *)
(***************************************************************************)
EXTENDS Tether, SequenceTheorems, FiniteSetTheorems, TLAPS

\* No more Tethers were launched so far than a session has calls.
FewLives == life <= Start

-----------------------------------------------------------------------------
(* Packets, and the order they come in.                                    *)

DownPackets(l) == [cmd : {"restart", "sigint"}, life : 1 .. l, x : {0}]
                  \cup [cmd : {"rpc"}, life : 1 .. l, x : 1 .. Start]

IsRestarted(p) == p.cmd = "restarted"
UpPackets(l) == [cmd : {"restarted"}, life : {0}, x : {0}]
                \cup [cmd : {"answer"}, life : 1 .. l, x : 1 .. Start]
                \cup [cmd : {"trace"}, life : 1 .. l, x : Nat]
                \cup [cmd : {"fault"}, life : 1 .. l, x : 1 .. 3]
                \cup [cmd : {"chunk"}, life : 1 .. l, x : 1 .. Chunks]

IsCall(p)  == p.cmd \in {"rpc", "answer"}
IsStart(p) == p.cmd = "rpc" /\ p.x = Start
IsDown(p)  == p.cmd \in {"restart", "rpc", "sigint"}

\* What belongs to the run that life l started, from the answer to start on.
InRun(p, l) == p.life = l /\ (OfRun(p) \/ (p.cmd = "answer" /\ p.x = Start))

\* In a session restarts come first, then the calls, then SIGINT.
Rank(p) == IF p.cmd = "restart" THEN 0 ELSE IF p.cmd = "sigint" THEN Start + 1 ELSE p.x

Lex(p, q) ==
  \/ p.life < q.life
  \/ p.life = q.life /\ (Rank(p) < Rank(q) \/ (p.cmd = "restart" /\ q.cmd = "restart"))

\* p may come before q, in the life l: packets of a session are in order; after
\* an answer of this session no restart is heard of; after start was answered
\* there is nothing but its run; only the last session may start a run with a
\* restart under way; and no start is under way when a session begins.
Before(p, q, l) ==
  /\ (IsDown(p) \/ p.cmd = "answer") /\ (IsDown(q) \/ q.cmd = "answer") => Lex(p, q)
  /\ p.cmd = "answer" /\ p.life = l => ~IsRestarted(q)
  /\ InRun(p, l) => IsDown(q) \/ (OfRun(q) /\ q.life = l)
  /\ p.cmd = "restart" /\ IsStart(q) => q.life >= Start
  /\ ~(IsStart(p) /\ q.cmd = "rpc" /\ q.x = 1)

InOrder(s, l)  == \A i, j \in 1 .. Len(s) : i < j => Before(s[i], s[j], l)
Ahead(s, t, l) == \A p \in Range(s), q \in Range(t) : Before(p, q, l)

\* p and then q, of the run of life l: a trace goes on where it was.
Link(p, q, l) ==
  InRun(p, l) /\ q.cmd = "trace" => p.cmd = "answer" \/ (p.cmd = "trace" /\ q.x = p.x + 1)

Linked(s, l) == \A i \in 1 .. Len(s) - 1 : Link(s[i], s[i + 1], l)
Final(s) == s[Len(s)]

-----------------------------------------------------------------------------
(* The invariant.                                                          *)

TypedWire ==
  /\ life \in 1 .. Lives
  /\ toPico \in Seq(DownPackets(life))
  /\ up \in Seq(UpPackets(life)) /\ Len(up) <= UpMax
  /\ inbox \in Seq(UpPackets(life))

TypedCaller ==
  /\ main \in {"beacon", "call", "await", "started", "running", "gone"}
  /\ k \in 1 .. Start /\ pending \in 0 .. Start
  /\ reply \in [cmd : {"answer"}, life : 1 .. life, x : 1 .. Start] \cup {None}
  /\ token \in BOOLEAN /\ cpuStarted \in BOOLEAN
  /\ exit \in {"none", "0", "1", "130", "killed"}

TypedOutput ==
  /\ disp \in {"run", "drain"}
  /\ shown \in Seq([cmd : {"trace"}, life : 1 .. life, x : Nat])
  /\ reason \in [cmd : {"fault"}, life : 1 .. life, x : 1 .. 3] \cup {None}
  /\ chunks \subseteq [cmd : {"chunk"}, life : 1 .. life, x : 1 .. Chunks]

TypedUser ==
  sig \in {"idle", "wait"} /\ sigs \in 0 .. 2 /\ ticks \in 0 .. TickMax /\ flagN \in BOOLEAN

TypedBoard ==
  /\ pico \in {"wait", "running", "dumping", "halted"} /\ beacon \in BOOLEAN
  /\ cfg \in 0 .. life /\ image \in [1 .. Uploads -> 0 .. life]
  /\ run \in 0 .. life /\ sent \in Nat /\ ended \in 0 .. 3
  /\ pico = "dumping" => sent <= Chunks /\ ended >= 1
  /\ run = 0 <=> pico = "wait"

Typed == TypedWire /\ TypedCaller /\ TypedOutput /\ TypedUser /\ TypedBoard

Ordered ==
  /\ InOrder(inbox, life) /\ InOrder(up, life) /\ InOrder(toPico, life)
  /\ Ahead(inbox, up, life) /\ Ahead(inbox, toPico, life) /\ Ahead(up, toPico, life)

Busy == pico \in {"running", "dumping"}

\* The Pico has carried out the calls of life l up to the n-th, and no other since.
Carried(l, n) ==
  /\ ~Busy /\ cfg = l
  /\ \A i \in 1 .. Uploads : i + 1 <= n => image[i] = l

\* What is on its way to the Pico comes after what the Pico has carried out:
\* after the start of its run, ...
AfterRun == \A p \in Range(toPico) : run > 0 => p.life > run \/ (p.life = run /\ p.cmd = "sigint")

\* ... after its configuration, ...
AfterConfig ==
  /\ \A p \in Range(toPico) :
       cfg > 0 => p.life > cfg \/ (p.life = cfg /\ (p.cmd = "sigint" \/ (p.cmd = "rpc" /\ p.x > 1)))
  /\ cfg > 0 => ~(pico = "wait" /\ beacon)

\* ... every call right after the one before it ...
InTurn ==
  \A i \in 1 .. Len(toPico) :
    toPico[i].cmd = "rpc" /\ toPico[i].x > 1 =>
      \/ i > 1 /\ toPico[i - 1] = Packet("rpc", toPico[i].life, toPico[i].x - 1)
      \/ i = 1 /\ Carried(toPico[i].life, toPico[i].x - 1)

\* ... and a configuration after the end of a run.
AfterEnd == \A p \in Range(toPico) : p.cmd = "rpc" /\ p.x = 1 => ~Busy

PicoKnows == RunIsConfigured /\ AfterRun /\ AfterConfig /\ InTurn /\ AfterEnd

\* A Pico that was heard to be restarted has no run, and none is on its way to
\* it, but perhaps of the last life.
Told == (\E p \in Range(up) : IsRestarted(p)) \/ (pico = "wait" /\ beacon)

\* The Tether goes by it: it begins its calls, or is about to.
Settled ==
  \/ main = "beacon" /\ (token \/ \E p \in Range(inbox) : IsRestarted(p))
  \/ main = "call" /\ k = 1

Heeded ==
  /\ Told => \A p \in Range(toPico) : IsStart(p) => p.life >= Start
  /\ Told /\ Busy => run >= Start
  /\ Settled => ~Busy /\ \A p \in Range(toPico) : ~IsStart(p)

Made  == IF main = "beacon" THEN 0 ELSE IF main = "call" THEN k - 1 ELSE k
Taken == main \in {"started", "running"} \/ (main = "await" /\ reply # None)

Fit(n) == reply # None /\ reply.x = n /\ (reply.life = life \/ reply.x < life)

\* The answer that is waited for, and the one that was got.
Waiting ==
  /\ main = "beacon" => k = 1 /\ pending = 0 /\ reply = None
  /\ main = "call" => pending = 0 /\ IF k = 1 THEN reply = None ELSE Fit(k - 1)
  /\ main = "await" => (pending = k /\ reply = None) \/ (pending = 0 /\ Fit(k))
  /\ main \in {"started", "running"} => pending = 0 /\ k = Start /\ Fit(k)

\* There is nothing of this life but what it made.
OwnMade ==
  Alive =>
    /\ \A p \in Range(inbox) \cup Range(up) \cup Range(toPico) : IsCall(p) /\ p.life = life => p.x <= Made
    /\ (cfg = life => Made >= 1) /\ (run = life => Made = Start)

\* The last call made is the last thing on its way to the Pico, or carried out.
LastMade ==
  main \in {"call", "await"} /\ Made >= 1 =>
    \/ toPico # << >> /\ Final(toPico) = Packet("rpc", life, Made)
    \/ toPico = << >> /\ (Made < Start => Carried(life, Made))

\* The calls the Tether has made.
Calling == Waiting /\ OwnMade /\ LastMade

\* How a life goes on and ends.
Phases ==
  /\ Alive => exit = "none"
  /\ cpuStarted => main \in {"running", "gone"}
  /\ main = "running" => cpuStarted
  /\ sig = "wait" => cpuStarted /\ sigs > 0

\* No SIGINT and no end of the run by one but from a SIGINT of this life.
Interrupted ==
  /\ Alive /\ sig = "idle" => \A p \in Range(toPico) : ~(p.cmd = "sigint" /\ p.life = life)
  /\ (\E p \in Range(toPico) : p.cmd = "sigint" /\ p.life = life) => sigs > 0
  /\ (run = life /\ ended = 2) => sigs > 0
  /\ \A p \in Range(inbox) \cup Range(up) : p = Packet("fault", life, 2) => sigs > 0
  /\ reason = Packet("fault", life, 2) => sigs > 0

\* The dump that is saved is complete.
Dumped == IsFiniteSet(chunks) /\ (disp = "drain" => Cardinality(chunks) = Chunks)

Ending == Phases /\ Interrupted /\ Dumped /\ ExitTruth

\* The calls under way, by life and serial number.
Open  == {<<p.life, p.x>> : p \in {q \in Range(inbox) \cup Range(up) \cup Range(toPico) : IsCall(q)}}
Stale == {c \in Open : c[1] # life}

\* As long as none of its own calls is answered by itself.
Unanswered == main = "beacon" \/ (main = "call" /\ k = 1) \/ <<life, 1>> \in Open

\* A life leaves at most one call more open than it found: the one it waits for.
Owed == main = "gone" \/ (main = "await" /\ reply = None)

FewOpen ==
  /\ IsFiniteSet(Open)
  /\ Cardinality(Open) + (IF Owed THEN 0 ELSE 1) <= life

\* It is at most as many calls further than the Pico as it found open, and no
\* further once its own calls are answered.
NotAhead ==
  Alive =>
    IF Unanswered
    THEN Cardinality(Stale) + k + (IF Taken THEN 1 ELSE 0) <= life
    ELSE /\ Stale = {} /\ cfg = life
         /\ \A p \in Range(inbox) \cup Range(up) : ~IsRestarted(p)

\* Who answers was configured.
AnswersConfigured ==
  \A p \in Range(inbox) \cup Range(up) : p.cmd = "answer" /\ p.life = life => cfg = life

Counted == FewOpen /\ NotAhead /\ AnswersConfigured

\* The last packet sent, if it is of the run.
EndsAt(p) == InRun(p, life) => p.cmd = "answer" \/ (p.cmd = "trace" /\ p.x = sent)

\* The trace goes on with p.
GoesOn(p) == p.cmd = "trace" => p.x = Final(shown).x + 1

\* Nothing of its run is under way before it is started.
NoneYet == run # life => \A p \in Range(inbox) \cup Range(up) : ~InRun(p, life)

\* After start was answered there is nothing but its run, ...
OnlyRun ==
  main \in {"started", "running"} \/ (main = "await" /\ k = Start /\ reply # None) =>
    run = life /\ \A p \in Range(inbox) \cup Range(up) : OfRun(p) /\ p.life = life

\* ... of which nothing is taken until that is noted.
NotBegun ==
  ~cpuStarted => /\ shown = << >> /\ reason = None /\ chunks = {} /\ disp = "run"
                 /\ \A p \in Range(inbox) : ~OfRun(p)

\* The trace under way is without a gap, ...
Links ==
  Alive => /\ Linked(inbox, life) /\ Linked(up, life)
           /\ inbox # << >> /\ up # << >> => Link(Final(inbox), Head(up), life)

\* ... it ends with what the Pico sent last ...
SentLast ==
  Alive /\ run = life /\ pico = "running" =>
    /\ up # << >> => EndsAt(Final(up))
    /\ up = << >> /\ inbox # << >> => EndsAt(Final(inbox))

\* ... and goes on where what is shown ends.
ShownNext ==
  Alive /\ shown # << >> =>
    /\ inbox # << >> => GoesOn(Head(inbox))
    /\ inbox = << >> /\ up # << >> => GoesOn(Head(up))
    /\ inbox = << >> /\ up = << >> /\ pico = "running" => Final(shown).x = sent

\* What the Tether has got of its run, and what is still under way.
Streamed == ShownIsThisRun /\ NoneYet /\ OnlyRun /\ NotBegun /\ Links /\ SentLast /\ ShownNext

IInv ==
  Typed /\ Ordered /\ PicoKnows /\ Heeded /\ Calling /\ Ending /\ Counted /\ Streamed

-----------------------------------------------------------------------------
(* Queues.                                                                 *)

LEMMA RangeIs == ASSUME NEW S, NEW s \in Seq(S) PROVE Range(s) = {s[i] : i \in 1 .. Len(s)}
  BY RangeEquality

LEMMA EmptyQueue ==
  ASSUME NEW l
  PROVE  Range(<< >>) = {} /\ InOrder(<< >>, l) /\ Linked(<< >>, l) /\ \A S : << >> \in Seq(S)
<1>1. << >> \in Seq({}) /\ Len(<< >>) = 0
  OBVIOUS
<1>2. Range(<< >>) = {}
  <2>1. Range(<< >>) = {<< >>[i] : i \in 1 .. Len(<< >>)}
    BY <1>1, RangeIs
  <2>2. 1 .. Len(<< >>) = {}
    BY <1>1
  <2> QED
    BY <2>1, <2>2
<1> QED
  BY <1>1, <1>2 DEF InOrder, Linked

LEMMA Appended ==
  ASSUME NEW S, NEW s \in Seq(S), NEW e \in S
  PROVE  /\ Append(s, e) \in Seq(S) /\ Append(s, e) # << >> /\ Len(Append(s, e)) = Len(s) + 1
         /\ Range(Append(s, e)) = Range(s) \cup {e}
         /\ Final(Append(s, e)) = e
         /\ Head(Append(s, e)) = IF s = << >> THEN e ELSE Head(s)
<1>1. /\ Append(s, e) \in Seq(S) /\ Append(s, e) # << >> /\ Len(Append(s, e)) = Len(s) + 1
      /\ \A i \in 1 .. Len(s) : Append(s, e)[i] = s[i]
      /\ Append(s, e)[Len(s) + 1] = e
  BY AppendProperties
<1>2. Range(Append(s, e)) = Range(s) \cup {e}
  <2>1. /\ Range(Append(s, e)) = {Append(s, e)[i] : i \in 1 .. Len(s) + 1}
        /\ Range(s) = {s[i] : i \in 1 .. Len(s)}
    BY <1>1, RangeIs
  <2>2. Len(s) \in Nat
    OBVIOUS
  <2> QED
    BY <1>1, <2>1, <2>2
<1>3. Head(Append(s, e)) = IF s = << >> THEN e ELSE Head(s)
  BY HeadTailAppend
<1> QED
  BY <1>1, <1>2, <1>3 DEF Final

LEMMA Dropped ==
  ASSUME NEW S, NEW s \in Seq(S), s # << >>
  PROVE  /\ Tail(s) \in Seq(S) /\ Head(s) \in S /\ Head(s) = s[1]
         /\ Len(Tail(s)) = Len(s) - 1 /\ Len(s) \in Nat /\ Len(s) >= 1
         /\ \A i \in 1 .. Len(Tail(s)) : Tail(s)[i] = s[i + 1]
         /\ Range(s) = {Head(s)} \cup Range(Tail(s))
         /\ Tail(s) # << >> => Final(Tail(s)) = Final(s)
         /\ Tail(s) = << >> => Final(s) = Head(s)
<1>1. /\ Tail(s) \in Seq(S) /\ Head(s) \in S /\ Head(s) = s[1]
      /\ Len(Tail(s)) = Len(s) - 1 /\ Len(s) \in Nat /\ Len(s) >= 1
      /\ \A i \in 1 .. Len(Tail(s)) : Tail(s)[i] = s[i + 1]
  BY HeadTailProperties, EmptySeq
<1>2. Range(s) = {Head(s)} \cup Range(Tail(s))
  <2>1. /\ Range(Tail(s)) = {Tail(s)[i] : i \in 1 .. Len(s) - 1}
        /\ Range(s) = {s[i] : i \in 1 .. Len(s)}
    BY <1>1, RangeIs
  <2>2. \A i \in 1 .. Len(s) : i = 1 \/ (i - 1 \in 1 .. Len(s) - 1 /\ s[i] = Tail(s)[i - 1])
    BY <1>1
  <2>3. \A i \in 1 .. Len(s) - 1 : i + 1 \in 1 .. Len(s) /\ Tail(s)[i] = s[i + 1]
    BY <1>1
  <2>4. 1 \in 1 .. Len(s)
    BY <1>1
  <2>5. Range(s) \subseteq {Head(s)} \cup Range(Tail(s))
    BY <1>1, <2>1, <2>2
  <2>6. Range(Tail(s)) \subseteq Range(s)
    BY <2>1, <2>3
  <2> QED
    BY <1>1, <2>1, <2>4, <2>5, <2>6
<1>3. Tail(s) # << >> => Final(Tail(s)) = Final(s)
  <2> SUFFICES ASSUME Tail(s) # << >> PROVE Final(Tail(s)) = Final(s)
    OBVIOUS
  <2>1. Len(Tail(s)) >= 1
    BY <1>1, EmptySeq
  <2> QED
    BY <1>1, <2>1 DEF Final
<1>4. Tail(s) = << >> => Final(s) = Head(s)
  <2> SUFFICES ASSUME Tail(s) = << >> PROVE Final(s) = Head(s)
    OBVIOUS
  <2>1. Len(s) = 1
    <3>1. Len(<< >>) = 0
      OBVIOUS
    <3>2. Len(Tail(s)) = 0
      BY <3>1, Zenon
    <3> DEFINE m == Len(s)
               j == Len(Tail(s))
    <3>3. m \in Nat /\ j = m - 1 /\ j = 0
      BY <1>1, <3>2
    <3> HIDE DEF m, j
    <3>4. m = 1
      BY <3>3
    <3> QED
      BY <3>4 DEF m
  <2> QED
    BY <1>1, <2>1 DEF Final
<1> QED
  BY <1>1, <1>2, <1>3, <1>4

LEMMA Cut ==
  ASSUME NEW S, NEW s \in Seq(S), NEW a \in 1 .. Len(s) + 1, NEW b \in 0 .. Len(s)
  PROVE  /\ SubSeq(s, a, b) \in Seq(S)
         /\ Len(SubSeq(s, a, b)) = IF a <= b THEN b - a + 1 ELSE 0
         /\ \A i \in 1 .. Len(SubSeq(s, a, b)) :
              i + a - 1 \in 1 .. Len(s) /\ SubSeq(s, a, b)[i] = s[i + a - 1]
         /\ Range(SubSeq(s, a, b)) \subseteq Range(s)
<1> DEFINE t == SubSeq(s, a, b)
<1>1. Len(s) \in Nat /\ \A i \in a .. b : s[i] \in S
  BY ElementOfSeq
<1>2. /\ t \in Seq(S) /\ Len(t) = (IF a <= b THEN b - a + 1 ELSE 0)
      /\ \A i \in 1 .. b - a + 1 : t[i] = s[a + i - 1]
  BY <1>1, SubSeqProperties
<1> HIDE DEF t
<1>3. \A i \in 1 .. Len(t) : i + a - 1 \in 1 .. Len(s) /\ t[i] = s[i + a - 1]
  BY <1>1, <1>2
<1>4. Range(t) \subseteq Range(s)
  <2>1. Range(t) = {t[i] : i \in 1 .. Len(t)} /\ Range(s) = {s[i] : i \in 1 .. Len(s)}
    BY <1>2, RangeIs
  <2> QED
    BY <1>3, <2>1
<1> QED
  BY <1>2, <1>3, <1>4 DEF t

LEMMA InRange == ASSUME NEW S, NEW s \in Seq(S), NEW i \in 1 .. Len(s) PROVE s[i] \in Range(s)
  BY RangeIs

LEMMA FinalInRange ==
  ASSUME NEW S, NEW s \in Seq(S), s # << >>
  PROVE  Final(s) \in Range(s) /\ Head(s) \in Range(s)
<1>1. Len(s) \in Nat /\ Len(s) >= 1 /\ Head(s) = s[1]
  BY Dropped
<1> QED
  BY <1>1, RangeIs DEF Final

LEMMA AppendedInOrder ==
  ASSUME NEW S, NEW s \in Seq(S), NEW e \in S, NEW l, InOrder(s, l),
         \A p \in Range(s) : Before(p, e, l)
  PROVE  InOrder(Append(s, e), l)
<1>1. /\ Len(Append(s, e)) = Len(s) + 1 /\ Len(s) \in Nat
      /\ \A i \in 1 .. Len(s) : Append(s, e)[i] = s[i]
      /\ Append(s, e)[Len(s) + 1] = e
  BY AppendProperties
<1>2. \A i \in 1 .. Len(s) : Before(s[i], e, l)
  BY InRange
<1> QED
  BY <1>1, <1>2 DEF InOrder

LEMMA DroppedInOrder ==
  ASSUME NEW S, NEW s \in Seq(S), s # << >>, NEW l, InOrder(s, l)
  PROVE  InOrder(Tail(s), l) /\ \A q \in Range(Tail(s)) : Before(Head(s), q, l)
<1>1. /\ Head(s) = s[1] /\ Len(Tail(s)) = Len(s) - 1 /\ Len(s) \in Nat /\ Len(s) >= 1
      /\ \A i \in 1 .. Len(Tail(s)) : Tail(s)[i] = s[i + 1]
      /\ Tail(s) \in Seq(S)
  BY Dropped
<1>2. InOrder(Tail(s), l)
  BY <1>1 DEF InOrder
<1>3. \A i \in 1 .. Len(Tail(s)) : Before(Head(s), Tail(s)[i], l)
  BY <1>1 DEF InOrder
<1>4. Range(Tail(s)) = {Tail(s)[i] : i \in 1 .. Len(Tail(s))}
  BY <1>1, RangeIs
<1> QED
  BY <1>2, <1>3, <1>4

LEMMA CutInOrder ==
  ASSUME NEW S, NEW s \in Seq(S), NEW a \in 1 .. Len(s) + 1, NEW b \in 0 .. Len(s),
         NEW l, InOrder(s, l)
  PROVE  InOrder(SubSeq(s, a, b), l)
<1> DEFINE t == SubSeq(s, a, b)
<1>1. t \in Seq(S) /\ \A i \in 1 .. Len(t) : i + a - 1 \in 1 .. Len(s) /\ t[i] = s[i + a - 1]
  BY Cut
<1>a. a \in Int /\ Len(t) \in Nat
  <2>1. Len(s) \in Nat /\ t \in Seq(S)
    BY <1>1
  <2> QED
    BY <2>1
<1> HIDE DEF t
<1>2. InOrder(t, l)
  <2> SUFFICES ASSUME NEW i \in 1 .. Len(t), NEW j \in 1 .. Len(t), i < j
               PROVE  Before(t[i], t[j], l)
    BY DEF InOrder
  <2>1. /\ i + a - 1 \in 1 .. Len(s) /\ t[i] = s[i + a - 1]
        /\ j + a - 1 \in 1 .. Len(s) /\ t[j] = s[j + a - 1]
    BY <1>1
  <2>2. i + a - 1 < j + a - 1
    BY <1>a
  <2> QED
    BY <2>1, <2>2 DEF InOrder
<1> QED
  BY <1>2 DEF t

LEMMA AppendedLinked ==
  ASSUME NEW S, NEW s \in Seq(S), NEW e \in S, NEW l, Linked(s, l),
         s # << >> => Link(Final(s), e, l)
  PROVE  Linked(Append(s, e), l)
<1>1. /\ Len(Append(s, e)) = Len(s) + 1 /\ Len(s) \in Nat
      /\ \A i \in 1 .. Len(s) : Append(s, e)[i] = s[i]
      /\ Append(s, e)[Len(s) + 1] = e
  BY AppendProperties
<1>2. SUFFICES ASSUME NEW i \in 1 .. Len(s) PROVE Link(Append(s, e)[i], Append(s, e)[i + 1], l)
  BY <1>1 DEF Linked
<1>3. CASE i = Len(s)
  <2>1. s # << >>
    BY <1>2, <1>3
  <2> QED
    BY <1>1, <1>3, <2>1 DEF Final
<1>4. CASE i # Len(s)
  <2>1. i \in 1 .. Len(s) - 1 /\ i + 1 \in 1 .. Len(s)
    BY <1>1, <1>4
  <2> QED
    BY <1>1, <2>1 DEF Linked
<1> QED
  BY <1>3, <1>4

LEMMA DroppedLinked ==
  ASSUME NEW S, NEW s \in Seq(S), s # << >>, NEW l, Linked(s, l)
  PROVE  Linked(Tail(s), l) /\ (Tail(s) # << >> => Link(Head(s), Head(Tail(s)), l))
<1>1. /\ Head(s) = s[1] /\ Len(Tail(s)) = Len(s) - 1 /\ Len(s) \in Nat /\ Len(s) >= 1
      /\ \A i \in 1 .. Len(Tail(s)) : Tail(s)[i] = s[i + 1]
      /\ Tail(s) \in Seq(S)
  BY Dropped
<1>2. Linked(Tail(s), l)
  BY <1>1 DEF Linked
<1>3. ASSUME Tail(s) # << >> PROVE Link(Head(s), Head(Tail(s)), l)
  <2>1. Head(Tail(s)) = Tail(s)[1] /\ Len(Tail(s)) >= 1
    BY <1>1, <1>3, Dropped
  <2> QED
    BY <1>1, <2>1 DEF Linked
<1> QED
  BY <1>2, <1>3

-----------------------------------------------------------------------------
(* Packets.                                                                *)

LEMMA StartFacts == Start \in Nat /\ Start >= 3 /\ Uploads = Start - 2 /\ Uploads \in Nat /\ Chunks \in Nat
  BY BoundsAssumption DEF Start

LEMMA DownIs ==
  ASSUME NEW l \in Nat, NEW p \in DownPackets(l)
  PROVE  /\ IsDown(p) /\ p.life \in 1 .. l /\ p.x \in Nat /\ p = Packet(p.cmd, p.life, p.x)
         /\ p.cmd = "rpc" => p.x \in 1 .. Start
         /\ p.cmd # "rpc" => p.x = 0
         /\ ~IsRestarted(p) /\ ~OfRun(p) /\ p.cmd # "answer"
  BY StartFacts DEF DownPackets, IsDown, Packet, IsRestarted, OfRun

LEMMA UpIs ==
  ASSUME NEW l \in Nat, NEW p \in UpPackets(l)
  PROVE  /\ p.cmd \in {"restarted", "answer", "trace", "fault", "chunk"}
         /\ p.life \in 0 .. l /\ p.x \in Nat /\ p = Packet(p.cmd, p.life, p.x)
         /\ p.cmd = "restarted" => p.life = 0
         /\ p.cmd # "restarted" => p.life \in 1 .. l
         /\ p.cmd = "answer" => p \in [cmd : {"answer"}, life : 1 .. l, x : 1 .. Start]
         /\ p.cmd = "trace" => p \in [cmd : {"trace"}, life : 1 .. l, x : Nat]
         /\ p.cmd = "fault" => p \in [cmd : {"fault"}, life : 1 .. l, x : 1 .. 3]
         /\ p.cmd = "chunk" => p \in [cmd : {"chunk"}, life : 1 .. l, x : 1 .. Chunks]
         /\ ~IsDown(p)
<1> USE DEF Packet, IsDown
<1>1. CASE p \in [cmd : {"restarted"}, life : {0}, x : {0}]
  BY <1>1
<1>2. CASE p \in [cmd : {"answer"}, life : 1 .. l, x : 1 .. Start]
  BY <1>2, StartFacts
<1>3. CASE p \in [cmd : {"trace"}, life : 1 .. l, x : Nat]
  BY <1>3
<1>4. CASE p \in [cmd : {"fault"}, life : 1 .. l, x : 1 .. 3]
  BY <1>4
<1>5. CASE p \in [cmd : {"chunk"}, life : 1 .. l, x : 1 .. Chunks]
  BY <1>5, StartFacts
<1> QED
  BY <1>1, <1>2, <1>3, <1>4, <1>5 DEF UpPackets

LEMMA Sent ==
  ASSUME NEW l \in Nat, NEW i \in 1 .. l
  PROVE  /\ Packet("restart", i, 0) \in DownPackets(l) /\ Packet("sigint", i, 0) \in DownPackets(l)
         /\ \A n \in 1 .. Start : Packet("rpc", i, n) \in DownPackets(l) /\ Packet("answer", i, n) \in UpPackets(l)
         /\ Packet("restarted", 0, 0) \in UpPackets(l)
         /\ \A n \in Nat : Packet("trace", i, n) \in UpPackets(l)
         /\ \A n \in 1 .. 3 : Packet("fault", i, n) \in UpPackets(l)
         /\ \A n \in 1 .. Chunks : Packet("chunk", i, n) \in UpPackets(l)
  BY DEF Packet, DownPackets, UpPackets

LEMMA LaterLife ==
  ASSUME NEW l \in Nat
  PROVE  DownPackets(l) \subseteq DownPackets(l + 1) /\ UpPackets(l) \subseteq UpPackets(l + 1)
  BY DEF DownPackets, UpPackets

LEMMA ArePackets ==
  ASSUME NEW l \in 1 .. Lives
  PROVE  DownPackets(l) \subseteq Packets /\ UpPackets(l) \subseteq Packets
  BY StartFacts, BoundsAssumption DEF DownPackets, UpPackets, Packets

\* The packet at the head of what is on its way to the Pico.
LEMMA Received ==
  ASSUME Typed, NEW c, Receive(c)
  PROVE  /\ toPico # << >> /\ toPico' = Tail(toPico) /\ Head(toPico) \in DownPackets(life)
         /\ Head(toPico) \in Range(toPico) /\ Head(toPico).cmd = c /\ pico # "dumping"
         /\ Head(toPico).life \in 1 .. life /\ life \in Nat
         /\ c = "rpc" => Head(toPico).x \in 1 .. Start
         /\ Tail(toPico) \in Seq(DownPackets(life)) /\ Range(toPico) = {Head(toPico)} \cup Range(Tail(toPico))
<1>1. toPico # << >> /\ toPico' = Tail(toPico) /\ Head(toPico).cmd = c /\ pico # "dumping"
      /\ toPico \in Seq(DownPackets(life)) /\ life \in Nat
  BY BoundsAssumption DEF Receive, Typed, TypedWire
<1>2. Head(toPico) \in DownPackets(life) /\ Tail(toPico) \in Seq(DownPackets(life))
      /\ Range(toPico) = {Head(toPico)} \cup Range(Tail(toPico))
  BY <1>1, Dropped
<1> QED
  BY <1>1, <1>2, DownIs

\* The packet the dispatcher takes.
LEMMA Got ==
  ASSUME Typed, NEW c, Next1(c)
  PROVE  /\ Alive /\ disp = "run" /\ inbox # << >> /\ inbox' = Tail(inbox)
         /\ Head(inbox) \in UpPackets(life) /\ Head(inbox) \in Range(inbox) /\ Head(inbox).cmd = c
         /\ Tail(inbox) \in Seq(UpPackets(life)) /\ Range(inbox) = {Head(inbox)} \cup Range(Tail(inbox))
<1>1. Alive /\ disp = "run" /\ inbox # << >> /\ inbox' = Tail(inbox) /\ Head(inbox).cmd = c
      /\ inbox \in Seq(UpPackets(life))
  BY DEF Next1, Typed, TypedWire
<1> QED
  BY <1>1, Dropped

LEMMA Emitted ==
  ASSUME Typed, NEW p \in UpPackets(life), Send(p)
  PROVE  /\ up' \in Seq(UpPackets(life)) /\ Len(up') <= UpMax
         /\ up' = Append(up, p) \/ (~Alive /\ up' = up)
<1>1. up \in Seq(UpPackets(life)) /\ Len(up) <= UpMax /\ UpMax \in Nat /\ Len(up) \in Nat
  BY BoundsAssumption DEF Typed, TypedWire
<1>2. Append(up, p) \in Seq(UpPackets(life)) /\ Len(Append(up, p)) = Len(up) + 1
  BY <1>1, Appended
<1> QED
  BY <1>1, <1>2 DEF Send

-----------------------------------------------------------------------------
(* Types.                                                                  *)

LEMMA TypedSame ==
  /\ TypedWire /\ UNCHANGED <<life, toPico, up, inbox>> => TypedWire'
  /\ TypedCaller /\ UNCHANGED <<life, main, k, pending, reply, token, cpuStarted, exit>> => TypedCaller'
  /\ TypedOutput /\ UNCHANGED <<life, disp, shown, reason, chunks>> => TypedOutput'
  /\ TypedUser /\ UNCHANGED <<sig, sigs, ticks, flagN>> => TypedUser'
  /\ TypedBoard /\ UNCHANGED <<life, pico, beacon, cfg, image, run, sent, ended>> => TypedBoard'
<1>1. TypedWire /\ UNCHANGED <<life, toPico, up, inbox>> => TypedWire'
  BY DEF TypedWire
<1>2. TypedCaller /\ UNCHANGED <<life, main, k, pending, reply, token, cpuStarted, exit>> => TypedCaller'
  BY DEF TypedCaller
<1>3. TypedOutput /\ UNCHANGED <<life, disp, shown, reason, chunks>> => TypedOutput'
  BY DEF TypedOutput
<1>4. TypedUser /\ UNCHANGED <<sig, sigs, ticks, flagN>> => TypedUser'
  BY DEF TypedUser
<1>5. TypedBoard /\ UNCHANGED <<life, pico, beacon, cfg, image, run, sent, ended>> => TypedBoard'
  BY DEF TypedBoard
<1> QED
  BY <1>1, <1>2, <1>3, <1>4, <1>5

LEMMA TypedInit == ASSUME Init PROVE Typed
<1>1. /\ life = 1 /\ Lives \in Nat /\ Lives >= 1 /\ UpMax \in Nat /\ Start \in Nat /\ Start >= 3
      /\ TickMax \in Nat
  BY BoundsAssumption, StartFacts DEF Init
<1>2. \A S : << >> \in Seq(S)
  BY EmptyQueue
<1>3. Len(<< >>) = 0
  OBVIOUS
<1>4. TypedWire
  BY <1>1, <1>2, <1>3 DEF Init, TypedWire
<1>5. TypedCaller
  <2>1. /\ main = "beacon" /\ k = 1 /\ pending = 0 /\ reply = None /\ token = FALSE
        /\ cpuStarted = FALSE /\ exit = "none"
    BY DEF Init
  <2>2. k \in 1 .. Start /\ pending \in 0 .. Start
    BY <1>1, <2>1
  <2> QED
    BY <2>1, <2>2 DEF TypedCaller
<1>6. TypedOutput
  BY <1>2 DEF Init, TypedOutput
<1>7. TypedUser
  BY <1>1 DEF Init, TypedUser
<1>8. TypedBoard
  BY <1>1 DEF Init, TypedBoard
<1> QED
  BY <1>4, <1>5, <1>6, <1>7, <1>8 DEF Typed

LEMMA TypedMain ==
  ASSUME Typed, Main \/ AskRestart \/ Timeout
  PROVE  Typed'
<1>0. life \in Nat /\ life \in 1 .. life /\ Start \in Nat /\ Start >= 3 /\ TickMax \in Nat
      /\ life \in 1 .. Lives /\ toPico \in Seq(DownPackets(life)) /\ k \in 1 .. Start
  BY BoundsAssumption, StartFacts DEF Typed, TypedWire, TypedCaller
<1>1. CASE HearBeacon
  <2>1. UNCHANGED <<life, toPico, up, inbox, disp, shown, reason, chunks, sig, sigs, ticks, flagN,
                    pico, beacon, cfg, image, run, sent, ended>>
    BY <1>1 DEF HearBeacon, wire, caller, output, user, board
  <2>2. TypedCaller'
    BY <1>1 DEF HearBeacon, Typed, TypedCaller, wire, caller, output, user, board
  <2> QED
    BY <2>1, <2>2, TypedSame DEF Typed
<1>2. CASE AskRestart
  <2>1. UNCHANGED <<life, main, k, pending, reply, token, cpuStarted, exit, disp, shown, reason,
                    chunks, pico, beacon, cfg, image, run, sent, ended>>
    BY <1>2 DEF AskRestart, wire, caller, output, user, board
  <2>2. TypedWire'
    <3>1. toPico' \in Seq(DownPackets(life))
      BY <1>0, <1>2, Appended, Sent DEF AskRestart
    <3>2. UNCHANGED <<life, up, inbox>>
      BY <1>2 DEF AskRestart, output
    <3> QED
      BY <3>1, <3>2 DEF Typed, TypedWire
  <2>3. TypedUser'
    BY <1>0, <1>2 DEF AskRestart, Typed, TypedUser
  <2> QED
    BY <2>1, <2>2, <2>3, TypedSame DEF Typed
<1>3. CASE Call
  <2>1. UNCHANGED <<life, disp, shown, reason, chunks, sig, sigs, ticks, flagN, pico, beacon, cfg,
                    image, run, sent, ended>>
    BY <1>3 DEF Call, wire, caller, output, user, board
  <2>2. TypedWire'
    <3>1. toPico' \in Seq(DownPackets(life))
      BY <1>0, <1>3, Appended, Sent DEF Call
    <3>2. UNCHANGED <<life, up, inbox>>
      BY <1>3 DEF Call, output
    <3> QED
      BY <3>1, <3>2 DEF Typed, TypedWire
  <2>3. TypedCaller'
    <3>1. pending' \in 0 .. Start
      BY <1>0, <1>3 DEF Call
    <3> QED
      BY <1>3, <3>1 DEF Call, Typed, TypedCaller
  <2> QED
    BY <2>1, <2>2, <2>3, TypedSame DEF Typed
<1>4. CASE Answered
  <2>1. UNCHANGED <<life, toPico, up, inbox, disp, shown, reason, chunks, sig, sigs, ticks, flagN,
                    pico, beacon, cfg, image, run, sent, ended>>
    BY <1>4 DEF Answered, wire, caller, output, user, board
  <2>2. TypedCaller'
    <3>1. k' \in 1 .. Start /\ main' \in {"started", "call"}
      BY <1>0, <1>4 DEF Answered
    <3> QED
      BY <1>4, <3>1 DEF Answered, Typed, TypedCaller
  <2> QED
    BY <2>1, <2>2, TypedSame DEF Typed
<1>5. CASE Begin
  <2>1. UNCHANGED <<life, toPico, up, inbox, disp, shown, reason, chunks, sig, sigs, ticks, flagN,
                    pico, beacon, cfg, image, run, sent, ended>>
    BY <1>5 DEF Begin, wire, caller, output, user, board
  <2>2. TypedCaller'
    BY <1>5 DEF Begin, Typed, TypedCaller
  <2> QED
    BY <2>1, <2>2, TypedSame DEF Typed
<1>6. CASE Timeout
  <2>1. UNCHANGED <<life, toPico, up, inbox, disp, shown, reason, chunks, sig, sigs, ticks, flagN,
                    pico, beacon, cfg, image, run, sent, ended>>
    BY <1>6 DEF Timeout, wire, caller, output, user, board
  <2>2. TypedCaller'
    BY <1>6 DEF Timeout, Exit, Typed, TypedCaller
  <2> QED
    BY <2>1, <2>2, TypedSame DEF Typed
<1> QED
  BY <1>1, <1>2, <1>3, <1>4, <1>5, <1>6 DEF Main

LEMMA TypedReader ==
  ASSUME Typed, Read \/ Dispatcher
  PROVE  Typed'
<1>0. life \in Nat /\ up \in Seq(UpPackets(life)) /\ inbox \in Seq(UpPackets(life)) /\ UpMax \in Nat
      /\ Len(up) <= UpMax /\ life \in 1 .. Lives /\ toPico \in Seq(DownPackets(life))
  BY BoundsAssumption DEF Typed, TypedWire
<1>a. ASSUME NEW c, Next1(c), UNCHANGED <<life, toPico, up>> PROVE TypedWire'
  <2>1. inbox' \in Seq(UpPackets(life))
    BY <1>a, Got
  <2> QED
    BY <1>0, <1>a, <2>1 DEF TypedWire
<1>1. CASE Read
  <2>1. UNCHANGED <<life, main, k, pending, reply, token, cpuStarted, exit, disp, shown, reason,
                    chunks, sig, sigs, ticks, flagN, pico, beacon, cfg, image, run, sent, ended>>
    BY <1>1 DEF Read, wire, caller, output, user, board
  <2>2. TypedWire'
    <3>1. up # << >> /\ up' = Tail(up) /\ inbox' \in {inbox, Append(inbox, Head(up))}
          /\ UNCHANGED <<life, toPico>>
      BY <1>1 DEF Read
    <3>2. /\ Tail(up) \in Seq(UpPackets(life)) /\ Head(up) \in UpPackets(life)
          /\ Len(Tail(up)) = Len(up) - 1 /\ Len(up) \in Nat
      BY <1>0, <3>1, Dropped
    <3>3. Append(inbox, Head(up)) \in Seq(UpPackets(life))
      BY <1>0, <3>2, Appended
    <3>4. inbox' \in Seq(UpPackets(life))
      BY <1>0, <3>1, <3>3
    <3>5. Len(up') <= UpMax
      BY <1>0, <3>1, <3>2
    <3> QED
      BY <1>0, <3>1, <3>2, <3>4, <3>5 DEF TypedWire
  <2> QED
    BY <2>1, <2>2, TypedSame DEF Typed
<1>2. CASE Restarted
  <2>1. UNCHANGED <<life, disp, shown, reason, chunks, sig, sigs, ticks, flagN, pico, beacon, cfg,
                    image, run, sent, ended>>
    BY <1>2 DEF Restarted, wire, caller, output, user, board
  <2>2. TypedWire'
    BY <1>2, <1>a DEF Restarted, wire
  <2>3. TypedCaller'
    BY <1>2 DEF Restarted, Typed, TypedCaller
  <2> QED
    BY <2>1, <2>2, <2>3, TypedSame DEF Typed
<1>3. CASE Answer
  <2>1. UNCHANGED <<life, disp, shown, reason, chunks, sig, sigs, ticks, flagN, pico, beacon, cfg,
                    image, run, sent, ended>>
    BY <1>3 DEF Answer, wire, caller, output, user, board
  <2>2. TypedWire'
    BY <1>3, <1>a DEF Answer, wire
  <2>3. TypedCaller'
    <3>1. Head(inbox) \in UpPackets(life) /\ Head(inbox).cmd = "answer"
      BY <1>3, Got DEF Answer
    <3>2. Head(inbox) \in [cmd : {"answer"}, life : 1 .. life, x : 1 .. Start]
      BY <1>0, <3>1, UpIs
    <3>3. reply' \in {reply, Head(inbox)} /\ pending' \in {pending, 0}
      BY <1>3 DEF Answer
    <3>4. pending' \in 0 .. Start
      BY <3>3, StartFacts DEF Typed, TypedCaller
    <3> QED
      BY <1>3, <3>2, <3>3, <3>4 DEF Answer, Typed, TypedCaller
  <2> QED
    BY <2>1, <2>2, <2>3, TypedSame DEF Typed
<1>4. CASE Trace
  <2>1. UNCHANGED <<life, main, k, pending, reply, token, cpuStarted, exit, sig, sigs, ticks, flagN,
                    pico, beacon, cfg, image, run, sent, ended>>
    BY <1>4 DEF Trace, wire, caller, output, user, board
  <2>2. TypedWire'
    BY <1>4, <1>a DEF Trace, wire
  <2>3. TypedOutput'
    <3>1. Head(inbox) \in UpPackets(life) /\ Head(inbox).cmd = "trace"
      BY <1>4, Got DEF Trace
    <3>2. Head(inbox) \in [cmd : {"trace"}, life : 1 .. life, x : Nat]
      BY <1>0, <3>1, UpIs
    <3>3. shown' \in Seq([cmd : {"trace"}, life : 1 .. life, x : Nat])
      BY <1>4, <3>2, Appended DEF Trace, Typed, TypedOutput
    <3> QED
      BY <1>4, <3>3 DEF Trace, Typed, TypedOutput
  <2> QED
    BY <2>1, <2>2, <2>3, TypedSame DEF Typed
<1>5. CASE Fault
  <2>1. UNCHANGED <<life, main, k, pending, reply, token, cpuStarted, exit, sig, sigs, ticks, flagN,
                    pico, beacon, cfg, image, run, sent, ended>>
    BY <1>5 DEF Fault, wire, caller, output, user, board
  <2>2. TypedWire'
    BY <1>5, <1>a DEF Fault, wire
  <2>3. TypedOutput'
    <3>1. Head(inbox) \in UpPackets(life) /\ Head(inbox).cmd = "fault"
      BY <1>5, Got DEF Fault
    <3>2. Head(inbox) \in [cmd : {"fault"}, life : 1 .. life, x : 1 .. 3]
      BY <1>0, <3>1, UpIs
    <3>3. reason' = Head(inbox) /\ UNCHANGED <<life, disp, shown, chunks>>
      BY <1>5 DEF Fault
    <3> QED
      BY <3>2, <3>3 DEF Typed, TypedOutput
  <2> QED
    BY <2>1, <2>2, <2>3, TypedSame DEF Typed
<1>6. CASE Chunk
  <2>1. UNCHANGED <<life, main, k, pending, reply, token, cpuStarted, exit, sig, sigs, ticks, flagN,
                    pico, beacon, cfg, image, run, sent, ended>>
    BY <1>6 DEF Chunk, wire, caller, output, user, board
  <2>2. TypedWire'
    BY <1>6, <1>a DEF Chunk, wire
  <2>3. TypedOutput'
    <3>1. Head(inbox) \in UpPackets(life) /\ Head(inbox).cmd = "chunk"
      BY <1>6, Got DEF Chunk
    <3>2. Head(inbox) \in [cmd : {"chunk"}, life : 1 .. life, x : 1 .. Chunks]
      BY <1>0, <3>1, UpIs
    <3>3. chunks' \subseteq [cmd : {"chunk"}, life : 1 .. life, x : 1 .. Chunks]
      BY <1>6, <3>2 DEF Chunk, Typed, TypedOutput
    <3>4. disp' \in {"run", "drain"}
      BY <1>6 DEF Chunk
    <3> QED
      BY <1>6, <3>3, <3>4 DEF Chunk, Typed, TypedOutput
  <2> QED
    BY <2>1, <2>2, <2>3, TypedSame DEF Typed
<1>7. CASE ExitWithReason
  <2>0. UNCHANGED <<life, toPico, up, k, pending, reply, token, cpuStarted, sig, sigs, ticks, flagN,
                    pico, beacon, cfg, image, run, sent, ended, disp, reason, chunks>>
    BY <1>7 DEF ExitWithReason, wire, user, board
  <2>1. CASE inbox # << >>
    <3>1. /\ inbox' = Tail(inbox) /\ UNCHANGED <<main, exit>>
          /\ shown' = IF Head(inbox).cmd = "trace" THEN Append(shown, Head(inbox)) ELSE shown
      BY <1>7, <2>1 DEF ExitWithReason
    <3>2. Head(inbox) \in UpPackets(life) /\ Tail(inbox) \in Seq(UpPackets(life))
      BY <1>0, <2>1, Dropped
    <3>3. shown' \in Seq([cmd : {"trace"}, life : 1 .. life, x : Nat])
      BY <1>0, <3>1, <3>2, UpIs, Appended DEF Typed, TypedOutput
    <3>4. TypedWire'
      BY <1>0, <2>0, <3>1, <3>2 DEF TypedWire
    <3>5. TypedOutput'
      BY <2>0, <3>3 DEF Typed, TypedOutput
    <3> QED
      BY <2>0, <3>1, <3>4, <3>5, TypedSame DEF Typed
  <2>2. CASE inbox = << >>
    <3>1. main' = "gone" /\ exit' \in {"0", "1", "130"} /\ UNCHANGED <<inbox, shown>>
      BY <1>7, <2>2 DEF ExitWithReason, Exit
    <3>2. TypedCaller'
      BY <2>0, <3>1 DEF Typed, TypedCaller
    <3> QED
      BY <2>0, <3>1, <3>2, TypedSame DEF Typed
  <2> QED
    BY <2>1, <2>2
<1> QED
  BY <1>1, <1>2, <1>3, <1>4, <1>5, <1>6, <1>7 DEF Dispatcher

LEMMA TypedSignals ==
  ASSUME Typed, Interrupt \/ SendSigint \/ ObeySigint \/ Die \/ EndOfInput \/ Relaunch
  PROVE  Typed'
<1>0. life \in Nat /\ life \in 1 .. life /\ Start \in Nat /\ Start >= 3 /\ life \in 1 .. Lives
      /\ toPico \in Seq(DownPackets(life)) /\ up \in Seq(UpPackets(life)) /\ Len(up) \in Nat
      /\ Len(toPico) \in Nat /\ Len(up) <= UpMax /\ UpMax \in Nat /\ Lives \in Nat /\ TickMax \in Nat
  BY BoundsAssumption, StartFacts DEF Typed, TypedWire
<1>1. CASE Interrupt
  <2>1. UNCHANGED <<life, toPico, up, inbox, main, k, pending, reply, token, cpuStarted, exit,
                    disp, shown, reason, chunks, pico, beacon, cfg, image, run, sent, ended>>
    BY <1>1 DEF Interrupt, wire, caller, output, user, board
  <2>2. TypedUser'
    BY <1>1 DEF Interrupt, Typed, TypedUser
  <2> QED
    BY <2>1, <2>2, TypedSame DEF Typed
<1>2. CASE SendSigint
  <2>1. UNCHANGED <<life, main, k, pending, reply, token, cpuStarted, exit, disp, shown, reason,
                    chunks, pico, beacon, cfg, image, run, sent, ended>>
    BY <1>2 DEF SendSigint, wire, caller, output, user, board
  <2>2. TypedWire'
    <3>1. toPico' \in Seq(DownPackets(life))
      BY <1>0, <1>2, Appended, Sent DEF SendSigint
    <3>2. UNCHANGED <<life, up, inbox>>
      BY <1>2 DEF SendSigint, output
    <3> QED
      BY <3>1, <3>2 DEF Typed, TypedWire
  <2>3. TypedUser'
    BY <1>2 DEF SendSigint, Typed, TypedUser
  <2> QED
    BY <2>1, <2>2, <2>3, TypedSame DEF Typed
<1>3. CASE ObeySigint
  <2>1. UNCHANGED <<life, toPico, up, inbox, disp, shown, reason, chunks, sig, sigs, ticks, flagN,
                    pico, beacon, cfg, image, run, sent, ended>>
    BY <1>3 DEF ObeySigint, wire, caller, output, user, board
  <2>2. TypedCaller'
    BY <1>3 DEF ObeySigint, Exit, Typed, TypedCaller
  <2> QED
    BY <2>1, <2>2, TypedSame DEF Typed
<1>4. CASE Die \/ EndOfInput
  <2>1. UNCHANGED <<life, toPico, up, inbox, disp, shown, reason, chunks, sig, sigs, ticks, flagN,
                    pico, beacon, cfg, image, run, sent, ended>>
    BY <1>4 DEF Die, EndOfInput, wire, caller, output, user, board
  <2>2. TypedCaller'
    BY <1>4 DEF Die, EndOfInput, Exit, Typed, TypedCaller
  <2> QED
    BY <2>1, <2>2, TypedSame DEF Typed
<1>5. CASE Relaunch
  <2>1. PICK n \in 0 .. Len(toPico) : toPico' = SubSeq(toPico, 1, n)
    BY <1>5 DEF Relaunch
  <2>2. PICK m \in 1 .. Len(up) + 1 : up' = SubSeq(up, m, Len(up))
    BY <1>5 DEF Relaunch
  <2>3. toPico' \in Seq(DownPackets(life))
    BY <1>0, <2>1, Cut
  <2>4. up' \in Seq(UpPackets(life)) /\ Len(up') = IF m <= Len(up) THEN Len(up) - m + 1 ELSE 0
    <3>1. Len(up) \in 0 .. Len(up)
      BY <1>0
    <3> QED
      BY <1>0, <2>2, <3>1, Cut
  <2>5. Len(up') <= UpMax
    BY <1>0, <2>4
  <2>6. life' = life + 1 /\ life + 1 \in 1 .. Lives
    BY <1>5, <1>0 DEF Relaunch
  <2>7. toPico' \in Seq(DownPackets(life + 1)) /\ up' \in Seq(UpPackets(life + 1))
    BY <1>0, <2>3, <2>4, LaterLife, SeqMonotonic
  <2>8. \A S : << >> \in Seq(S)
    BY EmptyQueue
  <2>9. TypedWire'
    <3>1. inbox' = << >>
      BY <1>5 DEF Relaunch
    <3> QED
      BY <2>5, <2>6, <2>7, <2>8, <3>1 DEF TypedWire
  <2>10. TypedCaller'
    <3>1. main' = "beacon" /\ k' = 1 /\ token' = FALSE /\ pending' = 0 /\ reply' = None
          /\ cpuStarted' = FALSE /\ exit' = "none"
      BY <1>5 DEF Relaunch
    <3>2. k' \in 1 .. Start /\ pending' \in 0 .. Start
      BY <1>0, <3>1
    <3> QED
      BY <3>1, <3>2 DEF TypedCaller
  <2>11. TypedOutput'
    BY <1>5, <2>8 DEF Relaunch, TypedOutput
  <2>12. TypedUser'
    BY <1>0, <1>5 DEF Relaunch, TypedUser
  <2>13. TypedBoard'
    <3>1. UNCHANGED <<pico, beacon, cfg, image, run, sent, ended>>
      BY <1>5 DEF Relaunch, board
    <3>2. cfg \in 0 .. life + 1 /\ run \in 0 .. life + 1 /\ image \in [1 .. Uploads -> 0 .. life + 1]
      BY <1>0 DEF Typed, TypedBoard
    <3> QED
      BY <2>6, <3>1, <3>2 DEF Typed, TypedBoard
  <2> QED
    BY <2>9, <2>10, <2>11, <2>12, <2>13 DEF Typed
<1> QED
  BY <1>1, <1>2, <1>3, <1>4, <1>5

LEMMA TypedPico ==
  ASSUME Typed, PicoLoop \/ Beacon \/ RunEnds
  PROVE  Typed'
<1>0. life \in Nat /\ Start \in Nat /\ Start >= 3 /\ life \in 1 .. Lives /\ 1 \in 1 .. life
      /\ toPico \in Seq(DownPackets(life)) /\ up \in Seq(UpPackets(life)) /\ Len(up) <= UpMax
      /\ inbox \in Seq(UpPackets(life)) /\ Chunks \in Nat /\ Chunks >= 1
  BY BoundsAssumption, StartFacts DEF Typed, TypedWire
<1>a. ASSUME NEW p \in UpPackets(life), Send(p), UNCHANGED <<life, inbox>>,
             toPico' = toPico \/ \E c : Receive(c)
      PROVE  TypedWire'
  <2>1. up' \in Seq(UpPackets(life)) /\ Len(up') <= UpMax
    BY <1>a, Emitted
  <2>2. toPico' \in Seq(DownPackets(life))
    BY <1>0, <1>a, Received
  <2> QED
    BY <1>0, <1>a, <2>1, <2>2 DEF TypedWire
<1>1. CASE PicoRestart
  <2>1. UNCHANGED <<life, main, k, pending, reply, token, cpuStarted, exit, disp, shown, reason,
                    chunks, sig, sigs, ticks, flagN>>
    BY <1>1 DEF PicoRestart, wire, caller, output, user, board
  <2>2. TypedWire'
    <3>1. Packet("restarted", 0, 0) \in UpPackets(life)
      BY <1>0, <1>1, Sent, Received DEF PicoRestart
    <3>2. Send(Packet("restarted", 0, 0)) /\ UNCHANGED <<life, inbox>>
      BY <1>1 DEF PicoRestart, output
    <3>3. toPico' = toPico \/ \E c : Receive(c)
      BY <1>1 DEF PicoRestart
    <3> QED
      BY <1>a, <3>1, <3>2, <3>3
  <2>3. TypedBoard'
    BY <1>0, <1>1 DEF PicoRestart, Typed, TypedBoard
  <2> QED
    BY <2>1, <2>2, <2>3, TypedSame DEF Typed
<1>2. CASE PicoConfig
  <2>1. UNCHANGED <<life, main, k, pending, reply, token, cpuStarted, exit, disp, shown, reason,
                    chunks, sig, sigs, ticks, flagN>>
    BY <1>2 DEF PicoConfig, wire, caller, output, user, board
  <2>2. TypedWire'
    <3>1. Packet("answer", Head(toPico).life, Head(toPico).x) \in UpPackets(life)
      BY <1>0, <1>2, Sent, Received DEF PicoConfig
    <3>2. Send(Packet("answer", Head(toPico).life, Head(toPico).x)) /\ UNCHANGED <<life, inbox>>
      BY <1>2 DEF PicoConfig, output
    <3>3. toPico' = toPico \/ \E c : Receive(c)
      BY <1>2 DEF PicoConfig
    <3> QED
      BY <1>a, <3>1, <3>2, <3>3
  <2>3. TypedBoard'
    <3>1. Head(toPico).life \in 0 .. life
      BY <1>0, <1>2, Received DEF PicoConfig
    <3>2. beacon' \in BOOLEAN
      BY <1>2 DEF PicoConfig, Heard
    <3> QED
      BY <1>2, <3>1, <3>2 DEF PicoConfig, Typed, TypedBoard
  <2> QED
    BY <2>1, <2>2, <2>3, TypedSame DEF Typed
<1>3. CASE PicoUpload
  <2>1. UNCHANGED <<life, main, k, pending, reply, token, cpuStarted, exit, disp, shown, reason,
                    chunks, sig, sigs, ticks, flagN>>
    BY <1>3 DEF PicoUpload, wire, caller, output, user, board
  <2>2. TypedWire'
    <3>1. Packet("answer", Head(toPico).life, Head(toPico).x) \in UpPackets(life)
      BY <1>0, <1>3, Sent, Received DEF PicoUpload
    <3>2. Send(Packet("answer", Head(toPico).life, Head(toPico).x)) /\ UNCHANGED <<life, inbox>>
      BY <1>3 DEF PicoUpload, output
    <3>3. toPico' = toPico \/ \E c : Receive(c)
      BY <1>3 DEF PicoUpload
    <3> QED
      BY <1>a, <3>1, <3>2, <3>3
  <2>3. TypedBoard'
    <3>1. Head(toPico).life \in 0 .. life
      BY <1>0, <1>3, Received DEF PicoUpload
    <3>2. beacon' \in BOOLEAN
      BY <1>3 DEF PicoUpload, Heard
    <3>3. image' \in [1 .. Uploads -> 0 .. life]
      BY <1>3, <3>1 DEF PicoUpload, Typed, TypedBoard
    <3> QED
      BY <1>3, <3>2, <3>3 DEF PicoUpload, Typed, TypedBoard
  <2> QED
    BY <2>1, <2>2, <2>3, TypedSame DEF Typed
<1>4. CASE PicoStart
  <2>1. UNCHANGED <<life, main, k, pending, reply, token, cpuStarted, exit, disp, shown, reason,
                    chunks, sig, sigs, ticks, flagN>>
    BY <1>4 DEF PicoStart, wire, caller, output, user, board
  <2>2. TypedWire'
    <3>1. Packet("answer", Head(toPico).life, Head(toPico).x) \in UpPackets(life)
      BY <1>0, <1>4, Sent, Received DEF PicoStart
    <3>2. Send(Packet("answer", Head(toPico).life, Head(toPico).x)) /\ UNCHANGED <<life, inbox>>
      BY <1>4 DEF PicoStart, output
    <3>3. toPico' = toPico \/ \E c : Receive(c)
      BY <1>4 DEF PicoStart
    <3> QED
      BY <1>a, <3>1, <3>2, <3>3
  <2>3. TypedBoard'
    <3>1. Head(toPico).life \in 1 .. life
      BY <1>0, <1>4, Received DEF PicoStart
    <3>2. beacon' \in BOOLEAN
      BY <1>4 DEF PicoStart, Heard
    <3> QED
      BY <1>0, <1>4, <3>1, <3>2 DEF PicoStart, Typed, TypedBoard
  <2> QED
    BY <2>1, <2>2, <2>3, TypedSame DEF Typed
<1>5. CASE PicoSigint
  <2>1. UNCHANGED <<life, main, k, pending, reply, token, cpuStarted, exit, disp, shown, reason,
                    chunks, sig, sigs, ticks, flagN>>
    BY <1>5 DEF PicoSigint, wire, caller, output, user, board
  <2>2. TypedWire'
    <3>1. toPico' \in Seq(DownPackets(life)) /\ UNCHANGED <<life, up, inbox>>
      BY <1>5, Received DEF PicoSigint, output
    <3> QED
      BY <1>0, <3>1 DEF TypedWire
  <2>3. TypedBoard'
    <3>1. beacon' \in BOOLEAN
      BY <1>5 DEF PicoSigint, Heard
    <3> QED
      BY <1>0, <1>5, <3>1 DEF PicoSigint, Typed, TypedBoard
  <2> QED
    BY <2>1, <2>2, <2>3, TypedSame DEF Typed
<1>6. CASE SendTrace
  <2>1. UNCHANGED <<life, main, k, pending, reply, token, cpuStarted, exit, disp, shown, reason,
                    chunks, sig, sigs, ticks, flagN>>
    BY <1>6 DEF SendTrace, wire, caller, output, user, board
  <2>2. TypedWire'
    <3>0. run \in 1 .. life /\ sent + 1 \in Nat
      BY <1>0, <1>6 DEF SendTrace, Typed, TypedBoard
    <3>1. Packet("trace", run, sent + 1) \in UpPackets(life)
      BY <1>0, <3>0, Sent
    <3> QED
      BY <1>6, <1>a, <3>1 DEF SendTrace, output
  <2>3. TypedBoard'
    BY <1>6 DEF SendTrace, Typed, TypedBoard
  <2> QED
    BY <2>1, <2>2, <2>3, TypedSame DEF Typed
<1>7. CASE SendDump
  <2>1. UNCHANGED <<life, main, k, pending, reply, token, cpuStarted, exit, disp, shown, reason,
                    chunks, sig, sigs, ticks, flagN>>
    BY <1>7 DEF SendDump, wire, caller, output, user, board
  <2>2. TypedWire'
    <3>0. run \in 1 .. life /\ sent \in 0 .. Chunks /\ ended \in 1 .. 3
      BY <1>0, <1>7 DEF SendDump, Typed, TypedBoard
    <3>1. (IF sent = 0 THEN Packet("fault", run, ended) ELSE Packet("chunk", run, sent)) \in UpPackets(life)
      BY <1>0, <3>0, Sent
    <3> QED
      BY <1>7, <1>a, <3>1 DEF SendDump, output
  <2>3. TypedBoard'
    BY <1>0, <1>7 DEF SendDump, Typed, TypedBoard
  <2> QED
    BY <2>1, <2>2, <2>3, TypedSame DEF Typed
<1>8. CASE Beacon
  <2>1. UNCHANGED <<life, main, k, pending, reply, token, cpuStarted, exit, disp, shown, reason,
                    chunks, sig, sigs, ticks, flagN, pico, beacon, cfg, image, run, sent, ended>>
    BY <1>8 DEF Beacon, wire, caller, output, user, board
  <2>2. TypedWire'
    <3>1. Packet("restarted", 0, 0) \in UpPackets(life)
      BY <1>0, <1>8, Sent, Received DEF Beacon
    <3>2. Send(Packet("restarted", 0, 0)) /\ UNCHANGED <<life, inbox>>
      BY <1>8 DEF Beacon, output
    <3>3. toPico' = toPico \/ \E c : Receive(c)
      BY <1>8 DEF Beacon
    <3> QED
      BY <1>a, <3>1, <3>2, <3>3
  <2> QED
    BY <2>1, <2>2, TypedSame DEF Typed
<1>9. CASE RunEnds
  <2>1. UNCHANGED <<life, toPico, up, inbox, main, k, pending, reply, token, cpuStarted, exit,
                    disp, shown, reason, chunks, sig, sigs, ticks, flagN>>
    BY <1>9 DEF RunEnds, wire, caller, output, user, board
  <2>2. TypedBoard'
    <3>1. ended' \in {1, 3} /\ sent' = 0 /\ pico = "running" /\ pico' = "dumping"
          /\ UNCHANGED <<life, beacon, cfg, image, run>>
      BY <1>9 DEF RunEnds
    <3>2. ended' \in 0 .. 3 /\ ended' >= 1
      BY <3>1
    <3> QED
      BY <1>0, <3>1, <3>2 DEF Typed, TypedBoard
  <2> QED
    BY <2>1, <2>2, TypedSame DEF Typed
<1> QED
  BY <1>1, <1>2, <1>3, <1>4, <1>5, <1>6, <1>7, <1>8, <1>9 DEF PicoLoop

LEMMA TypedNext == ASSUME Typed, [Next]_vars PROVE Typed'
<1>1. CASE UNCHANGED vars
  <2>1. UNCHANGED <<life, toPico, up, inbox, main, k, pending, reply, token, cpuStarted, exit, disp,
                    shown, reason, chunks, sig, sigs, ticks, flagN, pico, beacon, cfg, image, run, sent, ended>>
    BY <1>1 DEF vars
  <2> QED
    BY <2>1, TypedSame DEF Typed
<1> QED
  BY <1>1, TypedMain, TypedReader, TypedSignals, TypedPico DEF Next

LEMMA TypedThen == Typed => TypeOK
<1> SUFFICES ASSUME Typed PROVE TypeOK
  OBVIOUS
<1>1. life \in 1 .. Lives /\ Lives \in Nat /\ DownPackets(life) \subseteq Packets /\ UpPackets(life) \subseteq Packets
      /\ life \in Nat
  BY ArePackets, BoundsAssumption DEF Typed, TypedWire
<1>2. toPico \in Seq(Packets) /\ up \in Seq(Packets) /\ Len(up) <= UpMax /\ inbox \in Seq(Packets)
  BY <1>1, SeqMonotonic DEF Typed, TypedWire
<1>3. /\ [cmd : {"answer"}, life : 1 .. life, x : 1 .. Start] \subseteq Packets
      /\ [cmd : {"trace"}, life : 1 .. life, x : Nat] \subseteq Packets
      /\ [cmd : {"fault"}, life : 1 .. life, x : 1 .. 3] \subseteq Packets
      /\ [cmd : {"chunk"}, life : 1 .. life, x : 1 .. Chunks] \subseteq Packets
  BY <1>1, StartFacts DEF Packets
<1>4. shown \in Seq(Packets) /\ reason \in Packets \cup {None} /\ chunks \subseteq Packets
      /\ disp \in {"run", "drain"}
  BY <1>3, SeqMonotonic DEF Typed, TypedOutput
<1>5. reply \in Packets \cup {None}
  BY <1>3 DEF Typed, TypedCaller
<1>6. cfg \in 0 .. Lives /\ run \in 0 .. Lives /\ image \in [1 .. Uploads -> 0 .. Lives]
  BY <1>1 DEF Typed, TypedBoard
<1> QED
  BY <1>1, <1>2, <1>4, <1>5, <1>6 DEF TypeOK, Typed, TypedCaller, TypedUser, TypedBoard

\* Whatever Tethers die and are launched, and whatever is left on the wire, what
\* the Tether and the Pico hold has its type, and no call has a serial number
\* beyond the last of a session.
THEOREM SessionTypes == Spec => []TypeOK
<1>1. Init => Typed
  BY TypedInit
<1>2. Typed /\ [Next]_vars => Typed'
  BY TypedNext
<1> QED
  BY <1>1, <1>2, TypedThen, PTL DEF Spec


-----------------------------------------------------------------------------
(* Order.                                                                  *)

\* What is known of everything under way.
LEMMA Facts ==
  ASSUME Typed
  PROVE  /\ life \in Nat /\ life >= 1 /\ life \in 1 .. Lives /\ life \in 1 .. life
         /\ Start \in Nat /\ Start >= 3 /\ k \in 1 .. Start
         /\ toPico \in Seq(DownPackets(life))
         /\ up \in Seq(UpPackets(life)) /\ inbox \in Seq(UpPackets(life))
         /\ \A p \in Range(toPico) :
              /\ p \in DownPackets(life) /\ IsDown(p) /\ p.life \in 1 .. life /\ p.x \in Nat
              /\ p = Packet(p.cmd, p.life, p.x)
              /\ p.cmd = "rpc" => p.x \in 1 .. Start
         /\ \A p \in Range(inbox) \cup Range(up) :
              /\ p \in UpPackets(life) /\ ~IsDown(p) /\ p.life \in 0 .. life /\ p.x \in Nat
              /\ p.cmd \in {"restarted", "answer", "trace", "fault", "chunk"}
              /\ p.cmd = "answer" => p.x \in 1 .. Start /\ p.life \in 1 .. life
<1>1. /\ life \in Nat /\ life >= 1 /\ life \in 1 .. Lives /\ life \in 1 .. life
      /\ toPico \in Seq(DownPackets(life))
      /\ up \in Seq(UpPackets(life)) /\ inbox \in Seq(UpPackets(life))
      /\ Start \in Nat /\ Start >= 3 /\ k \in 1 .. Start
  BY StartFacts, BoundsAssumption DEF Typed, TypedWire, TypedCaller
<1>2. ASSUME NEW p \in Range(toPico)
      PROVE  /\ p \in DownPackets(life) /\ IsDown(p) /\ p.life \in 1 .. life /\ p.x \in Nat
             /\ p = Packet(p.cmd, p.life, p.x) /\ (p.cmd = "rpc" => p.x \in 1 .. Start)
  <2>1. p \in DownPackets(life)
    BY <1>1, <1>2, RangeIs
  <2> QED
    BY <1>1, <2>1, DownIs
<1>3. ASSUME NEW p \in Range(inbox) \cup Range(up)
      PROVE  /\ p \in UpPackets(life) /\ ~IsDown(p) /\ p.life \in 0 .. life /\ p.x \in Nat
             /\ p.cmd \in {"restarted", "answer", "trace", "fault", "chunk"}
             /\ (p.cmd = "answer" => p.x \in 1 .. Start /\ p.life \in 1 .. life)
  <2>1. p \in UpPackets(life)
    BY <1>1, <1>3, RangeIs
  <2> QED
    BY <1>1, <2>1, UpIs
<1> QED
  BY <1>1, <1>2, <1>3

\* What is sent is on its way, unless nobody reads.
LEMMA WasSent ==
  ASSUME Typed, NEW p \in UpPackets(life), Send(p)
  PROVE  \/ up' = Append(up, p) /\ Range(up') = Range(up) \cup {p}
         \/ up' = up /\ ~Alive
<1>1. up \in Seq(UpPackets(life))
  BY Facts
<1>2. Range(Append(up, p)) = Range(up) \cup {p}
  BY <1>1, Appended
<1>3. up' = Append(up, p) \/ (up' = up /\ ~Alive)
  BY DEF Send
<1> QED
  BY <1>2, <1>3

LEMMA OrderedPush ==
  ASSUME Typed, Ordered, NEW p \in DownPackets(life),
         toPico' = Append(toPico, p), UNCHANGED <<life, inbox, up>>,
         \A q \in Range(inbox) \cup Range(up) \cup Range(toPico) : Before(q, p, life)
  PROVE  Ordered'
<1>1. toPico \in Seq(DownPackets(life))
  BY Facts
<1>2. InOrder(Append(toPico, p), life) /\ Range(Append(toPico, p)) = Range(toPico) \cup {p}
  BY <1>1, Appended, AppendedInOrder DEF Ordered
<1> QED
  BY <1>2 DEF Ordered, Ahead

LEMMA OrderedSend ==
  ASSUME Typed, Ordered, NEW p \in UpPackets(life), Send(p), UNCHANGED <<life, inbox>>,
         toPico' = toPico \/ (toPico # << >> /\ toPico' = Tail(toPico)),
         \A q \in Range(inbox) \cup Range(up) : Before(q, p, life),
         \A q \in Range(toPico') : Before(p, q, life)
  PROVE  Ordered'
<1>1. toPico \in Seq(DownPackets(life)) /\ up \in Seq(UpPackets(life))
  BY Facts
<1>2. InOrder(toPico', life) /\ Range(toPico') \subseteq Range(toPico)
  BY <1>1, Dropped, DroppedInOrder DEF Ordered
<1>3. up' = Append(up, p) \/ up' = up
  BY DEF Send
<1>4. /\ InOrder(Append(up, p), life) /\ Range(Append(up, p)) = Range(up) \cup {p}
  BY <1>1, Appended, AppendedInOrder DEF Ordered
<1>5. /\ InOrder(inbox, life) /\ InOrder(up', life) /\ InOrder(toPico', life)
      /\ Range(up') \subseteq Range(up) \cup {p}
  BY <1>2, <1>3, <1>4 DEF Ordered
<1>6. Ahead(inbox, up', life) /\ Ahead(inbox, toPico', life) /\ Ahead(up', toPico', life)
  BY <1>2, <1>5 DEF Ordered, Ahead
<1> QED
  BY <1>5, <1>6 DEF Ordered

\* A packet of the run says where the Pico is.
LEMMA RunKnown ==
  ASSUME IInv, NEW p \in Range(inbox) \cup Range(up), InRun(p, life)
  PROVE  run = life /\ pico # "wait" /\ \A q \in Range(toPico) : q.cmd = "sigint"
<1>1. run = life
  BY DEF IInv, Streamed, NoneYet
<1>2. life \in Nat /\ life >= 1 /\ \A q \in Range(toPico) : q.life \in 1 .. life
  BY Facts DEF IInv
<1>3. \A q \in Range(toPico) : run > 0 => q.life > run \/ (q.life = run /\ q.cmd = "sigint")
  BY DEF IInv, PicoKnows, AfterRun, AfterConfig
<1>4. pico # "wait"
  BY <1>1, <1>2 DEF IInv, Typed, TypedBoard
<1> QED
  BY <1>1, <1>2, <1>3, <1>4

\* And so does an answer.
LEMMA AnswerKnown ==
  ASSUME IInv, NEW p \in Range(inbox) \cup Range(up), p.cmd = "answer", p.life = life
  PROVE  /\ cfg = life /\ ~(pico = "wait" /\ beacon)
         /\ \A q \in Range(toPico) : q.life = life /\ (q.cmd = "sigint" \/ (q.cmd = "rpc" /\ q.x > 1))
<1>1. cfg = life
  BY DEF IInv, Counted, FewOpen, NotAhead, AnswersConfigured
<1>2. life \in Nat /\ life >= 1 /\ \A q \in Range(toPico) : q.life \in 1 .. life
  BY Facts DEF IInv
<1>3. \A q \in Range(toPico) :
        cfg > 0 => q.life > cfg \/ (q.life = cfg /\ (q.cmd = "sigint" \/ (q.cmd = "rpc" /\ q.x > 1)))
  BY DEF IInv, PicoKnows, AfterRun, AfterConfig
<1>4. cfg > 0 => ~(pico = "wait" /\ beacon)
  BY DEF IInv, PicoKnows, AfterRun, AfterConfig
<1> QED
  BY <1>1, <1>2, <1>3, <1>4

LEMMA OrderedSame == Ordered /\ UNCHANGED <<life, inbox, up, toPico>> => Ordered'
  BY DEF Ordered

\* There is room for the call that is made: the Pico is no session behind.
LEMMA CallInTime ==
  ASSUME IInv, main = "call", k = Start, NEW q \in Range(toPico), q.cmd = "restart"
  PROVE  life >= Start
<1>1. Typed /\ Alive
  BY DEF IInv, Alive
<1>2. CASE Unanswered
  <2> DEFINE c == Cardinality(Stale)
  <2>1. c + k + 0 <= life /\ c \in Nat
    <3>1. IsFiniteSet(Open) /\ Stale \subseteq Open
      BY DEF IInv, Counted, FewOpen, NotAhead, AnswersConfigured, Stale
    <3>2. Cardinality(Stale) \in Nat
      BY <3>1, FS_Subset, FS_CardinalityType
    <3>3. ~Taken
      BY DEF Taken
    <3> QED
      BY <1>1, <1>2, <3>2, <3>3 DEF IInv, Counted, FewOpen, NotAhead, AnswersConfigured
  <2> HIDE DEF c
  <2> QED
    BY <1>1, <2>1, Facts
<1>3. CASE ~Unanswered
  <2>1. cfg = life
    BY <1>1, <1>3 DEF IInv, Counted, FewOpen, NotAhead, AnswersConfigured
  <2>2. life >= 1 /\ life \in Nat /\ q.life \in 1 .. life
    BY <1>1, Facts
  <2>3. cfg > 0 => q.life > cfg \/ (q.life = cfg /\ (q.cmd = "sigint" \/ (q.cmd = "rpc" /\ q.x > 1)))
    BY DEF IInv, PicoKnows, AfterRun, AfterConfig
  <2> QED
    BY <2>1, <2>2, <2>3
<1> QED
  BY <1>2, <1>3

LEMMA OrderedPushes ==
  ASSUME IInv, AskRestart \/ Call \/ SendSigint
  PROVE  Ordered'
<1>0. Typed /\ Ordered
  BY DEF IInv
<1>1. /\ life \in Nat /\ life \in 1 .. life /\ Start \in Nat /\ Start >= 3 /\ k \in 1 .. Start
      /\ \A q \in Range(toPico) :
           /\ IsDown(q) /\ q.life \in 1 .. life /\ q.x \in Nat
           /\ q.cmd = "rpc" => q.x \in 1 .. Start
      /\ \A q \in Range(inbox) \cup Range(up) :
           /\ ~IsDown(q) /\ q.life \in 0 .. life
           /\ q.cmd = "answer" => q.x \in 1 .. Start
  BY <1>0, Facts
<1>2. Alive => \A q \in Range(inbox) \cup Range(up) \cup Range(toPico) :
                 IsCall(q) /\ q.life = life => q.x <= Made
  BY DEF IInv, Calling, OwnMade
<1>3. Alive /\ sig = "idle" => \A q \in Range(toPico) : ~(q.cmd = "sigint" /\ q.life = life)
  BY DEF IInv, Ending, Phases, Interrupted
<1>4. main \in {"beacon", "call"} => Alive /\ sig = "idle"
  BY DEF IInv, Ending, Phases, Interrupted, Alive, Typed, TypedUser
<1>5. CASE AskRestart
  <2> DEFINE p == Packet("restart", life, 0)
  <2>1. p \in DownPackets(life) /\ main = "beacon" /\ Made = 0
    BY <1>1, <1>5, Sent DEF AskRestart, Made
  <2>2. ASSUME NEW q \in Range(inbox) \cup Range(up) \cup Range(toPico)
        PROVE  Before(q, p, life)
    <3>1. IsDown(q) \/ q.cmd = "answer" => Lex(q, p)
      <4>1. q.life = life /\ (IsDown(q) \/ q.cmd = "answer") => q.cmd = "restart"
        BY <1>1, <1>2, <1>3, <1>4, <2>1, <2>2 DEF IsDown, IsCall
      <4>2. q.life \in 0 .. life
        BY <1>1, <2>2
      <4> QED
        BY <1>1, <4>1, <4>2 DEF Lex, Packet
    <3> QED
      BY <3>1 DEF Before, Packet, IsRestarted, IsStart, IsDown
  <2>3. toPico' = Append(toPico, p) /\ UNCHANGED <<life, inbox, up>>
    BY <1>5 DEF AskRestart, output
  <2> QED
    BY <1>0, <2>1, <2>2, <2>3, OrderedPush
<1>6. CASE Call
  <2> DEFINE p == Packet("rpc", life, k)
  <2>1. p \in DownPackets(life) /\ main = "call" /\ Made = k - 1
    BY <1>1, <1>6, Sent DEF Call, Made
  <2>2. ASSUME NEW q \in Range(inbox) \cup Range(up) \cup Range(toPico)
        PROVE  Before(q, p, life)
    <3>0. q.life \in 0 .. life
      BY <1>1, <2>2
    <3>1. IsDown(q) \/ q.cmd = "answer" => Lex(q, p)
      <4>1. ASSUME q.life = life, IsDown(q) \/ q.cmd = "answer" PROVE Rank(q) < k
        <5>1. q.cmd # "sigint"
          BY <1>1, <1>3, <1>4, <2>1, <2>2, <4>1 DEF IsDown
        <5>2. IsCall(q) => q.x <= k - 1 /\ q.x \in Nat
          BY <1>1, <1>2, <1>4, <2>1, <2>2, <4>1 DEF IsCall, IsDown
        <5> QED
          BY <1>1, <4>1, <5>1, <5>2 DEF Rank, IsDown, IsCall
      <4> QED
        BY <1>1, <3>0, <4>1 DEF Lex, Packet, Rank
    <3>2. q.cmd = "restart" /\ IsStart(p) => p.life >= Start
      <4>1. q.cmd = "restart" => q \in Range(toPico)
        BY <1>1, <2>2 DEF IsDown
      <4> QED
        BY <2>1, <4>1, CallInTime DEF IsStart, Packet
    <3>3. ~(IsStart(q) /\ p.cmd = "rpc" /\ p.x = 1)
      <4>1. k = 1 => \A r \in Range(toPico) : ~IsStart(r)
        BY <2>1 DEF IInv, Heeded, Settled
      <4>2. IsStart(q) => q \in Range(toPico)
        BY <1>1, <2>2 DEF IsDown, IsStart
      <4> QED
        BY <4>1, <4>2 DEF Packet
    <3> QED
      BY <3>1, <3>2, <3>3 DEF Before, Packet, IsRestarted, IsDown
  <2>3. toPico' = Append(toPico, p) /\ UNCHANGED <<life, inbox, up>>
    BY <1>6 DEF Call, output
  <2> QED
    BY <1>0, <2>1, <2>2, <2>3, OrderedPush
<1>7. CASE SendSigint
  <2> DEFINE p == Packet("sigint", life, 0)
  <2>1. p \in DownPackets(life) /\ Alive /\ sig = "idle"
    BY <1>1, <1>7, Sent DEF SendSigint
  <2>2. ASSUME NEW q \in Range(inbox) \cup Range(up) \cup Range(toPico)
        PROVE  Before(q, p, life)
    <3>0. q.life \in 0 .. life
      BY <1>1, <2>2
    <3>1. IsDown(q) \/ q.cmd = "answer" => Lex(q, p)
      <4>1. ASSUME q.life = life, IsDown(q) \/ q.cmd = "answer" PROVE Rank(q) < Start + 1
        <5>1. q.cmd # "sigint"
          BY <1>1, <1>3, <2>1, <2>2, <4>1 DEF IsDown
        <5>2. IsCall(q) => q.x \in 1 .. Start
          BY <1>1, <2>2, <4>1 DEF IsCall, IsDown
        <5> QED
          BY <1>1, <4>1, <5>1, <5>2 DEF Rank, IsDown, IsCall
      <4> QED
        BY <1>1, <3>0, <4>1 DEF Lex, Packet, Rank
    <3> QED
      BY <3>1 DEF Before, Packet, IsRestarted, IsStart, IsDown
  <2>3. toPico' = Append(toPico, p) /\ UNCHANGED <<life, inbox, up>>
    BY <1>7 DEF SendSigint, output
  <2> QED
    BY <1>0, <2>1, <2>2, <2>3, OrderedPush
<1> QED
  BY <1>5, <1>6, <1>7

\* What the Pico carries out is the first of what is on its way.
LEMMA HeadFirst ==
  ASSUME Typed, Ordered, NEW c, Receive(c)
  PROVE  /\ \A q \in Range(toPico') : Before(Head(toPico), q, life)
         /\ \A q \in Range(inbox) \cup Range(up) : Before(q, Head(toPico), life)
         /\ Range(toPico) = {Head(toPico)} \cup Range(toPico')
<1>1. /\ toPico \in Seq(DownPackets(life)) /\ toPico # << >> /\ toPico' = Tail(toPico)
      /\ Head(toPico) \in Range(toPico) /\ Range(toPico) = {Head(toPico)} \cup Range(toPico')
  BY Facts, Received
<1>2. \A q \in Range(toPico') : Before(Head(toPico), q, life)
  BY <1>1, DroppedInOrder DEF Ordered
<1>3. \A q \in Range(inbox) \cup Range(up) : Before(q, Head(toPico), life)
  BY <1>1 DEF Ordered, Ahead
<1> QED
  BY <1>1, <1>2, <1>3

LEMMA OrderedAnswer ==
  ASSUME IInv, Receive("rpc"), Send(Packet("answer", Head(toPico).life, Head(toPico).x)),
         UNCHANGED <<life, inbox>>
  PROVE  Ordered'
<1> DEFINE h == Head(toPico)
           a == Packet("answer", h.life, h.x)
<1>0. Typed /\ Ordered
  BY DEF IInv
<1>1. /\ life \in Nat /\ h.cmd = "rpc" /\ h.life \in 1 .. life /\ h.x \in 1 .. Start /\ h \in Range(toPico)
      /\ toPico # << >> /\ toPico' = Tail(toPico) /\ a \in UpPackets(life) /\ Start \in Nat
      /\ Range(toPico) = {h} \cup Range(Tail(toPico))
  BY <1>0, Received, Sent, StartFacts
<1>2. /\ \A q \in Range(toPico') : Before(h, q, life)
      /\ \A q \in Range(inbox) \cup Range(up) : Before(q, h, life)
  BY <1>0, HeadFirst
<1> HIDE DEF h
<1>3. /\ a.cmd = "answer" /\ a.life = h.life /\ a.x = h.x /\ Rank(a) = Rank(h)
  BY <1>1 DEF Packet, Rank
<1>4. ASSUME NEW q \in Range(inbox) \cup Range(up) PROVE Before(q, a, life)
  <2>1. Before(q, h, life) /\ ~IsDown(q)
    BY <1>0, <1>2, Facts
  <2>2. q.cmd = "answer" => Lex(q, a)
    BY <1>1, <1>3, <2>1 DEF Before, IsDown, Lex
  <2>3. ~InRun(q, life)
    BY <1>1, RunKnown
  <2> QED
    BY <1>3, <2>1, <2>2, <2>3 DEF Before, IsRestarted, IsDown, IsStart
<1>5. ASSUME NEW q \in Range(toPico') PROVE Before(a, q, life)
  <2>1. Before(h, q, life) /\ IsDown(q)
    BY <1>0, <1>1, <1>2, Facts
  <2>2. Lex(a, q)
    BY <1>1, <1>3, <2>1 DEF Before, IsDown, Lex
  <2> QED
    BY <1>3, <2>1, <2>2 DEF Before, IsRestarted, IsDown, IsStart
<1> QED
  BY <1>0, <1>1, <1>4, <1>5, OrderedSend DEF h

LEMMA OrderedPico ==
  ASSUME IInv, PicoLoop \/ Beacon \/ RunEnds
  PROVE  Ordered'
<1>0. Typed /\ Ordered
  BY DEF IInv
<1>1. /\ life \in Nat /\ 1 \in 1 .. life
      /\ \A q \in Range(toPico) : IsDown(q) /\ q.life \in 1 .. life
      /\ \A q \in Range(inbox) \cup Range(up) : ~IsDown(q)
  BY <1>0, Facts
<1>2. CASE PicoRestart
  <2> DEFINE h == Head(toPico)
             p == Packet("restarted", 0, 0)
  <2>1. h.cmd = "restart" /\ h \in Range(toPico) /\ toPico # << >> /\ toPico' = Tail(toPico)
        /\ Range(toPico') \subseteq Range(toPico) /\ p \in UpPackets(life)
    BY <1>0, <1>1, <1>2, Received, HeadFirst, Sent DEF PicoRestart
  <2>2. ASSUME NEW q \in Range(inbox) \cup Range(up) PROVE Before(q, p, life)
    <3>1. ~InRun(q, life)
      BY <2>1, RunKnown
    <3>2. ~(q.cmd = "answer" /\ q.life = life)
      BY <2>1, AnswerKnown
    <3> QED
      BY <1>1, <3>1, <3>2 DEF Before, Packet, IsDown, IsStart
  <2>3. ASSUME NEW q \in Range(toPico') PROVE Before(p, q, life)
    BY <1>1, <2>1, <2>3 DEF Before, Packet, IsDown, IsStart
  <2>4. Send(p) /\ UNCHANGED <<life, inbox>>
    BY <1>2 DEF PicoRestart, output
  <2> QED
    BY <1>0, <2>1, <2>2, <2>3, <2>4, OrderedSend
<1>3. CASE PicoConfig \/ PicoUpload \/ PicoStart
  BY <1>3, OrderedAnswer DEF PicoConfig, PicoUpload, PicoStart, output
<1>4. CASE PicoSigint
  <2>1. toPico \in Seq(DownPackets(life)) /\ toPico # << >> /\ toPico' = Tail(toPico)
        /\ UNCHANGED <<life, inbox, up>>
    BY <1>0, <1>4, Facts, Received DEF PicoSigint, output
  <2>2. InOrder(toPico', life) /\ Range(toPico') \subseteq Range(toPico)
    BY <1>0, <2>1, Dropped, DroppedInOrder DEF Ordered
  <2> QED
    BY <1>0, <2>1, <2>2 DEF Ordered, Ahead
<1>a. ASSUME NEW p \in UpPackets(life), Send(p), UNCHANGED <<life, inbox, toPico>>,
             OfRun(p), p.life = run
      PROVE  Ordered'
  <2>1. p.cmd # "answer" /\ ~IsDown(p) /\ ~IsRestarted(p) /\ p.cmd # "restart" /\ ~IsStart(p)
        /\ p.cmd # "rpc"
    BY <1>a DEF OfRun, IsDown, IsRestarted, IsStart
  <2>2. ASSUME NEW q \in Range(inbox) \cup Range(up) PROVE Before(q, p, life)
    BY <1>a, <2>1, RunKnown DEF Before
  <2>3. ASSUME NEW q \in Range(toPico') PROVE Before(p, q, life)
    BY <1>1, <1>a, <2>1, <2>3 DEF Before, IsRestarted, IsDown
  <2> QED
    BY <1>0, <1>a, <2>2, <2>3, OrderedSend
<1>5. CASE SendTrace
  <2>1. run \in 1 .. life /\ sent + 1 \in Nat
    BY <1>0, <1>1, <1>5 DEF SendTrace, Typed, TypedBoard
  <2>2. Packet("trace", run, sent + 1) \in UpPackets(life)
    BY <1>1, <2>1, Sent
  <2>3. OfRun(Packet("trace", run, sent + 1)) /\ Packet("trace", run, sent + 1).life = run
    BY DEF OfRun, Packet
  <2> QED
    BY <1>5, <1>a, <2>2, <2>3 DEF SendTrace, output
<1>6. CASE SendDump
  <2> DEFINE p == IF sent = 0 THEN Packet("fault", run, ended) ELSE Packet("chunk", run, sent)
  <2>1. run \in 1 .. life /\ sent \in 0 .. Chunks /\ ended \in 1 .. 3 /\ Chunks \in Nat
    BY <1>0, <1>1, <1>6, StartFacts DEF SendDump, Typed, TypedBoard
  <2>2. p \in UpPackets(life)
    BY <1>1, <2>1, Sent
  <2>3. OfRun(p) /\ p.life = run
    BY DEF OfRun, Packet
  <2>4. Send(p) /\ UNCHANGED <<life, inbox, toPico>>
    BY <1>6 DEF SendDump, output
  <2> QED
    BY <1>a, <2>2, <2>3, <2>4
<1>7. CASE Beacon
  <2> DEFINE p == Packet("restarted", 0, 0)
  <2>1. p \in UpPackets(life)
    BY <1>0, <1>1, <1>7, Sent
  <2>2. ASSUME NEW q \in Range(inbox) \cup Range(up) PROVE Before(q, p, life)
    <3>1. ~InRun(q, life) /\ ~(q.cmd = "answer" /\ q.life = life)
      BY <1>7, RunKnown, AnswerKnown DEF Beacon
    <3> QED
      BY <1>1, <3>1 DEF Before, Packet, IsDown, IsStart
  <2>3. Send(p) /\ UNCHANGED <<life, inbox, toPico>>
    BY <1>7 DEF Beacon, output
  <2>4. ASSUME NEW q \in Range(toPico') PROVE Before(p, q, life)
    BY <1>1, <2>3, <2>4 DEF Before, Packet, IsDown, IsStart
  <2> QED
    BY <1>0, <2>1, <2>2, <2>3, <2>4, OrderedSend
<1>8. CASE RunEnds
  BY <1>0, <1>8, OrderedSame DEF RunEnds, wire, output
<1> QED
  BY <1>2, <1>3, <1>4, <1>5, <1>6, <1>7, <1>8 DEF PicoLoop

\* Order in a later life.
LEMMA BeforeLater ==
  ASSUME NEW l \in Nat, NEW p, NEW q, p.life \in 0 .. l, Before(p, q, l)
  PROVE  Before(p, q, l + 1)
  BY DEF Before, InRun

LEMMA InOrderLater ==
  ASSUME NEW l \in Nat, NEW S, NEW s \in Seq(S), \A p \in S : p.life \in 0 .. l, InOrder(s, l)
  PROVE  InOrder(s, l + 1)
<1> SUFFICES ASSUME NEW i \in 1 .. Len(s), NEW j \in 1 .. Len(s), i < j
             PROVE  Before(s[i], s[j], l + 1)
  BY DEF InOrder
<1>1. s[i].life \in 0 .. l
  BY ElementOfSeq
<1> QED
  BY <1>1, BeforeLater DEF InOrder

\* What a launch leaves of the queues.
LEMMA Launched ==
  ASSUME Typed, Relaunch
  PROVE  /\ life' = life + 1 /\ inbox' = << >>
         /\ toPico' \in Seq(DownPackets(life)) /\ up' \in Seq(UpPackets(life))
         /\ Range(toPico') \subseteq Range(toPico) /\ Range(up') \subseteq Range(up)
         /\ \A i \in 1 .. Len(toPico') : i \in 1 .. Len(toPico) /\ toPico'[i] = toPico[i]
         /\ InOrder(toPico, life) => InOrder(toPico', life)
         /\ InOrder(up, life) => InOrder(up', life)
<1>1. toPico \in Seq(DownPackets(life)) /\ up \in Seq(UpPackets(life)) /\ Len(toPico) \in Nat /\ Len(up) \in Nat
  BY Facts
<1>2. PICK n \in 0 .. Len(toPico) : toPico' = SubSeq(toPico, 1, n)
  BY DEF Relaunch
<1>3. PICK m \in 1 .. Len(up) + 1 : up' = SubSeq(up, m, Len(up))
  BY DEF Relaunch
<1>4. 1 \in 1 .. Len(toPico) + 1 /\ Len(up) \in 0 .. Len(up)
  BY <1>1
<1>5. /\ toPico' \in Seq(DownPackets(life)) /\ Range(toPico') \subseteq Range(toPico)
      /\ \A i \in 1 .. Len(toPico') : i + 1 - 1 \in 1 .. Len(toPico) /\ toPico'[i] = toPico[i + 1 - 1]
      /\ InOrder(toPico, life) => InOrder(toPico', life)
  BY <1>1, <1>2, <1>4, Cut, CutInOrder
<1>6. /\ up' \in Seq(UpPackets(life)) /\ Range(up') \subseteq Range(up)
      /\ InOrder(up, life) => InOrder(up', life)
  BY <1>1, <1>3, <1>4, Cut, CutInOrder
<1>7. ASSUME NEW i \in 1 .. Len(toPico') PROVE i \in 1 .. Len(toPico) /\ toPico'[i] = toPico[i]
  <2>1. i + 1 - 1 = i
    BY <1>5
  <2> QED
    BY <1>5, <2>1
<1> QED
  BY <1>5, <1>6, <1>7 DEF Relaunch

\* What is read leaves the queue to the Tether and is kept or dropped.
LEMMA WasRead ==
  ASSUME Typed, Read
  PROVE  /\ up # << >> /\ up' = Tail(up) /\ Head(up) \in Range(up) /\ Head(up) \in UpPackets(life)
         /\ Range(up) = {Head(up)} \cup Range(up')
         /\ UNCHANGED <<life, toPico>>
         /\ \/ inbox' = inbox /\ OfRun(Head(up)) /\ ~cpuStarted
            \/ /\ inbox' = Append(inbox, Head(up)) /\ Range(inbox') = Range(inbox) \cup {Head(up)}
               /\ cpuStarted \/ ~OfRun(Head(up))
<1>1. /\ up \in Seq(UpPackets(life)) /\ inbox \in Seq(UpPackets(life)) /\ up # << >> /\ up' = Tail(up)
      /\ UNCHANGED <<life, toPico>>
      /\ inbox' = IF ~cpuStarted /\ OfRun(Head(up)) THEN inbox ELSE Append(inbox, Head(up))
  BY Facts DEF Read
<1>2. Head(up) \in UpPackets(life) /\ Range(up) = {Head(up)} \cup Range(Tail(up))
  BY <1>1, Dropped
<1>3. Range(Append(inbox, Head(up))) = Range(inbox) \cup {Head(up)}
  BY <1>1, <1>2, Appended
<1> QED
  BY <1>1, <1>2, <1>3

LEMMA OrderedRead == ASSUME IInv, Read PROVE Ordered'
<1>0. Typed /\ Ordered
  BY DEF IInv
<1>1. up \in Seq(UpPackets(life)) /\ inbox \in Seq(UpPackets(life))
  BY <1>0, Facts
<1>2. /\ up # << >> /\ up' = Tail(up) /\ Head(up) \in Range(up) /\ Head(up) \in UpPackets(life)
      /\ Range(up) = {Head(up)} \cup Range(up')
      /\ UNCHANGED <<life, toPico>>
      /\ \/ inbox' = inbox
         \/ inbox' = Append(inbox, Head(up)) /\ Range(inbox') = Range(inbox) \cup {Head(up)}
  BY <1>0, WasRead
<1>3. InOrder(up', life) /\ \A q \in Range(up') : Before(Head(up), q, life)
  BY <1>0, <1>1, <1>2, DroppedInOrder DEF Ordered
<1>4. InOrder(Append(inbox, Head(up)), life)
  BY <1>0, <1>1, <1>2, AppendedInOrder DEF Ordered, Ahead
<1>5. InOrder(inbox', life) /\ Range(inbox') \subseteq Range(inbox) \cup {Head(up)}
  BY <1>0, <1>2, <1>4 DEF Ordered
<1>6. Ahead(inbox', up', life) /\ Ahead(inbox', toPico, life) /\ Ahead(up', toPico, life)
  BY <1>0, <1>2, <1>3, <1>5 DEF Ordered, Ahead
<1> QED
  BY <1>0, <1>2, <1>3, <1>5, <1>6 DEF Ordered

\* What is taken out of the inbox is the first of all that is under way.
LEMMA OrderedTake ==
  ASSUME Typed, Ordered, inbox # << >>, inbox' = Tail(inbox)
  PROVE  /\ Range(inbox) = {Head(inbox)} \cup Range(inbox')
         /\ \A q \in Range(inbox') \cup Range(up) \cup Range(toPico) : Before(Head(inbox), q, life)
         /\ UNCHANGED <<life, up, toPico>> => Ordered'
<1>1. inbox \in Seq(UpPackets(life))
  BY Facts
<1>2. Range(inbox) = {Head(inbox)} \cup Range(inbox')
  BY <1>1, Dropped
<1>3. InOrder(inbox', life) /\ \A q \in Range(inbox') : Before(Head(inbox), q, life)
  BY <1>1, DroppedInOrder DEF Ordered
<1>4. \A q \in Range(up) \cup Range(toPico) : Before(Head(inbox), q, life)
  BY <1>2 DEF Ordered, Ahead
<1>5. UNCHANGED <<life, up, toPico>> => Ordered'
  BY <1>2, <1>3 DEF Ordered, Ahead
<1> QED
  BY <1>2, <1>3, <1>4, <1>5

LEMMA OrderedNext == ASSUME IInv, [Next]_vars PROVE Ordered'
<1>0. Typed /\ Ordered
  BY DEF IInv
<1>1. CASE AskRestart \/ Call \/ SendSigint
  BY <1>1, OrderedPushes
<1>2. CASE PicoLoop \/ Beacon \/ RunEnds
  BY <1>2, OrderedPico
<1>3. CASE Read
  BY <1>3, OrderedRead
<1>4. CASE HearBeacon \/ Answered \/ Begin \/ Timeout \/ Interrupt \/ ObeySigint
           \/ Die \/ EndOfInput \/ UNCHANGED vars
  <2>1. UNCHANGED <<life, inbox, up, toPico>>
    BY <1>4 DEF HearBeacon, Answered, Begin, Timeout, Interrupt, ObeySigint,
                Die, EndOfInput, vars, wire, output
  <2> QED
    BY <1>0, <2>1, OrderedSame
<1>5. CASE Restarted \/ Answer \/ Trace \/ Fault \/ Chunk
  <2>1. inbox # << >> /\ inbox' = Tail(inbox) /\ UNCHANGED <<life, up, toPico>>
    BY <1>5 DEF Restarted, Answer, Trace, Fault, Chunk, Next1, wire
  <2> QED
    BY <1>0, <2>1, OrderedTake
<1>6. CASE ExitWithReason
  <2>1. /\ UNCHANGED <<life, up, toPico>>
        /\ (inbox # << >> /\ inbox' = Tail(inbox)) \/ inbox' = inbox
    BY <1>6 DEF ExitWithReason, wire
  <2> QED
    BY <1>0, <2>1, OrderedTake, OrderedSame
<1>7. CASE Relaunch
  <2>1. /\ life' = life + 1 /\ inbox' = << >>
        /\ toPico' \in Seq(DownPackets(life)) /\ up' \in Seq(UpPackets(life))
        /\ Range(toPico') \subseteq Range(toPico) /\ Range(up') \subseteq Range(up)
        /\ InOrder(toPico', life) /\ InOrder(up', life)
    BY <1>0, <1>7, Launched DEF Ordered
  <2>2. /\ life \in Nat /\ \A q \in Range(up) : q.life \in 0 .. life
    BY <1>0, Facts
  <2>3. /\ \A q \in DownPackets(life) : q.life \in 0 .. life
        /\ \A q \in UpPackets(life) : q.life \in 0 .. life
    BY <2>2, DownIs, UpIs
  <2>4. InOrder(toPico', life') /\ InOrder(up', life')
    BY <2>1, <2>2, <2>3, InOrderLater
  <2>5. Ahead(up', toPico', life')
    BY <1>0, <2>1, <2>2, BeforeLater DEF Ordered, Ahead
  <2>6. InOrder(inbox', life') /\ Ahead(inbox', up', life') /\ Ahead(inbox', toPico', life')
    BY <2>1, EmptyQueue DEF Ahead
  <2> QED
    BY <2>4, <2>5, <2>6 DEF Ordered
<1> QED
  BY <1>1, <1>2, <1>3, <1>4, <1>5, <1>6, <1>7 DEF Next, Main, Dispatcher

-----------------------------------------------------------------------------
(* What the Pico has carried out.                                          *)

LEMMA KnowsSame ==
  PicoKnows /\ UNCHANGED <<toPico, pico, beacon, cfg, image, run>> => PicoKnows'
<1> SUFFICES ASSUME PicoKnows, UNCHANGED <<toPico, pico, beacon, cfg, image, run>> PROVE PicoKnows'
  OBVIOUS
<1>1. RunIsConfigured' /\ AfterRun' /\ AfterConfig' /\ AfterEnd'
  BY DEF PicoKnows, RunIsConfigured, AfterRun, AfterConfig, AfterEnd, Busy
<1>2. InTurn'
  BY DEF PicoKnows, InTurn, Carried, Busy
<1> QED
  BY <1>1, <1>2 DEF PicoKnows

LEMMA InTurnPush ==
  ASSUME Typed, InTurn, NEW p \in DownPackets(life), toPico' = Append(toPico, p),
         UNCHANGED <<pico, cfg, image>>,
         p.cmd = "rpc" /\ p.x > 1 =>
           \/ toPico # << >> /\ Final(toPico) = Packet("rpc", p.life, p.x - 1)
           \/ toPico = << >> /\ Carried(p.life, p.x - 1)
  PROVE  InTurn'
<1>1. toPico \in Seq(DownPackets(life))
  BY Facts
<1>2. /\ Len(toPico') = Len(toPico) + 1 /\ Len(toPico) \in Nat
      /\ \A i \in 1 .. Len(toPico) : toPico'[i] = toPico[i]
      /\ toPico'[Len(toPico) + 1] = p
  BY <1>1, AppendProperties
<1>3. \A l, n : Carried(l, n) => Carried(l, n)'
  BY DEF Carried, Busy
<1>4. SUFFICES ASSUME NEW i \in 1 .. Len(toPico'), toPico'[i].cmd = "rpc", toPico'[i].x > 1
               PROVE  \/ i > 1 /\ toPico'[i - 1] = Packet("rpc", toPico'[i].life, toPico'[i].x - 1)
                      \/ i = 1 /\ Carried(toPico[i].life, toPico[i].x - 1)'
  BY DEF InTurn
<1>5. CASE i \in 1 .. Len(toPico)
  <2>1. toPico'[i] = toPico[i] /\ (i > 1 => toPico'[i - 1] = toPico[i - 1])
    BY <1>2, <1>5
  <2>2. \/ i > 1 /\ toPico[i - 1] = Packet("rpc", toPico[i].life, toPico[i].x - 1)
        \/ i = 1 /\ Carried(toPico[i].life, toPico[i].x - 1)
    BY <1>4, <1>5, <2>1 DEF InTurn
  <2> QED
    BY <1>3, <2>1, <2>2 DEF Carried, Busy
<1>6. CASE i = Len(toPico) + 1
  <2>1. toPico'[i] = p
    BY <1>2, <1>6
  <2>2. CASE toPico # << >>
    <3>1. Len(toPico) >= 1 /\ Final(toPico) = Packet("rpc", p.life, p.x - 1)
      BY <1>1, <1>4, <2>1, <2>2, Dropped
    <3>2. i - 1 = Len(toPico) /\ i - 1 \in 1 .. Len(toPico) /\ i > 1
      BY <1>2, <1>6, <3>1
    <3>3. toPico'[i - 1] = Final(toPico)
      BY <1>2, <3>2 DEF Final
    <3> QED
      BY <2>1, <3>1, <3>2, <3>3
  <2>3. CASE toPico = << >>
    <3>1. i = 1 /\ Carried(p.life, p.x - 1)
      BY <1>2, <1>4, <1>6, <2>1, <2>3
    <3> QED
      BY <2>1, <3>1 DEF Carried, Busy
  <2> QED
    BY <2>2, <2>3
<1> QED
  BY <1>2, <1>4, <1>5, <1>6

LEMMA InTurnServe ==
  ASSUME Typed, InTurn, NEW c, Receive(c),
         \A l, n : c = "rpc" /\ Head(toPico).life = l /\ Head(toPico).x = n /\ n < Start => Carried(l, n)'
  PROVE  InTurn'
<1> DEFINE h == Head(toPico)
<1>1. /\ toPico \in Seq(DownPackets(life)) /\ toPico # << >> /\ toPico' = Tail(toPico) /\ h.cmd = c
      /\ Start \in Nat
  BY Facts, Received
<1>2. /\ h = toPico[1] /\ Len(toPico') = Len(toPico) - 1 /\ Len(toPico) \in Nat
      /\ \A i \in 1 .. Len(toPico') : toPico'[i] = toPico[i + 1]
  BY <1>1, Dropped
<1> HIDE DEF h
<1>3. SUFFICES ASSUME NEW i \in 1 .. Len(toPico'), toPico'[i].cmd = "rpc", toPico'[i].x > 1
               PROVE  \/ i > 1 /\ toPico'[i - 1] = Packet("rpc", toPico'[i].life, toPico'[i].x - 1)
                      \/ i = 1 /\ Carried(toPico[i].life, toPico[i].x - 1)'
  BY DEF InTurn
<1>4. toPico'[i] = toPico[i + 1] /\ i + 1 \in 1 .. Len(toPico) /\ i \in 1 .. Len(toPico)
  BY <1>2
<1>5. toPico'[i].x \in 1 .. Start
  BY <1>1, <1>3, <1>4, Facts, InRange
<1>6. toPico[i] = Packet("rpc", toPico'[i].life, toPico'[i].x - 1)
  <2>1. (i + 1) - 1 = i /\ ~(i + 1 = 1)
    BY <1>4
  <2> QED
    BY <1>3, <1>4, <2>1 DEF InTurn
<1>7. CASE i > 1
  <2>1. i - 1 \in 1 .. Len(toPico') /\ (i - 1) + 1 = i
    BY <1>2, <1>7
  <2>2. toPico'[i - 1] = toPico[i]
    BY <1>2, <2>1
  <2> QED
    BY <1>6, <1>7, <2>2
<1>8. CASE i = 1
  <2>1. h = Packet("rpc", toPico'[i].life, toPico'[i].x - 1)
    BY <1>2, <1>6, <1>8
  <2>2. c = "rpc" /\ h.life = toPico'[i].life /\ h.x = toPico'[i].x - 1 /\ h.x < Start
    BY <1>1, <1>5, <2>1 DEF Packet
  <2>3. \A l, n : h.life = l /\ h.x = n => Carried(l, n)'
    BY <2>2 DEF h
  <2> QED
    BY <1>8, <2>2, <2>3 DEF Carried, Busy
<1> QED
  BY <1>3, <1>7, <1>8

\* A call is carried out in its turn.
LEMMA CarriedOut ==
  ASSUME IInv, Receive("rpc"), PicoConfig \/ PicoUpload \/ PicoStart
  PROVE  /\ Head(toPico).x > 1 => Carried(Head(toPico).life, Head(toPico).x - 1)
         /\ Head(toPico).x = 1 => ~Busy
         /\ \A l, n : Head(toPico).life = l /\ Head(toPico).x = n /\ n < Start => Carried(l, n)'
<1> DEFINE h == Head(toPico)
<1>0. Typed /\ InTurn /\ AfterEnd
  BY DEF IInv, PicoKnows
<1>1. /\ toPico \in Seq(DownPackets(life)) /\ toPico # << >> /\ h \in Range(toPico) /\ h.cmd = "rpc"
      /\ h.x \in 1 .. Start /\ Start \in Nat /\ Start >= 3 /\ Uploads = Start - 2
      /\ image \in [1 .. Uploads -> 0 .. life]
  BY <1>0, Facts, Received, StartFacts DEF Typed, TypedBoard
<1>2. h = toPico[1] /\ 1 \in 1 .. Len(toPico)
  BY <1>1, Dropped
<1> HIDE DEF h
<1>3. h.x > 1 => Carried(h.life, h.x - 1)
  <2>1. ~(1 > 1)
    OBVIOUS
  <2> QED
    BY <1>0, <1>1, <1>2, <2>1 DEF InTurn
<1>4. h.x = 1 => ~Busy
  BY <1>0, <1>1 DEF AfterEnd
<1>5. ASSUME NEW l, NEW n, h.life = l, h.x = n, n < Start PROVE Carried(l, n)'
  <2>1. CASE PicoConfig
    <3>1. n = 1
      BY <1>1, <1>5, <2>1 DEF PicoConfig, Method, h
    <3>2. \A i \in 1 .. Uploads : ~(i + 1 <= 1)
      BY <1>1
    <3>3. cfg' = l /\ pico' = pico
      BY <1>5, <2>1 DEF PicoConfig, h
    <3> QED
      BY <1>4, <1>5, <3>1, <3>2, <3>3 DEF Carried, Busy
  <2>2. CASE PicoUpload
    <3>1. n > 1
      BY <1>1, <1>5, <2>2 DEF PicoUpload, Method, h
    <3>2. Carried(l, n - 1)
      BY <1>3, <1>5, <3>1
    <3>3. cfg' = cfg /\ pico' = pico /\ image' = [image EXCEPT ![n - 1] = l]
      BY <1>5, <2>2 DEF PicoUpload, h
    <3>4. ASSUME NEW i \in 1 .. Uploads, i + 1 <= n PROVE image'[i] = l
      <4>1. CASE i = n - 1
        BY <1>1, <3>3, <4>1
      <4>2. CASE i # n - 1
        <5>1. i + 1 <= n - 1
          BY <1>1, <1>5, <3>4, <4>2
        <5> QED
          BY <1>1, <3>2, <3>3, <4>2, <5>1 DEF Carried
      <4> QED
        BY <4>1, <4>2
    <3> QED
      BY <3>2, <3>3, <3>4 DEF Carried, Busy
  <2>3. CASE PicoStart
    BY <1>1, <1>5, <2>3 DEF PicoStart, Method, h
  <2> QED
    BY <2>1, <2>2, <2>3
<1> QED
  BY <1>3, <1>4, <1>5 DEF h

\* Before a Tether has made its calls, nothing of this life is configured or runs.
LEMMA NotMineYet ==
  ASSUME IInv, Alive
  PROVE  /\ Made = 0 => cfg < life
         /\ Made < Start => run < life
         /\ cfg \in 0 .. life /\ run \in 0 .. life
<1>1. cfg \in 0 .. life /\ run \in 0 .. life /\ life \in Nat
  BY Facts DEF IInv, Typed, TypedBoard
<1>2. (cfg = life => Made >= 1) /\ (run = life => Made = Start)
  BY DEF IInv, Calling, OwnMade
<1>3. Start \in Nat
  BY StartFacts
<1> QED
  BY <1>1, <1>2, <1>3

LEMMA KnowsPush ==
  ASSUME Typed, PicoKnows, NEW p \in DownPackets(life), toPico' = Append(toPico, p),
         UNCHANGED <<pico, beacon, cfg, image, run>>,
         run > 0 => p.life > run \/ (p.life = run /\ p.cmd = "sigint"),
         cfg > 0 => p.life > cfg \/ (p.life = cfg /\ (p.cmd = "sigint" \/ (p.cmd = "rpc" /\ p.x > 1))),
         p.cmd = "rpc" /\ p.x > 1 =>
           \/ toPico # << >> /\ Final(toPico) = Packet("rpc", p.life, p.x - 1)
           \/ toPico = << >> /\ Carried(p.life, p.x - 1),
         p.cmd = "rpc" /\ p.x = 1 => ~Busy
  PROVE  PicoKnows'
<1>1. Range(toPico') = Range(toPico) \cup {p}
  BY Facts, Appended
<1>2. RunIsConfigured'
  BY DEF PicoKnows, RunIsConfigured
<1>3. AfterRun'
  BY <1>1 DEF PicoKnows, AfterRun
<1>4. AfterConfig'
  BY <1>1 DEF PicoKnows, AfterConfig
<1>5. AfterEnd'
  BY <1>1 DEF PicoKnows, AfterEnd, Busy
<1>6. InTurn'
  BY InTurnPush DEF PicoKnows
<1> QED
  BY <1>2, <1>3, <1>4, <1>5, <1>6 DEF PicoKnows

LEMMA KnowsPushes == ASSUME IInv, AskRestart \/ Call \/ SendSigint PROVE PicoKnows'
<1>0. Typed /\ PicoKnows
  BY DEF IInv
<1>1. life \in Nat /\ life \in 1 .. life /\ k \in 1 .. Start /\ Start \in Nat /\ Start >= 3
  BY <1>0, Facts
<1>2. Alive => /\ Made = 0 => cfg < life
               /\ Made < Start => run < life
               /\ cfg \in 0 .. life /\ run \in 0 .. life
  BY NotMineYet
<1>3. CASE AskRestart
  <2> DEFINE p == Packet("restart", life, 0)
  <2>0. main = "beacon" /\ Made = 0 /\ Alive
    BY <1>3 DEF AskRestart, Alive, Made
  <2>1. /\ p \in DownPackets(life) /\ cfg < life /\ run < life /\ p.life = life /\ p.cmd = "restart"
        /\ cfg \in 0 .. life /\ run \in 0 .. life
    <3>1. p \in DownPackets(life)
      BY <1>1, Sent
    <3>2. 0 < Start
      BY <1>1
    <3> QED
      BY <1>2, <2>0, <3>1, <3>2 DEF Packet
  <2>2. toPico' = Append(toPico, p) /\ UNCHANGED <<pico, beacon, cfg, image, run>>
    BY <1>3 DEF AskRestart, board
  <2>3. p.life > cfg /\ p.life > run
    BY <1>1, <2>1
  <2> HIDE DEF p
  <2> QED
    BY <1>0, <2>1, <2>2, <2>3, KnowsPush
<1>4. CASE Call
  <2> DEFINE p == Packet("rpc", life, k)
  <2>1. /\ p \in DownPackets(life) /\ p.life = life /\ p.cmd = "rpc" /\ p.x = k
        /\ main = "call" /\ Made = k - 1 /\ Alive
    BY <1>1, <1>4, Sent DEF Call, Alive, Made, Packet
  <2>2. toPico' = Append(toPico, p) /\ UNCHANGED <<pico, beacon, cfg, image, run>>
    BY <1>4 DEF Call, board
  <2>3. run < life
    BY <1>1, <1>2, <2>1
  <2>4. p.life > cfg \/ (p.life = cfg /\ p.x > 1)
    BY <1>1, <1>2, <2>1
  <2>5. p.x > 1 => \/ toPico # << >> /\ Final(toPico) = Packet("rpc", p.life, p.x - 1)
                   \/ toPico = << >> /\ Carried(p.life, p.x - 1)
    <3>1. k > 1 => Made >= 1 /\ Made < Start
      BY <1>1, <2>1
    <3> QED
      BY <2>1, <3>1 DEF IInv, Calling, LastMade
  <2>6. p.x = 1 => ~Busy
    BY <2>1 DEF IInv, Heeded, Settled
  <2> HIDE DEF p
  <2> QED
    BY <1>0, <2>1, <2>2, <2>3, <2>4, <2>5, <2>6, KnowsPush
<1>5. CASE SendSigint
  <2> DEFINE p == Packet("sigint", life, 0)
  <2>1. p \in DownPackets(life) /\ p.life = life /\ p.cmd = "sigint" /\ cfg \in 0 .. life /\ run \in 0 .. life
    BY <1>1, <1>2, <1>5, Sent DEF SendSigint, Packet
  <2>2. toPico' = Append(toPico, p) /\ UNCHANGED <<pico, beacon, cfg, image, run>>
    BY <1>5 DEF SendSigint, board
  <2> HIDE DEF p
  <2>3. (p.life > cfg \/ p.life = cfg) /\ (p.life > run \/ p.life = run)
    BY <1>1, <2>1
  <2> QED
    BY <1>0, <2>1, <2>2, <2>3, KnowsPush
<1> QED
  BY <1>3, <1>4, <1>5

LEMMA KnowsServe == ASSUME IInv, PicoRestart \/ PicoConfig \/ PicoUpload \/ PicoStart \/ PicoSigint
                    PROVE  PicoKnows'
<1> DEFINE h == Head(toPico)
<1>0. Typed /\ Ordered /\ PicoKnows /\ RunIsConfigured /\ AfterRun /\ AfterConfig /\ InTurn /\ AfterEnd
  BY DEF IInv, PicoKnows
<1>1. life \in Nat /\ Start \in Nat /\ Start >= 3 /\ Uploads = Start - 2
      /\ \A q \in Range(toPico) : q.life \in 1 .. life /\ IsDown(q) /\ q.x \in Nat
                                  /\ (q.cmd = "rpc" => q.x \in 1 .. Start)
  BY <1>0, Facts, StartFacts
<1>a. ASSUME NEW c, Receive(c)
      PROVE  /\ h.cmd = c /\ h \in Range(toPico) /\ Range(toPico') \subseteq Range(toPico)
             /\ pico # "dumping" /\ \A q \in Range(toPico') : Before(h, q, life)
  BY <1>0, <1>a, Received, HeadFirst
<1> HIDE DEF h
<1>2. CASE PicoRestart
  <2>1. h.cmd = "restart" /\ Range(toPico') \subseteq Range(toPico) /\ Receive("restart")
    BY <1>2, <1>a DEF PicoRestart
  <2>2. pico' = "wait" /\ cfg' = 0 /\ run' = 0
    BY <1>2 DEF PicoRestart
  <2>3. RunIsConfigured' /\ AfterRun' /\ AfterConfig' /\ AfterEnd'
    BY <2>2 DEF RunIsConfigured, AfterRun, AfterConfig, AfterEnd, Busy
  <2>4. InTurn'
    BY <1>0, <2>1, InTurnServe
  <2> QED
    BY <2>3, <2>4 DEF PicoKnows
<1>3. CASE PicoConfig \/ PicoUpload \/ PicoStart
  <2>1. Receive("rpc")
    BY <1>3 DEF PicoConfig, PicoUpload, PicoStart
  <2>2. /\ h.cmd = "rpc" /\ h \in Range(toPico) /\ Range(toPico') \subseteq Range(toPico)
        /\ \A q \in Range(toPico') : Before(h, q, life)
    BY <2>1, <1>a
  <2>3. /\ h.x > 1 => Carried(h.life, h.x - 1)
        /\ h.x = 1 => ~Busy
    BY <1>3, <2>1, CarriedOut DEF h
  <2>4. InTurn'
    BY <1>0, <1>3, <2>1, CarriedOut, InTurnServe
  <2>5. \A q \in Range(toPico') : q.life > h.life \/ (q.life = h.life /\ Rank(q) > h.x)
    <3> SUFFICES ASSUME NEW q \in Range(toPico') PROVE q.life > h.life \/ (q.life = h.life /\ Rank(q) > h.x)
      OBVIOUS
    <3>1. Lex(h, q)
      BY <1>1, <2>2 DEF Before, IsDown
    <3>2. h.life \in Nat /\ q.life \in Nat
      BY <1>1, <2>2
    <3> QED
      BY <2>2, <3>1, <3>2 DEF Lex, Rank
  <2>6. CASE PicoConfig
    <3>1. h.x = 1 /\ pico' = pico /\ UNCHANGED <<image, run>> /\ cfg' = h.life
          /\ beacon' = (beacon /\ pico # "wait")
      BY <1>1, <2>2, <2>6 DEF PicoConfig, Method, Heard, h
    <3>2. ~Busy /\ ~Busy'
      BY <2>3, <3>1 DEF Busy
    <3>3. RunIsConfigured' /\ AfterEnd'
      BY <3>2 DEF RunIsConfigured, AfterEnd, Busy
    <3>4. AfterRun'
      BY <1>0, <2>2, <3>1 DEF AfterRun
    <3>5. AfterConfig'
      <4>1. ASSUME NEW q \in Range(toPico')
            PROVE  q.life > h.life \/ (q.life = h.life /\ (q.cmd = "sigint" \/ (q.cmd = "rpc" /\ q.x > 1)))
        BY <1>1, <2>2, <2>5, <3>1 DEF Rank, IsDown
      <4>2. ~(pico' = "wait" /\ beacon')
        BY <3>1
      <4> QED
        BY <3>1, <4>1, <4>2 DEF AfterConfig
    <3> QED
      BY <2>4, <3>3, <3>4, <3>5 DEF PicoKnows
  <2>7. CASE PicoUpload
    <3>1. h.x > 1 /\ pico' = pico /\ UNCHANGED <<cfg, run>> /\ beacon' = (beacon /\ pico # "wait")
      BY <1>1, <2>2, <2>7 DEF PicoUpload, Method, Heard, h
    <3>2. ~Busy /\ ~Busy'
      BY <2>3, <3>1 DEF Busy, Carried
    <3>3. RunIsConfigured' /\ AfterEnd'
      BY <3>2 DEF RunIsConfigured, AfterEnd, Busy
    <3>4. AfterRun' /\ AfterConfig'
      BY <1>0, <2>2, <3>1 DEF AfterRun, AfterConfig
    <3> QED
      BY <2>4, <3>3, <3>4 DEF PicoKnows
  <2>8. CASE PicoStart
    <3>1. h.x = Start /\ pico' = "running" /\ UNCHANGED <<cfg, image>> /\ run' = h.life
      BY <1>1, <2>2, <2>8 DEF PicoStart, Method, h
    <3>2. Carried(h.life, Start - 1)
      BY <1>1, <2>3, <3>1
    <3>3. RunIsConfigured'
      BY <1>1, <3>1, <3>2 DEF RunIsConfigured, Carried
    <3>4. AfterRun'
      <4>1. ASSUME NEW q \in Range(toPico') PROVE q.life > h.life \/ (q.life = h.life /\ q.cmd = "sigint")
        BY <1>1, <2>2, <2>5, <3>1 DEF Rank, IsDown
      <4> QED
        BY <3>1, <4>1 DEF AfterRun
    <3>5. AfterConfig'
      BY <1>0, <2>2, <3>1 DEF AfterConfig
    <3>6. AfterEnd'
      BY <2>2, <3>1 DEF AfterEnd, Before, IsStart
    <3> QED
      BY <2>4, <3>3, <3>4, <3>5, <3>6 DEF PicoKnows
  <2> QED
    BY <1>3, <2>6, <2>7, <2>8
<1>4. CASE PicoSigint
  <2>1. h.cmd = "sigint" /\ Range(toPico') \subseteq Range(toPico) /\ Receive("sigint")
    BY <1>4, <1>a DEF PicoSigint
  <2>2. /\ UNCHANGED <<cfg, image, run>> /\ beacon' = (beacon /\ pico # "wait")
        /\ (pico = "running" /\ pico' = "dumping") \/ pico' = pico
    BY <1>4 DEF PicoSigint, Heard
  <2>3. RunIsConfigured' /\ AfterRun' /\ AfterConfig' /\ AfterEnd'
    BY <1>0, <2>1, <2>2 DEF RunIsConfigured, AfterRun, AfterConfig, AfterEnd, Busy
  <2>4. InTurn'
    BY <1>0, <2>1, InTurnServe
  <2> QED
    BY <2>3, <2>4 DEF PicoKnows
<1> QED
  BY <1>2, <1>3, <1>4

LEMMA KnowsNext == ASSUME IInv, [Next]_vars PROVE PicoKnows'
<1>0. Typed /\ PicoKnows
  BY DEF IInv
<1>1. CASE AskRestart \/ Call \/ SendSigint
  BY <1>1, KnowsPushes
<1>2. CASE PicoRestart \/ PicoConfig \/ PicoUpload \/ PicoStart \/ PicoSigint
  BY <1>2, KnowsServe
<1>3. CASE \/ HearBeacon \/ Answered \/ Begin \/ Timeout \/ Read \/ Dispatcher
           \/ Interrupt \/ ObeySigint \/ Die \/ EndOfInput \/ Beacon \/ UNCHANGED vars
  <2>1. CASE Dispatcher
    BY <1>0, <2>1, KnowsSame DEF Dispatcher, Restarted, Answer, Trace, Fault, Chunk, ExitWithReason, wire, board
  <2>2. CASE Read
    BY <1>0, <2>2, KnowsSame DEF Read, board
  <2>3. CASE HearBeacon \/ Answered \/ Begin \/ Timeout
    BY <1>0, <2>3, KnowsSame DEF HearBeacon, Answered, Begin, Timeout, wire, board
  <2>4. CASE Interrupt \/ ObeySigint \/ Die \/ EndOfInput
    BY <1>0, <2>4, KnowsSame DEF Interrupt, ObeySigint, Die, EndOfInput, wire, board
  <2>5. CASE Beacon
    BY <1>0, <2>5, KnowsSame DEF Beacon, board
  <2>6. CASE UNCHANGED vars
    BY <1>0, <2>6, KnowsSame DEF vars
  <2> QED
    BY <1>3, <2>1, <2>2, <2>3, <2>4, <2>5, <2>6
<1>4. CASE SendTrace \/ SendDump \/ RunEnds
  <2>1. /\ UNCHANGED <<toPico, beacon, cfg, image, run>> /\ Busy
        /\ pico' # "wait" /\ (pico' \in {"running", "dumping"} => pico \in {"running", "dumping"})
    BY <1>4 DEF SendTrace, SendDump, RunEnds, wire, Busy
  <2>2. RunIsConfigured' /\ AfterRun' /\ AfterConfig' /\ AfterEnd'
    BY <1>0, <2>1 DEF PicoKnows, RunIsConfigured, AfterRun, AfterConfig, AfterEnd, Busy
  <2>3. InTurn'
    BY <1>0, <2>1 DEF PicoKnows, InTurn, Carried, Busy
  <2> QED
    BY <2>2, <2>3 DEF PicoKnows
<1>5. CASE Relaunch
  <2>1. /\ Range(toPico') \subseteq Range(toPico) /\ UNCHANGED <<pico, beacon, cfg, image, run>>
        /\ \A i \in 1 .. Len(toPico') : i \in 1 .. Len(toPico) /\ toPico'[i] = toPico[i]
        /\ Len(toPico') \in Nat
    <3>1. toPico' \in Seq(DownPackets(life))
      BY <1>0, <1>5, Launched
    <3>2. Len(toPico') \in Nat
      BY <3>1
    <3> QED
      BY <1>0, <1>5, <3>2, Launched DEF Relaunch, board
  <2>2. RunIsConfigured' /\ AfterRun' /\ AfterConfig' /\ AfterEnd'
    BY <1>0, <2>1 DEF PicoKnows, RunIsConfigured, AfterRun, AfterConfig, AfterEnd, Busy
  <2>3. InTurn'
    <3> SUFFICES ASSUME NEW i \in 1 .. Len(toPico'), toPico'[i].cmd = "rpc", toPico'[i].x > 1
                 PROVE  \/ i > 1 /\ toPico'[i - 1] = Packet("rpc", toPico'[i].life, toPico'[i].x - 1)
                        \/ i = 1 /\ Carried(toPico[i].life, toPico[i].x - 1)'
      BY DEF InTurn
    <3>1. i \in 1 .. Len(toPico) /\ toPico'[i] = toPico[i]
      BY <2>1
    <3>2. i > 1 => toPico'[i - 1] = toPico[i - 1]
      <4>1. i > 1 => i - 1 \in 1 .. Len(toPico')
        BY <2>1
      <4> QED
        BY <2>1, <4>1
    <3>3. \/ i > 1 /\ toPico[i - 1] = Packet("rpc", toPico[i].life, toPico[i].x - 1)
          \/ i = 1 /\ Carried(toPico[i].life, toPico[i].x - 1)
      BY <1>0, <3>1 DEF PicoKnows, InTurn
    <3> QED
      BY <2>1, <3>1, <3>2, <3>3 DEF Carried, Busy
  <2> QED
    BY <2>2, <2>3 DEF PicoKnows
<1> QED
  BY <1>1, <1>2, <1>3, <1>4, <1>5 DEF Next, Main, PicoLoop

-----------------------------------------------------------------------------
(* What a restarted Pico is told by.                                       *)

LEMMA HeededKeep ==
  ASSUME Heeded, Told' => Told, Busy' => Busy /\ run' = run, Settled' => Settled,
         \A p \in Range(toPico') : IsStart(p) => p \in Range(toPico)
  PROVE  Heeded'
<1>1. Told' => \A p \in Range(toPico') : IsStart(p) => p.life >= Start
  BY DEF Heeded
<1>2. Told' /\ Busy' => run' >= Start
  BY DEF Heeded
<1>3. Settled' => ~Busy' /\ \A p \in Range(toPico') : ~IsStart(p)
  BY DEF Heeded
<1>4. Start' = Start
  BY DEF Start
<1> QED
  BY <1>1, <1>2, <1>3, <1>4 DEF Heeded, IsStart

\* An answer is no news of a restart, nor is what a run sends.
LEMMA SentKeepsTold ==
  ASSUME Typed, NEW p \in UpPackets(life), Send(p), ~IsRestarted(p),
         pico' = "wait" /\ beacon' => pico = "wait" /\ beacon
  PROVE  Told' => Told
<1>1. up' = Append(up, p) \/ up' = up
  BY DEF Send
<1>2. Range(Append(up, p)) = Range(up) \cup {p}
  BY Facts, Appended
<1> QED
  BY <1>1, <1>2 DEF Told

LEMMA HeededPushes == ASSUME IInv, AskRestart \/ Call \/ SendSigint PROVE Heeded'
<1>0. Typed /\ Heeded
  BY DEF IInv
<1>1. life \in 1 .. life /\ k \in 1 .. Start /\ toPico \in Seq(DownPackets(life)) /\ Start \in Nat
      /\ life \in Nat /\ life >= 1
  BY <1>0, Facts
<1>2. CASE AskRestart \/ SendSigint
  <2> DEFINE p == IF AskRestart THEN Packet("restart", life, 0) ELSE Packet("sigint", life, 0)
  <2>1. p \in DownPackets(life) /\ ~IsStart(p)
    BY <1>1, Sent DEF IsStart, Packet
  <2>2. toPico' = Append(toPico, p) /\ UNCHANGED <<up, inbox, main, k, token, pico, beacon, run>>
    BY <1>2 DEF AskRestart, SendSigint, caller, output, board, Packet
  <2> HIDE DEF p
  <2>3. Range(toPico') = Range(toPico) \cup {p}
    BY <1>1, <2>1, <2>2, Appended
  <2> QED
    BY <1>0, <2>1, <2>2, <2>3, HeededKeep DEF Told, Busy, Settled
<1>3. CASE Call
  <2> DEFINE p == Packet("rpc", life, k)
  <2>1. p \in DownPackets(life) /\ p.x = k /\ p.life = life
    BY <1>1, Sent DEF Packet
  <2>2. /\ toPico' = Append(toPico, p) /\ UNCHANGED <<up, inbox, k, token, pico, beacon, run>>
        /\ main = "call" /\ main' = "await"
    BY <1>3 DEF Call, output, board
  <2> HIDE DEF p
  <2>3. Range(toPico') = Range(toPico) \cup {p}
    BY <1>1, <2>1, <2>2, Appended
  <2>4. ~Settled' /\ (Told' <=> Told) /\ (Busy' <=> Busy) /\ run' = run
    BY <2>2 DEF Settled, Told, Busy
  <2>5. Told /\ IsStart(p) => p.life >= Start
    <3> SUFFICES ASSUME Told, k = Start PROVE life >= Start
      BY <2>1 DEF IsStart
    <3>1. Alive /\ ~Taken
      BY <2>2 DEF Alive, Taken
    <3>2. CASE Unanswered
      <4> DEFINE c == Cardinality(Stale)
      <4>1. c + k + 0 <= life
        BY <3>1, <3>2 DEF IInv, Counted, FewOpen, NotAhead, AnswersConfigured
      <4>2. c \in Nat
        <5>1. IsFiniteSet(Open) /\ Stale \subseteq Open
          BY DEF IInv, Counted, FewOpen, NotAhead, AnswersConfigured, Stale
        <5> QED
          BY <5>1, FS_Subset, FS_CardinalityType
      <4> HIDE DEF c
      <4> QED
        BY <1>1, <4>1, <4>2
    <3>3. CASE ~Unanswered
      <4>1. cfg = life /\ \A q \in Range(inbox) \cup Range(up) : ~IsRestarted(q)
        BY <3>1, <3>3 DEF IInv, Counted, FewOpen, NotAhead, AnswersConfigured
      <4>2. cfg > 0 => ~(pico = "wait" /\ beacon)
        BY DEF IInv, PicoKnows, AfterConfig
      <4> QED
        BY <1>1, <4>1, <4>2 DEF Told
    <3> QED
      BY <3>2, <3>3
  <2> QED
    BY <1>0, <2>3, <2>4, <2>5 DEF Heeded, Start, IsStart
<1> QED
  BY <1>2, <1>3

LEMMA HeededRead == ASSUME IInv, FewLives, Read PROVE Heeded'
<1>0. Typed /\ Heeded
  BY DEF IInv
<1>1. /\ Range(up) = {Head(up)} \cup Range(up') /\ Head(up) \in Range(up)
      /\ Range(inbox') \subseteq Range(inbox) \cup {Head(up)}
      /\ UNCHANGED <<toPico, main, k, token, pico, beacon, run>>
  BY <1>0, WasRead DEF Read, caller, board
<1>2. (Told' => Told) /\ (Busy' <=> Busy)
  BY <1>1 DEF Told, Busy
<1>3. CASE Settled' => Settled
  BY <1>0, <1>1, <1>2, <1>3, HeededKeep
<1>4. CASE Settled' /\ ~Settled
  <2>1. main = "beacon" /\ IsRestarted(Head(up)) /\ Told
    BY <1>1, <1>4 DEF Settled, Told
  <2>2. Alive /\ Made = 0
    BY <2>1 DEF Alive, Made
  <2>3. /\ life \in Nat /\ life <= Start /\ Start \in Nat /\ Start >= 3
        /\ \A p \in Range(toPico) : p.life \in 1 .. life
    BY <1>0, Facts DEF FewLives
  <2>4. ~Busy
    <3>1. Busy => run >= Start
      BY <1>0, <2>1 DEF Heeded
    <3>2. run < life /\ run \in 0 .. life
      BY <2>2, <2>3, NotMineYet
    <3> QED
      BY <2>3, <3>1, <3>2
  <2>5. ASSUME NEW p \in Range(toPico), IsStart(p) PROVE FALSE
    <3>1. p.life >= Start
      BY <1>0, <2>1, <2>5 DEF Heeded
    <3>2. p.life = life
      BY <2>3, <3>1
    <3>3. p.x <= 0
      BY <2>2, <2>5, <3>2 DEF IInv, Calling, OwnMade, IsCall, IsStart
    <3> QED
      BY <2>3, <2>5, <3>3 DEF IsStart
  <2>6. /\ Told' => \A p \in Range(toPico') : IsStart(p) => p.life >= Start
        /\ Told' /\ Busy' => run' >= Start
        /\ Settled' => ~Busy' /\ \A p \in Range(toPico') : ~IsStart(p)
    BY <1>1, <1>2, <2>4, <2>5
  <2> QED
    BY <2>6 DEF Heeded, IsStart, Start
<1> QED
  BY <1>3, <1>4

LEMMA HeededPico == ASSUME IInv, PicoLoop \/ Beacon \/ RunEnds PROVE Heeded'
<1>0. Typed /\ Ordered /\ Heeded
  BY DEF IInv
<1>1. /\ life \in Nat /\ life \in 1 .. life /\ toPico \in Seq(DownPackets(life)) /\ Start \in Nat /\ Start >= 3
      /\ Chunks \in Nat
  BY <1>0, Facts, StartFacts
<1>2. UNCHANGED <<inbox, main, k, token>> /\ (Settled' <=> Settled)
  <2>1. UNCHANGED <<inbox, main, k, token>>
    BY DEF PicoLoop, PicoRestart, PicoConfig, PicoUpload, PicoStart, PicoSigint, SendTrace, SendDump,
           Beacon, RunEnds, caller, output
  <2> QED
    BY <2>1 DEF Settled
<1>a. ASSUME NEW c, Receive(c)
      PROVE  /\ Range(toPico') \subseteq Range(toPico) /\ Head(toPico) \in Range(toPico)
             /\ Head(toPico).cmd = c /\ \A q \in Range(toPico') : Before(Head(toPico), q, life)
  BY <1>0, <1>a, Received, HeadFirst
<1>b. ASSUME Receive("rpc")
      PROVE  /\ Packet("answer", Head(toPico).life, Head(toPico).x) \in UpPackets(life)
             /\ ~IsRestarted(Packet("answer", Head(toPico).life, Head(toPico).x))
  BY <1>0, <1>b, Received, Sent DEF IsRestarted, Packet
<1>3. CASE PicoRestart
  <2>1. /\ Range(toPico') \subseteq Range(toPico) /\ Head(toPico).cmd = "restart"
        /\ \A q \in Range(toPico') : Before(Head(toPico), q, life)
    BY <1>3, <1>a DEF PicoRestart
  <2>2. \A q \in Range(toPico') : IsStart(q) => q.life >= Start
    BY <2>1 DEF Before
  <2>3. ~Busy'
    BY <1>3 DEF PicoRestart, Busy
  <2>4. Settled' => \A q \in Range(toPico') : ~IsStart(q)
    BY <1>0, <1>2, <2>1 DEF Heeded
  <2> QED
    BY <2>2, <2>3, <2>4 DEF Heeded, IsStart, Start
<1>4. CASE PicoConfig \/ PicoUpload
  <2>1. /\ Range(toPico') \subseteq Range(toPico) /\ UNCHANGED <<pico, run>> /\ Heard
        /\ Receive("rpc") /\ Send(Packet("answer", Head(toPico).life, Head(toPico).x))
    BY <1>4, <1>a DEF PicoConfig, PicoUpload
  <2>2. Told' => Told
    BY <1>0, <1>b, <2>1, SentKeepsTold DEF Heard
  <2> QED
    BY <1>0, <1>2, <2>1, <2>2, HeededKeep DEF Busy
<1>5. CASE PicoStart
  <2>1. /\ Range(toPico') \subseteq Range(toPico) /\ Head(toPico) \in Range(toPico)
        /\ Head(toPico).cmd = "rpc" /\ pico' = "running" /\ run' = Head(toPico).life
        /\ Receive("rpc") /\ Send(Packet("answer", Head(toPico).life, Head(toPico).x))
    BY <1>5, <1>a DEF PicoStart
  <2>2. Told' => Told
    BY <1>0, <1>b, <2>1, SentKeepsTold
  <2>3. IsStart(Head(toPico))
    BY <1>1, <1>5, <2>1 DEF PicoStart, Method, IsStart
  <2>4. Told => Head(toPico).life >= Start
    BY <1>0, <2>1, <2>3 DEF Heeded
  <2>5. ~Settled
    BY <1>0, <2>1, <2>3 DEF Heeded
  <2>6. /\ Told' => \A p \in Range(toPico') : IsStart(p) => p.life >= Start
        /\ Told' /\ Busy' => run' >= Start
        /\ ~Settled'
    BY <1>0, <1>2, <2>1, <2>2, <2>4, <2>5 DEF Heeded
  <2> QED
    BY <2>6 DEF Heeded, IsStart, Start
<1>6. CASE PicoSigint
  <2>1. /\ Range(toPico') \subseteq Range(toPico) /\ UNCHANGED <<up, run>> /\ Heard
        /\ (pico = "running" /\ pico' = "dumping") \/ pico' = pico
    BY <1>6, <1>a DEF PicoSigint
  <2> QED
    BY <1>0, <1>2, <2>1, HeededKeep DEF Busy, Told, Heard
<1>7. CASE SendTrace
  <2>1. run \in 1 .. life /\ sent + 1 \in Nat
    BY <1>0, <1>1, <1>7 DEF SendTrace, Typed, TypedBoard
  <2>2. Packet("trace", run, sent + 1) \in UpPackets(life) /\ ~IsRestarted(Packet("trace", run, sent + 1))
    BY <1>1, <2>1, Sent DEF IsRestarted, Packet
  <2>3. /\ Send(Packet("trace", run, sent + 1)) /\ UNCHANGED <<toPico, run, pico, beacon>>
    BY <1>7 DEF SendTrace
  <2>4. Told' => Told
    BY <1>0, <2>2, <2>3, SentKeepsTold
  <2> QED
    BY <1>0, <1>2, <2>3, <2>4, HeededKeep DEF Busy
<1>8. CASE SendDump
  <2> DEFINE p == IF sent = 0 THEN Packet("fault", run, ended) ELSE Packet("chunk", run, sent)
  <2>1. run \in 1 .. life /\ sent \in 0 .. Chunks /\ ended \in 1 .. 3
    BY <1>0, <1>1, <1>8 DEF SendDump, Typed, TypedBoard
  <2>2. p \in UpPackets(life) /\ ~IsRestarted(p)
    <3>1. p \in UpPackets(life)
      BY <1>1, <2>1, Sent
    <3>2. ~IsRestarted(p)
      BY DEF IsRestarted, Packet
    <3> QED
      BY <3>1, <3>2
  <2>3. /\ Send(p) /\ UNCHANGED <<toPico, run>> /\ pico = "dumping" /\ pico' # "wait"
    BY <1>8 DEF SendDump
  <2>4. Told' => Told
    BY <1>0, <2>2, <2>3, SentKeepsTold
  <2> QED
    BY <1>0, <1>2, <2>3, <2>4, HeededKeep DEF Busy
<1>9. CASE Beacon
  <2>1. Told /\ UNCHANGED <<toPico, run, pico>>
    BY <1>9 DEF Beacon, Told, board
  <2> QED
    BY <1>0, <1>2, <2>1, HeededKeep DEF Busy
<1>10. CASE RunEnds
  <2>1. UNCHANGED <<toPico, up, run>> /\ pico = "running" /\ pico' = "dumping"
    BY <1>10 DEF RunEnds, wire
  <2> QED
    BY <1>0, <1>2, <2>1, HeededKeep DEF Busy, Told
<1> QED
  BY <1>3, <1>4, <1>5, <1>6, <1>7, <1>8, <1>9, <1>10 DEF PicoLoop

LEMMA HeededNext == ASSUME IInv, FewLives, [Next]_vars PROVE Heeded'
<1>0. Typed /\ Ordered /\ Heeded
  BY DEF IInv
<1>1. CASE AskRestart \/ Call \/ SendSigint
  BY <1>1, HeededPushes
<1>2. CASE Read
  BY <1>2, HeededRead
<1>3. CASE PicoLoop \/ Beacon \/ RunEnds
  BY <1>3, HeededPico
<1>4. CASE HearBeacon \/ Answered \/ Begin \/ Timeout
  <2>1. UNCHANGED <<toPico, up, inbox, pico, beacon, run>>
    BY <1>4 DEF HearBeacon, Answered, Begin, Timeout, wire, output, board
  <2>2. Settled' => Settled
    <3>1. CASE HearBeacon
      BY <3>1 DEF HearBeacon, Settled
    <3>2. CASE Answered
      <4>1. k \in 1 .. Start
        BY <1>0, Facts
      <4>2. ~(main' = "call" /\ k' = 1) /\ main' # "beacon"
        BY <3>2, <4>1 DEF Answered
      <4> QED
        BY <4>2 DEF Settled
    <3>3. CASE Begin \/ Timeout
      BY <3>3 DEF Begin, Timeout, Exit, Settled
    <3> QED
      BY <1>4, <3>1, <3>2, <3>3
  <2> QED
    BY <1>0, <2>1, <2>2, HeededKeep DEF Told, Busy
<1>5. CASE Interrupt \/ ObeySigint \/ Die \/ EndOfInput \/ UNCHANGED vars
  <2>1. UNCHANGED <<toPico, up, inbox, token, k, pico, beacon, run>> /\ main' \in {main, "gone"}
    BY <1>5 DEF Interrupt, ObeySigint, Die, EndOfInput, Exit, wire, output, board, caller, vars
  <2>2. Settled' => Settled
    BY <2>1 DEF Settled
  <2> QED
    BY <1>0, <2>1, <2>2, HeededKeep DEF Told, Busy
<1>6. CASE Dispatcher
  <2>1. /\ UNCHANGED <<toPico, up, k, pico, beacon, run>> /\ main' \in {main, "gone"}
        /\ token' = token \/ (token' = TRUE /\ inbox # << >> /\ IsRestarted(Head(inbox)))
        /\ inbox' = inbox \/ (inbox # << >> /\ inbox' = Tail(inbox))
    <3>1. CASE Restarted \/ Answer
      BY <3>1 DEF Restarted, Answer, Next1, wire, board, IsRestarted
    <3>2. CASE Trace \/ Fault \/ Chunk
      BY <3>2 DEF Trace, Fault, Chunk, Next1, wire, board, caller
    <3>3. CASE ExitWithReason
      BY <3>3 DEF ExitWithReason, Exit, wire, board
    <3> QED
      BY <1>6, <3>1, <3>2, <3>3 DEF Dispatcher
  <2>2. inbox # << >> => Head(inbox) \in Range(inbox)
    BY <1>0, Facts, Dropped
  <2>3. Range(inbox') \subseteq Range(inbox)
    BY <1>0, <2>1, OrderedTake
  <2>4. Settled' => Settled
    BY <2>1, <2>2, <2>3 DEF Settled
  <2> QED
    BY <1>0, <2>1, <2>4, HeededKeep DEF Told, Busy
<1>7. CASE Relaunch
  <2>1. /\ Range(toPico') \subseteq Range(toPico) /\ Range(up') \subseteq Range(up)
        /\ UNCHANGED <<pico, beacon, run>> /\ inbox' = << >>
    BY <1>0, <1>7, Launched DEF Relaunch, board
  <2>2. ~Settled'
    <3>1. main' = "beacon" /\ token' = FALSE
      BY <1>7 DEF Relaunch
    <3> QED
      BY <2>1, <3>1, EmptyQueue DEF Settled
  <2> QED
    BY <1>0, <2>1, <2>2, HeededKeep DEF Told, Busy
<1> QED
  BY <1>1, <1>2, <1>3, <1>4, <1>5, <1>6, <1>7 DEF Next, Main

-----------------------------------------------------------------------------
(* Calls.                                                                  *)

LEMMA OpenFacts ==
  ASSUME IInv
  PROVE  /\ IsFiniteSet(Open) /\ Cardinality(Open) \in Nat
         /\ IsFiniteSet(Stale) /\ Cardinality(Stale) \in Nat /\ Stale \subseteq Open
<1>1. IsFiniteSet(Open) /\ Stale \subseteq Open
  BY DEF IInv, Counted, FewOpen, NotAhead, AnswersConfigured, Stale
<1> QED
  BY <1>1, FS_Subset, FS_CardinalityType

\* The answer that is waited for, if it is not of this life, is to an early call.
LEMMA AnswerFits ==
  ASSUME IInv, main = "await", reply = None, NEW p \in Range(inbox), p.cmd = "answer", p.x = k
  PROVE  p.life = life \/ k < life
<1> DEFINE c == Cardinality(Stale)
<1>1. /\ life \in Nat /\ k \in 1 .. Start /\ p.life \in 1 .. life
      /\ Alive /\ ~Taken /\ c \in Nat
  BY Facts, OpenFacts DEF IInv, Alive, Taken
<1>2. SUFFICES ASSUME p.life # life PROVE k < life
  OBVIOUS
<1>3. <<p.life, p.x>> \in Open
  BY DEF Open, IsCall
<1>4. <<p.life, p.x>>[1] = p.life
  OBVIOUS
<1>5. <<p.life, p.x>> \in Stale
  BY <1>2, <1>3, <1>4 DEF Stale
<1>6. Unanswered
  BY <1>1, <1>5 DEF IInv, Counted, FewOpen, NotAhead, AnswersConfigured
<1>7. c + k + 0 <= life
  BY <1>1, <1>6 DEF IInv, Counted, FewOpen, NotAhead, AnswersConfigured
<1>8. c # 0
  BY <1>5, OpenFacts, FS_EmptySet
<1> HIDE DEF c
<1> QED
  BY <1>1, <1>7, <1>8

LEMMA WaitingNext == ASSUME IInv, [Next]_vars PROVE Waiting'
<1>0. Typed /\ Waiting
  BY DEF IInv, Calling
<1>1. k \in 1 .. Start /\ Start \in Nat /\ Start >= 3
  BY <1>0, Facts
<1>2. CASE HearBeacon
  BY <1>0, <1>2 DEF HearBeacon, Waiting
<1>3. CASE Call
  BY <1>3 DEF Call, Waiting
<1>4. CASE Answered
  <2>1. main = "await" /\ reply # None /\ pending = 0 /\ Fit(k)
    BY <1>0, <1>4 DEF Answered, Waiting
  <2>2. UNCHANGED <<life, pending, reply>>
    BY <1>4 DEF Answered
  <2>3. CASE k = Start
    <3>1. main' = "started" /\ k' = k
      BY <1>4, <2>3 DEF Answered
    <3> QED
      BY <2>1, <2>2, <2>3, <3>1 DEF Waiting, Fit, Start
  <2>4. CASE k # Start
    <3>1. main' = "call" /\ k' = k + 1 /\ k' # 1 /\ k' - 1 = k
      BY <1>1, <1>4, <2>4 DEF Answered
    <3> QED
      BY <2>1, <2>2, <3>1 DEF Waiting, Fit
  <2> QED
    BY <2>3, <2>4
<1>5. CASE Begin
  BY <1>0, <1>5 DEF Begin, Waiting, Fit, Start
<1>6. CASE Timeout \/ ObeySigint \/ Die \/ EndOfInput
  <2>1. main' = "gone"
    BY <1>6 DEF Timeout, ObeySigint, Die, EndOfInput, Exit
  <2> QED
    BY <2>1 DEF Waiting
<1>7. CASE Answer
  <2>1. /\ UNCHANGED <<life, main, k>> /\ Head(inbox) \in Range(inbox) /\ Head(inbox).cmd = "answer"
        /\ Alive
        /\ \/ pending # 0 /\ pending = Head(inbox).x /\ reply' = Head(inbox) /\ pending' = 0
           \/ UNCHANGED <<reply, pending>>
    BY <1>0, <1>7, Got DEF Answer
  <2>2. CASE pending # 0 /\ pending = Head(inbox).x /\ reply' = Head(inbox) /\ pending' = 0
    <3>1. main = "await" /\ reply = None /\ pending = k
      BY <1>0, <2>1, <2>2 DEF Waiting, Typed, TypedCaller, Alive
    <3>2. Head(inbox).life = life \/ k < life
      BY <2>1, <2>2, <3>1, AnswerFits
    <3>3. Head(inbox) # None
      BY <2>1 DEF None
    <3> QED
      BY <2>1, <2>2, <3>1, <3>2, <3>3 DEF Waiting, Fit
  <2>3. CASE UNCHANGED <<reply, pending>>
    BY <1>0, <2>1, <2>3 DEF Waiting, Fit, Start
  <2> QED
    BY <2>1, <2>2, <2>3
<1>8. CASE ExitWithReason
  <2>1. UNCHANGED <<life, k, pending, reply>> /\ main' \in {main, "gone"}
    BY <1>8 DEF ExitWithReason, Exit
  <2> QED
    BY <1>0, <2>1 DEF Waiting, Fit, Start
<1>9. CASE Relaunch
  BY <1>9 DEF Relaunch, Waiting
<1>10. CASE \/ AskRestart \/ Read \/ Restarted \/ Trace \/ Fault \/ Chunk \/ Interrupt \/ SendSigint
            \/ PicoLoop \/ Beacon \/ RunEnds \/ UNCHANGED vars
  <2>1. UNCHANGED <<life, main, k, pending, reply>>
    BY <1>10 DEF AskRestart, Read, Restarted, Trace, Fault, Chunk, Interrupt, SendSigint, PicoLoop,
                 PicoRestart, PicoConfig, PicoUpload, PicoStart, PicoSigint, SendTrace, SendDump,
                 Beacon, RunEnds, vars, caller
  <2> QED
    BY <1>0, <2>1 DEF Waiting, Fit, Start
<1> QED
  BY <1>2, <1>3, <1>4, <1>5, <1>6, <1>7, <1>8, <1>9, <1>10 DEF Next, Main, Dispatcher

LEMMA MadeFacts == ASSUME Typed PROVE Made \in 0 .. Start /\ (k' = k /\ main' = main => Made' = Made)
<1>1. k \in 1 .. Start /\ Start \in Nat
  BY Facts
<1> QED
  BY <1>1 DEF Made

\* What the queues keep when nothing is put in.
LEMMA OwnShrink ==
  ASSUME IInv, UNCHANGED <<life, k, cfg, run>>, main' \in {main, "gone"},
         Range(inbox') \cup Range(up') \cup Range(toPico') \subseteq Range(inbox) \cup Range(up) \cup Range(toPico)
  PROVE  OwnMade'
<1>0. Typed /\ OwnMade
  BY DEF IInv, Calling
<1>1. CASE main' = "gone"
  BY <1>1 DEF OwnMade, Alive
<1>2. CASE main' = main
  <2>1. Made' = Made /\ Alive' = Alive
    BY <1>2 DEF Made, Alive
  <2> QED
    BY <1>0, <2>1 DEF OwnMade, IsCall, Start
<1> QED
  BY <1>1, <1>2

LEMMA OwnSends ==
  ASSUME IInv, NEW p \in UpPackets(life), Send(p), UNCHANGED <<life, main, k, inbox>>,
         Range(toPico') \subseteq Range(toPico),
         p.cmd = "answer" => \E q \in Range(toPico) : q.cmd = "rpc" /\ q.life = p.life /\ q.x = p.x,
         cfg' = life => cfg = life \/ Made >= 1,
         run' = life => run = life \/ Made = Start
  PROVE  OwnMade'
<1>0. Typed /\ OwnMade
  BY DEF IInv, Calling
<1>1. Made' = Made /\ Alive' = Alive
  BY DEF Made, Alive
<1>2. Range(up') \subseteq Range(up) \cup {p}
  <2>1. up \in Seq(UpPackets(life))
    BY <1>0, Facts
  <2>2. Range(Append(up, p)) = Range(up) \cup {p}
    BY <2>1, Appended
  <2> QED
    BY <2>2 DEF Send
<1>3. p.cmd # "rpc"
  <2>1. life \in Nat
    BY <1>0, Facts
  <2> QED
    BY <2>1, UpIs
<1>4. Alive /\ IsCall(p) /\ p.life = life => p.x <= Made
  BY <1>0, <1>3 DEF OwnMade, IsCall
<1>5. Alive => \A q \in Range(inbox') \cup Range(up') \cup Range(toPico') :
                 IsCall(q) /\ q.life = life => q.x <= Made
  BY <1>0, <1>2, <1>4 DEF OwnMade
<1> QED
  BY <1>0, <1>1, <1>5 DEF OwnMade, IsCall, Start

LEMMA OwnPico == ASSUME IInv, PicoLoop \/ Beacon \/ RunEnds PROVE OwnMade'
<1>0. Typed /\ Ordered /\ OwnMade
  BY DEF IInv, Calling
<1>1. /\ life \in Nat /\ life \in 1 .. life /\ life >= 1 /\ Start \in Nat /\ Start >= 3 /\ Chunks \in Nat
      /\ cfg \in 0 .. life /\ run \in 0 .. life /\ Made \in 0 .. Start
  BY <1>0, Facts, StartFacts, MadeFacts DEF Typed, TypedBoard
<1>2. UNCHANGED <<life, inbox, main, k>>
  BY DEF PicoLoop, PicoRestart, PicoConfig, PicoUpload, PicoStart, PicoSigint, SendTrace, SendDump,
         Beacon, RunEnds, caller, output
<1>a. ASSUME NEW c, Receive(c)
      PROVE  /\ Range(toPico') \subseteq Range(toPico) /\ Head(toPico) \in Range(toPico)
             /\ Head(toPico).cmd = c
             /\ c = "rpc" => Packet("answer", Head(toPico).life, Head(toPico).x) \in UpPackets(life)
             /\ c = "rpc" => Head(toPico).x \in 1 .. Start
  BY <1>0, <1>a, Received, HeadFirst, Sent
<1>3. CASE PicoRestart
  <2>1. /\ Range(toPico') \subseteq Range(toPico) /\ Send(Packet("restarted", 0, 0)) /\ cfg' = 0 /\ run' = 0
    BY <1>3, <1>a DEF PicoRestart
  <2>2. Packet("restarted", 0, 0) \in UpPackets(life) /\ Packet("restarted", 0, 0).cmd # "answer"
    BY <1>1, Sent DEF Packet
  <2>3. 0 # life
    BY <1>1
  <2> QED
    BY <1>2, <2>1, <2>2, <2>3, OwnSends
<1>4. CASE PicoConfig \/ PicoUpload \/ PicoStart
  <2> DEFINE h == Head(toPico)
             a == Packet("answer", h.life, h.x)
  <2>1. Receive("rpc") /\ Send(a)
    BY <1>4 DEF PicoConfig, PicoUpload, PicoStart
  <2>2. /\ Range(toPico') \subseteq Range(toPico) /\ h \in Range(toPico) /\ h.cmd = "rpc" /\ a \in UpPackets(life)
        /\ a.life = h.life /\ a.x = h.x /\ h.x \in 1 .. Start
    BY <2>1, <1>a DEF Packet
  <2>3. CASE ~Alive
    BY <1>2, <2>3 DEF OwnMade, Alive
  <2>4. CASE Alive
    <3>1. h.life = life => h.x <= Made
      BY <1>0, <2>2, <2>4 DEF OwnMade, IsCall
    <3>2. cfg' = life => cfg = life \/ Made >= 1
      <4>1. cfg' = cfg \/ cfg' = h.life
        BY <1>4 DEF PicoConfig, PicoUpload, PicoStart
      <4> QED
        BY <1>1, <2>2, <3>1, <4>1
    <3>3. run' = life => run = life \/ Made = Start
      <4>1. run' = run \/ (run' = h.life /\ h.x = Start)
        BY <1>1, <1>4, <2>2 DEF PicoConfig, PicoUpload, PicoStart, Method
      <4> QED
        BY <1>1, <2>2, <3>1, <4>1
    <3> HIDE DEF a, h
    <3> QED
      BY <1>2, <2>1, <2>2, <3>2, <3>3, OwnSends
  <2> QED
    BY <2>3, <2>4
<1>5. CASE PicoSigint
  <2>1. Range(toPico') \subseteq Range(toPico) /\ UNCHANGED <<up, cfg, run>>
    BY <1>5, <1>a DEF PicoSigint
  <2> QED
    BY <1>2, <2>1, OwnShrink
<1>6. CASE SendTrace
  <2>1. run \in 1 .. life /\ sent + 1 \in Nat
    BY <1>0, <1>1, <1>6 DEF SendTrace, Typed, TypedBoard
  <2>2. Packet("trace", run, sent + 1) \in UpPackets(life) /\ Packet("trace", run, sent + 1).cmd # "answer"
    BY <1>1, <2>1, Sent DEF Packet
  <2>3. Send(Packet("trace", run, sent + 1)) /\ UNCHANGED <<toPico, cfg, run>>
    BY <1>6 DEF SendTrace
  <2> QED
    BY <1>2, <2>2, <2>3, OwnSends
<1>7. CASE SendDump
  <2> DEFINE p == IF sent = 0 THEN Packet("fault", run, ended) ELSE Packet("chunk", run, sent)
  <2>1. run \in 1 .. life /\ sent \in 0 .. Chunks /\ ended \in 1 .. 3
    BY <1>0, <1>1, <1>7 DEF SendDump, Typed, TypedBoard
  <2>2. p \in UpPackets(life)
    BY <1>1, <2>1, Sent
  <2>3. p.cmd # "answer"
    BY DEF Packet
  <2>4. Send(p) /\ UNCHANGED <<toPico, cfg, run>>
    BY <1>7 DEF SendDump
  <2> HIDE DEF p
  <2> QED
    BY <1>2, <2>2, <2>3, <2>4, OwnSends
<1>8. CASE Beacon
  <2>1. Packet("restarted", 0, 0) \in UpPackets(life) /\ Packet("restarted", 0, 0).cmd # "answer"
    BY <1>1, Sent DEF Packet
  <2>2. Send(Packet("restarted", 0, 0)) /\ UNCHANGED <<toPico, cfg, run>>
    BY <1>8 DEF Beacon, board
  <2> QED
    BY <1>2, <2>1, <2>2, OwnSends
<1>9. CASE RunEnds
  BY <1>2, <1>9, OwnShrink DEF RunEnds, wire
<1> QED
  BY <1>3, <1>4, <1>5, <1>6, <1>7, <1>8, <1>9 DEF PicoLoop

LEMMA OwnNext == ASSUME IInv, [Next]_vars PROVE OwnMade'
<1>0. Typed /\ Ordered /\ OwnMade /\ Waiting
  BY DEF IInv, Calling
<1>1. /\ life \in Nat /\ life \in 1 .. life /\ k \in 1 .. Start /\ Start \in Nat
      /\ toPico \in Seq(DownPackets(life)) /\ Made \in 0 .. Start
      /\ cfg \in 0 .. life /\ run \in 0 .. life
  BY <1>0, Facts, MadeFacts DEF Typed, TypedBoard
<1>2. CASE AskRestart \/ SendSigint
  <2> DEFINE p == IF AskRestart THEN Packet("restart", life, 0) ELSE Packet("sigint", life, 0)
  <2>1. p \in DownPackets(life) /\ ~IsCall(p)
    BY <1>1, Sent DEF IsCall, Packet
  <2>2. toPico' = Append(toPico, p) /\ UNCHANGED <<life, up, inbox, main, k, cfg, run>>
    BY <1>2 DEF AskRestart, SendSigint, caller, output, board, Packet
  <2> HIDE DEF p
  <2>3. Range(toPico') = Range(toPico) \cup {p}
    BY <1>1, <2>1, <2>2, Appended
  <2>4. Made' = Made /\ Alive' = Alive
    BY <2>2 DEF Made, Alive
  <2> QED
    BY <1>0, <2>1, <2>2, <2>3, <2>4 DEF OwnMade, IsCall, Start
<1>3. CASE Call
  <2> DEFINE p == Packet("rpc", life, k)
  <2>1. p \in DownPackets(life) /\ p.x = k /\ p.life = life
    BY <1>1, Sent DEF Packet
  <2>2. /\ toPico' = Append(toPico, p) /\ UNCHANGED <<life, up, inbox, k, cfg, run>>
        /\ main = "call" /\ main' = "await"
    BY <1>3 DEF Call, output, board
  <2> HIDE DEF p
  <2>3. Range(toPico') = Range(toPico) \cup {p}
    BY <1>1, <2>1, <2>2, Appended
  <2>4. Made' = k /\ Made = k - 1 /\ Alive /\ Alive'
    BY <2>2 DEF Made, Alive
  <2>5. \A q \in Range(inbox') \cup Range(up') \cup Range(toPico') : IsCall(q) /\ q.life = life => q.x <= k
    <3> SUFFICES ASSUME NEW q \in Range(inbox') \cup Range(up') \cup Range(toPico'), IsCall(q), q.life = life
                 PROVE  q.x <= k
      OBVIOUS
    <3>1. CASE q = p
      BY <1>1, <2>1, <3>1
    <3>2. CASE q # p
      <4>1. q \in Range(inbox) \cup Range(up) \cup Range(toPico)
        BY <2>2, <2>3, <3>2
      <4>2. q.x \in Nat
        BY <1>0, <4>1, Facts
      <4>3. q.x <= k - 1
        BY <1>0, <2>4, <4>1 DEF OwnMade
      <4> QED
        BY <1>1, <4>2, <4>3
    <3> QED
      BY <3>1, <3>2
  <2>6. run # life /\ k >= 1
    <3>1. Made # Start
      BY <1>1, <2>4
    <3> QED
      BY <1>0, <1>1, <2>4, <3>1 DEF OwnMade
  <2> QED
    BY <2>2, <2>4, <2>5, <2>6 DEF OwnMade, IsCall
<1>4. CASE HearBeacon \/ Answered \/ Begin
  <2>1. UNCHANGED <<life, inbox, up, toPico, cfg, run>> /\ Alive /\ Alive'
    BY <1>4 DEF HearBeacon, Answered, Begin, wire, output, board, Alive
  <2>2. Made' = Made
    <3>1. CASE HearBeacon
      <4>1. main = "beacon" /\ main' = "call" /\ k = 1 /\ k' = k
        BY <1>0, <3>1 DEF HearBeacon, Waiting
      <4> QED
        BY <4>1 DEF Made
    <3>2. CASE Answered
      <4>1. main = "await" /\ ((main' = "started" /\ k' = k) \/ (main' = "call" /\ k' = k + 1))
        BY <3>2 DEF Answered
      <4> QED
        BY <1>1, <4>1 DEF Made
    <3>3. CASE Begin
      BY <3>3 DEF Begin, Made
    <3> QED
      BY <1>4, <3>1, <3>2, <3>3
  <2> QED
    BY <1>0, <2>1, <2>2 DEF OwnMade, IsCall, Start
<1>5. CASE Timeout \/ ObeySigint \/ Die \/ EndOfInput \/ Interrupt \/ UNCHANGED vars
  <2>1. UNCHANGED <<life, inbox, up, toPico, k, cfg, run>> /\ main' \in {main, "gone"}
    BY <1>5 DEF Timeout, ObeySigint,
                Die, EndOfInput, Interrupt, Exit, vars, wire, output, board, caller
  <2> QED
    BY <2>1, OwnShrink
<1>6. CASE Read
  <2>1. /\ UNCHANGED <<life, toPico, main, k, cfg, run>>
        /\ Range(inbox') \cup Range(up') \subseteq Range(inbox) \cup Range(up)
    BY <1>0, <1>6, WasRead DEF Read, caller, board
  <2> QED
    BY <2>1, OwnShrink
<1>7. CASE Dispatcher
  <2>1. /\ UNCHANGED <<life, toPico, up, k, cfg, run>> /\ main' \in {main, "gone"}
        /\ inbox' = inbox \/ (inbox # << >> /\ inbox' = Tail(inbox))
    <3>1. CASE Restarted \/ Answer
      BY <3>1 DEF Restarted, Answer, Next1, wire, board
    <3>2. CASE Trace \/ Fault \/ Chunk
      BY <3>2 DEF Trace, Fault, Chunk, Next1, wire, board, caller
    <3>3. CASE ExitWithReason
      BY <3>3 DEF ExitWithReason, Exit, wire, board
    <3> QED
      BY <1>7, <3>1, <3>2, <3>3 DEF Dispatcher
  <2>2. Range(inbox') \subseteq Range(inbox)
    BY <1>0, <2>1, OrderedTake
  <2> QED
    BY <2>1, <2>2, OwnShrink
<1>8. CASE Relaunch
  <2>1. /\ life' = life + 1 /\ Range(inbox') = {} /\ UNCHANGED <<cfg, run>>
        /\ Range(toPico') \subseteq Range(toPico) /\ Range(up') \subseteq Range(up)
    BY <1>0, <1>8, Launched, EmptyQueue DEF Relaunch, board
  <2>2. \A p \in Range(toPico) \cup Range(up) : p.life # life + 1
    <3>1. \A p \in Range(toPico) \cup Range(up) : p.life \in 0 .. life
      BY <1>0, Facts
    <3> QED
      BY <1>1, <3>1
  <2>3. cfg # life + 1 /\ run # life + 1
    BY <1>1
  <2> QED
    BY <2>1, <2>2, <2>3 DEF OwnMade
<1>9. CASE PicoLoop \/ Beacon \/ RunEnds
  BY <1>9, OwnPico
<1> QED
  BY <1>2, <1>3, <1>4, <1>5, <1>6, <1>7, <1>8, <1>9 DEF Next, Main

LEMMA LastNext == ASSUME IInv, [Next]_vars PROVE LastMade'
<1>0. Typed /\ LastMade /\ Waiting
  BY DEF IInv, Calling
<1>1. /\ life \in Nat /\ life \in 1 .. life /\ k \in 1 .. Start /\ Start \in Nat
      /\ toPico \in Seq(DownPackets(life)) /\ Made \in 0 .. Start
  BY <1>0, Facts, MadeFacts
<1>a. \A l, n : UNCHANGED <<pico, cfg, image>> /\ Carried(l, n) => Carried(l, n)'
  BY DEF Carried, Busy
<1>b. ASSUME UNCHANGED <<life, toPico, pico, cfg, image>>, main' \in {"call", "await"} => main \in {"call", "await"} /\ Made' = Made
      PROVE  LastMade'
  BY <1>0, <1>b DEF LastMade, Final, Start, Carried, Busy
<1>2. CASE Call
  <2> DEFINE p == Packet("rpc", life, k)
  <2>1. p \in DownPackets(life) /\ toPico' = Append(toPico, p) /\ main' = "await" /\ k' = k /\ life' = life
    BY <1>1, <1>2, Sent DEF Call
  <2>2. toPico' # << >> /\ Final(toPico') = p /\ Made' = k
    BY <1>1, <2>1, Appended DEF Made
  <2> QED
    BY <2>1, <2>2 DEF LastMade
<1>3. CASE HearBeacon \/ Answered \/ Begin
  <2>1. UNCHANGED <<life, toPico, pico, cfg, image>>
    BY <1>3 DEF HearBeacon, Answered, Begin, wire, board
  <2>2. CASE HearBeacon
    <3>1. main' = "call" /\ k' = 1
      BY <1>0, <2>2 DEF HearBeacon, Waiting
    <3>2. ~(Made' >= 1)
      BY <3>1 DEF Made
    <3> QED
      BY <3>2 DEF LastMade
  <2>3. CASE Answered
    <3>1. main = "await" /\ ((main' = "started" /\ k' = k) \/ (main' = "call" /\ k' = k + 1))
      BY <2>3 DEF Answered
    <3>2. Made' = Made
      BY <1>1, <3>1 DEF Made
    <3> QED
      BY <1>b, <2>1, <3>1, <3>2
  <2>4. CASE Begin
    BY <2>4 DEF Begin, LastMade
  <2> QED
    BY <1>3, <2>2, <2>3, <2>4
<1>4. CASE Timeout \/ ObeySigint \/ Die \/ EndOfInput
  <2>1. main' = "gone"
    BY <1>4 DEF Timeout, ObeySigint, Die, EndOfInput, Exit
  <2> QED
    BY <2>1 DEF LastMade
<1>5. CASE Interrupt \/ UNCHANGED vars \/ Read \/ Beacon
  <2>1. UNCHANGED <<life, toPico, pico, cfg, image, main, k>>
    BY <1>5 DEF Interrupt, Read, Beacon, vars, wire, board, caller
  <2>2. Made' = Made
    BY <2>1 DEF Made
  <2> QED
    BY <1>b, <2>1, <2>2
<1>6. CASE Dispatcher
  <2>1. /\ UNCHANGED <<life, toPico, k, pico, cfg, image>> /\ main' \in {main, "gone"}
    <3>1. CASE Restarted \/ Answer
      BY <3>1 DEF Restarted, Answer, wire, board
    <3>2. CASE Trace \/ Fault \/ Chunk
      BY <3>2 DEF Trace, Fault, Chunk, wire, board, caller
    <3>3. CASE ExitWithReason
      BY <3>3 DEF ExitWithReason, Exit, wire, board
    <3> QED
      BY <1>6, <3>1, <3>2, <3>3 DEF Dispatcher
  <2>2. main' = main => Made' = Made
    BY <2>1 DEF Made
  <2>3. main' \in {"call", "await"} => main \in {"call", "await"} /\ Made' = Made
    BY <2>1, <2>2
  <2> QED
    BY <1>b, <2>1, <2>3
<1>7. CASE AskRestart \/ SendSigint
  <2>1. main \notin {"call", "await"} /\ main' = main
    <3>1. CASE AskRestart
      BY <3>1 DEF AskRestart, caller
    <3>2. CASE SendSigint
      BY <3>2 DEF SendSigint, caller, IInv, Ending, Phases, Interrupted
    <3> QED
      BY <1>7, <3>1, <3>2
  <2> QED
    BY <2>1 DEF LastMade
<1>8. CASE Relaunch
  BY <1>8 DEF Relaunch, LastMade
<1>9. CASE PicoRestart \/ PicoConfig \/ PicoUpload \/ PicoStart \/ PicoSigint
  <2> DEFINE h == Head(toPico)
  <2>1. UNCHANGED <<life, main, k>>
    BY <1>9 DEF PicoRestart, PicoConfig, PicoUpload, PicoStart, PicoSigint, caller
  <2>2. Made' = Made
    BY <2>1 DEF Made
  <2>3. toPico # << >> /\ toPico' = Tail(toPico)
    BY <1>9 DEF PicoRestart, PicoConfig, PicoUpload, PicoStart, PicoSigint, Receive
  <2>4. SUFFICES ASSUME main \in {"call", "await"}, Made >= 1
                 PROVE  \/ toPico' # << >> /\ Final(toPico') = Packet("rpc", life, Made)
                        \/ toPico' = << >> /\ (Made < Start => Carried(life, Made)')
    <3>1. \A l, n : l = life /\ n = Made => (Carried(l, n)' <=> Carried(life, Made)')
      BY <2>1, <2>2 DEF Carried
    <3> QED
      BY <2>1, <2>2, <2>4, <3>1 DEF LastMade, Start, Carried
  <2>5. Final(toPico) = Packet("rpc", life, Made)
    BY <1>0, <2>3, <2>4 DEF LastMade
  <2>6. CASE Tail(toPico) # << >>
    <3>1. Final(Tail(toPico)) = Final(toPico)
      BY <1>1, <2>3, <2>6, Dropped
    <3> QED
      BY <2>3, <2>5, <2>6, <3>1
  <2>7. CASE Tail(toPico) = << >>
    <3>1. h = Packet("rpc", life, Made)
      BY <1>1, <2>3, <2>5, <2>7, Dropped
    <3>2. h.cmd = "rpc" /\ h.life = life /\ h.x = Made
      BY <3>1 DEF Packet
    <3>3. Receive("rpc") /\ (PicoConfig \/ PicoUpload \/ PicoStart)
      BY <1>9, <3>2 DEF PicoRestart, PicoConfig, PicoUpload, PicoStart, PicoSigint, Receive
    <3>4. ASSUME Made < Start PROVE Carried(life, Made)'
      <4>1. \A l, n : h.life = l /\ h.x = n /\ n < Start => Carried(l, n)'
        BY <3>3, CarriedOut
      <4>2. ~Busy' /\ cfg' = life /\ \A i \in 1 .. Uploads : i + 1 <= Made => image'[i] = life
        BY <3>2, <3>4, <4>1 DEF Carried
      <4> QED
        BY <2>1, <2>2, <4>2 DEF Carried
    <3> QED
      BY <2>3, <2>7, <3>4
  <2> QED
    BY <2>6, <2>7
<1>10. CASE SendTrace \/ SendDump \/ RunEnds
  <2>1. UNCHANGED <<life, main, k, toPico>> /\ Busy
    BY <1>10 DEF SendTrace, SendDump, RunEnds, wire, caller, Busy
  <2>2. Made' = Made
    BY <2>1 DEF Made
  <2> QED
    BY <1>0, <2>1, <2>2 DEF LastMade, Final, Start, Carried
<1> QED
  BY <1>2, <1>3, <1>4, <1>5, <1>6, <1>7, <1>8, <1>9, <1>10 DEF Next, Main, PicoLoop

-----------------------------------------------------------------------------
(* The end of a life.                                                      *)

LEMMA PhasesNext == ASSUME IInv, [Next]_vars PROVE Phases'
<1>0. Phases /\ sigs \in 0 .. 2
  BY DEF IInv, Ending, Typed, TypedUser
<1>1. CASE HearBeacon \/ Call \/ Answered
  <2>1. /\ UNCHANGED <<exit, cpuStarted, sig, sigs>>
        /\ main \in {"beacon", "call", "await"} /\ main' \in {"call", "await", "started"}
    BY <1>1 DEF HearBeacon, Call, Answered, user
  <2> QED
    BY <1>0, <2>1 DEF Phases, Alive
<1>2. CASE Begin
  BY <1>0, <1>2 DEF Begin, user, Phases, Alive
<1>3. CASE Timeout \/ ObeySigint \/ Die \/ EndOfInput
  <2>1. main' = "gone" /\ UNCHANGED <<cpuStarted, sig, sigs>>
    BY <1>3 DEF Timeout, ObeySigint, Die, EndOfInput, Exit, user
  <2> QED
    BY <1>0, <2>1 DEF Phases, Alive
<1>4. CASE ExitWithReason
  <2>1. UNCHANGED <<cpuStarted, sig, sigs>> /\ (main' = "gone" \/ UNCHANGED <<main, exit>>)
    BY <1>4 DEF ExitWithReason, Exit, user
  <2> QED
    BY <1>0, <2>1 DEF Phases, Alive
<1>5. CASE Interrupt
  BY <1>0, <1>5 DEF Interrupt, caller, Phases, Alive
<1>6. CASE SendSigint
  BY <1>0, <1>6 DEF SendSigint, caller, Phases, Alive
<1>7. CASE Relaunch
  BY <1>7 DEF Relaunch, Phases, Alive
<1>8. CASE \/ AskRestart \/ Read \/ Restarted \/ Answer \/ Trace \/ Fault \/ Chunk
           \/ PicoLoop \/ Beacon \/ RunEnds \/ UNCHANGED vars
  <2>1. UNCHANGED <<main, exit, cpuStarted, sig, sigs>>
    <3>1. CASE AskRestart \/ Read \/ Restarted \/ Answer \/ Trace \/ Fault \/ Chunk \/ UNCHANGED vars
      BY <3>1 DEF AskRestart, Read, Restarted, Answer, Trace, Fault, Chunk, vars, caller, user
    <3>2. CASE PicoLoop \/ Beacon \/ RunEnds
      BY <3>2 DEF PicoLoop, PicoRestart, PicoConfig, PicoUpload, PicoStart, PicoSigint, SendTrace,
                  SendDump, Beacon, RunEnds, caller, user
    <3> QED
      BY <1>8, <3>1, <3>2
  <2> QED
    BY <1>0, <2>1 DEF Phases, Alive
<1> QED
  BY <1>1, <1>2, <1>3, <1>4, <1>5, <1>6, <1>7, <1>8 DEF Next, Main, Dispatcher

LEMMA InterruptedKeep ==
  ASSUME Interrupted, UNCHANGED <<life, sig>>, sigs \in Nat, sigs' \in Nat, sigs' >= sigs, Alive' => Alive,
         \A p \in Range(toPico') : p.cmd = "sigint" /\ p.life = life => p \in Range(toPico),
         run' = life /\ ended' = 2 => (run = life /\ ended = 2) \/ sigs > 0,
         \A p \in Range(inbox') \cup Range(up') :
           p = Packet("fault", life, 2) => p \in Range(inbox) \cup Range(up) \/ sigs > 0,
         reason' = Packet("fault", life, 2) => reason = Packet("fault", life, 2) \/ sigs > 0
  PROVE  Interrupted'
<1>1. sigs > 0 => sigs' > 0
  OBVIOUS
<1>2. Alive' /\ sig' = "idle" => \A p \in Range(toPico') : ~(p.cmd = "sigint" /\ p.life = life)
  BY DEF Interrupted
<1>3. (\E p \in Range(toPico') : p.cmd = "sigint" /\ p.life = life) => sigs' > 0
  BY <1>1 DEF Interrupted
<1>4. (run' = life /\ ended' = 2) => sigs' > 0
  BY <1>1 DEF Interrupted
<1>5. \A p \in Range(inbox') \cup Range(up') : p = Packet("fault", life, 2) => sigs' > 0
  BY <1>1 DEF Interrupted
<1>6. reason' = Packet("fault", life, 2) => sigs' > 0
  BY <1>1 DEF Interrupted
<1> QED
  BY <1>2, <1>3, <1>4, <1>5, <1>6 DEF Interrupted, Packet

LEMMA InterruptedPico == ASSUME IInv, PicoLoop \/ Beacon \/ RunEnds PROVE Interrupted'
<1>0. Typed /\ Ordered /\ Interrupted /\ AfterRun
  BY DEF IInv, Ending, PicoKnows
<1>1. /\ life \in Nat /\ life \in 1 .. life /\ life >= 1 /\ Chunks \in Nat /\ sigs \in Nat
      /\ run \in 0 .. life /\ up \in Seq(UpPackets(life))
      /\ \A q \in Range(toPico) : q.life \in 1 .. life
  BY <1>0, Facts, StartFacts DEF Typed, TypedBoard, TypedUser
<1>2. UNCHANGED <<life, inbox, main, sig, sigs, reason>> /\ (Alive' => Alive) /\ sigs' >= sigs /\ sigs' \in Nat
  <2>1. UNCHANGED <<life, inbox, main, sig, sigs, reason>>
    BY DEF PicoLoop, PicoRestart, PicoConfig, PicoUpload, PicoStart, PicoSigint, SendTrace, SendDump,
           Beacon, RunEnds, caller, output, user
  <2> QED
    BY <1>1, <2>1 DEF Alive
<1>a. ASSUME NEW c, Receive(c)
      PROVE  /\ Range(toPico') \subseteq Range(toPico) /\ Head(toPico) \in Range(toPico)
             /\ Head(toPico).cmd = c
             /\ c = "rpc" => Packet("answer", Head(toPico).life, Head(toPico).x) \in UpPackets(life)
  BY <1>0, <1>a, Received, HeadFirst, Sent
<1>b. ASSUME NEW p \in UpPackets(life), Send(p), p # Packet("fault", life, 2)
      PROVE  \A q \in Range(inbox') \cup Range(up') :
               q = Packet("fault", life, 2) => q \in Range(inbox) \cup Range(up)
  <2>1. Range(Append(up, p)) = Range(up) \cup {p}
    BY <1>1, Appended
  <2> QED
    BY <1>2, <1>b, <2>1 DEF Send
<1>3. CASE PicoRestart
  <2>1. Send(Packet("restarted", 0, 0)) /\ Range(toPico') \subseteq Range(toPico) /\ run' = 0
    BY <1>3, <1>a DEF PicoRestart
  <2>2. Packet("restarted", 0, 0) \in UpPackets(life) /\ Packet("restarted", 0, 0) # Packet("fault", life, 2)
        /\ ~(0 = life)
    <3>1. Packet("restarted", 0, 0) \in UpPackets(life)
      BY <1>1, Sent
    <3>2. Packet("restarted", 0, 0) # Packet("fault", life, 2)
      BY DEF Packet
    <3>3. ~(0 = life)
      BY <1>1
    <3> QED
      BY <3>1, <3>2, <3>3
  <2>3. \A q \in Range(inbox') \cup Range(up') :
          q = Packet("fault", life, 2) => q \in Range(inbox) \cup Range(up)
    BY <1>b, <2>1, <2>2
  <2> QED
    BY <1>0, <1>1, <1>2, <2>1, <2>2, <2>3, InterruptedKeep
<1>4. CASE PicoConfig \/ PicoUpload \/ PicoStart
  <2> DEFINE a == Packet("answer", Head(toPico).life, Head(toPico).x)
  <2>1. /\ Send(a) /\ Receive("rpc")
        /\ (run' = run /\ ended' = ended) \/ ended' = 0
    BY <1>4 DEF PicoConfig, PicoUpload, PicoStart
  <2>2. a \in UpPackets(life) /\ a # Packet("fault", life, 2) /\ Range(toPico') \subseteq Range(toPico)
    BY <2>1, <1>a DEF Packet
  <2>3. \A q \in Range(inbox') \cup Range(up') :
          q = Packet("fault", life, 2) => q \in Range(inbox) \cup Range(up)
    BY <1>b, <2>1, <2>2
  <2> QED
    BY <1>0, <1>1, <1>2, <2>1, <2>2, <2>3, InterruptedKeep
<1>5. CASE PicoSigint
  <2>1. /\ Range(toPico') \subseteq Range(toPico) /\ Head(toPico) \in Range(toPico)
        /\ Head(toPico).cmd = "sigint" /\ UNCHANGED <<up, run>>
    BY <1>5, <1>a DEF PicoSigint
  <2>2. run = life => sigs > 0
    <3> SUFFICES ASSUME run = life PROVE sigs > 0
      OBVIOUS
    <3>1. Head(toPico).life = life
      BY <1>0, <1>1, <2>1 DEF AfterRun
    <3> QED
      BY <1>0, <2>1, <3>1 DEF Interrupted
  <2> QED
    BY <1>0, <1>1, <1>2, <2>1, <2>2, InterruptedKeep
<1>6. CASE SendTrace
  <2>1. run \in 1 .. life /\ sent + 1 \in Nat
    BY <1>0, <1>1, <1>6 DEF SendTrace, Typed, TypedBoard
  <2>2. /\ Packet("trace", run, sent + 1) \in UpPackets(life)
        /\ Packet("trace", run, sent + 1) # Packet("fault", life, 2)
    BY <1>1, <2>1, Sent DEF Packet
  <2>3. Send(Packet("trace", run, sent + 1)) /\ UNCHANGED <<toPico, run, ended>>
    BY <1>6 DEF SendTrace
  <2>4. \A q \in Range(inbox') \cup Range(up') :
          q = Packet("fault", life, 2) => q \in Range(inbox) \cup Range(up)
    BY <1>b, <2>2, <2>3
  <2> QED
    BY <1>0, <1>1, <1>2, <2>3, <2>4, InterruptedKeep
<1>7. CASE SendDump
  <2> DEFINE p == IF sent = 0 THEN Packet("fault", run, ended) ELSE Packet("chunk", run, sent)
  <2>1. run \in 1 .. life /\ sent \in 0 .. Chunks /\ ended \in 1 .. 3
    BY <1>0, <1>1, <1>7 DEF SendDump, Typed, TypedBoard
  <2>2. p \in UpPackets(life)
    BY <1>1, <2>1, Sent
  <2>3. Send(p) /\ UNCHANGED <<toPico, run, ended>>
    BY <1>7 DEF SendDump
  <2>4. p = Packet("fault", life, 2) => sigs > 0
    <3>1. p = Packet("fault", life, 2) => run = life /\ ended = 2
      BY DEF Packet
    <3> QED
      BY <1>0, <3>1 DEF Interrupted
  <2>5. \A q \in Range(inbox') \cup Range(up') :
          q = Packet("fault", life, 2) => q \in Range(inbox) \cup Range(up) \/ sigs > 0
    BY <1>b, <2>2, <2>3, <2>4
  <2> HIDE DEF p
  <2> QED
    BY <1>0, <1>1, <1>2, <2>3, <2>5, InterruptedKeep
<1>8. CASE Beacon
  <2>1. Send(Packet("restarted", 0, 0)) /\ UNCHANGED <<toPico, run, ended>>
    BY <1>8 DEF Beacon, board
  <2>2. Packet("restarted", 0, 0) \in UpPackets(life) /\ Packet("restarted", 0, 0) # Packet("fault", life, 2)
    BY <1>1, Sent DEF Packet
  <2>3. \A q \in Range(inbox') \cup Range(up') :
          q = Packet("fault", life, 2) => q \in Range(inbox) \cup Range(up)
    BY <1>b, <2>1, <2>2
  <2> QED
    BY <1>0, <1>1, <1>2, <2>1, <2>3, InterruptedKeep
<1>9. CASE RunEnds
  <2>1. UNCHANGED <<toPico, up, run>> /\ ended' # 2
    BY <1>9 DEF RunEnds, wire
  <2> QED
    BY <1>0, <1>1, <1>2, <2>1, InterruptedKeep
<1> QED
  BY <1>3, <1>4, <1>5, <1>6, <1>7, <1>8, <1>9 DEF PicoLoop

LEMMA InterruptedNext == ASSUME IInv, [Next]_vars PROVE Interrupted'
<1>0. Typed /\ Ordered /\ Interrupted /\ Phases
  BY DEF IInv, Ending
<1>1. /\ life \in Nat /\ life \in 1 .. life /\ k \in 1 .. Start /\ sigs \in 0 .. 2 /\ sigs \in Nat
      /\ toPico \in Seq(DownPackets(life)) /\ run \in 0 .. life
      /\ reason = None \/ reason.life \in 1 .. life
  BY <1>0, Facts DEF Typed, TypedUser, TypedBoard, TypedOutput
<1>2. CASE AskRestart \/ Call
  <2> DEFINE p == IF AskRestart THEN Packet("restart", life, 0) ELSE Packet("rpc", life, k)
  <2>1. p \in DownPackets(life) /\ p.cmd # "sigint"
    BY <1>1, Sent DEF Packet
  <2>2. toPico' = Append(toPico, p) /\ UNCHANGED <<life, up, inbox, sig, sigs, run, ended, reason>>
        /\ (Alive' => Alive)
    BY <1>2 DEF AskRestart, Call, caller, output, board, user, Packet, Alive
  <2> HIDE DEF p
  <2>3. Range(toPico') = Range(toPico) \cup {p}
    BY <1>1, <2>1, <2>2, Appended
  <2> QED
    BY <1>0, <1>1, <2>1, <2>2, <2>3, InterruptedKeep
<1>3. CASE SendSigint
  <2>1. /\ sig' = "wait" /\ UNCHANGED <<life, up, inbox, sigs, run, ended, reason>> /\ sigs >= 1
    BY <1>3 DEF SendSigint, output, board
  <2>2. sigs' > 0
    BY <1>1, <2>1
  <2> QED
    BY <2>1, <2>2 DEF Interrupted
<1>4. CASE HearBeacon \/ Answered \/ Begin \/ Timeout \/ ObeySigint
           \/ Die \/ EndOfInput \/ UNCHANGED vars
  <2>1. UNCHANGED <<life, toPico, up, inbox, sig, sigs, run, ended, reason>> /\ (Alive' => Alive)
    BY <1>4 DEF HearBeacon, Answered, Begin, Timeout, ObeySigint,
                Die, EndOfInput, Exit, vars, wire, output,
                board, user, Alive
  <2> QED
    BY <1>0, <1>1, <2>1, InterruptedKeep
<1>5. CASE Interrupt
  <2>1. UNCHANGED <<life, toPico, up, inbox, sig, run, ended, reason, main>> /\ sigs' = sigs + 1
    BY <1>5 DEF Interrupt, wire, output, board, caller
  <2>2. sigs' \in Nat /\ sigs' >= sigs /\ (Alive' => Alive)
    BY <1>1, <2>1 DEF Alive
  <2> QED
    BY <1>0, <1>1, <2>1, <2>2, InterruptedKeep
<1>6. CASE Read
  <2>1. /\ UNCHANGED <<life, toPico, sig, sigs, run, ended, reason, main>>
        /\ Range(inbox') \cup Range(up') \subseteq Range(inbox) \cup Range(up)
    BY <1>0, <1>6, WasRead DEF Read, caller, board, user
  <2> QED
    BY <1>0, <1>1, <2>1, InterruptedKeep DEF Alive
<1>7. CASE Dispatcher
  <2>1. /\ UNCHANGED <<life, toPico, up, sig, sigs, run, ended>> /\ main' \in {main, "gone"}
        /\ inbox' = inbox \/ (inbox # << >> /\ inbox' = Tail(inbox))
        /\ reason' = reason \/ (inbox # << >> /\ reason' = Head(inbox))
    <3>1. CASE Restarted \/ Answer
      BY <3>1 DEF Restarted, Answer, Next1, wire, board, user
    <3>2. CASE Trace \/ Fault \/ Chunk
      BY <3>2 DEF Trace, Fault, Chunk, Next1, wire, board, caller, user
    <3>3. CASE ExitWithReason
      BY <3>3 DEF ExitWithReason, Exit, wire, board, user
    <3> QED
      BY <1>7, <3>1, <3>2, <3>3 DEF Dispatcher
  <2>2. Range(inbox') \subseteq Range(inbox)
    BY <1>0, <2>1, OrderedTake
  <2>3. inbox # << >> => Head(inbox) \in Range(inbox)
    BY <1>0, Facts, Dropped
  <2>4. reason' = Packet("fault", life, 2) => reason = Packet("fault", life, 2) \/ sigs > 0
    BY <1>0, <2>1, <2>3 DEF Interrupted
  <2>5. Alive' => Alive
    BY <2>1 DEF Alive
  <2> QED
    BY <1>0, <1>1, <2>1, <2>2, <2>4, <2>5, InterruptedKeep
<1>8. CASE Relaunch
  <2>1. /\ life' = life + 1 /\ inbox' = << >> /\ Range(inbox') = {}
        /\ Range(toPico') \subseteq Range(toPico) /\ Range(up') \subseteq Range(up)
        /\ UNCHANGED <<run, ended>> /\ reason' = None
    BY <1>0, <1>8, Launched, EmptyQueue DEF Relaunch, board
  <2>2. \A p \in Range(toPico) \cup Range(up) : p.life # life + 1
    <3>1. \A p \in Range(toPico) \cup Range(up) : p.life \in 0 .. life
      BY <1>0, Facts
    <3> QED
      BY <1>1, <3>1
  <2>3. run # life + 1 /\ Packet("fault", life + 1, 2).life = life + 1
        /\ None # Packet("fault", life + 1, 2)
    BY <1>1 DEF Packet, None
  <2> QED
    BY <2>1, <2>2, <2>3 DEF Interrupted
<1>9. CASE PicoLoop \/ Beacon \/ RunEnds
  BY <1>9, InterruptedPico
<1> QED
  BY <1>2, <1>3, <1>4, <1>5, <1>6, <1>7, <1>8, <1>9 DEF Next, Main

LEMMA DumpedNext == ASSUME IInv, [Next]_vars PROVE Dumped'
<1>0. Dumped
  BY DEF IInv, Ending
<1>1. CASE Chunk
  <2>1. chunks' = chunks \cup {Head(inbox)} /\ disp' = IF Cardinality(chunks') = Chunks THEN "drain" ELSE "run"
    BY <1>1 DEF Chunk
  <2>2. IsFiniteSet(chunks')
    BY <1>0, <2>1, FS_AddElement DEF Dumped
  <2> QED
    BY <2>1, <2>2 DEF Dumped
<1>2. CASE Relaunch
  <2>1. chunks' = {} /\ disp' = "run"
    BY <1>2 DEF Relaunch
  <2> QED
    BY <2>1, FS_EmptySet DEF Dumped
<1>3. CASE ~Chunk /\ ~Relaunch
  <2>1. UNCHANGED <<chunks, disp>>
    <3>1. CASE Main \/ AskRestart \/ Timeout \/ Read \/ UNCHANGED vars
      BY <3>1 DEF Main, HearBeacon, Call, Answered, Begin, AskRestart, Timeout, Read, vars, output
    <3>2. CASE Dispatcher
      BY <1>3, <3>2 DEF Dispatcher, Restarted, Answer, Trace, Fault, ExitWithReason
    <3>3. CASE Interrupt \/ SendSigint \/ ObeySigint \/ Die \/ EndOfInput
      BY <3>3 DEF Interrupt, SendSigint, ObeySigint, Die, EndOfInput, output
    <3>4. CASE PicoLoop \/ Beacon \/ RunEnds
      BY <3>4 DEF PicoLoop, PicoRestart, PicoConfig, PicoUpload, PicoStart, PicoSigint, SendTrace,
                  SendDump, Beacon, RunEnds, output
    <3> QED
      BY <1>3, <3>1, <3>2, <3>3, <3>4 DEF Next
  <2> QED
    BY <1>0, <2>1 DEF Dumped
<1> QED
  BY <1>1, <1>2, <1>3

\* As many chunks of the run as a dump has are the whole dump.
LEMMA WholeDump ==
  ASSUME Typed, ShownIsThisRun, Dumped, disp = "drain"
  PROVE  {c.x : c \in chunks} = 1 .. Chunks
<1>1. /\ chunks \subseteq [cmd : {"chunk"}, life : {life}, x : 1 .. Chunks]
      /\ IsFiniteSet(chunks) /\ Cardinality(chunks) = Chunks /\ Chunks \in Nat
  BY StartFacts DEF Typed, TypedOutput, ShownIsThisRun, Dumped
<1> DEFINE f == [c \in chunks |-> c.x]
<1>2. f \in Injection(chunks, 1 .. Chunks)
  <2>1. f \in [chunks -> 1 .. Chunks]
    BY <1>1
  <2>2. ASSUME NEW c \in chunks, NEW d \in chunks, f[c] = f[d] PROVE c = d
    BY <1>1, <2>2
  <2> QED
    BY <2>1, <2>2 DEF Injection, IsInjective
<1>3. IsFiniteSet(1 .. Chunks) /\ Cardinality(1 .. Chunks) = Chunks
  BY <1>1, FS_Interval
<1>4. f \in Surjection(chunks, 1 .. Chunks)
  BY <1>1, <1>2, <1>3, FS_Injection
<1>5. \A n \in 1 .. Chunks : \E c \in chunks : c.x = n
  BY <1>4 DEF Surjection
<1> QED
  BY <1>1, <1>5

LEMMA ExitTruthNext == ASSUME IInv, [Next]_vars PROVE ExitTruth'
<1>0. Typed /\ Phases /\ Interrupted /\ Dumped /\ ExitTruth /\ ShownIsThisRun /\ NotBegun
  BY DEF IInv, Ending, Streamed
<1>1. CASE exit' \notin {"0", "130"}
  BY <1>1 DEF ExitTruth
<1>2. CASE exit' \in {"0", "130"} /\ ~Alive
  <2>1. ~Relaunch
    BY <1>2 DEF Relaunch
  <2>2. UNCHANGED <<exit, reason, life, chunks, sigs, flagN, cpuStarted>>
    <3>1. CASE Main \/ AskRestart \/ Timeout \/ Read \/ Dispatcher
      BY <1>2, <3>1 DEF Main, HearBeacon, Call, Answered, Begin, AskRestart, Timeout, Read, Dispatcher,
                        Restarted, Answer, Trace, Fault, Chunk, ExitWithReason, Next1, Alive
    <3>2. CASE Interrupt \/ SendSigint \/ ObeySigint \/ Die \/ EndOfInput
      BY <1>2, <3>2 DEF Interrupt, SendSigint, ObeySigint, Die, EndOfInput, Alive
    <3>3. CASE PicoLoop \/ Beacon \/ RunEnds \/ UNCHANGED vars
      BY <3>3 DEF PicoLoop, PicoRestart, PicoConfig, PicoUpload, PicoStart, PicoSigint, SendTrace,
                  SendDump, Beacon, RunEnds, vars, caller, output, user
    <3> QED
      BY <2>1, <3>1, <3>2, <3>3 DEF Next
  <2> QED
    BY <1>0, <2>2 DEF ExitTruth, Packet
<1>3. CASE exit' \in {"0", "130"} /\ Alive
  <2>1. exit = "none"
    BY <1>0, <1>3 DEF Phases
  <2>2. ExitWithReason \/ ObeySigint \/ EndOfInput
    <3>1. ~(UNCHANGED exit)
      BY <1>3, <2>1
    <3>2. ~(Main \/ AskRestart \/ Read \/ Interrupt \/ SendSigint)
      BY <3>1 DEF Main, HearBeacon, Call, Answered, Begin, AskRestart, Read, Interrupt, SendSigint
    <3>3. ~(PicoLoop \/ Beacon \/ RunEnds \/ UNCHANGED vars)
      BY <3>1 DEF PicoLoop, PicoRestart, PicoConfig, PicoUpload, PicoStart, PicoSigint, SendTrace,
                  SendDump, Beacon, RunEnds, vars
    <3>4. ~(Restarted \/ Answer \/ Trace \/ Fault \/ Chunk)
      BY <3>1 DEF Restarted, Answer, Trace, Fault, Chunk
    <3>5. ~(Timeout \/ Die \/ Relaunch)
      BY <1>3 DEF Timeout, Die, Relaunch, Exit
    <3> QED
      BY <3>2, <3>3, <3>4, <3>5 DEF Next, Dispatcher
  <2>3. CASE ObeySigint
    <3>1. exit' = "130" /\ UNCHANGED <<sigs>> /\ sigs > 0
      BY <1>0, <2>3 DEF ObeySigint, Exit, user, Phases, Typed, TypedUser
    <3> QED
      BY <3>1 DEF ExitTruth
  <2>4. CASE ExitWithReason
    <3>1. /\ disp = "drain" /\ UNCHANGED <<reason, life, chunks, sigs, cpuStarted>>
          /\ exit' = CASE reason.x = 1 -> "0" [] reason.x = 2 -> "130" [] OTHER -> "1"
      BY <1>3, <2>1, <2>4 DEF ExitWithReason, Exit, user
    <3>2. /\ exit' = "0" => reason.x = 1
          /\ exit' = "130" => reason.x = 2
      BY <3>1, Zenon
    <3>3. reason.x # 0 => reason = Packet("fault", life, reason.x)
      <4>1. reason = None \/ (reason \in [cmd : {"fault"}, life : 1 .. life, x : 1 .. 3] /\ reason.life = life)
        BY <1>0 DEF Typed, TypedOutput, ShownIsThisRun
      <4>2. None.x = 0
        BY DEF None
      <4> QED
        BY <4>1, <4>2 DEF Packet
    <3>4. {c.x : c \in chunks} = 1 .. Chunks
      BY <1>0, <3>1, WholeDump
    <3>5. exit' = "0" => reason = Packet("fault", life, 1)
      BY <3>2, <3>3
    <3>6. exit' = "130" => sigs > 0
      BY <1>0, <3>2, <3>3 DEF Interrupted
    <3>7. Packet("fault", life, 1)' = Packet("fault", life, 1) /\ {c.x : c \in chunks}' = {c.x : c \in chunks}
      BY <3>1 DEF Packet
    <3>8. cpuStarted'
      BY <1>0, <3>1 DEF NotBegun, Typed, TypedCaller
    <3> QED
      BY <3>1, <3>4, <3>5, <3>6, <3>7, <3>8 DEF ExitTruth
  <2>5. CASE EndOfInput
    <3>1. exit' = "0" /\ cpuStarted' /\ ~flagN'
      BY <1>0, <2>5 DEF EndOfInput, Exit, user, Phases
    <3> QED
      BY <3>1 DEF ExitTruth
  <2> QED
    BY <2>2, <2>3, <2>4, <2>5
<1> QED
  BY <1>1, <1>2, <1>3

LEMMA EndingNext == ASSUME IInv, [Next]_vars PROVE Ending'
  BY PhasesNext, InterruptedNext, DumpedNext, ExitTruthNext DEF Ending

-----------------------------------------------------------------------------
(* How many calls are open.                                                *)

LEMMA OpenWithin ==
  ASSUME \A p \in Range(inbox') \cup Range(up') \cup Range(toPico') :
           IsCall(p) => \E q \in Range(inbox) \cup Range(up) \cup Range(toPico) :
                          IsCall(q) /\ q.life = p.life /\ q.x = p.x
  PROVE  Open' \subseteq Open
<1> SUFFICES ASSUME NEW c \in Open' PROVE c \in Open
  OBVIOUS
<1>1. PICK p \in Range(inbox') \cup Range(up') \cup Range(toPico') : IsCall(p) /\ c = <<p.life, p.x>>
  BY DEF Open, IsCall
<1>2. PICK q \in Range(inbox) \cup Range(up) \cup Range(toPico) :
        IsCall(q) /\ q.life = p.life /\ q.x = p.x
  BY <1>1
<1> QED
  BY <1>1, <1>2 DEF Open

LEMMA OpenCovers ==
  ASSUME \A q \in Range(inbox) \cup Range(up) \cup Range(toPico) :
           IsCall(q) => \E p \in Range(inbox') \cup Range(up') \cup Range(toPico') :
                          IsCall(p) /\ q.life = p.life /\ q.x = p.x
  PROVE  Open \subseteq Open'
<1> SUFFICES ASSUME NEW c \in Open PROVE c \in Open'
  OBVIOUS
<1>1. PICK q \in Range(inbox) \cup Range(up) \cup Range(toPico) : IsCall(q) /\ c = <<q.life, q.x>>
  BY DEF Open, IsCall
<1>2. PICK p \in Range(inbox') \cup Range(up') \cup Range(toPico') :
        IsCall(p) /\ q.life = p.life /\ q.x = p.x
  BY <1>1
<1>3. c = <<p.life, p.x>>
  BY <1>1, <1>2
<1> QED
  BY <1>2, <1>3 DEF Open, IsCall

LEMMA FewKeep ==
  ASSUME IInv, UNCHANGED <<life>>, Open' \subseteq Open, Owed => Owed'
  PROVE  FewOpen'
<1>1. IsFiniteSet(Open) /\ Cardinality(Open) \in Nat /\ life \in Nat
  BY OpenFacts, Facts DEF IInv
<1>2. IsFiniteSet(Open') /\ Cardinality(Open') \in Nat /\ Cardinality(Open') <= Cardinality(Open)
  BY <1>1, FS_Subset, FS_CardinalityType
<1>3. Cardinality(Open) + (IF Owed THEN 0 ELSE 1) <= life
  BY DEF IInv, Counted, FewOpen
<1> DEFINE c == Cardinality(Open)
           d == Cardinality(Open')
<1>4. d + (IF Owed' THEN 0 ELSE 1) <= life
  <2>1. c \in Nat /\ d \in Nat /\ d <= c /\ c + (IF Owed THEN 0 ELSE 1) <= life
    BY <1>1, <1>2, <1>3
  <2> HIDE DEF c, d
  <2> QED
    BY <1>1, <2>1
<1> QED
  BY <1>2, <1>4 DEF FewOpen

LEMMA NotAheadKeep ==
  ASSUME IInv, UNCHANGED <<life>>, Alive' => Alive, Alive' => Open' = Open,
         Alive' => (Unanswered' <=> Unanswered),
         Alive' => k' + (IF Taken' THEN 1 ELSE 0) = k + (IF Taken THEN 1 ELSE 0), k' \in Nat,
         Alive' /\ ~Unanswered => /\ cfg' = life
                                  /\ \A p \in Range(inbox') \cup Range(up') :
                                       IsRestarted(p) => p \in Range(inbox) \cup Range(up)
  PROVE  NotAhead'
<1>1. SUFFICES ASSUME Alive' PROVE IF Unanswered'
                                   THEN Cardinality(Stale') + k' + (IF Taken' THEN 1 ELSE 0) <= life
                                   ELSE /\ Stale' = {} /\ cfg' = life
                                        /\ \A p \in Range(inbox') \cup Range(up') : ~IsRestarted(p)
  BY DEF NotAhead, IsRestarted
<1>2. Stale' = Stale /\ Alive /\ NotAhead
  BY <1>1 DEF Stale, IInv, Counted
<1>3. CASE Unanswered
  <2> DEFINE c == Cardinality(Stale)
             t == IF Taken THEN 1 ELSE 0
             u == IF Taken' THEN 1 ELSE 0
  <2>1. c + k + t <= life /\ c \in Nat /\ life \in Nat /\ k \in Nat
    BY <1>2, <1>3, OpenFacts, Facts DEF NotAhead, IInv
  <2>2. k' + u = k + t /\ t \in Nat /\ u \in Nat
    BY <1>1
  <2>3. c + k' + u <= life
    <3> DEFINE n == k'
    <3>1. n \in Nat /\ n + u = k + t
      BY <2>2
    <3> HIDE DEF c, t, u, n
    <3>2. c + n + u <= life
      BY <2>1, <2>2, <3>1
    <3> QED
      BY <3>2 DEF n
  <2> QED
    BY <1>1, <1>2, <1>3, <2>3
<1>4. CASE ~Unanswered
  BY <1>1, <1>2, <1>4 DEF NotAhead
<1> QED
  BY <1>3, <1>4

\* Steps that leave the calls under way, and what the Pico is configured by.
LEMMA CountedStill ==
  ASSUME IInv, UNCHANGED <<life, cfg>>, Open' = Open, Alive' => Alive, Owed => Owed',
         \A p \in Range(inbox') \cup Range(up') :
           IsRestarted(p) \/ p.cmd = "answer" => p \in Range(inbox) \cup Range(up),
         Alive' => (Unanswered' <=> Unanswered),
         Alive' => k' + (IF Taken' THEN 1 ELSE 0) = k + (IF Taken THEN 1 ELSE 0), k' \in Nat
  PROVE  Counted'
<1>1. FewOpen'
  BY FewKeep
<1>2. AnswersConfigured'
  BY DEF IInv, Counted, AnswersConfigured
<1>3. Alive' /\ ~Unanswered => cfg' = life
  BY DEF IInv, Counted, NotAhead
<1>4. NotAhead'
  BY <1>3, NotAheadKeep
<1> QED
  BY <1>1, <1>2, <1>4 DEF Counted

\* And those among them that leave main where it is.
LEMMA CountedMoved ==
  ASSUME IInv, UNCHANGED <<life, cfg, k, reply>>, main' \in {main, "gone"}, Open' = Open,
         \A p \in Range(inbox') \cup Range(up') :
           IsRestarted(p) \/ p.cmd = "answer" => p \in Range(inbox) \cup Range(up)
  PROVE  Counted'
<1>1. (Alive' => Alive) /\ (Owed => Owed')
  BY DEF Alive, Owed
<1>2. Alive' => (Unanswered' <=> Unanswered) /\ (Taken' <=> Taken)
  BY DEF Alive, Unanswered, Taken
<1>3. k' \in Nat
  BY Facts DEF IInv
<1> QED
  BY <1>1, <1>2, <1>3, CountedStill

LEMMA CountedMain == ASSUME IInv, HearBeacon \/ Answered \/ Begin PROVE Counted'
<1>0. Typed /\ Waiting
  BY DEF IInv, Calling
<1>1. /\ UNCHANGED <<life, cfg, toPico, up, inbox, reply>> /\ Alive /\ Alive'
  BY DEF HearBeacon, Answered, Begin, wire, output, board, Alive
<1>2. Open' = Open
  BY <1>1 DEF Open, IsCall
<1>3. k \in 1 .. Start /\ Start \in Nat
  BY <1>0, Facts
<1>4. CASE HearBeacon
  <2>1. main = "beacon" /\ main' = "call" /\ k = 1 /\ k' = k
    BY <1>0, <1>4 DEF HearBeacon, Waiting
  <2>2. ~Owed /\ Unanswered /\ Unanswered' /\ ~Taken /\ ~Taken'
    BY <2>1 DEF Owed, Unanswered, Taken
  <2> QED
    BY <1>1, <1>2, <1>3, <2>1, <2>2, CountedStill
<1>5. CASE Answered
  <2>1. /\ main = "await" /\ reply # None /\ reply' = reply
        /\ (main' = "started" /\ k' = k) \/ (main' = "call" /\ k' = k + 1)
    BY <1>5 DEF Answered
  <2>2. k' \in Nat /\ (main' = "call" => k' # 1)
    BY <1>3, <2>1
  <2>3. ~Owed /\ (Unanswered' <=> Unanswered)
    BY <1>1, <1>2, <2>1, <2>2 DEF Owed, Unanswered
  <2>4. k' + (IF Taken' THEN 1 ELSE 0) = k + (IF Taken THEN 1 ELSE 0)
    BY <1>3, <2>1 DEF Taken
  <2> QED
    BY <1>1, <1>2, <2>2, <2>3, <2>4, CountedStill
<1>6. CASE Begin
  <2>1. main = "started" /\ main' = "running" /\ k' = k
    BY <1>6 DEF Begin
  <2>2. ~Owed /\ (Unanswered' <=> Unanswered) /\ Taken /\ Taken'
    BY <1>1, <1>2, <2>1 DEF Owed, Unanswered, Taken
  <2> QED
    BY <1>1, <1>2, <1>3, <2>1, <2>2, CountedStill
<1> QED
  BY <1>4, <1>5, <1>6

LEMMA CountedCall == ASSUME IInv, Call PROVE Counted'
<1> DEFINE p == Packet("rpc", life, k)
           c == Cardinality(Open)
           d == Cardinality(Open')
<1>0. Typed
  BY DEF IInv
<1>1. /\ life \in Nat /\ life \in 1 .. life /\ k \in 1 .. Start /\ Start \in Nat
      /\ toPico \in Seq(DownPackets(life))
  BY <1>0, Facts
<1>2. /\ toPico' = Append(toPico, p) /\ UNCHANGED <<life, cfg, up, inbox, k>> /\ reply' = None
      /\ main = "call" /\ main' = "await"
  BY DEF Call, output, board
<1>3. p \in DownPackets(life) /\ p.x = k /\ p.life = life /\ IsCall(p)
  BY <1>1, Sent DEF Packet, IsCall
<1> HIDE DEF p
<1>4. Range(toPico') = Range(toPico) \cup {p}
  BY <1>1, <1>2, <1>3, Appended
<1>5. Open' = Open \cup {<<life, k>>}
  <2>1. \A x : x \in Open' <=> \E q \in Range(inbox) \cup Range(up) \cup (Range(toPico) \cup {p}) :
                                 IsCall(q) /\ x = <<q.life, q.x>>
    BY <1>2, <1>4 DEF Open, IsCall
  <2>2. \A x : x \in Open <=> \E q \in Range(inbox) \cup Range(up) \cup Range(toPico) :
                                IsCall(q) /\ x = <<q.life, q.x>>
    BY DEF Open
  <2> QED
    BY <1>3, <2>1, <2>2
<1>6. IsFiniteSet(Open') /\ d \in Nat /\ d <= c + 1 /\ c \in Nat
  <2>1. IsFiniteSet(Open) /\ Cardinality(Open) \in Nat
    BY OpenFacts
  <2>2. IsFiniteSet(Open') /\ (d = c \/ d = c + 1)
    BY <1>5, <2>1, FS_AddElement
  <2> QED
    BY <2>1, <2>2
<1>7. FewOpen'
  <2>1. c + 1 <= life
    BY <1>2 DEF IInv, Counted, FewOpen, Owed
  <2>2. Owed'
    BY <1>2 DEF Owed
  <2>3. d + 0 <= life
    <3> HIDE DEF c, d
    <3> QED
      BY <1>1, <1>6, <2>1
  <2> QED
    BY <1>2, <1>6, <2>2, <2>3 DEF FewOpen
<1>8. Stale' = Stale
  <2>1. <<life, k>>[1] = life
    OBVIOUS
  <2> QED
    BY <1>2, <1>5, <2>1 DEF Stale
<1>9. Unanswered' <=> Unanswered
  <2>1. k # 1 => <<life, 1>> # <<life, k>>
    OBVIOUS
  <2> QED
    BY <1>2, <1>5, <2>1 DEF Unanswered
<1>10. ~Taken /\ ~Taken' /\ Alive
  BY <1>2 DEF Taken, Alive
<1>11. NotAhead'
  BY <1>2, <1>8, <1>9, <1>10 DEF IInv, Counted, NotAhead, IsRestarted
<1>12. AnswersConfigured'
  BY <1>2 DEF IInv, Counted, AnswersConfigured
<1> QED
  BY <1>7, <1>11, <1>12 DEF Counted

\* The first of all answers is taken out of the inbox, and only that.
LEMMA CountedAnswer == ASSUME IInv, Answer PROVE Counted'
<1> DEFINE h == Head(inbox)
           c == Cardinality(Open)
           d == Cardinality(Open')
           e == Cardinality(Stale)
           f == Cardinality(Stale')
<1>0. Typed /\ Ordered /\ Waiting
  BY DEF IInv, Calling
<1>1. /\ life \in Nat /\ k \in 1 .. Start /\ Start \in Nat
      /\ \A q \in Range(toPico) : IsDown(q) /\ q.life \in 1 .. life /\ q.x \in Nat
      /\ \A q \in Range(inbox) \cup Range(up) : q.life \in 0 .. life /\ q.x \in Nat
  BY <1>0, Facts
<1>2. /\ UNCHANGED <<life, main, k, cfg, up, toPico>> /\ h \in Range(inbox) /\ h.cmd = "answer"
      /\ inbox # << >> /\ inbox' = Tail(inbox) /\ Alive
  BY <1>0, Got DEF Answer, wire, board
<1>3. /\ Range(inbox) = {h} \cup Range(inbox')
      /\ \A q \in Range(inbox') \cup Range(up) \cup Range(toPico) : Before(h, q, life)
  BY <1>0, <1>2, OrderedTake
<1>t. Taken' => Taken \/ Owed
  BY <1>2 DEF Taken, Owed
<1>o. Owed' => Owed
  <2>1. reply' = reply \/ reply' = h
    BY DEF Answer
  <2>2. h # None
    BY <1>2 DEF None
  <2> QED
    BY <1>2, <2>1, <2>2 DEF Owed
<1> HIDE DEF h
<1>4. h.life \in 0 .. life /\ h.x \in Nat /\ IsCall(h)
  BY <1>1, <1>2 DEF IsCall
<1>5. ASSUME NEW q \in Range(inbox') \cup Range(up) \cup Range(toPico), IsCall(q)
      PROVE  q.life > h.life \/ (q.life = h.life /\ q.x > h.x)
  <2>1. Lex(h, q)
    BY <1>2, <1>3, <1>5 DEF Before, IsDown, IsCall
  <2>2. Rank(h) = h.x /\ Rank(q) = q.x
    BY <1>2, <1>5 DEF Rank, IsCall
  <2>3. q.life \in Nat /\ q.x \in Nat
    BY <1>1, <1>3, <1>5
  <2> QED
    BY <1>2, <1>4, <2>1, <2>2, <2>3 DEF Lex
<1>6. \A x : x \in Open <=> \/ x = <<h.life, h.x>>
                            \/ \E q \in Range(inbox') \cup Range(up) \cup Range(toPico) :
                                 IsCall(q) /\ x = <<q.life, q.x>>
  <2>1. \A x : x \in Open <=> \E q \in ({h} \cup Range(inbox')) \cup Range(up) \cup Range(toPico) :
                                IsCall(q) /\ x = <<q.life, q.x>>
    BY <1>3 DEF Open
  <2> QED
    BY <1>4, <2>1
<1>7. \A x : x \in Open' <=> \E q \in Range(inbox') \cup Range(up) \cup Range(toPico) :
                               IsCall(q) /\ x = <<q.life, q.x>>
  BY <1>2 DEF Open, IsCall
<1>8. <<h.life, h.x>> \notin Open'
  <2> SUFFICES ASSUME NEW q \in Range(inbox') \cup Range(up) \cup Range(toPico), IsCall(q),
                      <<h.life, h.x>> = <<q.life, q.x>>
               PROVE  FALSE
    BY <1>7
  <2>1. h.life = q.life /\ h.x = q.x
    OBVIOUS
  <2> QED
    BY <1>4, <1>5, <2>1
<1>9. Open' = Open \ {<<h.life, h.x>>} /\ <<h.life, h.x>> \in Open
  BY <1>6, <1>7, <1>8
<1>10. /\ IsFiniteSet(Open') /\ c \in Nat /\ d \in Nat /\ d = c - 1
  <2>1. IsFiniteSet(Open) /\ Cardinality(Open) \in Nat
    BY OpenFacts
  <2>2. IsFiniteSet(Open') /\ d = c - 1
    BY <1>9, <2>1, FS_RemoveElement
  <2> QED
    BY <2>1, <2>2, FS_CardinalityType
<1>11. FewOpen'
  <2>1. c + (IF Owed THEN 0 ELSE 1) <= life
    BY DEF IInv, Counted, FewOpen
  <2>2. d + (IF Owed' THEN 0 ELSE 1) <= life
    <3> HIDE DEF c, d
    <3> QED
      BY <1>1, <1>10, <1>o, <2>1
  <2> QED
    BY <1>2, <1>10, <2>2 DEF FewOpen
<1>12. AnswersConfigured'
  BY <1>2, <1>3 DEF IInv, Counted, AnswersConfigured
<1>13. NotAhead'
  <2>1. CASE h.life = life
    <3>1. cfg = life
      BY <1>2, <2>1 DEF IInv, Counted, AnswersConfigured
    <3>2. \A q \in Range(inbox') \cup Range(up) : ~IsRestarted(q)
      BY <1>2, <1>3, <2>1 DEF Before
    <3>3. ASSUME NEW x \in Open' PROVE x[1] = life /\ x # <<life, 1>>
      <4>1. PICK q \in Range(inbox') \cup Range(up) \cup Range(toPico) : IsCall(q) /\ x = <<q.life, q.x>>
        BY <1>7, <3>3
      <4>2. q.life = life /\ q.x > h.x /\ q.x \in Nat
        <5>1. q.life \in 0 .. life /\ q.x \in Nat
          BY <1>1, <1>3, <4>1
        <5>2. q.life > h.life \/ (q.life = h.life /\ q.x > h.x)
          BY <1>5, <4>1
        <5> QED
          BY <1>1, <2>1, <5>1, <5>2
      <4>3. h.x >= 1
        BY <1>0, <1>2, Facts
      <4>4. q.x # 1
        BY <1>4, <4>2, <4>3
      <4> QED
        BY <4>1, <4>2, <4>4
    <3>4. Stale' = {}
      BY <1>2, <3>3 DEF Stale
    <3>5. ~Unanswered'
      <4>1. h.x <= Made /\ h.x >= 1
        BY <1>0, <1>2, <1>4, <2>1, Facts DEF IInv, Calling, OwnMade
      <4>2. ~(main = "beacon") /\ ~(main = "call" /\ k = 1)
        BY <1>1, <1>4, <4>1 DEF Made
      <4> QED
        BY <1>2, <3>3, <4>2 DEF Unanswered
    <3> QED
      BY <1>2, <3>1, <3>2, <3>4, <3>5 DEF NotAhead, IsRestarted
  <2>2. CASE h.life # life
    <3>1. <<h.life, h.x>>[1] = h.life
      OBVIOUS
    <3>2. <<h.life, h.x>> \in Stale /\ Stale' = Stale \ {<<h.life, h.x>>}
      BY <1>2, <1>9, <2>2, <3>1 DEF Stale
    <3>3. f = e - 1 /\ e \in Nat /\ f \in Nat
      <4>1. IsFiniteSet(Stale) /\ Cardinality(Stale) \in Nat
        BY OpenFacts
      <4>2. IsFiniteSet(Stale') /\ f = e - 1
        BY <3>2, <4>1, FS_RemoveElement
      <4> QED
        BY <4>1, <4>2, FS_CardinalityType
    <3>4. Unanswered
      BY <1>2, <3>2 DEF IInv, Counted, NotAhead
    <3>5. Unanswered'
      <4>1. <<life, 1>> # <<h.life, h.x>>
        BY <2>2
      <4> QED
        BY <1>2, <1>9, <3>4, <4>1 DEF Unanswered
    <3>6. e + k + (IF Taken THEN 1 ELSE 0) <= life
      BY <1>2, <3>4 DEF IInv, Counted, NotAhead
    <3>7. f + k + (IF Taken' THEN 1 ELSE 0) <= life
      <4> HIDE DEF e, f
      <4> QED
        BY <1>1, <3>3, <3>6
    <3> QED
      BY <1>2, <3>5, <3>7 DEF NotAhead
  <2> QED
    BY <2>1, <2>2
<1> QED
  BY <1>11, <1>12, <1>13 DEF Counted

\* What the Pico sends of itself, and what it is told that is no call.
LEMMA CountedSends ==
  ASSUME IInv, NEW p \in UpPackets(life), Send(p), ~IsCall(p), UNCHANGED <<life, main, k, reply, inbox, cfg>>,
         Range(toPico) \subseteq Range(toPico') \cup {q \in Range(toPico) : ~IsCall(q)},
         Range(toPico') \subseteq Range(toPico),
         IsRestarted(p) /\ Alive => Unanswered
  PROVE  Counted'
<1>0. Typed
  BY DEF IInv
<1>1. up' = up \/ (up' = Append(up, p) /\ Range(up') = Range(up) \cup {p})
  BY <1>0, WasSent
<1>2. Open' \subseteq Open
  <2> SUFFICES ASSUME NEW q \in Range(inbox') \cup Range(up') \cup Range(toPico'), IsCall(q)
               PROVE  q \in Range(inbox) \cup Range(up) \cup Range(toPico)
    BY OpenWithin
  <2> QED
    BY <1>1
<1>3. Open \subseteq Open'
  <2> SUFFICES ASSUME NEW q \in Range(inbox) \cup Range(up) \cup Range(toPico), IsCall(q)
               PROVE  q \in Range(inbox') \cup Range(up') \cup Range(toPico')
    BY OpenCovers
  <2> QED
    BY <1>1
<1>4. Open' = Open
  BY <1>2, <1>3
<1>5. /\ Alive' = Alive /\ Owed' = Owed /\ Taken' = Taken /\ (Unanswered' <=> Unanswered) /\ k' \in Nat
  BY <1>0, <1>4, Facts DEF Alive, Owed, Taken, Unanswered
<1>6. FewOpen'
  BY <1>4, <1>5, FewKeep
<1>7. AnswersConfigured'
  <2>1. p.cmd # "answer"
    BY DEF IsCall
  <2> QED
    BY <1>1, <2>1 DEF IInv, Counted, AnswersConfigured
<1>8. NotAhead'
  <2>1. ASSUME Alive, ~Unanswered
        PROVE  /\ cfg' = life
               /\ \A q \in Range(inbox') \cup Range(up') : IsRestarted(q) => q \in Range(inbox) \cup Range(up)
    BY <1>1, <2>1 DEF IInv, Counted, NotAhead
  <2> QED
    BY <1>4, <1>5, <2>1, NotAheadKeep
<1> QED
  BY <1>6, <1>7, <1>8 DEF Counted

\* A call becomes its answer.
LEMMA CountedServe == ASSUME IInv, PicoConfig \/ PicoUpload \/ PicoStart PROVE Counted'
<1> DEFINE h == Head(toPico)
           a == Packet("answer", h.life, h.x)
<1>0. Typed /\ Ordered
  BY DEF IInv
<1>1. Receive("rpc") /\ Send(a) /\ UNCHANGED <<life, main, k, reply, inbox>>
  BY DEF PicoConfig, PicoUpload, PicoStart, caller, output
<1>2. /\ h \in Range(toPico) /\ h.cmd = "rpc" /\ Range(toPico) = {h} \cup Range(toPico')
      /\ h.life \in 1 .. life /\ h.x \in 1 .. Start /\ a \in UpPackets(life)
      /\ up \in Seq(UpPackets(life)) /\ life \in Nat /\ life >= 1 /\ Start \in Nat /\ Start >= 3
  BY <1>0, <1>1, Received, HeadFirst, Sent, Facts
<1>3. a.cmd = "answer" /\ a.life = h.life /\ a.x = h.x /\ IsCall(a) /\ ~IsRestarted(a) /\ IsCall(h)
  BY <1>2 DEF Packet, IsCall, IsRestarted
<1>4. /\ \/ PicoConfig /\ h.x = 1 /\ cfg' = h.life
         \/ h.x > 1 /\ cfg' = cfg /\ cfg = h.life
  <2>1. h.x > 1 => cfg = h.life
    BY <1>1, CarriedOut DEF Carried
  <2> QED
    BY <1>2, <2>1 DEF PicoConfig, PicoUpload, PicoStart, Method
<1> HIDE DEF a, h
<1>5. up' = Append(up, a) \/ (~Alive /\ up' = up)
  BY <1>1 DEF Send
<1>6. Range(Append(up, a)) = Range(up) \cup {a}
  BY <1>2, Appended
<1>7. Open' \subseteq Open
  <2> SUFFICES ASSUME NEW q \in Range(inbox') \cup Range(up') \cup Range(toPico'), IsCall(q)
               PROVE  \E r \in Range(inbox) \cup Range(up) \cup Range(toPico) :
                        IsCall(r) /\ r.life = q.life /\ r.x = q.x
    BY OpenWithin
  <2> QED
    BY <1>1, <1>2, <1>3, <1>5, <1>6
<1>8. Alive => Open' = Open
  <2> SUFFICES ASSUME Alive PROVE Open \subseteq Open'
    BY <1>7
  <2> SUFFICES ASSUME NEW q \in Range(inbox) \cup Range(up) \cup Range(toPico), IsCall(q)
               PROVE  \E r \in Range(inbox') \cup Range(up') \cup Range(toPico') :
                        IsCall(r) /\ q.life = r.life /\ q.x = r.x
    BY OpenCovers
  <2>1. CASE q = h
    BY <1>3, <1>5, <1>6, <2>1
  <2>2. CASE q # h
    BY <1>1, <1>2, <1>5, <1>6, <2>2
  <2> QED
    BY <2>1, <2>2
<1>9. /\ Alive' = Alive /\ Owed' = Owed /\ Taken' = Taken /\ k' \in Nat
      /\ Alive => (Unanswered' <=> Unanswered)
  BY <1>0, <1>1, <1>8, Facts DEF Alive, Owed, Taken, Unanswered
<1>10. FewOpen'
  BY <1>1, <1>7, <1>9, FewKeep
<1>11. AnswersConfigured'
  <2> SUFFICES ASSUME NEW q \in Range(inbox') \cup Range(up'), q.cmd = "answer", q.life = life PROVE cfg' = life
    BY <1>1 DEF AnswersConfigured
  <2>1. CASE q = a
    BY <1>3, <1>4, <2>1
  <2>2. CASE q # a
    <3>1. q \in Range(inbox) \cup Range(up)
      BY <1>1, <1>5, <1>6, <2>2
    <3>2. /\ cfg = life /\ h.x > 1
      BY <1>2, <3>1, AnswerKnown
    <3> QED
      BY <1>4, <3>2
  <2> QED
    BY <2>1, <2>2
<1>12. NotAhead'
  <2>1. ASSUME Alive, ~Unanswered
        PROVE  /\ cfg' = life
               /\ \A q \in Range(inbox') \cup Range(up') : IsRestarted(q) => q \in Range(inbox) \cup Range(up)
    <3>1. Stale = {} /\ cfg = life
      BY <2>1 DEF IInv, Counted, NotAhead
    <3>2. h.life = life
      <4>1. <<h.life, h.x>> \in Open
        BY <1>2, <1>3 DEF Open
      <4>2. <<h.life, h.x>>[1] = h.life
        OBVIOUS
      <4> QED
        BY <3>1, <4>1, <4>2 DEF Stale
    <3> QED
      BY <1>1, <1>3, <1>4, <1>5, <1>6, <3>1, <3>2
  <2> QED
    BY <1>1, <1>8, <1>9, <2>1, NotAheadKeep
<1> QED
  BY <1>10, <1>11, <1>12 DEF Counted

LEMMA CountedPico == ASSUME IInv, PicoLoop \/ Beacon \/ RunEnds PROVE Counted'
<1>0. Typed /\ Ordered
  BY DEF IInv
<1>1. /\ life \in Nat /\ life \in 1 .. life /\ life >= 1 /\ Chunks \in Nat /\ run \in 0 .. life
      /\ cfg \in 0 .. life /\ \A q \in Range(toPico) : q.life \in 1 .. life
  BY <1>0, Facts, StartFacts DEF Typed, TypedBoard
<1>2. UNCHANGED <<life, main, k, reply, inbox>>
  BY DEF PicoLoop, PicoRestart, PicoConfig, PicoUpload, PicoStart, PicoSigint, SendTrace, SendDump,
         Beacon, RunEnds, caller, output
<1>a. ASSUME NEW c, Receive(c)
      PROVE  /\ Range(toPico) = {Head(toPico)} \cup Range(toPico') /\ Head(toPico) \in Range(toPico)
             /\ Head(toPico).cmd = c
  BY <1>0, <1>a, Received, HeadFirst
<1>3. CASE PicoRestart
  <2>1. /\ Range(toPico) = {Head(toPico)} \cup Range(toPico') /\ Head(toPico) \in Range(toPico)
        /\ Head(toPico).cmd = "restart"
    BY <1>3, <1>a DEF PicoRestart
  <2>2. Send(Packet("restarted", 0, 0)) /\ cfg' = 0
    BY <1>3 DEF PicoRestart
  <2>3. Packet("restarted", 0, 0) \in UpPackets(life) /\ ~IsCall(Packet("restarted", 0, 0))
    BY <1>1, Sent DEF Packet, IsCall
  <2>4. cfg # life
    BY <1>1, <2>1 DEF IInv, PicoKnows, AfterConfig
  <2>5. Alive => Unanswered
    BY <2>4 DEF IInv, Counted, NotAhead
  <2>6. ~IsCall(Head(toPico))
    BY <2>1 DEF IsCall
  <2>7. Range(toPico) \subseteq Range(toPico') \cup {q \in Range(toPico) : ~IsCall(q)}
        /\ Range(toPico') \subseteq Range(toPico)
    BY <2>1, <2>6
  <2>8. up' = up \/ Range(up') = Range(up) \cup {Packet("restarted", 0, 0)}
    BY <1>0, <2>2, <2>3, WasSent
  <2>9. Open' = Open
    <3>1. Open' \subseteq Open
      <4> SUFFICES ASSUME NEW q \in Range(inbox') \cup Range(up') \cup Range(toPico'), IsCall(q)
                   PROVE  q \in Range(inbox) \cup Range(up) \cup Range(toPico)
        BY OpenWithin
      <4> QED
        BY <1>2, <2>3, <2>7, <2>8
    <3>2. Open \subseteq Open'
      <4> SUFFICES ASSUME NEW q \in Range(inbox) \cup Range(up) \cup Range(toPico), IsCall(q)
                   PROVE  q \in Range(inbox') \cup Range(up') \cup Range(toPico')
        BY OpenCovers
      <4> QED
        BY <1>2, <2>7, <2>8
    <3> QED
      BY <3>1, <3>2
  <2>10. /\ Alive' = Alive /\ Owed' = Owed /\ Taken' = Taken /\ (Unanswered' <=> Unanswered) /\ k' \in Nat
    BY <1>0, <1>2, <2>9, Facts DEF Alive, Owed, Taken, Unanswered
  <2>11. FewOpen'
    BY <1>2, <2>9, <2>10, FewKeep
  <2>12. NotAhead'
    BY <1>2, <2>5, <2>9, <2>10, NotAheadKeep
  <2>13. AnswersConfigured'
    <3>1. \A q \in Range(inbox) \cup Range(up) : ~(q.cmd = "answer" /\ q.life = life)
      BY <2>4, AnswerKnown
    <3>2. Packet("restarted", 0, 0).cmd # "answer"
      BY DEF Packet
    <3> QED
      BY <1>2, <2>8, <3>1, <3>2 DEF AnswersConfigured
  <2> QED
    BY <2>11, <2>12, <2>13 DEF Counted
<1>4. CASE PicoConfig \/ PicoUpload \/ PicoStart
  BY <1>4, CountedServe
<1>5. CASE PicoSigint
  <2>1. /\ Range(toPico) = {Head(toPico)} \cup Range(toPico') /\ Head(toPico).cmd = "sigint"
        /\ UNCHANGED <<up, cfg>>
    BY <1>5, <1>a DEF PicoSigint
  <2>2. ~IsCall(Head(toPico))
    BY <2>1 DEF IsCall
  <2>3. Open' = Open
    <3>1. Open' \subseteq Open
      BY <1>2, <2>1, OpenWithin
    <3>2. Open \subseteq Open'
      <4> SUFFICES ASSUME NEW q \in Range(inbox) \cup Range(up) \cup Range(toPico), IsCall(q)
                   PROVE  q \in Range(inbox') \cup Range(up') \cup Range(toPico')
        BY OpenCovers
      <4> QED
        BY <1>2, <2>1, <2>2
    <3> QED
      BY <3>1, <3>2
  <2> QED
    BY <1>2, <2>1, <2>3, CountedMoved
<1>6. CASE SendTrace
  <2>1. run \in 1 .. life /\ sent + 1 \in Nat
    BY <1>0, <1>1, <1>6 DEF SendTrace, Typed, TypedBoard
  <2>2. /\ Packet("trace", run, sent + 1) \in UpPackets(life)
        /\ ~IsCall(Packet("trace", run, sent + 1)) /\ ~IsRestarted(Packet("trace", run, sent + 1))
    BY <1>1, <2>1, Sent DEF Packet, IsCall, IsRestarted
  <2>3. Send(Packet("trace", run, sent + 1)) /\ UNCHANGED <<toPico, cfg>>
    BY <1>6 DEF SendTrace
  <2> QED
    BY <1>2, <2>2, <2>3, CountedSends
<1>7. CASE SendDump
  <2> DEFINE p == IF sent = 0 THEN Packet("fault", run, ended) ELSE Packet("chunk", run, sent)
  <2>1. run \in 1 .. life /\ sent \in 0 .. Chunks /\ ended \in 1 .. 3
    BY <1>0, <1>1, <1>7 DEF SendDump, Typed, TypedBoard
  <2>2. p \in UpPackets(life)
    BY <1>1, <2>1, Sent
  <2>3. ~IsCall(p) /\ ~IsRestarted(p)
    BY DEF Packet, IsCall, IsRestarted
  <2>4. Send(p) /\ UNCHANGED <<toPico, cfg>>
    BY <1>7 DEF SendDump
  <2> HIDE DEF p
  <2> QED
    BY <1>2, <2>2, <2>3, <2>4, CountedSends
<1>8. CASE Beacon
  <2>1. /\ Packet("restarted", 0, 0) \in UpPackets(life) /\ ~IsCall(Packet("restarted", 0, 0))
    BY <1>1, Sent DEF Packet, IsCall
  <2>2. Send(Packet("restarted", 0, 0)) /\ UNCHANGED <<toPico, cfg>> /\ pico = "wait" /\ beacon
    BY <1>8 DEF Beacon, board
  <2>3. cfg # life
    BY <1>1, <2>2 DEF IInv, PicoKnows, AfterConfig
  <2>4. Alive => Unanswered
    BY <2>3 DEF IInv, Counted, NotAhead
  <2> QED
    BY <1>2, <2>1, <2>2, <2>4, CountedSends
<1>9. CASE RunEnds
  <2>1. UNCHANGED <<up, toPico, cfg>>
    BY <1>9 DEF RunEnds, wire
  <2>2. Open' = Open
    BY <1>2, <2>1 DEF Open, IsCall
  <2> QED
    BY <1>2, <2>1, <2>2, CountedMoved
<1> QED
  BY <1>3, <1>4, <1>5, <1>6, <1>7, <1>8, <1>9 DEF PicoLoop

\* A running Tether has only its run under way.
LEMMA OnlyItsRun ==
  ASSUME IInv, Alive, cpuStarted
  PROVE  /\ run = life /\ main = "running"
         /\ \A p \in Range(inbox) \cup Range(up) : OfRun(p) /\ p.life = life /\ InRun(p, life)
<1>1. main = "running"
  BY DEF IInv, Ending, Phases, Alive
<1> QED
  BY <1>1 DEF IInv, Streamed, OnlyRun, InRun

LEMMA CountedRead == ASSUME IInv, Read PROVE Counted'
<1>0. Typed
  BY DEF IInv
<1>1. /\ Range(up) = {Head(up)} \cup Range(up') /\ Head(up) \in Range(up)
      /\ UNCHANGED <<life, toPico, main, k, reply, cfg>>
      /\ \/ inbox' = inbox /\ OfRun(Head(up))
         \/ Range(inbox') = Range(inbox) \cup {Head(up)}
  BY <1>0, WasRead DEF Read, caller, board
<1>2. Open' \subseteq Open
  BY <1>1, OpenWithin
<1>3. Open \subseteq Open'
  <2> SUFFICES ASSUME NEW q \in Range(inbox) \cup Range(up) \cup Range(toPico), IsCall(q)
               PROVE  q \in Range(inbox') \cup Range(up') \cup Range(toPico')
    BY OpenCovers
  <2> QED
    BY <1>1 DEF IsCall, OfRun
<1>4. Open' = Open
  BY <1>2, <1>3
<1> QED
  BY <1>1, <1>4, CountedMoved

LEMMA CountedTake ==
  ASSUME IInv, inbox # << >>, inbox' = Tail(inbox), ~IsCall(Head(inbox)),
         UNCHANGED <<life, cfg, k, reply, up, toPico>>, main' \in {main, "gone"}
  PROVE  Counted'
<1>0. Typed /\ Ordered
  BY DEF IInv
<1>1. Range(inbox) = {Head(inbox)} \cup Range(inbox')
  BY <1>0, OrderedTake
<1>2. Open' \subseteq Open
  BY <1>1, OpenWithin
<1>3. Open \subseteq Open'
  <2> SUFFICES ASSUME NEW q \in Range(inbox) \cup Range(up) \cup Range(toPico), IsCall(q)
               PROVE  q \in Range(inbox') \cup Range(up') \cup Range(toPico')
    BY OpenCovers
  <2> QED
    BY <1>1
<1>4. Open' = Open
  BY <1>2, <1>3
<1> QED
  BY <1>1, <1>4, CountedMoved

LEMMA CountedNext == ASSUME IInv, [Next]_vars PROVE Counted'
<1>0. Typed /\ Ordered
  BY DEF IInv
<1>1. CASE HearBeacon \/ Answered \/ Begin
  BY <1>1, CountedMain
<1>2. CASE Call
  BY <1>2, CountedCall
<1>3. CASE Answer
  BY <1>3, CountedAnswer
<1>4. CASE PicoLoop \/ Beacon \/ RunEnds
  BY <1>4, CountedPico
<1>5. CASE Read
  BY <1>5, CountedRead
<1>6. CASE AskRestart \/ SendSigint
  <2> DEFINE p == IF AskRestart THEN Packet("restart", life, 0) ELSE Packet("sigint", life, 0)
  <2>1. life \in Nat /\ life \in 1 .. life /\ toPico \in Seq(DownPackets(life))
    BY <1>0, Facts
  <2>2. p \in DownPackets(life) /\ ~IsCall(p)
    BY <2>1, Sent DEF IsCall, Packet
  <2>3. toPico' = Append(toPico, p) /\ UNCHANGED <<life, up, inbox, main, k, reply, cfg>>
    BY <1>6 DEF AskRestart, SendSigint, caller, output, board, Packet
  <2> HIDE DEF p
  <2>4. Range(toPico') = Range(toPico) \cup {p}
    BY <2>1, <2>2, <2>3, Appended
  <2>5. Open' \subseteq Open
    <3> SUFFICES ASSUME NEW q \in Range(inbox') \cup Range(up') \cup Range(toPico'), IsCall(q)
                 PROVE  q \in Range(inbox) \cup Range(up) \cup Range(toPico)
      BY OpenWithin
    <3> QED
      BY <2>2, <2>3, <2>4
  <2>6. Open \subseteq Open'
    BY <2>3, <2>4, OpenCovers
  <2>7. Open' = Open
    BY <2>5, <2>6
  <2> QED
    BY <2>3, <2>7, CountedMoved
<1>7. CASE Timeout \/ ObeySigint \/ Die \/ EndOfInput \/ Interrupt \/ UNCHANGED vars
  <2>1. UNCHANGED <<life, inbox, up, toPico, k, reply, cfg>> /\ main' \in {main, "gone"}
    BY <1>7 DEF Timeout, ObeySigint,
                Die, EndOfInput, Interrupt, Exit, vars, wire, output, board, caller
  <2>2. Open' = Open
    BY <2>1 DEF Open, IsCall
  <2> QED
    BY <2>1, <2>2, CountedMoved
<1>8. CASE Restarted \/ Trace \/ Fault \/ Chunk
  <2>1. /\ inbox # << >> /\ inbox' = Tail(inbox) /\ ~IsCall(Head(inbox))
        /\ UNCHANGED <<life, cfg, k, reply, up, toPico, main>>
    BY <1>8 DEF Restarted, Trace, Fault, Chunk, Next1, wire, board, caller, IsCall
  <2> QED
    BY <2>1, CountedTake
<1>9. CASE ExitWithReason
  <2>1. UNCHANGED <<life, cfg, k, reply, up, toPico>> /\ main' \in {main, "gone"} /\ Alive /\ disp = "drain"
    BY <1>9 DEF ExitWithReason, Exit, wire, board
  <2>2. CASE inbox # << >>
    <3>1. inbox' = Tail(inbox)
      BY <1>9, <2>2 DEF ExitWithReason
    <3>2. Head(inbox) \in Range(inbox)
      BY <1>0, <2>2, Facts, Dropped
    <3>3. cpuStarted
      BY <2>1 DEF IInv, Streamed, NotBegun
    <3>4. ~IsCall(Head(inbox))
      BY <2>1, <3>2, <3>3, OnlyItsRun DEF OfRun, IsCall
    <3> QED
      BY <2>1, <2>2, <3>1, <3>4, CountedTake
  <2>3. CASE inbox = << >>
    <3>1. inbox' = inbox
      BY <1>9, <2>3 DEF ExitWithReason
    <3>2. Open' = Open
      BY <2>1, <3>1 DEF Open, IsCall
    <3> QED
      BY <2>1, <3>1, <3>2, CountedMoved
  <2> QED
    BY <2>2, <2>3
<1>10. CASE Relaunch
  <2> DEFINE c == Cardinality(Open)
             d == Cardinality(Open')
             e == Cardinality(Stale')
  <2>1. /\ life' = life + 1 /\ Range(inbox') = {} /\ UNCHANGED <<cfg>>
        /\ Range(toPico') \subseteq Range(toPico) /\ Range(up') \subseteq Range(up)
        /\ main = "gone" /\ main' = "beacon" /\ k' = 1 /\ life \in Nat
    BY <1>0, <1>10, Launched, EmptyQueue, Facts DEF Relaunch, board, Alive
  <2>2. Open' \subseteq Open
    BY <2>1, OpenWithin
  <2>3. IsFiniteSet(Open) /\ c \in Nat /\ IsFiniteSet(Open') /\ d \in Nat /\ d <= c
    BY <2>2, OpenFacts, FS_Subset, FS_CardinalityType
  <2>4. IsFiniteSet(Stale') /\ e \in Nat /\ e <= d
    <3>1. Stale' \subseteq Open'
      BY DEF Stale
    <3> QED
      BY <2>3, <3>1, FS_Subset, FS_CardinalityType
  <2>5. c + 0 <= life
    BY <2>1 DEF IInv, Counted, FewOpen, Owed
  <2>6. ~Owed' /\ Unanswered' /\ ~Taken'
    BY <2>1 DEF Owed, Unanswered, Taken
  <2>7. d + 1 <= life + 1 /\ e + 1 + 0 <= life + 1
    <3> HIDE DEF c, d, e
    <3> QED
      BY <2>1, <2>3, <2>4, <2>5
  <2>8. FewOpen' /\ NotAhead'
    BY <2>1, <2>3, <2>6, <2>7 DEF FewOpen, NotAhead
  <2>9. AnswersConfigured'
    <3>1. \A p \in Range(up) : p.life \in 0 .. life
      BY <1>0, Facts
    <3>2. \A p \in Range(up) : p.life # life + 1
      BY <2>1, <3>1
    <3> QED
      BY <2>1, <3>2 DEF AnswersConfigured
  <2> QED
    BY <2>8, <2>9 DEF Counted
<1> QED
  BY <1>1, <1>2, <1>3, <1>4, <1>5, <1>6, <1>7, <1>8, <1>9, <1>10 DEF Next, Main, Dispatcher

-----------------------------------------------------------------------------
(* What is shown.                                                          *)

LEMMA CallingNext == ASSUME IInv, [Next]_vars PROVE Calling'
  BY WaitingNext, OwnNext, LastNext DEF Calling

\* What the Pico carries out next, but for a SIGINT, comes after this life's run.
LEMMA NotItsRun ==
  ASSUME IInv, NEW c, c # "sigint", Receive(c)
  PROVE  run # life
<1>1. /\ Head(toPico) \in Range(toPico) /\ Head(toPico).cmd = c /\ Head(toPico).life \in 1 .. life
      /\ life \in Nat /\ life >= 1
  BY Received, Facts DEF IInv
<1>2. run > 0 => Head(toPico).life > run \/ (Head(toPico).life = run /\ Head(toPico).cmd = "sigint")
  BY <1>1 DEF IInv, PicoKnows, AfterRun
<1> QED
  BY <1>1, <1>2

\* Steps that neither send nor read.
LEMMA NoneYetKeep ==
  ASSUME NoneYet, UNCHANGED <<life, run>>,
         Range(inbox') \cup Range(up') \subseteq Range(inbox) \cup Range(up)
  PROVE  NoneYet'
  BY DEF NoneYet, InRun, OfRun

LEMMA NoneYetSends ==
  ASSUME IInv, NEW p \in UpPackets(life), Send(p), ~InRun(p, life) \/ run' = life,
         UNCHANGED <<life, inbox>>, run # life \/ run' = life
  PROVE  NoneYet'
<1>1. Range(up') \subseteq Range(up) \cup {p}
  BY WasSent DEF IInv
<1> QED
  BY <1>1 DEF IInv, Streamed, NoneYet, InRun, OfRun

LEMMA NoneYetNext == ASSUME IInv, [Next]_vars PROVE NoneYet'
<1>0. Typed /\ NoneYet
  BY DEF IInv, Streamed
<1>1. life \in Nat /\ life >= 1 /\ life \in 1 .. life /\ Start \in Nat /\ Start >= 3
  BY <1>0, Facts
<1>2. CASE \/ HearBeacon \/ AskRestart \/ Call \/ Answered \/ Begin \/ Timeout \/ Interrupt \/ SendSigint
           \/ ObeySigint \/ Die \/ EndOfInput \/ PicoSigint \/ RunEnds \/ UNCHANGED vars
  <2>1. UNCHANGED <<life, run, inbox, up>>
    BY <1>2 DEF HearBeacon, AskRestart, Call, Answered, Begin, Timeout, Interrupt, SendSigint, ObeySigint,
                Die, EndOfInput, PicoSigint, RunEnds, vars, wire, output, board
  <2> QED
    BY <1>0, <2>1, NoneYetKeep
<1>3. CASE Dispatcher
  <2>1. UNCHANGED <<life, run, up>>
    BY <1>3 DEF Dispatcher, Restarted, Answer, Trace, Fault, Chunk, ExitWithReason, wire, board
  <2>2. inbox' = inbox \/ (inbox # << >> /\ inbox' = Tail(inbox))
    BY <1>3 DEF Dispatcher, Restarted, Answer, Trace, Fault, Chunk, ExitWithReason, Next1
  <2>3. Range(inbox') \subseteq Range(inbox)
    BY <1>0, <2>2, Facts, Dropped
  <2> QED
    BY <1>0, <2>1, <2>3, NoneYetKeep
<1>4. CASE Read
  <2>1. UNCHANGED <<life, run>>
    BY <1>4 DEF Read, board
  <2> QED
    BY <1>0, <1>4, <2>1, WasRead, NoneYetKeep
<1>5. CASE Relaunch
  <2>1. /\ life' = life + 1 /\ Range(inbox') = {} /\ Range(up') \subseteq Range(up)
        /\ \A p \in Range(up) : p.life \in 0 .. life
    BY <1>0, <1>5, Launched, EmptyQueue, Facts
  <2> QED
    BY <1>1, <2>1 DEF NoneYet, InRun
<1>6. CASE Beacon \/ PicoRestart
  <2> DEFINE p == Packet("restarted", 0, 0)
  <2>1. p \in UpPackets(life) /\ ~InRun(p, life)
    BY <1>1, Sent DEF Packet, InRun, OfRun
  <2>2. Send(p) /\ UNCHANGED <<life, inbox>>
    BY <1>6 DEF Beacon, PicoRestart, output
  <2>3. run # life \/ run' = life
    BY <1>6, NotItsRun DEF Beacon, PicoRestart, board
  <2> QED
    BY <2>1, <2>2, <2>3, NoneYetSends
<1>7. CASE PicoConfig \/ PicoUpload \/ PicoStart
  <2> DEFINE h == Head(toPico)
             p == Packet("answer", h.life, h.x)
  <2>1. Receive("rpc") /\ Send(p) /\ UNCHANGED <<life, inbox>>
    BY <1>7 DEF PicoConfig, PicoUpload, PicoStart, output
  <2>2. h.life \in 1 .. life /\ h.x \in 1 .. Start /\ p \in UpPackets(life)
    BY <1>0, <1>1, <2>1, Received, Sent
  <2>3. run # life
    BY <2>1, NotItsRun
  <2>4. ~InRun(p, life) \/ run' = life
    <3>1. CASE PicoStart
      BY <3>1 DEF PicoStart, InRun, Packet
    <3>2. CASE PicoConfig \/ PicoUpload
      BY <1>1, <2>2, <3>2 DEF PicoConfig, PicoUpload, Method, InRun, OfRun, Packet
    <3> QED
      BY <1>7, <3>1, <3>2
  <2> QED
    BY <2>1, <2>2, <2>3, <2>4, NoneYetSends
<1>8. CASE SendTrace
  <2>1. run \in 1 .. life /\ sent + 1 \in Nat
    BY <1>0, <1>1, <1>8 DEF SendTrace, Typed, TypedBoard
  <2>2. Packet("trace", run, sent + 1) \in UpPackets(life)
    BY <1>1, <2>1, Sent
  <2>3. ~InRun(Packet("trace", run, sent + 1), life) \/ run' = life
    BY <1>8 DEF SendTrace, InRun, Packet
  <2> QED
    BY <1>8, <2>2, <2>3, NoneYetSends DEF SendTrace, output
<1>9. CASE SendDump
  <2> DEFINE p == IF sent = 0 THEN Packet("fault", run, ended) ELSE Packet("chunk", run, sent)
  <2>1. run \in 1 .. life /\ sent \in 0 .. Chunks /\ ended \in 1 .. 3 /\ Chunks \in Nat
    BY <1>0, <1>1, <1>9, StartFacts DEF SendDump, Typed, TypedBoard
  <2>2. p \in UpPackets(life)
    BY <1>1, <2>1, Sent
  <2>3. ~InRun(p, life) \/ run' = life
    BY <1>9 DEF SendDump, InRun, Packet
  <2>4. Send(p) /\ UNCHANGED <<life, inbox, run>>
    BY <1>9 DEF SendDump, output
  <2> QED
    BY <2>2, <2>3, <2>4, NoneYetSends
<1> QED
  BY <1>2, <1>3, <1>4, <1>5, <1>6, <1>7, <1>8, <1>9 DEF Next, Main, Dispatcher, PicoLoop

\* Steps of the Tether that get no answer, and what keeps OnlyRun.
LEMMA OnlyRunKeep ==
  ASSUME OnlyRun, UNCHANGED <<life, k, reply, run>>,
         main' = main \/ main' \in {"gone", "call", "beacon"} \/ (main = "started" /\ main' = "running"),
         \A p \in Range(inbox') \cup Range(up') :
           p \in Range(inbox) \cup Range(up) \/ (OfRun(p) /\ p.life = run)
  PROVE  OnlyRun'
  BY DEF OnlyRun, OfRun, Start

LEMMA OnlyRunNext == ASSUME IInv, FewLives, [Next]_vars PROVE OnlyRun'
<1>0. Typed /\ Ordered /\ OnlyRun /\ Waiting
  BY DEF IInv, Streamed, Calling
<1>1. /\ life \in Nat /\ life >= 1 /\ life \in 1 .. life /\ Start \in Nat
  BY <1>0, Facts
<1>2. CASE \/ HearBeacon \/ AskRestart \/ Begin \/ Timeout \/ Interrupt \/ SendSigint
           \/ ObeySigint \/ Die \/ EndOfInput \/ PicoSigint \/ RunEnds \/ UNCHANGED vars
  <2>1. UNCHANGED <<life, k, reply, run, inbox, up>>
    BY <1>2 DEF HearBeacon, AskRestart, Begin, Timeout, Interrupt, SendSigint, ObeySigint,
                Die, EndOfInput, PicoSigint, RunEnds, vars, wire, output, board, caller
  <2>2. main' = main \/ main' \in {"gone", "call"} \/ (main = "started" /\ main' = "running")
    BY <1>2 DEF HearBeacon, AskRestart, Begin, Timeout, Interrupt, SendSigint, ObeySigint,
                Die, EndOfInput, PicoSigint, RunEnds, vars, caller, Exit
  <2> QED
    BY <1>0, <2>1, <2>2, OnlyRunKeep
<1>3. CASE Call
  BY <1>3 DEF Call, OnlyRun
<1>4. CASE Answered
  <2>1. /\ UNCHANGED <<life, reply, run, inbox, up>> /\ main = "await" /\ reply # None
        /\ main' = "call" \/ (main' = "started" /\ k = Start)
    BY <1>4 DEF Answered, wire, output, board
  <2> QED
    BY <1>0, <2>1 DEF OnlyRun, OfRun
<1>5. CASE Restarted \/ Trace \/ Fault \/ Chunk \/ ExitWithReason
  <2>1. UNCHANGED <<life, k, reply, run, up>> /\ main' \in {main, "gone"}
    BY <1>5 DEF Restarted, Trace, Fault, Chunk, ExitWithReason, wire, board, caller, Exit
  <2>2. inbox' = inbox \/ (inbox # << >> /\ inbox' = Tail(inbox))
    BY <1>5 DEF Restarted, Trace, Fault, Chunk, ExitWithReason, Next1
  <2>3. Range(inbox') \subseteq Range(inbox)
    BY <1>0, <2>2, Facts, Dropped
  <2> QED
    BY <1>0, <2>1, <2>3, OnlyRunKeep
<1>6. CASE Answer
  <2> DEFINE h == Head(inbox)
  <2>1. /\ UNCHANGED <<life, main, k, run, up>> /\ h \in Range(inbox) /\ h.cmd = "answer" /\ Alive
        /\ inbox # << >> /\ inbox' = Tail(inbox)
        /\ \/ pending # 0 /\ pending = h.x /\ reply' = h
           \/ UNCHANGED reply
    BY <1>0, <1>6, Got DEF Answer, wire, board
  <2>2. Range(inbox') \subseteq Range(inbox) /\ \A q \in Range(inbox') \cup Range(up) : Before(h, q, life)
    BY <1>0, <2>1, OrderedTake
  <2>3. CASE UNCHANGED reply
    BY <1>0, <2>1, <2>2, <2>3, OnlyRunKeep
  <2>4. CASE pending # 0 /\ pending = h.x
    <3>1. main = "await" /\ reply = None /\ pending = k
      BY <1>0, <2>1, <2>4 DEF Waiting, Typed, TypedCaller, Alive
    <3>2. h.life = life \/ k < life
      BY <2>1, <2>4, <3>1, AnswerFits
    <3>3. SUFFICES ASSUME k = Start
                   PROVE  run = life /\ \A p \in Range(inbox') \cup Range(up) : OfRun(p) /\ p.life = life
      BY <2>1, <3>1 DEF OnlyRun, OfRun, Start
    <3>4. InRun(h, life)
      BY <1>1, <2>1, <2>4, <3>1, <3>2, <3>3 DEF InRun, FewLives
    <3>5. run = life
      BY <2>1, <3>4, RunKnown
    <3>6. \A q \in Range(inbox') \cup Range(up) : ~IsDown(q)
      BY <1>0, <2>2, Facts
    <3> QED
      BY <2>2, <3>4, <3>5, <3>6 DEF Before
  <2> QED
    BY <2>1, <2>3, <2>4
<1>7. CASE Read
  <2>1. UNCHANGED <<life, k, reply, run, main>>
    BY <1>7 DEF Read, board, caller
  <2>2. Range(inbox') \cup Range(up') \subseteq Range(inbox) \cup Range(up)
    BY <1>0, <1>7, WasRead
  <2> QED
    BY <1>0, <2>1, <2>2, OnlyRunKeep
<1>8. CASE Relaunch
  BY <1>8 DEF Relaunch, OnlyRun
<1>9. CASE PicoRestart \/ PicoConfig \/ PicoUpload \/ PicoStart
  <2>1. run # life
    BY <1>9, NotItsRun DEF PicoRestart, PicoConfig, PicoUpload, PicoStart
  <2>2. UNCHANGED <<main, k, reply>>
    BY <1>9 DEF PicoRestart, PicoConfig, PicoUpload, PicoStart, caller
  <2> QED
    BY <1>0, <2>1, <2>2 DEF OnlyRun, Start
<1>10. CASE Beacon
  <2>1. run # life
    BY <1>0, <1>1, <1>10 DEF Beacon, Typed, TypedBoard
  <2>2. UNCHANGED <<main, k, reply>>
    BY <1>10 DEF Beacon, caller
  <2> QED
    BY <1>0, <2>1, <2>2 DEF OnlyRun, Start
<1>a. ASSUME NEW p \in UpPackets(life), Send(p), OfRun(p), p.life = run,
             UNCHANGED <<life, k, reply, run, main, inbox>>
      PROVE  OnlyRun'
  <2>1. Range(up') \subseteq Range(up) \cup {p}
    BY <1>0, <1>a, WasSent
  <2>2. \A q \in Range(inbox') \cup Range(up') :
          q \in Range(inbox) \cup Range(up) \/ (OfRun(q) /\ q.life = run)
    BY <1>a, <2>1
  <2> QED
    BY <1>0, <1>a, <2>2, OnlyRunKeep
<1>11. CASE SendTrace
  <2> DEFINE p == Packet("trace", run, sent + 1)
  <2>1. run \in 1 .. life /\ sent + 1 \in Nat
    BY <1>0, <1>1, <1>11 DEF SendTrace, Typed, TypedBoard
  <2>2. p \in UpPackets(life) /\ OfRun(p) /\ p.life = run
    BY <1>1, <2>1, Sent DEF OfRun, Packet
  <2>3. Send(p) /\ UNCHANGED <<life, k, reply, run, main, inbox>>
    BY <1>11 DEF SendTrace, output, caller
  <2> QED
    BY <1>a, <2>2, <2>3
<1>12. CASE SendDump
  <2> DEFINE p == IF sent = 0 THEN Packet("fault", run, ended) ELSE Packet("chunk", run, sent)
  <2>1. run \in 1 .. life /\ sent \in 0 .. Chunks /\ ended \in 1 .. 3 /\ Chunks \in Nat
    BY <1>0, <1>1, <1>12, StartFacts DEF SendDump, Typed, TypedBoard
  <2>2. p \in UpPackets(life)
    BY <1>1, <2>1, Sent
  <2>3. OfRun(p) /\ p.life = run
    BY DEF OfRun, Packet
  <2>4. Send(p) /\ UNCHANGED <<life, k, reply, run, main, inbox>>
    BY <1>12 DEF SendDump, output, caller
  <2> QED
    BY <1>a, <2>2, <2>3, <2>4
<1> QED
  BY <1>2, <1>3, <1>4, <1>5, <1>6, <1>7, <1>8, <1>9, <1>10, <1>11, <1>12 DEF Next, Main, Dispatcher, PicoLoop

LEMMA NotBegunNext == ASSUME IInv, [Next]_vars PROVE NotBegun'
<1>0. Typed /\ NotBegun
  BY DEF IInv, Streamed
<1>a. ASSUME UNCHANGED <<cpuStarted, shown, reason, chunks, disp>>, Range(inbox') \subseteq Range(inbox)
      PROVE  NotBegun'
  BY <1>0, <1>a DEF NotBegun, OfRun, None
<1>1. CASE Begin
  BY <1>1 DEF Begin, NotBegun
<1>2. CASE \/ HearBeacon \/ AskRestart \/ Call \/ Answered \/ Timeout \/ Interrupt \/ SendSigint
           \/ ObeySigint \/ Die \/ EndOfInput \/ UNCHANGED vars
  <2>1. UNCHANGED <<cpuStarted, shown, reason, chunks, disp, inbox>>
    BY <1>2 DEF HearBeacon, AskRestart, Call, Answered, Timeout, Interrupt, SendSigint, ObeySigint,
                Die, EndOfInput, vars, output, caller
  <2> QED
    BY <1>a, <2>1
<1>3. CASE PicoLoop \/ Beacon \/ RunEnds
  <2>1. UNCHANGED <<cpuStarted, shown, reason, chunks, disp, inbox>>
    BY <1>3 DEF PicoLoop, PicoRestart, PicoConfig, PicoUpload, PicoStart, PicoSigint, SendTrace, SendDump,
                Beacon, RunEnds, output, caller
  <2> QED
    BY <1>a, <2>1
<1>4. CASE Restarted \/ Answer
  <2>1. /\ UNCHANGED <<cpuStarted, shown, reason, chunks, disp>>
        /\ inbox # << >> /\ inbox' = Tail(inbox)
    BY <1>4 DEF Restarted, Answer, Next1
  <2>2. Range(inbox') \subseteq Range(inbox)
    BY <1>0, <2>1, Facts, Dropped
  <2> QED
    BY <1>a, <2>1, <2>2
<1>5. CASE Trace \/ Fault \/ Chunk
  <2>1. Head(inbox) \in Range(inbox) /\ OfRun(Head(inbox)) /\ UNCHANGED cpuStarted
    BY <1>0, <1>5, Got DEF Trace, Fault, Chunk, OfRun, caller
  <2> QED
    BY <1>0, <2>1 DEF NotBegun
<1>6. CASE ExitWithReason
  <2>1. disp = "drain" /\ UNCHANGED cpuStarted
    BY <1>6 DEF ExitWithReason
  <2> QED
    BY <1>0, <2>1 DEF NotBegun
<1>7. CASE Read
  <2>1. UNCHANGED <<cpuStarted, shown, reason, chunks, disp>>
    BY <1>7 DEF Read, caller
  <2>2. ~cpuStarted => Range(inbox') \subseteq Range(inbox) \cup {Head(up)}
                       /\ (~OfRun(Head(up)) \/ Range(inbox') = Range(inbox))
    BY <1>0, <1>7, WasRead
  <2>3. ~cpuStarted => \A p \in Range(inbox') : ~OfRun(p)
    BY <1>0, <2>2 DEF NotBegun
  <2> QED
    BY <1>0, <2>1, <2>3 DEF NotBegun, OfRun, None
<1>8. CASE Relaunch
  <2>1. Range(inbox') = {}
    BY <1>0, <1>8, Launched, EmptyQueue
  <2> QED
    BY <1>8, <2>1 DEF Relaunch, NotBegun
<1> QED
  BY <1>1, <1>2, <1>3, <1>4, <1>5, <1>6, <1>7, <1>8 DEF Next, Main, Dispatcher

LEMMA ShownNow == ASSUME IInv, [Next]_vars PROVE ShownIsThisRun'
<1>0. Typed /\ ShownIsThisRun /\ NotBegun
  BY DEF IInv, Streamed
<1>1. /\ shown \in Seq([cmd : {"trace"}, life : 1 .. life, x : Nat]) /\ Len(shown) \in Nat
      /\ inbox \in Seq(UpPackets(life)) /\ life \in Nat
  BY <1>0, Facts DEF Typed, TypedOutput
\* The trace is shown ...
<1>a. ASSUME Alive, cpuStarted, inbox # << >>, Head(inbox).cmd = "trace",
             shown' = Append(shown, Head(inbox)), UNCHANGED <<life, reason, chunks>>
      PROVE  ShownIsThisRun'
  <2> DEFINE h == Head(inbox)
  <2>1. h \in Range(inbox) /\ h \in UpPackets(life)
    BY <1>1, <1>a, FinalInRange, Dropped
  <2>2. h.life = life /\ h \in [cmd : {"trace"}, life : 1 .. life, x : Nat]
    BY <1>1, <1>a, <2>1, OnlyItsRun, UpIs
  <2>3. /\ Len(shown') = Len(shown) + 1 /\ shown'[Len(shown) + 1] = h
        /\ \A i \in 1 .. Len(shown) : shown'[i] = shown[i]
    BY <1>1, <1>a, <2>2, AppendProperties
  <2>4. shown # << >> => h.x = shown[Len(shown)].x + 1
    BY <1>a DEF IInv, Streamed, ShownNext, GoesOn, Final
  <2> HIDE DEF h
  <2>5. ASSUME NEW i \in 1 .. Len(shown') PROVE shown'[i].life = life /\ (i > 1 => shown'[i].x = shown'[i - 1].x + 1)
    <3>1. CASE i = Len(shown) + 1
      <4>1. i > 1 => shown # << >> /\ i - 1 = Len(shown) /\ i - 1 \in 1 .. Len(shown)
        BY <1>1, <3>1
      <4> QED
        BY <2>2, <2>3, <2>4, <3>1, <4>1
    <3>2. CASE i # Len(shown) + 1
      <4>1. i \in 1 .. Len(shown) /\ (i > 1 => i - 1 \in 1 .. Len(shown))
        BY <1>1, <2>3, <3>2
      <4> QED
        BY <1>0, <2>3, <4>1 DEF ShownIsThisRun
    <3> QED
      BY <3>1, <3>2
  <2> QED
    BY <1>0, <1>a, <2>5 DEF ShownIsThisRun, None
<1>b. ASSUME UNCHANGED <<life, shown, reason, chunks>> PROVE ShownIsThisRun'
  BY <1>0, <1>b DEF ShownIsThisRun, None
<1>2. CASE \/ HearBeacon \/ AskRestart \/ Call \/ Answered \/ Begin \/ Timeout \/ Interrupt \/ SendSigint
           \/ ObeySigint \/ Die \/ EndOfInput \/ Restarted \/ Answer \/ Read \/ UNCHANGED vars
  BY <1>2, <1>b DEF HearBeacon, AskRestart, Call, Answered, Begin, Timeout, Interrupt, SendSigint, ObeySigint,
                Die, EndOfInput, Restarted, Answer, Read, vars, output
<1>3. CASE PicoLoop \/ Beacon \/ RunEnds
  BY <1>3, <1>b DEF PicoLoop, PicoRestart, PicoConfig, PicoUpload, PicoStart, PicoSigint, SendTrace, SendDump,
                Beacon, RunEnds, output
<1>4. CASE Trace \/ Fault \/ Chunk
  <2>1. /\ Alive /\ inbox # << >> /\ Head(inbox) \in Range(inbox) /\ OfRun(Head(inbox))
    BY <1>0, <1>4, Got DEF Trace, Fault, Chunk, OfRun
  <2>2. cpuStarted
    BY <1>0, <2>1 DEF NotBegun
  <2>3. Head(inbox).life = life
    BY <2>1, <2>2, OnlyItsRun
  <2>4. CASE Trace
    BY <1>a, <2>1, <2>2, <2>4 DEF Trace, Next1
  <2>5. CASE Fault
    BY <1>0, <2>3, <2>5 DEF Fault, ShownIsThisRun, None
  <2>6. CASE Chunk
    BY <1>0, <2>3, <2>6 DEF Chunk, ShownIsThisRun, None
  <2> QED
    BY <1>4, <2>4, <2>5, <2>6
\* ... and drained.
<1>5. CASE ExitWithReason
  <2>1. Alive /\ disp = "drain" /\ UNCHANGED <<life, reason, chunks>>
    BY <1>5 DEF ExitWithReason
  <2>2. cpuStarted
    BY <1>0, <2>1 DEF NotBegun
  <2>3. CASE inbox # << >> /\ Head(inbox).cmd = "trace"
    BY <1>5, <1>a, <2>1, <2>2, <2>3 DEF ExitWithReason
  <2>4. CASE ~(inbox # << >> /\ Head(inbox).cmd = "trace")
    BY <1>5, <1>b, <2>1, <2>4 DEF ExitWithReason
  <2> QED
    BY <2>3, <2>4
<1>6. CASE Relaunch
  <2>1. shown' = << >> /\ reason' = None /\ chunks' = {} /\ Len(<< >>) = 0
    BY <1>6 DEF Relaunch
  <2> QED
    BY <2>1 DEF ShownIsThisRun, None
<1> QED
  BY <1>2, <1>3, <1>4, <1>5, <1>6 DEF Next, Main, Dispatcher

\* A packet that leaves the inbox.
LEMMA TookOne ==
  ASSUME Typed, inbox # << >>, inbox' = Tail(inbox)
  PROVE  /\ Head(inbox) \in Range(inbox) /\ inbox \in Seq(UpPackets(life))
         /\ inbox' # << >> => Final(inbox') = Final(inbox)
         /\ inbox' = << >> => Final(inbox) = Head(inbox)
         /\ Linked(inbox, life) => /\ Linked(inbox', life)
                                   /\ inbox' # << >> => Link(Head(inbox), Head(inbox'), life)
<1>1. inbox \in Seq(UpPackets(life))
  BY Facts
<1> QED
  BY <1>1, FinalInRange, Dropped, DroppedLinked

LEMMA TookStep ==
  ASSUME Typed, Restarted \/ Answer \/ Trace \/ Fault \/ Chunk \/ (ExitWithReason /\ inbox # << >>)
  PROVE  /\ Alive /\ inbox # << >> /\ inbox' = Tail(inbox)
         /\ UNCHANGED <<life, up, run, pico, sent, main, cpuStarted>>
         /\ shown' = IF Head(inbox).cmd = "trace" THEN Append(shown, Head(inbox)) ELSE shown
<1>1. CASE Restarted \/ Answer
  BY <1>1 DEF Restarted, Answer, Next1, wire, board
<1>2. CASE Trace \/ Fault \/ Chunk
  BY <1>2 DEF Trace, Fault, Chunk, Next1, wire, board, caller
<1>3. CASE ExitWithReason /\ inbox # << >>
  BY <1>3 DEF ExitWithReason, wire, board
<1> QED
  BY <1>1, <1>2, <1>3

LEMMA LinksSend ==
  ASSUME IInv, NEW p \in UpPackets(life), Send(p), UNCHANGED <<life, main, inbox>>,
         \/ p.cmd # "trace"
         \/ pico = "running" /\ p.x = sent + 1
  PROVE  Links'
<1>0. Typed /\ Links /\ SentLast /\ NoneYet
  BY DEF IInv, Streamed
<1>1. SUFFICES ASSUME Alive
               PROVE  /\ Linked(inbox, life) /\ Linked(up', life)
                      /\ inbox # << >> /\ up' # << >> => Link(Final(inbox), Head(up'), life)
  BY DEF Links, Alive
<1>2. up \in Seq(UpPackets(life)) /\ inbox \in Seq(UpPackets(life)) /\ up' = Append(up, p)
  BY <1>0, <1>1, Facts, WasSent
<1>3. up # << >> => Link(Final(up), p, life)
  <2> SUFFICES ASSUME up # << >>, InRun(Final(up), life), p.cmd = "trace"
               PROVE  Final(up).cmd = "answer" \/ (Final(up).cmd = "trace" /\ p.x = Final(up).x + 1)
    BY DEF Link
  <2>1. Final(up) \in Range(up)
    BY <1>2, FinalInRange
  <2>2. run = life
    BY <1>0, <2>1 DEF NoneYet
  <2>3. EndsAt(Final(up))
    BY <1>0, <1>1, <2>2 DEF SentLast
  <2> QED
    BY <2>3 DEF EndsAt
<1>4. up = << >> /\ inbox # << >> => Link(Final(inbox), p, life)
  <2> SUFFICES ASSUME up = << >>, inbox # << >>, InRun(Final(inbox), life), p.cmd = "trace"
               PROVE  Final(inbox).cmd = "answer" \/ (Final(inbox).cmd = "trace" /\ p.x = Final(inbox).x + 1)
    BY DEF Link
  <2>1. Final(inbox) \in Range(inbox)
    BY <1>2, FinalInRange
  <2>2. run = life
    BY <1>0, <2>1 DEF NoneYet
  <2>3. EndsAt(Final(inbox))
    BY <1>0, <1>1, <2>2 DEF SentLast
  <2> QED
    BY <2>3 DEF EndsAt
<1>5. Linked(inbox, life) /\ Linked(up, life)
      /\ (inbox # << >> /\ up # << >> => Link(Final(inbox), Head(up), life))
  BY <1>0, <1>1 DEF Links
<1>6. Linked(up', life)
  BY <1>2, <1>3, <1>5, AppendedLinked
<1>7. Head(up') = IF up = << >> THEN p ELSE Head(up)
  BY <1>2, Appended
<1> QED
  BY <1>4, <1>5, <1>6, <1>7

LEMMA LinksRead == ASSUME IInv, Read PROVE Links'
<1>0. Typed /\ Links /\ NotBegun
  BY DEF IInv, Streamed
<1>1. /\ up # << >> /\ up' = Tail(up) /\ Head(up) \in UpPackets(life) /\ UNCHANGED <<life, main, cpuStarted>>
      /\ \/ inbox' = inbox /\ ~cpuStarted
         \/ inbox' = Append(inbox, Head(up))
      /\ Alive
  BY <1>0, WasRead DEF Read, caller
<1>2. up \in Seq(UpPackets(life)) /\ inbox \in Seq(UpPackets(life))
  BY <1>0, Facts
<1>3. Linked(inbox, life) /\ Linked(up, life)
      /\ (inbox # << >> => Link(Final(inbox), Head(up), life))
  BY <1>0, <1>1 DEF Links
<1>4. Linked(up', life) /\ (up' # << >> => Link(Head(up), Head(up'), life))
  BY <1>1, <1>2, <1>3, DroppedLinked
<1>5. CASE inbox' = inbox /\ ~cpuStarted
  <2>1. inbox # << >> => Link(Final(inbox), Head(up'), life)
    <3>1. inbox # << >> => Final(inbox) \in Range(inbox)
      BY <1>2, FinalInRange
    <3> QED
      BY <1>0, <1>5, <3>1 DEF NotBegun, Link, InRun
  <2> QED
    BY <1>1, <1>3, <1>4, <1>5, <2>1 DEF Links
<1>6. CASE inbox' = Append(inbox, Head(up))
  <2>1. Linked(inbox', life)
    BY <1>1, <1>2, <1>3, <1>6, AppendedLinked
  <2>2. Final(inbox') = Head(up)
    BY <1>1, <1>2, <1>6, Appended
  <2> QED
    BY <1>1, <1>4, <2>1, <2>2 DEF Links
<1> QED
  BY <1>1, <1>5, <1>6

LEMMA LinksNext == ASSUME IInv, [Next]_vars PROVE Links'
<1>0. Typed /\ Links
  BY DEF IInv, Streamed
<1>1. /\ life \in Nat /\ life >= 1 /\ life \in 1 .. life /\ Start \in Nat /\ Start >= 3
      /\ up \in Seq(UpPackets(life))
  BY <1>0, Facts
<1>2. CASE \/ HearBeacon \/ AskRestart \/ Call \/ Answered \/ Begin \/ Timeout \/ Interrupt \/ SendSigint
           \/ ObeySigint \/ Die \/ EndOfInput \/ PicoSigint \/ RunEnds \/ UNCHANGED vars
  <2>1. UNCHANGED <<life, inbox, up>> /\ (main' = main \/ Alive)
    BY <1>2 DEF HearBeacon, AskRestart, Call, Answered, Begin, Timeout, Interrupt, SendSigint, ObeySigint,
                Die, EndOfInput, PicoSigint, RunEnds, vars, wire, output, caller, Alive
  <2> QED
    BY <1>0, <2>1 DEF Links, Alive
<1>3. CASE Restarted \/ Answer \/ Trace \/ Fault \/ Chunk \/ (ExitWithReason /\ inbox # << >>)
  <2>1. /\ Alive /\ inbox # << >> /\ inbox' = Tail(inbox) /\ UNCHANGED <<life, up, main>>
    BY <1>0, <1>3, TookStep
  <2>2. /\ inbox' # << >> => Final(inbox') = Final(inbox)
        /\ Linked(inbox, life) => Linked(inbox', life)
    BY <1>0, <2>1, TookOne
  <2> QED
    BY <1>0, <2>1, <2>2 DEF Links
<1>4. CASE ExitWithReason /\ inbox = << >>
  BY <1>4 DEF ExitWithReason, Exit, Links, Alive
<1>5. CASE Read
  BY <1>5, LinksRead
<1>6. CASE Relaunch
  <2>1. /\ life' = life + 1 /\ inbox' = << >> /\ up' \in Seq(UpPackets(life))
    BY <1>0, <1>6, Launched
  <2>2. Linked(up', life + 1)
    <3> SUFFICES ASSUME NEW i \in 1 .. Len(up') - 1 PROVE Link(up'[i], up'[i + 1], life + 1)
      BY DEF Linked
    <3>1. i \in 1 .. Len(up')
      BY <2>1
    <3>2. up'[i] \in UpPackets(life)
      BY <2>1, <3>1, ElementOfSeq
    <3>3. up'[i].life \in 0 .. life
      BY <1>1, <3>2, UpIs
    <3>4. up'[i].life # life + 1
      BY <1>1, <3>3
    <3> QED
      BY <3>4 DEF Link, InRun
  <2>3. Linked(<< >>, life + 1)
    BY EmptyQueue
  <2> QED
    BY <2>1, <2>2, <2>3 DEF Links
<1>7. CASE Beacon \/ PicoRestart
  <2> DEFINE p == Packet("restarted", 0, 0)
  <2>1. p \in UpPackets(life) /\ p.cmd # "trace"
    BY <1>1, Sent DEF Packet
  <2>2. Send(p) /\ UNCHANGED <<life, inbox, main>>
    BY <1>7 DEF Beacon, PicoRestart, output, caller
  <2> QED
    BY <2>1, <2>2, LinksSend
<1>8. CASE PicoConfig \/ PicoUpload \/ PicoStart
  <2> DEFINE h == Head(toPico)
             p == Packet("answer", h.life, h.x)
  <2>1. Receive("rpc") /\ Send(p) /\ UNCHANGED <<life, inbox, main>>
    BY <1>8 DEF PicoConfig, PicoUpload, PicoStart, output, caller
  <2>2. h.life \in 1 .. life /\ h.x \in 1 .. Start /\ p \in UpPackets(life) /\ p.cmd # "trace"
    BY <1>0, <1>1, <2>1, Received, Sent DEF Packet
  <2> QED
    BY <2>1, <2>2, LinksSend
<1>9. CASE SendTrace
  <2>1. run \in 1 .. life /\ sent + 1 \in Nat
    BY <1>0, <1>1, <1>9 DEF SendTrace, Typed, TypedBoard
  <2>2. Packet("trace", run, sent + 1) \in UpPackets(life) /\ Packet("trace", run, sent + 1).x = sent + 1
    BY <1>1, <2>1, Sent DEF Packet
  <2> QED
    BY <1>9, <2>2, LinksSend DEF SendTrace, output, caller
<1>10. CASE SendDump
  <2> DEFINE p == IF sent = 0 THEN Packet("fault", run, ended) ELSE Packet("chunk", run, sent)
  <2>1. run \in 1 .. life /\ sent \in 0 .. Chunks /\ ended \in 1 .. 3 /\ Chunks \in Nat
    BY <1>0, <1>1, <1>10, StartFacts DEF SendDump, Typed, TypedBoard
  <2>2. p \in UpPackets(life)
    BY <1>1, <2>1, Sent
  <2>3. p.cmd # "trace"
    BY DEF Packet
  <2>4. Send(p) /\ UNCHANGED <<life, inbox, main>>
    BY <1>10 DEF SendDump, output, caller
  <2> QED
    BY <2>2, <2>3, <2>4, LinksSend
<1> QED
  BY <1>2, <1>3, <1>4, <1>5, <1>6, <1>7, <1>8, <1>9, <1>10 DEF Next, Main, Dispatcher, PicoLoop

LEMMA SentLastNext == ASSUME IInv, [Next]_vars PROVE SentLast'
<1>0. Typed /\ SentLast /\ NotBegun
  BY DEF IInv, Streamed
<1>1. /\ life \in Nat /\ life >= 1 /\ life \in 1 .. life /\ Start \in Nat /\ Start >= 3
      /\ up \in Seq(UpPackets(life)) /\ inbox \in Seq(UpPackets(life)) /\ run \in 0 .. life
  BY <1>0, Facts DEF Typed, TypedBoard
<1>2. CASE \/ HearBeacon \/ AskRestart \/ Call \/ Answered \/ Begin \/ Timeout \/ Interrupt \/ SendSigint
           \/ ObeySigint \/ Die \/ EndOfInput \/ UNCHANGED vars
  <2>1. UNCHANGED <<life, inbox, up, run, pico, sent>> /\ (main' = main \/ Alive)
    BY <1>2 DEF HearBeacon, AskRestart, Call, Answered, Begin, Timeout, Interrupt, SendSigint, ObeySigint,
                Die, EndOfInput, vars, wire, output, caller, board, Alive
  <2> QED
    BY <1>0, <2>1 DEF SentLast, EndsAt, InRun, OfRun, Alive
<1>3. CASE Restarted \/ Answer \/ Trace \/ Fault \/ Chunk \/ (ExitWithReason /\ inbox # << >>)
  <2>1. /\ Alive /\ inbox # << >> /\ inbox' = Tail(inbox) /\ UNCHANGED <<life, up, main, run, pico, sent>>
    BY <1>0, <1>3, TookStep
  <2>2. inbox' # << >> => Final(inbox') = Final(inbox)
    BY <1>0, <2>1, TookOne
  <2> QED
    BY <1>0, <2>1, <2>2 DEF SentLast, EndsAt, InRun, OfRun
<1>4. CASE ExitWithReason /\ inbox = << >>
  BY <1>4 DEF ExitWithReason, Exit, SentLast, Alive
<1>5. CASE Read
  <2>1. /\ up # << >> /\ up' = Tail(up) /\ Head(up) \in UpPackets(life) /\ Alive
        /\ UNCHANGED <<life, main, cpuStarted, run, pico, sent>>
        /\ \/ inbox' = inbox /\ ~cpuStarted
           \/ inbox' = Append(inbox, Head(up))
    BY <1>0, <1>5, WasRead DEF Read, caller, board
  <2>2. SUFFICES ASSUME run = life, pico = "running"
                 PROVE  /\ up' # << >> => EndsAt(Final(up'))
                        /\ up' = << >> /\ inbox' # << >> => EndsAt(Final(inbox'))
    BY <2>1 DEF SentLast, EndsAt, InRun, OfRun
  <2>3. EndsAt(Final(up))
    BY <1>0, <2>1, <2>2 DEF SentLast
  <2>4. /\ up' # << >> => Final(up') = Final(up)
        /\ up' = << >> => Final(up) = Head(up)
    BY <1>1, <2>1, Dropped
  <2>5. CASE inbox' = inbox /\ ~cpuStarted
    <3>1. inbox # << >> => Final(inbox) \in Range(inbox)
      BY <1>1, FinalInRange
    <3>2. inbox # << >> => EndsAt(Final(inbox))
      BY <1>0, <2>5, <3>1 DEF NotBegun, EndsAt, InRun
    <3> QED
      BY <2>3, <2>4, <2>5, <3>2
  <2>6. CASE inbox' = Append(inbox, Head(up))
    <3>1. Final(inbox') = Head(up)
      BY <1>1, <2>1, <2>6, Appended
    <3> QED
      BY <2>3, <2>4, <3>1
  <2> QED
    BY <2>1, <2>5, <2>6
<1>6. CASE Relaunch
  <2>1. life' = life + 1 /\ run' = run
    BY <1>6 DEF Relaunch, board
  <2> QED
    BY <1>1, <2>1 DEF SentLast
<1>7. CASE Beacon \/ PicoRestart \/ SendDump \/ RunEnds
  <2>1. pico' # "running"
    BY <1>7 DEF Beacon, PicoRestart, SendDump, RunEnds, board
  <2> QED
    BY <2>1 DEF SentLast
<1>8. CASE PicoConfig \/ PicoUpload
  <2>1. run # life /\ UNCHANGED <<run, life>>
    BY <1>8, NotItsRun DEF PicoConfig, PicoUpload
  <2> QED
    BY <2>1 DEF SentLast
<1>9. CASE PicoSigint
  <2>1. pico' # "running" \/ UNCHANGED <<pico, sent>>
    BY <1>9 DEF PicoSigint
  <2>2. UNCHANGED <<life, inbox, up, run, main>>
    BY <1>9 DEF PicoSigint, output, caller
  <2> QED
    BY <1>0, <2>1, <2>2 DEF SentLast, EndsAt, InRun, OfRun, Alive
<1>10. CASE PicoStart
  <2> DEFINE h == Head(toPico)
             p == Packet("answer", h.life, h.x)
  <2>1. Receive("rpc") /\ Send(p) /\ UNCHANGED <<life, inbox, main>>
    BY <1>10 DEF PicoStart, output, caller
  <2>2. p \in UpPackets(life) /\ p.cmd = "answer"
    BY <1>0, <1>1, <2>1, Received, Sent DEF Packet
  <2>3. ~Alive \/ up' = Append(up, p)
    BY <1>0, <2>1, <2>2, WasSent
  <2>4. up' = Append(up, p) => up' # << >> /\ Final(up') = p
    BY <1>1, <2>2, Appended
  <2> HIDE DEF p
  <2> QED
    BY <2>1, <2>2, <2>3, <2>4 DEF SentLast, EndsAt, Alive
<1>11. CASE SendTrace
  <2> DEFINE p == Packet("trace", run, sent + 1)
  <2>1. run \in 1 .. life /\ sent + 1 \in Nat
    BY <1>0, <1>1, <1>11 DEF SendTrace, Typed, TypedBoard
  <2>2. p \in UpPackets(life) /\ p.cmd = "trace" /\ p.x = sent + 1
    BY <1>1, <2>1, Sent DEF Packet
  <2>3. Send(p) /\ UNCHANGED <<life, main>> /\ sent' = sent + 1
    BY <1>11 DEF SendTrace, output, caller
  <2>4. ~Alive \/ up' = Append(up, p)
    BY <1>0, <2>2, <2>3, WasSent
  <2>5. up' = Append(up, p) => up' # << >> /\ Final(up') = p
    BY <1>1, <2>2, Appended
  <2> HIDE DEF p
  <2> QED
    BY <2>2, <2>3, <2>4, <2>5 DEF SentLast, EndsAt, Alive
<1> QED
  BY <1>2, <1>3, <1>4, <1>5, <1>6, <1>7, <1>8, <1>9, <1>10, <1>11 DEF Next, Main, Dispatcher, PicoLoop

\* What follows the packet that is taken.
LEMMA ShownTake ==
  ASSUME IInv, Restarted \/ Answer \/ Trace \/ Fault \/ Chunk \/ (ExitWithReason /\ inbox # << >>)
  PROVE  ShownNext'
<1> DEFINE h == Head(inbox)
<1>0. Typed /\ Links /\ SentLast /\ NotBegun
  BY DEF IInv, Streamed
<1>1. /\ Alive /\ inbox # << >> /\ inbox' = Tail(inbox)
      /\ UNCHANGED <<life, up, run, pico, sent, main, cpuStarted>>
      /\ shown' = IF h.cmd = "trace" THEN Append(shown, h) ELSE shown
  BY <1>0, TookStep
<1>2. /\ h \in Range(inbox) /\ inbox \in Seq(UpPackets(life))
      /\ inbox' # << >> => Final(inbox') = Final(inbox)
      /\ inbox' = << >> => Final(inbox) = h
      /\ Linked(inbox, life) => (inbox' # << >> => Link(h, Head(inbox'), life))
  BY <1>0, <1>1, TookOne
<1>3. SUFFICES ASSUME shown' # << >>
               PROVE  /\ inbox' # << >> => GoesOn(Head(inbox))'
                      /\ inbox' = << >> /\ up # << >> => GoesOn(Head(up))'
                      /\ inbox' = << >> /\ up = << >> /\ pico = "running" => Final(shown)'.x = sent
  BY <1>1 DEF ShownNext
<1>4. cpuStarted
  <2>1. CASE h.cmd = "trace"
    BY <1>0, <1>2, <2>1 DEF NotBegun, OfRun
  <2>2. CASE h.cmd # "trace"
    BY <1>0, <1>1, <1>3, <2>2 DEF NotBegun
  <2> QED
    BY <2>1, <2>2
<1>5. run = life /\ OfRun(h) /\ InRun(h, life)
  BY <1>1, <1>2, <1>4, OnlyItsRun
<1>6. h.cmd = "trace" => Final(shown') = h
  <2> SUFFICES ASSUME h.cmd = "trace" PROVE Final(shown') = h
    OBVIOUS
  <2> DEFINE S == [cmd : {"trace"}, life : 1 .. life, x : Nat]
  <2>1. h \in S
    <3>1. h \in UpPackets(life) /\ life \in Nat
      BY <1>0, <1>1, <1>2, Dropped, Facts
    <3> QED
      BY <3>1, UpIs
  <2>2. shown \in Seq(S)
    BY <1>0 DEF Typed, TypedOutput
  <2> HIDE DEF S
  <2>3. Final(Append(shown, h)) = h
    BY <2>1, <2>2, Appended
  <2> QED
    BY <1>1, <2>3
<1>7. h.cmd # "answer"
  BY <1>5 DEF OfRun
<1> HIDE DEF h
<1>8. ASSUME NEW q, Link(h, q, life)
      PROVE  q.cmd = "trace" => q.x = Final(shown').x + 1
  BY <1>5, <1>6, <1>7, <1>8 DEF Link
<1>9. inbox' # << >> => (Head(inbox').cmd = "trace" => Head(inbox').x = Final(shown').x + 1)
  BY <1>0, <1>1, <1>2, <1>8 DEF Links
<1>10. inbox' = << >> /\ up # << >> => (Head(up).cmd = "trace" => Head(up).x = Final(shown').x + 1)
  BY <1>0, <1>1, <1>2, <1>8 DEF Links
<1>11. inbox' = << >> /\ up = << >> /\ pico = "running" => Final(shown').x = sent
  BY <1>0, <1>1, <1>2, <1>5, <1>6, <1>7 DEF SentLast, EndsAt
<1>12. up' = up
  BY <1>1
<1> QED
  BY <1>9, <1>10, <1>11, <1>12 DEF GoesOn, Final

LEMMA ShownSend ==
  ASSUME IInv, NEW p \in UpPackets(life), Send(p), UNCHANGED <<shown, main, inbox>>,
         p.cmd = "trace" => p.x = sent + 1 /\ pico = "running"
  PROVE  ShownNext'
<1>0. Typed /\ ShownNext
  BY DEF IInv, Streamed
<1>1. SUFFICES ASSUME Alive, shown # << >>
               PROVE  /\ inbox # << >> => GoesOn(Head(inbox))
                      /\ up' # << >> /\ (inbox = << >> => GoesOn(Head(up')))
  BY DEF ShownNext, GoesOn, Alive, Final
<1>2. up \in Seq(UpPackets(life)) /\ up' = Append(up, p)
  BY <1>0, <1>1, Facts, WasSent
<1>3. up' # << >> /\ Head(up') = IF up = << >> THEN p ELSE Head(up)
  BY <1>2, Appended
<1>4. inbox = << >> /\ up = << >> => GoesOn(p)
  BY <1>0, <1>1 DEF ShownNext, GoesOn
<1> QED
  BY <1>0, <1>1, <1>3, <1>4 DEF ShownNext

LEMMA ShownNextNext == ASSUME IInv, [Next]_vars PROVE ShownNext'
<1>0. Typed /\ ShownNext /\ NotBegun
  BY DEF IInv, Streamed
<1>1. /\ life \in Nat /\ life >= 1 /\ life \in 1 .. life /\ Start \in Nat /\ Start >= 3
      /\ up \in Seq(UpPackets(life)) /\ inbox \in Seq(UpPackets(life)) /\ run \in 0 .. life
  BY <1>0, Facts DEF Typed, TypedBoard
<1>s. Alive /\ shown # << >> => cpuStarted /\ run = life
  BY <1>0, OnlyItsRun DEF NotBegun
<1>2. CASE \/ HearBeacon \/ AskRestart \/ Call \/ Answered \/ Begin \/ Timeout \/ Interrupt \/ SendSigint
           \/ ObeySigint \/ Die \/ EndOfInput \/ UNCHANGED vars
  <2>1. UNCHANGED <<inbox, up, shown, pico, sent>> /\ (main' = main \/ Alive)
    BY <1>2 DEF HearBeacon, AskRestart, Call, Answered, Begin, Timeout, Interrupt, SendSigint, ObeySigint,
                Die, EndOfInput, vars, wire, output, caller, board, Alive
  <2> QED
    BY <1>0, <2>1 DEF ShownNext, GoesOn, Final, Alive
<1>3. CASE Restarted \/ Answer \/ Trace \/ Fault \/ Chunk \/ (ExitWithReason /\ inbox # << >>)
  BY <1>3, ShownTake
<1>4. CASE ExitWithReason /\ inbox = << >>
  BY <1>4 DEF ExitWithReason, Exit, ShownNext, Alive
<1>5. CASE Read
  <2>1. /\ up # << >> /\ up' = Tail(up) /\ Head(up) \in UpPackets(life) /\ Alive /\ UNCHANGED shown
        /\ \/ inbox' = inbox /\ ~cpuStarted
           \/ inbox' = Append(inbox, Head(up))
    BY <1>0, <1>5, WasRead DEF Read
  <2>2. SUFFICES ASSUME shown # << >>
                 PROVE  inbox' # << >> /\ GoesOn(Head(inbox'))
    BY <2>1 DEF ShownNext, GoesOn, Final
  <2>3. inbox' = Append(inbox, Head(up))
    BY <1>s, <2>1, <2>2
  <2>4. inbox' # << >> /\ Head(inbox') = IF inbox = << >> THEN Head(up) ELSE Head(inbox)
    BY <1>1, <2>1, <2>3, Appended
  <2> QED
    BY <1>0, <2>1, <2>2, <2>4 DEF ShownNext
<1>6. CASE Relaunch
  BY <1>6 DEF Relaunch, ShownNext
<1>7. CASE PicoRestart \/ PicoConfig \/ PicoUpload \/ PicoStart
  <2>1. run # life /\ UNCHANGED <<shown, main>>
    BY <1>7, NotItsRun DEF PicoRestart, PicoConfig, PicoUpload, PicoStart, output, caller
  <2> QED
    BY <1>s, <2>1 DEF ShownNext, Alive
<1>8. CASE Beacon
  <2>1. run # life
    BY <1>0, <1>1, <1>8 DEF Beacon, Typed, TypedBoard
  <2>2. UNCHANGED <<shown, main>>
    BY <1>8 DEF Beacon, output, caller
  <2> QED
    BY <1>s, <2>1, <2>2 DEF ShownNext, Alive
<1>9. CASE PicoSigint \/ RunEnds
  <2>1. (pico' # "running" \/ UNCHANGED <<pico, sent>>) /\ UNCHANGED <<inbox, up, main, shown>>
    BY <1>9 DEF PicoSigint, RunEnds, output, caller, wire
  <2> QED
    BY <1>0, <2>1 DEF ShownNext, GoesOn, Final, Alive
<1>10. CASE SendTrace
  <2> DEFINE p == Packet("trace", run, sent + 1)
  <2>1. run \in 1 .. life /\ sent + 1 \in Nat
    BY <1>0, <1>1, <1>10 DEF SendTrace, Typed, TypedBoard
  <2>2. p \in UpPackets(life) /\ p.x = sent + 1
    BY <1>1, <2>1, Sent DEF Packet
  <2>3. Send(p) /\ UNCHANGED <<shown, main, inbox>> /\ pico = "running"
    BY <1>10 DEF SendTrace, output, caller
  <2> QED
    BY <2>2, <2>3, ShownSend
<1>11. CASE SendDump
  <2> DEFINE p == IF sent = 0 THEN Packet("fault", run, ended) ELSE Packet("chunk", run, sent)
  <2>1. run \in 1 .. life /\ sent \in 0 .. Chunks /\ ended \in 1 .. 3 /\ Chunks \in Nat
    BY <1>0, <1>1, <1>11, StartFacts DEF SendDump, Typed, TypedBoard
  <2>2. p \in UpPackets(life)
    BY <1>1, <2>1, Sent
  <2>3. p.cmd # "trace"
    BY DEF Packet
  <2>4. Send(p) /\ UNCHANGED <<shown, main, inbox>>
    BY <1>11 DEF SendDump, output, caller
  <2> QED
    BY <2>2, <2>3, <2>4, ShownSend
<1> QED
  BY <1>2, <1>3, <1>4, <1>5, <1>6, <1>7, <1>8, <1>9, <1>10, <1>11 DEF Next, Main, Dispatcher, PicoLoop

LEMMA StreamedNext == ASSUME IInv, FewLives, [Next]_vars PROVE Streamed'
  BY ShownNow, NoneYetNext, OnlyRunNext, NotBegunNext, LinksNext, SentLastNext, ShownNextNext DEF Streamed

-----------------------------------------------------------------------------
(* The session.                                                            *)

LEMMA InitInvariant == ASSUME Init PROVE IInv
<1>1. /\ Range(inbox) = {} /\ Range(up) = {} /\ Range(toPico) = {}
      /\ Len(inbox) = 0 /\ Len(up) = 0 /\ Len(toPico) = 0 /\ Len(shown) = 0
      /\ Linked(inbox, life) /\ Linked(up, life)
  <2>1. inbox = << >> /\ up = << >> /\ toPico = << >> /\ shown = << >> /\ Len(<< >>) = 0
    BY DEF Init
  <2> QED
    BY <2>1, EmptyQueue
<1>2. /\ life = 1 /\ main = "beacon" /\ k = 1 /\ pico = "wait" /\ cfg = 0 /\ run = 0 /\ ended = 0
      /\ inbox = << >> /\ up = << >> /\ toPico = << >> /\ Start \in Nat /\ Start >= 3
  BY StartFacts DEF Init
<1>3. Typed
  BY TypedInit
<1>4. Ordered
  BY <1>1 DEF Ordered, InOrder, Ahead
<1>5. PicoKnows
  BY <1>1, <1>2 DEF PicoKnows, RunIsConfigured, AfterRun, AfterConfig, InTurn, AfterEnd
<1>6. Heeded
  BY <1>1, <1>2 DEF Heeded, Busy
<1>7. Calling
  BY <1>1, <1>2 DEF Init, Calling, Waiting, OwnMade, LastMade
<1>8. Ending
  <2>1. reason # Packet("fault", life, 2) /\ reason # Packet("fault", life, 1)
    BY DEF Init, None, Packet
  <2>2. IsFiniteSet(chunks) /\ disp = "run"
    BY FS_EmptySet DEF Init
  <2>3. exit = "none" /\ sig = "idle" /\ cpuStarted = FALSE
    BY DEF Init
  <2> QED
    BY <1>1, <1>2, <2>1, <2>2, <2>3 DEF Ending, Phases, Interrupted, Dumped, ExitTruth
<1>9. Counted
  <2>1. Open = {} /\ Stale = {}
    BY <1>1 DEF Open, Stale
  <2>2. IsFiniteSet({}) /\ Cardinality({}) = 0
    BY FS_EmptySet
  <2>3. FewOpen
    BY <1>2, <2>1, <2>2 DEF FewOpen
  <2>4. NotAhead
    BY <1>2, <2>1, <2>2 DEF NotAhead, Unanswered, Taken
  <2> QED
    BY <1>1, <2>3, <2>4 DEF Counted, AnswersConfigured
<1>10. Streamed
  <2>1. shown = << >> /\ reason = None /\ chunks = {} /\ disp = "run"
    BY DEF Init
  <2> QED
    BY <1>1, <1>2, <2>1 DEF Streamed, ShownIsThisRun, NoneYet, OnlyRun, NotBegun, Links, SentLast, ShownNext
<1> QED
  BY <1>3, <1>4, <1>5, <1>6, <1>7, <1>8, <1>9, <1>10 DEF IInv

LEMMA NextInvariant == ASSUME FewLives, IInv, [Next]_vars PROVE IInv'
<1>1. Typed'
  BY TypedNext DEF IInv
<1> QED
  BY <1>1, OrderedNext, KnowsNext, HeededNext, CallingNext, EndingNext, CountedNext, StreamedNext DEF IInv

\* Few enough before, if now: every launch counts.
LEMMA FewBefore == ASSUME Typed, [Next]_vars, FewLives' PROVE FewLives
<1>1. life \in Nat /\ Start \in Nat
  BY Facts
<1>2. CASE Relaunch
  BY <1>1, <1>2 DEF Relaunch, FewLives, Start
<1>3. CASE ~Relaunch
  <2>1. CASE Main \/ AskRestart \/ Timeout \/ Read \/ Dispatcher
    BY <2>1 DEF Main, HearBeacon, Call, Answered, Begin, AskRestart, Timeout, Read, Dispatcher,
                Restarted, Answer, Trace, Fault, Chunk, ExitWithReason, FewLives, Start
  <2>2. CASE Interrupt \/ SendSigint \/ ObeySigint \/ Die \/ EndOfInput
    BY <2>2 DEF Interrupt, SendSigint, ObeySigint, Die, EndOfInput, FewLives, Start
  <2>3. CASE PicoLoop \/ Beacon \/ RunEnds \/ UNCHANGED vars
    BY <2>3 DEF PicoLoop, PicoRestart, PicoConfig, PicoUpload, PicoStart, PicoSigint, SendTrace,
                SendDump, Beacon, RunEnds, vars, FewLives, Start
  <2> QED
    BY <1>3, <2>1, <2>2, <2>3 DEF Next
<1> QED
  BY <1>2, <1>3

\* The invariant holds as long as FewLives does.
LEMMA Invariant == Spec => [](FewLives => IInv)
<1> DEFINE I == Typed /\ (FewLives => IInv)
<1>1. Init => I
  BY InitInvariant, TypedInit
<1>2. I /\ [Next]_vars => I'
  <2> SUFFICES ASSUME I, [Next]_vars PROVE I'
    OBVIOUS
  <2>1. Typed'
    BY TypedNext
  <2>2. FewLives' => IInv'
    BY FewBefore, NextInvariant
  <2> QED
    BY <2>1, <2>2
<1>3. I => (FewLives => IInv)
  OBVIOUS
<1> QED
  BY <1>1, <1>2, <1>3, PTL DEF Spec

\* Whatever was still on the wire from the run of a Tether that died: what is
\* shown and saved is of the run this Tether started, the trace without a gap.
THEOREM SessionShown == Spec => [](FewLives => ShownIsThisRun)
<1>1. IInv => ShownIsThisRun
  BY DEF IInv, Streamed
<1> QED
  BY <1>1, Invariant, PTL

\* What the exit code of a Tether says is true of its own run: 130, that it was
\* interrupted; 0, if it was launched with -n, that the run reached its limit and
\* its dump was saved.  Otherwise 0 says no more than that the run was started.
THEOREM SessionExit == Spec => [](FewLives => ExitTruth)
<1>1. IInv => ExitTruth
  BY DEF IInv, Ending
<1> QED
  BY <1>1, Invariant, PTL

\* An answer that is taken is to the call that was made, and if it is to the
\* call of a Tether that died, there were at least as many of those.
THEOREM SessionAnswers == Spec => [](FewLives => OwnAnswers)
<1>1. IInv => OwnAnswers
  BY DEF IInv, Calling, Waiting, OwnAnswers, Fit
<1> QED
  BY <1>1, Invariant, PTL

\* The CPU runs only on the configuration and on the memory image, all of it,
\* of the Tether that started it.
THEOREM SessionConfigured == Spec => [](FewLives => RunIsConfigured)
<1>1. IInv => RunIsConfigured
  BY DEF IInv, PicoKnows
<1> QED
  BY <1>1, Invariant, PTL
=============================================================================
