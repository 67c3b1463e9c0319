------------------------------- MODULE Tether -------------------------------
(***************************************************************************)
(* A session of TurboLab as the Tether sees it (tether/main.go), across    *)
(* several lives of the Tether: it waits for the beacon of the Pico,       *)
(* configures it, uploads the memory image, starts the CPU, shows what the *)
(* Pico sends, saves the core dump and exits with a code that says how the *)
(* run ended.                                                              *)
(*                                                                         *)
(* Its goroutines run concurrently: main, the reader, the dispatcher and   *)
(* the signal handler.  The Tether may be killed at any time and launched  *)
(* again; what it had queued is lost from some packet on, and what the     *)
(* Pico sent meanwhile may still be there.  The Pico is the main loop of   *)
(* firmware/main.cpp, seen from the wire; Firmware has it in detail, and   *)
(* CobsLink the wire itself.                                               *)
(***************************************************************************)
EXTENDS Naturals, Sequences, FiniteSets

CONSTANTS
  Uploads,   \* the uploads of a session; 64 in the code
  Chunks,    \* the packets of a core dump; 64
  Lives,     \* bound: how often the Tether is launched
  TraceMax,  \* bound: trace packets of a run
  TickMax,   \* bound: how often a life asks for a restart
  UpMax      \* bound: packets on their way from the Pico, and the room of
             \*   cobsFromPico, 256 in the code

ASSUME BoundsAssumption ==
  {Uploads, Chunks, Lives, TraceMax, TickMax, UpMax} \subseteq Nat \ {0}

VARIABLES
  toPico, up,               \* the packets on their way, down and up
  life, main, k,            \* which life; where main is; the RPC it is at,
                            \*   which is also its serial number
  token,                    \* restartedChan holds a token
  pending, reply,           \* rpcPending, as the serial waited for, or 0; the
                            \*   answer in its channel
  cpuStarted, inbox, disp,  \* cpuStarted; cobsFromPico; the dispatcher
  sig, sigs, ticks,         \* the signal handler; SIGINTs; restarts asked for
  flagN,                    \* launched with -n: stdin is never read
  shown, reason, chunks,    \* what was shown; faultReason; coreDumpChunks
  exit,                     \* the exit code of this life, or "none"
  pico, beacon,             \* fw_state; waiting_for_tether_packet
  cfg, image,               \* the life that configured the Pico and the ones
                            \*   that uploaded each part of its memory
  run, sent, ended          \* the run: the life that started it, the trace or
                            \*   dump packets sent, and why it ended

wire   == <<toPico, up>>
caller == <<main, k, token, pending, reply, cpuStarted>>
output == <<inbox, disp, shown, reason, chunks>>
user   == <<sig, sigs, ticks, flagN>>
board  == <<pico, beacon, cfg, image, run, sent, ended>>
vars   == <<toPico, up, life, main, k, token, pending, reply, cpuStarted, inbox, disp, sig, sigs,
            ticks, flagN, shown, reason, chunks, exit, pico, beacon, cfg, image, run, sent, ended>>

None == [cmd |-> "none", life |-> 0, x |-> 0]
Packet(c, l, n) == [cmd |-> c, life |-> l, x |-> n]

\* The RPCs of a session: config, the uploads, start.
Start     == Uploads + 2
Method(n) == IF n = 1 THEN "config" ELSE IF n = Start THEN "start" ELSE "upload"

Alive == main # "gone"

Exit(code) == main' = "gone" /\ exit' = code

-----------------------------------------------------------------------------
(* main.                                                                   *)

\* The beacon was heard.
HearBeacon ==
  /\ main = "beacon" /\ token
  /\ main' = "call" /\ token' = FALSE
  /\ UNCHANGED <<wire, life, k, pending, reply, cpuStarted, output, user, exit, board>>

\* The ticker of two seconds.
AskRestart ==
  /\ main = "beacon" /\ ticks < TickMax
  /\ toPico' = Append(toPico, Packet("restart", life, 0))
  /\ ticks' = ticks + 1
  /\ UNCHANGED <<up, life, caller, output, sig, sigs, flagN, exit, board>>

\* picoRpcCall, with a new channel for the answer.
Call ==
  /\ main = "call"
  /\ pending' = k /\ reply' = None
  /\ toPico' = Append(toPico, Packet("rpc", life, k))
  /\ main' = "await"
  /\ UNCHANGED <<up, life, k, token, cpuStarted, output, user, exit, board>>

\* Fault: the loop over the uploads goes round once too often.
AnsweredLong ==
  /\ main = "await" /\ reply # None
  /\ main' = IF k > Start THEN "started" ELSE "call"
  /\ k' = IF k > Start THEN k ELSE k + 1
  /\ UNCHANGED <<wire, life, token, pending, reply, cpuStarted, output, user, exit, board>>

\* Fault: the loop over the uploads ends one short.
AnsweredShort ==
  /\ main = "await" /\ reply # None
  /\ main' = IF k = Start THEN "started" ELSE "call"
  /\ k' = IF k >= Start - 2 THEN Start ELSE k + 1
  /\ UNCHANGED <<wire, life, token, pending, reply, cpuStarted, output, user, exit, board>>

\* The answer is there; after the last upload comes start.
Answered ==
  /\ main = "await" /\ reply # None
  /\ main' = IF k = Start THEN "started" ELSE "call"
  /\ k' = IF k = Start THEN k ELSE k + 1
  /\ UNCHANGED <<wire, life, token, pending, reply, cpuStarted, output, user, exit, board>>

\* Five seconds without an answer: Fatalf.
Timeout ==
  /\ main = "await"
  /\ Exit("1")
  /\ UNCHANGED <<wire, life, k, token, pending, reply, cpuStarted, output, user, board>>

\* start was answered: cpuStarted.Store(true), a moment later.
Begin ==
  /\ main = "started"
  /\ cpuStarted' = TRUE /\ main' = "running"
  /\ UNCHANGED <<wire, life, k, token, pending, reply, output, user, exit, board>>

-----------------------------------------------------------------------------
(* The reader and the dispatcher.                                          *)

OfRun(p) == p.cmd \in {"trace", "fault", "chunk"}

\* Fault: everything is passed on.
PassAll ==
  /\ Alive /\ up # << >> /\ Len(inbox) < UpMax
  /\ up' = Tail(up)
  /\ inbox' = Append(inbox, Head(up))
  /\ UNCHANGED <<toPico, life, caller, disp, shown, reason, chunks, user, exit, board>>

\* What a run sends is dropped until cpuStarted.
Read ==
  /\ Alive /\ up # << >> /\ Len(inbox) < UpMax
  /\ up' = Tail(up)
  /\ inbox' = IF ~cpuStarted /\ OfRun(Head(up)) THEN inbox ELSE Append(inbox, Head(up))
  /\ UNCHANGED <<toPico, life, caller, disp, shown, reason, chunks, user, exit, board>>

Next1(c) == Alive /\ disp = "run" /\ inbox # << >> /\ Head(inbox).cmd = c /\ inbox' = Tail(inbox)

\* A full restartedChan is left as it is.
Restarted ==
  /\ Next1("restarted")
  /\ token' = TRUE
  /\ UNCHANGED <<wire, life, main, k, pending, reply, cpuStarted, disp, shown, reason, chunks, user,
                 exit, board>>

\* Fault: any answer is taken for the one that is waited for.
AnswerAny ==
  /\ Next1("answer")
  /\ IF pending # 0
     THEN reply' = Head(inbox) /\ pending' = 0
     ELSE UNCHANGED <<reply, pending>>
  /\ UNCHANGED <<wire, life, main, k, token, cpuStarted, disp, shown, reason, chunks, user, exit, board>>

\* The answer goes to the call of its serial number, if that still waits.
Answer ==
  /\ Next1("answer")
  /\ IF pending # 0 /\ pending = Head(inbox).x
     THEN reply' = Head(inbox) /\ pending' = 0
     ELSE UNCHANGED <<reply, pending>>
  /\ UNCHANGED <<wire, life, main, k, token, cpuStarted, disp, shown, reason, chunks, user, exit, board>>

Trace ==
  /\ Next1("trace")
  /\ shown' = Append(shown, Head(inbox))
  /\ UNCHANGED <<wire, life, caller, disp, reason, chunks, user, exit, board>>

Fault ==
  /\ Next1("fault")
  /\ reason' = Head(inbox)
  /\ UNCHANGED <<wire, life, caller, disp, shown, chunks, user, exit, board>>

\* Fault: the dump is taken for complete one packet too early.
ChunkEarly ==
  /\ Next1("chunk")
  /\ chunks' = chunks \cup {Head(inbox)}
  /\ disp' = IF Cardinality(chunks') + 1 >= Chunks THEN "drain" ELSE "run"
  /\ UNCHANGED <<wire, life, caller, shown, reason, user, exit, board>>

\* Fault: one chunk more than there are is waited for.
ChunkLate ==
  /\ Next1("chunk")
  /\ chunks' = chunks \cup {Head(inbox)}
  /\ disp' = IF Cardinality(chunks') > Chunks THEN "drain" ELSE "run"
  /\ UNCHANGED <<wire, life, caller, shown, reason, user, exit, board>>

\* coreDumpChunks is complete: it is saved, and what is queued is drained next.
Chunk ==
  /\ Next1("chunk")
  /\ chunks' = chunks \cup {Head(inbox)}
  /\ disp' = IF Cardinality(chunks') = Chunks THEN "drain" ELSE "run"
  /\ UNCHANGED <<wire, life, caller, shown, reason, user, exit, board>>

\* What is still queued is drained, packet by packet: the trace is shown, the
\* rest dropped.  Then the exit code follows the reason: 1 a limit, 2 SIGINT, 3
\* a fault of the program, 0 none heard of.
ExitWithReason ==
  /\ Alive /\ disp = "drain"
  /\ IF inbox # << >>
     THEN /\ inbox' = Tail(inbox)
          /\ shown' = IF Head(inbox).cmd = "trace" THEN Append(shown, Head(inbox)) ELSE shown
          /\ UNCHANGED <<main, exit>>
     ELSE /\ Exit(CASE reason.x = 1 -> "0" [] reason.x = 2 -> "130" [] OTHER -> "1")
          /\ UNCHANGED <<inbox, shown>>
  /\ UNCHANGED <<wire, life, k, token, pending, reply, cpuStarted, disp, reason, chunks, user, board>>

-----------------------------------------------------------------------------
(* Signals, and the end of a life.                                         *)

\* The user types ^C.
Interrupt ==
  /\ Alive /\ sigs < 2
  /\ sigs' = sigs + 1
  /\ UNCHANGED <<wire, life, caller, output, sig, ticks, flagN, exit, board>>

\* The first SIGINT goes to a CPU that runs ...
SendSigint ==
  /\ Alive /\ sig = "idle" /\ sigs >= 1 /\ cpuStarted
  /\ toPico' = Append(toPico, Packet("sigint", life, 0))
  /\ sig' = "wait"
  /\ UNCHANGED <<up, life, caller, output, sigs, ticks, flagN, exit, board>>

\* ... and ends a Tether that has not started one; so do the second one and
\* two seconds without a dump.
ObeySigint ==
  /\ Alive
  /\ (sig = "idle" /\ sigs >= 1 /\ ~cpuStarted) \/ sig = "wait"
  /\ Exit("130")
  /\ UNCHANGED <<wire, life, k, token, pending, reply, cpuStarted, output, user, board>>

\* SIGTERM or kill.
Die ==
  /\ Alive
  /\ Exit("killed")
  /\ UNCHANGED <<wire, life, k, token, pending, reply, cpuStarted, output, user, board>>

\* Stdin ends, or cannot be read: the terminal loop is left and main returns,
\* whatever the dispatcher is doing.
EndOfInput ==
  /\ main = "running" /\ ~flagN
  /\ Exit("0")
  /\ UNCHANGED <<wire, life, k, token, pending, reply, cpuStarted, output, user, board>>

\* The Tether is launched again, with or without -n.  Some first packets of what it had queued
\* reached the Pico, some last ones of what the Pico sent are still there.
Relaunch ==
  /\ ~Alive /\ life < Lives
  /\ \E n \in 0 .. Len(toPico) : toPico' = SubSeq(toPico, 1, n)
  /\ \E n \in 1 .. Len(up) + 1 : up' = SubSeq(up, n, Len(up))
  /\ life' = life + 1
  /\ main' = "beacon" /\ k' = 1 /\ token' = FALSE /\ pending' = 0 /\ reply' = None
  /\ cpuStarted' = FALSE /\ inbox' = << >> /\ disp' = "run"
  /\ sig' = "idle" /\ sigs' = 0 /\ ticks' = 0 /\ flagN' \in BOOLEAN
  /\ shown' = << >> /\ reason' = None /\ chunks' = {} /\ exit' = "none"
  /\ UNCHANGED board

-----------------------------------------------------------------------------
(* The Pico.                                                               *)

\* A packet is sent.  When nobody reads, it may be lost.
Send(p) ==
  \/ Len(up) < UpMax /\ up' = Append(up, p)
  \/ ~Alive /\ up' = up

Receive(c) == pico # "dumping" /\ toPico # << >> /\ Head(toPico).cmd = c /\ toPico' = Tail(toPico)

\* Every half second while no packet has come.
Beacon ==
  /\ pico = "wait" /\ beacon
  /\ Send(Packet("restarted", 0, 0))
  /\ UNCHANGED <<toPico, life, caller, output, user, exit, board>>

\* Fault: the beacon is not turned on again.
PicoRestartDark ==
  /\ Receive("restart")
  /\ pico' = "wait" /\ cfg' = 0 /\ run' = 0 /\ sent' = 0 /\ ended' = 0
  /\ UNCHANGED <<up, life, caller, output, user, exit, beacon, image>>

\* restart_to_restarted_state(); the memory keeps its contents.
PicoRestart ==
  /\ Receive("restart")
  /\ Send(Packet("restarted", 0, 0))
  /\ pico' = "wait" /\ beacon' = TRUE /\ cfg' = 0 /\ run' = 0 /\ sent' = 0 /\ ended' = 0
  /\ UNCHANGED <<life, caller, output, user, exit, image>>

Heard == beacon' = (beacon /\ pico # "wait")

\* config and upload are carried out in every state.
PicoConfig ==
  /\ Receive("rpc") /\ Method(Head(toPico).x) = "config"
  /\ Heard
  /\ cfg' = Head(toPico).life
  /\ Send(Packet("answer", Head(toPico).life, Head(toPico).x))
  /\ UNCHANGED <<life, caller, output, user, exit, pico, image, run, sent, ended>>

PicoUpload ==
  /\ Receive("rpc") /\ Method(Head(toPico).x) = "upload"
  /\ Heard
  /\ image' = [image EXCEPT ![Head(toPico).x - 1] = Head(toPico).life]
  /\ Send(Packet("answer", Head(toPico).life, Head(toPico).x))
  /\ UNCHANGED <<life, caller, output, user, exit, pico, cfg, run, sent, ended>>

\* And so is start: it is answered first.
PicoStart ==
  /\ Receive("rpc") /\ Method(Head(toPico).x) = "start"
  /\ Heard
  /\ Send(Packet("answer", Head(toPico).life, Head(toPico).x))
  /\ pico' = "running" /\ run' = Head(toPico).life /\ sent' = 0 /\ ended' = 0
  /\ UNCHANGED <<life, caller, output, user, exit, cfg, image>>

\* T_SIGINT ends a run whose CPU is out of reset and is ignored otherwise.
PicoSigint ==
  /\ Receive("sigint")
  /\ Heard
  /\ \/ pico = "running" /\ pico' = "dumping" /\ ended' = 2 /\ sent' = 0
     \/ UNCHANGED <<pico, ended, sent>>
  /\ UNCHANGED <<up, life, caller, output, user, exit, cfg, image, run>>

SendTrace ==
  /\ pico = "running" /\ sent < TraceMax
  /\ Send(Packet("trace", run, sent + 1))
  /\ sent' = sent + 1
  /\ UNCHANGED <<toPico, life, caller, output, user, exit, pico, beacon, cfg, image, run, ended>>

\* A limit is reached, or the program does something wrong.
RunEnds ==
  /\ pico = "running"
  /\ pico' = "dumping" /\ ended' \in {1, 3} /\ sent' = 0
  /\ UNCHANGED <<wire, life, caller, output, user, exit, beacon, cfg, image, run>>

\* transmit_core_dump(): the fault, then the chunks.
SendDump ==
  /\ pico = "dumping"
  /\ Send(IF sent = 0 THEN Packet("fault", run, ended) ELSE Packet("chunk", run, sent))
  /\ sent' = sent + 1
  /\ pico' = IF sent = Chunks THEN "halted" ELSE "dumping"
  /\ UNCHANGED <<toPico, life, caller, output, user, exit, beacon, cfg, image, run, ended>>

-----------------------------------------------------------------------------
Init ==
  /\ toPico = << >> /\ up = << >> /\ life = 1
  /\ main = "beacon" /\ k = 1 /\ token = FALSE /\ pending = 0 /\ reply = None /\ cpuStarted = FALSE
  /\ inbox = << >> /\ disp = "run" /\ sig = "idle" /\ sigs = 0 /\ ticks = 0
  /\ flagN \in BOOLEAN
  /\ shown = << >> /\ reason = None /\ chunks = {} /\ exit = "none"
  /\ pico = "wait" /\ beacon = TRUE /\ cfg = 0 /\ image = [i \in 1 .. Uploads |-> 0]
  /\ run = 0 /\ sent = 0 /\ ended = 0

Main       == HearBeacon \/ Call \/ Answered \/ Begin
Dispatcher == Restarted \/ Answer \/ Trace \/ Fault \/ Chunk \/ ExitWithReason
PicoLoop   == \/ PicoRestart \/ PicoConfig \/ PicoUpload \/ PicoStart \/ PicoSigint
              \/ SendTrace \/ SendDump

Next ==
  \/ Main \/ AskRestart \/ Timeout \/ Read \/ Dispatcher
  \/ Interrupt \/ SendSigint \/ ObeySigint \/ Die \/ EndOfInput \/ Relaunch
  \/ PicoLoop \/ Beacon \/ RunEnds

Spec == Init /\ [][Next]_vars

\* Every goroutine runs, the ticker ticks, the signal handler waits no longer
\* than two seconds, and the main loop of the Pico goes round.  No run need
\* end, no user need interrupt one, and nobody need launch the Tether again.
FairSpec ==
  /\ Spec
  /\ WF_vars(Main) /\ WF_vars(AskRestart) /\ WF_vars(Read) /\ WF_vars(Dispatcher)
  /\ WF_vars(SendSigint) /\ WF_vars(ObeySigint)
  /\ WF_vars(PicoLoop)

-----------------------------------------------------------------------------
(* Properties.                                                             *)

Packets == [cmd : {"restarted", "answer", "trace", "fault", "chunk", "restart", "rpc", "sigint"},
            life : 0 .. Lives, x : Nat]

TypeOK ==
  /\ toPico \in Seq(Packets) /\ up \in Seq(Packets) /\ Len(up) <= UpMax
  /\ life \in 1 .. Lives
  /\ main \in {"beacon", "call", "await", "started", "running", "gone"}
  /\ k \in 1 .. Start /\ pending \in 0 .. Start
  /\ reply \in Packets \cup {None}
  /\ token \in BOOLEAN /\ cpuStarted \in BOOLEAN
  /\ inbox \in Seq(Packets) /\ disp \in {"run", "drain"}
  /\ sig \in {"idle", "wait"} /\ sigs \in 0 .. 2 /\ ticks \in 0 .. TickMax /\ flagN \in BOOLEAN
  /\ shown \in Seq(Packets) /\ reason \in Packets \cup {None} /\ chunks \subseteq Packets
  /\ exit \in {"none", "0", "1", "130", "killed"}
  /\ pico \in {"wait", "running", "dumping", "halted"} /\ beacon \in BOOLEAN
  /\ cfg \in 0 .. Lives /\ image \in [1 .. Uploads -> 0 .. Lives]
  /\ run \in 0 .. Lives /\ sent \in Nat /\ ended \in 0 .. 3

\* What the user is shown and what is saved comes from the run this very
\* Tether started, never from the one before whose packets were still on the
\* wire: the trace in order and without a gap, at most its first packets
\* missing, the fault, and every part of the dump.
ShownIsThisRun ==
  /\ \A i \in 1 .. Len(shown) :
       shown[i].life = life /\ (i > 1 => shown[i].x = shown[i - 1].x + 1)
  /\ reason # None => reason.life = life
  /\ \A c \in chunks : c.life = life

\* What the exit code tells.  Of a Tether launched with -n, 0 says that its run
\* reached its limit and that its whole dump was saved.  Of one that reads
\* stdin it says less: main returns with 0 at the end of the input too, in the
\* middle of the run; but the CPU was started by then.  130 says that this
\* Tether was interrupted, and not one before it.
ExitTruth ==
  /\ exit = "0" => cpuStarted
  /\ exit = "0" /\ flagN => /\ reason = Packet("fault", life, 1)
                            /\ {c.x : c \in chunks} = 1 .. Chunks
  /\ exit = "130" => sigs > 0

\* An answer is never taken for the answer to another call of the session,
\* although the serial numbers of every life begin at 1.  What may happen is
\* that it answers the same call of a Tether that died: one call more for every
\* Tether that did.
OwnAnswers ==
  main \in {"call", "started", "running"} /\ reply # None =>
    /\ reply.x = (IF main = "call" THEN k - 1 ELSE k)
    /\ reply.life = life \/ reply.x < life

\* The CPU never runs on what another Tether left: whenever it runs, the Tether
\* that started it has configured the Pico since its last restart and has
\* uploaded the whole memory image.  It is what Firmware assumes of its host.
\* It needs Lives <= Uploads + 2: answers of dead Tethers may put a Tether one
\* call further ahead of the Pico for every one that died, and at last a whole
\* session ahead.
RunIsConfigured ==
  pico \in {"running", "dumping"} => cfg = run /\ \A i \in 1 .. Uploads : image[i] = run

\* A Tether finds its Pico, whatever the Tether before it left the Pico doing.
Handshake == (main = "beacon") ~> (main # "beacon")

\* A run that ends after the Tether has noted that it started it is reported:
\* the Tether exits, at the latest when it has the whole dump.
RunReported == (cpuStarted /\ pico = "dumping" /\ sent = 0) ~> ~Alive
=============================================================================
