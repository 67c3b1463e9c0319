------------------------------ MODULE CobsLink ------------------------------
(***************************************************************************)
(* The serial link between the Tether and the firmware: packets with a     *)
(* checksum, COBS encoded, separated by zero bytes.  Each side has its own *)
(* encoder and its own decoder: Go code in the Tether (tether/cobs, used   *)
(* by the reader and the writer of main.go), C++ in the firmware (cobs.h). *)
(*                                                                         *)
(* The bytes on the wire are modelled, since what can go wrong is in them, *)
(* with Base for 256: a code byte counts up to Base - 1 and a block holds  *)
(* up to Base - 2 bytes.  The Tether makes one RPC at a time; it may die   *)
(* in the middle of a frame and be started again.                          *)
(***************************************************************************)
EXTENDS Naturals, Sequences, SequencesExt

CONSTANTS
  Base,         \* how many values a byte has
  Requests,     \* the packets the Tether may send
  Replies,      \* the packets the firmware may answer with
  QueueMax,     \* packets usb_rx_packets holds; 63 in the firmware
  MaxRequests,  \* bounds the requests of the whole behaviour
  MaxDeaths     \* bounds how often the Tether dies

Byte    == 0 .. Base - 1
MaxCode == Base - 1
MaxRun  == Base - 2

ASSUME CobsAssumption ==
  /\ Base \in Nat /\ Base >= 3
  /\ \A p \in Requests \cup Replies : p \in Seq(Byte) /\ p # << >>
  /\ QueueMax \in Nat \ {0} /\ MaxRequests \in Nat /\ MaxDeaths \in Nat

-----------------------------------------------------------------------------
(* The codecs.                                                             *)

\* The sum of the first i bytes, in a byte.
Sums(data) ==
  LET sum[i \in 0 .. Len(data)] == IF i = 0 THEN 0 ELSE (sum[i - 1] + data[i]) % Base
  IN sum

ByteSum(data) == Sums(data)[Len(data)]

\* The one's complement of the sum, so that the whole sums to Base - 1.
Sealed(packet)   == Append(packet, Base - 1 - ByteSum(packet))
IsSealed(data)   == Len(data) >= 2 /\ ByteSum(data) = Base - 1
Unsealed(data)   == Front(data)

\* The Tether's encoder: byte by byte, closing a block at a zero and when it is
\* full.  The code is a byte.
NoBytes == [out |-> << >>, block |-> << >>]

CloseBlock(acc) ==
  [out |-> acc.out \o <<(Len(acc.block) + 1) % Base>> \o acc.block, block |-> << >>]

\* Fault: a full block is not closed.
EncodeByteUnsplit(acc, b) ==
  IF b = 0 THEN CloseBlock(acc) ELSE [acc EXCEPT !.block = Append(@, b)]

EncodeByte(acc, b) ==
  LET grown == [acc EXCEPT !.block = Append(@, b)]
  IN IF b = 0 THEN CloseBlock(acc)
     ELSE IF Len(grown.block) = MaxRun THEN CloseBlock(grown)
     ELSE grown

\* What there is after i bytes.
Encoding(data) ==
  LET acc[i \in 0 .. Len(data)] == IF i = 0 THEN NoBytes ELSE EncodeByte(acc[i - 1], data[i])
  IN acc

TetherEncode(packet) ==
  LET data == Sealed(packet) IN CloseBlock(Encoding(data)[Len(data)]).out

\* The firmware's encoder: block by block.  A zero after a block is skipped, as
\* the block implies it, and a zero at the end gives the block last.  That a
\* full block implies no zero is not considered.
RunFrom(data, p) ==
  CHOOSE r \in 0 .. MaxRun :
    /\ p + r - 1 <= Len(data)
    /\ \A i \in p .. p + r - 1 : data[i] # 0
    /\ r = MaxRun \/ p + r > Len(data) \/ data[p + r] = 0

EncodeBlocks(data, last) ==
  LET n == Len(data)
      from[p \in 1 .. n + 1] ==
        IF p > n THEN << >>
        ELSE LET next == p + RunFrom(data, p)
                 rest == IF next > n \/ data[next] # 0 THEN from[next]
                         ELSE IF next = n THEN last
                         ELSE from[next + 1]
             IN <<next - p + 1>> \o SubSeq(data, p, next - 1) \o rest
  IN from

\* Fault: a zero at the end is skipped like any other.
FirmwareEncodeShort(packet) == EncodeBlocks(Sealed(packet), << >>)[1]

FirmwareEncode(packet) == EncodeBlocks(Sealed(packet), <<1>>)[1]

\* The Tether's decoder, given a whole frame: what is decoded from p on, and
\* whether every code byte points into the frame.  A block that is not full
\* stands for a zero, unless it ends the frame.
Malformed == << >>

ImpliedZero(frame, p) ==
  IF p + frame[p] <= Len(frame) /\ frame[p] < MaxCode THEN <<0>> ELSE << >>

DecodedBlock(frame, p, rest) ==
  [ok   |-> rest.ok,
   data |-> SubSeq(frame, p + 1, p + frame[p] - 1) \o ImpliedZero(frame, p) \o rest.data]

DecodedFrom(frame) ==
  LET n == Len(frame)
      from[p \in 1 .. n + 1] ==
        IF p > n THEN [ok |-> TRUE, data |-> << >>]
        ELSE IF p + frame[p] > n + 1 THEN [ok |-> FALSE, data |-> << >>]
        ELSE DecodedBlock(frame, p, from[p + frame[p]])
  IN from

TetherDecode(frame) ==
  LET decoded == DecodedFrom(frame)[1]
  IN IF decoded.ok /\ IsSealed(decoded.data) THEN Unsealed(decoded.data) ELSE Malformed

\* The firmware's decoder, byte by byte: code is the last code byte, copy what
\* is left of its block, awaiting whether the next byte is a code.
Decoder == [packet |-> << >>, code |-> 0, copy |-> 0, awaiting |-> TRUE]

\* Fault: the code byte is counted as part of its block.
DecodeByteLong(d, b) ==
  LET begun == [d EXCEPT !.code = b, !.copy = b, !.awaiting = FALSE]
      grown == [d EXCEPT !.packet = Append(@, b), !.copy = @ - 1, !.awaiting = d.copy = 1]
      moved == IF d.awaiting THEN begun ELSE grown
  IN IF moved.awaiting /\ moved.code < MaxCode
       THEN [moved EXCEPT !.packet = Append(@, 0)] ELSE moved

DecodeByte(d, b) ==
  LET begun == [d EXCEPT !.code = b, !.copy = b - 1, !.awaiting = b = 1]
      grown == [d EXCEPT !.packet = Append(@, b), !.copy = @ - 1, !.awaiting = d.copy = 1]
      moved == IF d.awaiting THEN begun ELSE grown
  IN IF moved.awaiting /\ moved.code < MaxCode
       THEN [moved EXCEPT !.packet = Append(@, 0)] ELSE moved

\* What a zero byte completes, or Malformed.
DecodedPacket(d) ==
  LET data == IF d.code < MaxCode THEN Front(d.packet) ELSE d.packet
  IN IF d.awaiting /\ d.packet # << >> /\ IsSealed(data) THEN Unsealed(data) ELSE Malformed

-----------------------------------------------------------------------------
VARIABLES
  down, decoder, queue,   \* bytes to the firmware, its decoder, usb_rx_packets
  up, partial,            \* bytes to the Tether, its currentPacket
  pending,                \* the Tether waits for an answer
  deaths,                 \* how often it died
  asked, heard,           \* history: requests sent whole, packets the firmware took
  told, got               \* history: replies to this Tether, packets it received

vars == <<down, decoder, queue, up, partial, pending, deaths, asked, heard, told, got>>

\* picoRpcCall and the writer goroutine.
Request(p) ==
  /\ ~pending
  /\ Len(asked) < MaxRequests
  /\ down' = down \o TetherEncode(p) \o <<0>>
  /\ pending' = TRUE
  /\ asked' = Append(asked, p)
  /\ UNCHANGED <<decoder, queue, up, partial, deaths, heard, told, got>>

\* How much of a frame a dying Tether may have written: while it waits for an
\* answer it writes none.
TornMax(p) == IF pending THEN 0 ELSE Len(TetherEncode(p))

\* Fault: a new Tether does not flush what its predecessor left.
DieUnflushed ==
  /\ deaths < MaxDeaths
  /\ \E p \in Requests :
       \E k \in 0 .. TornMax(p) : down' = down \o SubSeq(TetherEncode(p), 1, k)
  /\ \E k \in 0 .. Len(up) : up' = SubSeq(up, k + 1, Len(up))
  /\ deaths' = deaths + 1
  /\ partial' = << >> /\ pending' = FALSE /\ told' = << >> /\ got' = << >>
  /\ UNCHANGED <<decoder, queue, asked, heard>>

\* The Tether dies and some of the bytes for it are lost; a new one opens the
\* port and writes a zero first.
Die ==
  /\ deaths < MaxDeaths
  /\ \E p \in Requests :
       \E k \in 0 .. TornMax(p) :
         down' = down \o SubSeq(TetherEncode(p), 1, k) \o <<0>>
  /\ \E k \in 0 .. Len(up) : up' = SubSeq(up, k + 1, Len(up))
  /\ deaths' = deaths + 1
  /\ partial' = << >> /\ pending' = FALSE /\ told' = << >> /\ got' = << >>
  /\ UNCHANGED <<decoder, queue, asked, heard>>

\* CobsDecoder::Tick, one byte.
Tick ==
  /\ down # << >>
  /\ Len(queue) < QueueMax
  /\ down' = Tail(down)
  /\ LET b == Head(down) IN
       IF b = 0
         THEN /\ decoder' = Decoder
              /\ queue' = IF DecodedPacket(decoder) = Malformed THEN queue
                          ELSE Append(queue, DecodedPacket(decoder))
         ELSE decoder' = DecodeByte(decoder, b) /\ queue' = queue
  /\ UNCHANGED <<up, partial, pending, deaths, asked, heard, told, got>>

\* The main loop takes a packet and answers it.
Serve(p) ==
  /\ queue # << >>
  /\ queue' = Tail(queue)
  /\ heard' = Append(heard, Head(queue))
  /\ up' = up \o <<0>> \o FirmwareEncode(p) \o <<0>>
  /\ told' = Append(told, p)
  /\ UNCHANGED <<down, decoder, partial, pending, deaths, asked, got>>

\* The reader goroutine, one byte; an answer ends the RPC (the serial numbers
\* that match the two are not modelled).
Read ==
  /\ up # << >>
  /\ up' = Tail(up)
  /\ LET packet == IF partial = << >> THEN Malformed ELSE TetherDecode(partial) IN
       IF Head(up) = 0
         THEN /\ partial' = << >>
              /\ got' = IF packet = Malformed THEN got ELSE Append(got, packet)
              /\ pending' = (pending /\ packet = Malformed)
         ELSE partial' = Append(partial, Head(up)) /\ UNCHANGED <<got, pending>>
  /\ UNCHANGED <<down, decoder, queue, deaths, asked, heard, told>>

Init ==
  /\ down = <<0>> /\ decoder = Decoder /\ queue = << >>
  /\ up = << >> /\ partial = << >>
  /\ pending = FALSE /\ deaths = 0
  /\ asked = << >> /\ heard = << >> /\ told = << >> /\ got = << >>

Deliver == Tick \/ (\E p \in Replies : Serve(p)) \/ Read

Next == (\E p \in Requests : Request(p)) \/ Die \/ Deliver

Spec == Init /\ [][Next]_vars

\* Both decoders and the main loop run for ever; nothing makes the Tether ask.
FairSpec == Spec /\ WF_vars(Tick) /\ WF_vars(\E p \in Replies : Serve(p)) /\ WF_vars(Read)

-----------------------------------------------------------------------------
(* Properties.                                                             *)

TypeOK ==
  /\ down \in Seq(Byte) /\ up \in Seq(Byte) /\ partial \in Seq(Byte \ {0})
  /\ decoder.packet \in Seq(Byte) /\ decoder.code \in Byte
  /\ decoder.copy \in 0 .. MaxRun /\ decoder.awaiting = (decoder.copy = 0)
  /\ queue \in Seq(Seq(Byte)) /\ Len(queue) <= QueueMax
  /\ pending \in BOOLEAN /\ deaths \in 0 .. MaxDeaths
  /\ asked \in Seq(Requests) /\ Len(asked) <= MaxRequests
  /\ heard \in Seq(Seq(Byte)) /\ told \in Seq(Replies) /\ got \in Seq(Seq(Byte))

\* s is what is left of t when some elements are dropped.
Embeds(s, t) ==
  \E f \in [1 .. Len(s) -> 1 .. Len(t)] :
    /\ \A i \in 1 .. Len(s) : s[i] = t[f[i]]
    /\ \A i \in 2 .. Len(s) : f[i - 1] < f[i]

\* Every request that was written whole is received, in order, whatever torn
\* frame came before it; without torn frames nothing else is received.
RequestsArrive ==
  /\ down = << >> => Embeds(asked, heard \o queue)
  /\ deaths = 0 => IsPrefix(heard \o queue, asked)

\* Every reply sent to the present Tether is received by it, in order and as it
\* was sent, whatever torn frame it began to read with.
RepliesArrive ==
  /\ up = << >> => Embeds(told, got)
  /\ deaths = 0 => IsPrefix(got, told)

\* Every RPC is answered: no frame is lost to a torn frame before it and no
\* decoder waits for ever in the middle of one.
Answered == pending ~> ~pending
=============================================================================
