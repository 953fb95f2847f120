---------------------------- MODULE OpusPacket -----------------------------
(***************************************************************************)
(* The framing of Opus packets (lxst-core, opus.rs): how a profile's frame *)
(* is cut into subframes and put into one code 3 packet that fits the      *)
(* profile's ceiling, and the two parsers of such packets, of the call     *)
(* decoder and of the general one.  What opus-rs encodes is any bytes.     *)
(***************************************************************************)
EXTENDS ByteReader

OpusProfile ==
    [QualityMedium   |-> [rate |-> 24000, encode |-> 16000, bitrate |-> 8000,  ms |-> 60],
     QualityHigh     |-> [rate |-> 48000, encode |-> 48000, bitrate |-> 16000, ms |-> 60],
     QualityMax      |-> [rate |-> 48000, encode |-> 48000, bitrate |-> 32000, ms |-> 60],
     LatencyLow      |-> [rate |-> 24000, encode |-> 16000, bitrate |-> 8000,  ms |-> 20],
     LatencyUltraLow |-> [rate |-> 24000, encode |-> 16000, bitrate |-> 8000,  ms |-> 10]]

SampleFrames(profile) == (profile.rate * profile.ms) \div 1000

MaxPayloadBytes(profile) == (profile.bitrate * profile.ms + 7999) \div 8000

(* PacketLayout::new: one direct frame, or frames of 20 ms. *)
Direct(rate, frames) == frames # 0 /\ rate % frames = 0

PacketLayout(rate, frames) ==
    LET subframe == rate \div 50 IN
    IF Direct(rate, frames) THEN Found(0, [count |-> 1, frames |-> frames])
    ELSE IF frames # 0 /\ frames % subframe = 0 /\ Direct(rate, subframe)
         THEN Found(0, [count |-> frames \div subframe, frames |-> subframe])
         ELSE Fail("UnsupportedFrameDuration")

ScaleSampleFrames(profile) ==
    LET scaled == SampleFrames(profile) * profile.encode IN
    IF scaled % profile.rate # 0 THEN Fail("UnsupportedFrameDuration")
    ELSE Found(0, scaled \div profile.rate)

EncoderLayout(profile) ==
    Then(ScaleSampleFrames(profile), LAMBDA at, frames :
    Then(PacketLayout(profile.encode, frames), LAMBDA to, layout :
        IF SampleFrames(profile) % layout.count # 0 THEN Fail("UnsupportedFrameDuration")
        ELSE Found(0, [layout EXCEPT !.frames = SampleFrames(profile) \div layout.count])))

DecoderLayout(profile) == PacketLayout(profile.rate, SampleFrames(profile))

-----------------------------------------------------------------------------
(* encode_multi_subframe_packet *)

(* Deliberate fault: the bytes of the lengths are not set aside.           *)
BudgetUnset(profile, count, i) ==
    LET budget == MaxPayloadBytes(profile) - 2
    IN  budget \div count + IF i <= budget % count THEN 1 ELSE 0

(* Bytes left for each subframe behind its TOC, with one byte of header    *)
(* for each subframe but the last, and two for the packet.                 *)
Budget(profile, count, i) ==
    LET budget == MaxPayloadBytes(profile) - (2 + count - 1)
    IN  budget \div count + IF i <= budget % count THEN 1 ELSE 0

PushLength(length) ==
    CASE length < 252 -> Found(0, <<length>>)
      [] length \in 252 .. 1275 ->
            LET first == 252 + (length % 4) IN Found(0, <<first, (length - first) \div 4>>)
      [] OTHER -> Fail("UnsupportedSubframePayloadLength")

(* Each subpacket is a TOC of code 0 with its payload; the TOC of the      *)
(* first stands for all of them.                                           *)
EncodePacket(subpackets) ==
    LET count   == Len(subpackets)
        toc     == subpackets[1][1] - (subpackets[1][1] % 4) + 3
        length  == [i \in 1 .. count - 1 |-> PushLength(Len(subpackets[i]) - 1)]
    IN  CASE \E i \in 1 .. count : subpackets[i] = <<>> \/ subpackets[i][1] % 4 # 0 ->
                Fail("UnsupportedSubpacketLayout")
          [] \E i \in 1 .. count - 1 : ~Good(length[i]) ->
                Fail("UnsupportedSubframePayloadLength")
          [] OTHER ->
                Found(0, <<toc, 128 + count>>
                         \o FlattenSeq([i \in 1 .. count - 1 |-> length[i].value])
                         \o FlattenSeq([i \in 1 .. count |-> Tail(subpackets[i])]))

-----------------------------------------------------------------------------
(* Parsing.  A slice out of range ends the program: "Panic". *)

Slice(bytes, from, to) ==
    IF from <= to /\ to <= Len(bytes) THEN Found(to, SubSeq(bytes, from + 1, to)) ELSE Fail("Panic")

ReadLength(input) ==
    CASE input = <<>> -> Fail("MalformedPacket")
      [] input # <<>> /\ Head(input) < 252 -> Found(1, Head(input))
      [] OTHER -> IF Len(input) < 2 THEN Fail("MalformedPacket")
                  ELSE Found(2, input[1] + 4 * input[2])

(* A byte of 255 stands for 254 of padding and says that another follows.  *)
Padding(packet, at) ==
    LET ends == {i \in at + 1 .. Len(packet) : packet[i] # 255}
        last == CHOOSE i \in ends : \A k \in ends : i <= k
    IN  IF ends = {} THEN Fail("MalformedPacket")
        ELSE Found(last, 254 * (last - at - 1) + packet[last])

(* Where the frames, or the lengths of frames, begin, and where they end. *)
PayloadRange(packet) ==
    IF (packet[2] \div 64) % 2 = 0 THEN Found(2, Len(packet))
    ELSE Then(Padding(packet, 2), LAMBDA at, padding :
             IF at > Len(packet) - padding THEN Fail("MalformedPacket")
             ELSE Found(at, Len(packet) - padding))

(* Lengths are read one behind the other. *)
NextLength(packet, end, at, lengths) ==
    Then(Slice(packet, at, end), LAMBDA to, input :
    Then(ReadLength(input), LAMBDA used, length :
        Found(at + used, Append(lengths, length))))

LengthsUpTo(packet, from, end, n) ==
    LET after[i \in 0 .. n] ==
            IF i = 0 THEN Found(from, <<>>)
            ELSE Then(after[i - 1], LAMBDA at, lengths : NextLength(packet, end, at, lengths))
    IN  after

Lengths(packet, from, end, n) == LengthsUpTo(packet, from, end, n)[n]

(* Where each of so many bytes, one behind the other, ends. *)
EndsOf(from, lengths) ==
    LET end[i \in 0 .. Len(lengths)] == IF i = 0 THEN from ELSE end[i - 1] + lengths[i] IN end

Cut(packet, from, lengths) ==
    LET end  == EndsOf(from, lengths)
        last == end[Len(lengths)]
    IN  IF last > Len(packet) THEN Fail("Panic")
        ELSE Found(last, [i \in 1 .. Len(lengths) |-> SubSeq(packet, end[i - 1] + 1, end[i])])

VbrFrames(packet, from, end, count) ==
    Then(Lengths(packet, from, end, count - 1), LAMBDA at, lengths :
        LET declared == EndsOf(0, lengths)[Len(lengths)] IN
        IF declared > end - at THEN Fail("MalformedPacket")
        ELSE Cut(packet, at, Append(lengths, end - at - declared)))

Vbr(packet)        == packet[2] >= 128
FrameCount(packet) == packet[2] % 64

(* parse_code3_subframe_payloads; chunks of nothing would panic *)
CbrChunks(packet, from, end, count) ==
    CASE (end - from) % count # 0 -> Fail("MalformedPacket")
      [] end = from -> Fail("MalformedPacket")
      [] OTHER -> Cut(packet, from, [i \in 1 .. count |-> (end - from) \div count])

SubframePayloads(packet, expected) ==
    IF Len(packet) < 2 THEN Fail("MalformedPacket")
    ELSE IF FrameCount(packet) # expected \/ expected = 0 THEN Fail("MalformedPacket")
    ELSE Then(PayloadRange(packet), LAMBDA from, end :
             IF Vbr(packet) THEN VbrFrames(packet, from, end, expected)
             ELSE CbrChunks(packet, from, end, expected))

(* parse_code3_packet_frames *)
Code3Frames(packet) ==
    IF Len(packet) < 2 THEN Fail("MalformedPacket")
    ELSE IF FrameCount(packet) \notin 1 .. 48 THEN Fail("MalformedPacket")
    ELSE LET count == FrameCount(packet) IN
         Then(PayloadRange(packet), LAMBDA from, end :
             IF Vbr(packet) THEN VbrFrames(packet, from, end, count)
             ELSE IF (end - from) % count # 0 THEN Fail("MalformedPacket")
             ELSE Cut(packet, from, [i \in 1 .. count |-> (end - from) \div count]))

PacketFrames(packet) ==
    LET size == Len(packet) - 1
        body == Tail(packet)
    IN  CASE packet[1] % 4 = 0 -> Found(0, <<body>>)
          [] packet[1] % 4 = 1 -> IF size % 2 # 0 THEN Fail("MalformedPacket")
                                  ELSE Cut(packet, 1, <<size \div 2, size \div 2>>)
          [] packet[1] % 4 = 2 -> Then(ReadLength(body), LAMBDA used, first :
                IF first > size - used THEN Fail("MalformedPacket")
                ELSE Cut(packet, 1 + used, <<first, size - used - first>>))
          [] OTHER -> Code3Frames(packet)

SamplesPerFrame(toc) ==
    LET config == (toc \div 8) % 4 IN
    CASE toc >= 128 -> (48000 * 2 ^ config) \div 400
      [] toc \in 96 .. 127 -> IF config % 2 = 1 THEN 960 ELSE 480
      [] toc < 96 /\ config = 3 -> 2880
      [] OTHER -> (48000 * 2 ^ config) \div 100

(* inspect_opus_packet, which also bounds the frames and the duration *)
Inspect(packet) ==
    IF packet = <<>> THEN Fail("MalformedPacket")
    ELSE IF Len(packet) > 61440 THEN Fail("EncodedPacketTooLarge")
    ELSE Then(PacketFrames(packet), LAMBDA at, frames :
             LET duration == SamplesPerFrame(packet[1]) * Len(frames) IN
             CASE \E i \in DOMAIN frames : Len(frames[i]) > 1275 -> Fail("EncodedFrameTooLarge")
               [] duration > 5760 -> Fail("MalformedPacket")
               [] OTHER -> Found(duration, frames))
=============================================================================
