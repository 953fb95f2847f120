---------------------------- MODULE DeviceWire -----------------------------
(***************************************************************************)
(* The borrowed, bounded MessagePack of the handheld device                *)
(* (lxst-embedded, wire.rs): its reader, which never looks ahead and stops *)
(* at the first error, and its writer, which measures before it writes.    *)
(***************************************************************************)
EXTENDS WireTypes

MaxPacketBytes == 512
MaxFrameBytes  == 256
MaxSignals     == 8
MaxFrames      == 4
MaxFields      == 16
MaxDepth       == 8

Uint(b, at) ==
    Then(Byte(b, at), LAMBDA to, tag :
        IF tag <= 127 THEN Found(to, tag)
        ELSE IF tag \in 204 .. 207 THEN Number(b, to, 2 ^ (tag - 204))
        ELSE IF tag \in 208 .. 211 THEN
             Then(Number(b, to, 2 ^ (tag - 208)), LAMBDA end, value :
                 IF b[to + 1] >= 128 THEN Fail("Shape") ELSE Found(end, value))
        ELSE Fail("Shape"))

MapLen(b, at) ==
    Then(Byte(b, at), LAMBDA to, tag :
        IF tag \in 128 .. 143 THEN Found(to, tag - 128)
        ELSE IF tag = 222 THEN Number(b, to, 2)
        ELSE IF tag = 223 THEN Number(b, to, 4)
        ELSE Fail("Shape"))

(* A value that is not an array counts as one element and stays unread. *)
ArrayLen(b, at) ==
    IF at >= Len(b) THEN Fail("Truncated")
    ELSE LET tag == b[at + 1] IN
         IF tag \in 144 .. 159 THEN Found(at + 1, tag - 144)
         ELSE IF tag = 220 THEN Number(b, at + 1, 2)
         ELSE IF tag = 221 THEN Number(b, at + 1, 4)
         ELSE Found(at, 1)

Binary(b, at) ==
    Then(Byte(b, at), LAMBDA to, tag :
        IF tag \in 196 .. 198
        THEN Then(Number(b, to, 2 ^ (tag - 196)), LAMBDA from, n : Take(b, from, n))
        ELSE Fail("Shape"))

Skipped(bytes, children) == <<bytes, children>>

(* What follows the tag of a skipped value: some bytes and some values. *)
Extent(b, at, tag) ==
    LET Counted(size, Of(_)) == Then(Number(b, at, size), LAMBDA to, n : Found(to, Of(n))) IN
    CASE tag \in 0 .. 127 \cup 224 .. 255 \cup {192, 194, 195} -> Found(at, Skipped(0, 0))
      [] tag \in 128 .. 143 -> Found(at, Skipped(0, 2 * (tag - 128)))
      [] tag \in 144 .. 159 -> Found(at, Skipped(0, tag - 144))
      [] tag \in 160 .. 191 -> Found(at, Skipped(tag - 160, 0))
      [] tag \in 204 .. 207 -> Found(at, Skipped(2 ^ (tag - 204), 0))
      [] tag \in 208 .. 211 -> Found(at, Skipped(2 ^ (tag - 208), 0))
      [] tag \in {202, 203} -> Found(at, Skipped(IF tag = 202 THEN 4 ELSE 8, 0))
      [] tag \in 196 .. 198 -> Counted(2 ^ (tag - 196), LAMBDA n : Skipped(n, 0))
      [] tag \in 217 .. 219 -> Counted(2 ^ (tag - 217), LAMBDA n : Skipped(n, 0))
      [] tag \in 220 .. 221 -> Counted(2 ^ (tag - 219), LAMBDA n : Skipped(0, n))
      [] tag \in 222 .. 223 -> Counted(2 ^ (tag - 221), LAMBDA n : Skipped(0, 2 * n))
      [] tag \in 212 .. 216 -> Found(at, Skipped(1 + 2 ^ (tag - 212), 0))
      [] tag \in 199 .. 201 -> Counted(2 ^ (tag - 199), LAMBDA n : Skipped(n + 1, 0))
      [] OTHER -> Fail("Shape")

RECURSIVE Skip(_, _, _)
Skip(b, at, depth) ==
    IF depth > MaxDepth THEN Fail("Limit")
    ELSE Then(Byte(b, at), LAMBDA from, tag :
         Then(Extent(b, from, tag), LAMBDA to, extent :
             IF extent[2] > MaxPacketBytes THEN Fail("Limit")
             ELSE Again(extent[2], Then(Take(b, to, extent[1]), LAMBDA end, s : Found(end, <<>>)),
                        LAMBDA end, v : Skip(b, end, depth + 1))))

-----------------------------------------------------------------------------
(* Packet::decode: a packet under construction and the fields seen so far *)

ReadSignal(b, at, packet) ==
    Then(Uint(b, at), LAMBDA to, raw :
        IF raw > MaxSignal THEN Fail("Shape")
        ELSE Found(to, [packet EXCEPT !.signals = Append(@, SignalOf(raw))]))

ReadFrame(b, at, packet) ==
    Then(Binary(b, at), LAMBDA to, bytes :
        CASE bytes = <<>> -> Fail("EmptyFrame")
          [] Len(bytes) > MaxFrameBytes -> Fail("Limit")
          [] bytes[1] \notin DOMAIN CodecIds -> Fail("UnknownCodec")
          [] ~Transmittable(CodecIds[bytes[1]]) -> Fail("NonTransmittableCodec")
          [] OTHER -> Found(to, [packet EXCEPT !.frames =
                Append(@, [codec |-> CodecIds[bytes[1]], payload |-> Tail(bytes)])]))

Items(b, at, packet, field, limit, Read(_, _, _)) ==
    IF field \in packet.seen THEN Fail("DuplicateField")
    ELSE Then(ArrayLen(b, at), LAMBDA to, count :
             IF count > limit THEN Fail("Limit")
             ELSE Again(count, Found(to, [packet EXCEPT !.seen = @ \cup {field}]),
                        LAMBDA end, p : Read(b, end, p)))

Field(b, at, packet) ==
    Then(Uint(b, at), LAMBDA to, key :
        CASE key > 255 -> Fail("Shape")
          [] key = 0 -> Items(b, to, packet, 0, MaxSignals, ReadSignal)
          [] key = 1 -> Items(b, to, packet, 1, MaxFrames, ReadFrame)
          [] OTHER -> Then(Skip(b, to, 0), LAMBDA end, v : Found(end, packet)))

Decode(b) ==
    IF Len(b) > MaxPacketBytes THEN Fail("Limit")
    ELSE LET empty  == [signals |-> <<>>, frames |-> <<>>, seen |-> {}]
             packet == Then(MapLen(b, 0), LAMBDA to, fields :
                           IF fields > MaxFields THEN Fail("Limit")
                           ELSE Again(fields, Found(to, empty),
                                      LAMBDA at, p : Field(b, at, p)))
         IN  IF Good(packet) /\ packet.at # Len(b) THEN Fail("TrailingData") ELSE packet

-----------------------------------------------------------------------------
(* encode *)

UintBytes(value) ==
    CASE value <= 127 -> 1 [] value \in 128 .. 255 -> 2 [] value \in 256 .. 65535 -> 3 [] OTHER -> 5

WriteUint(value) ==
    CASE value <= 127 -> <<value>>
      [] value \in 128 .. 255 -> <<204, value>>
      [] value \in 256 .. 65535 -> <<205>> \o Digits(value, 2)
      [] OTHER -> <<206>> \o Digits(value, 4)

(* Deliberate fault: every length is taken to fit one byte.                *)
FrameSizeShort(frame) == Len(frame.payload) + 3

FrameSize(frame) ==
    LET length == Len(frame.payload) + 1 IN length + IF length <= 255 THEN 2 ELSE 3

WriteFrame(frame) ==
    LET length == Len(frame.payload) + 1 IN
    (IF length <= 255 THEN <<196, length>> ELSE <<197>> \o Digits(length, 2))
        \o <<WireId(frame.codec)>> \o frame.payload

Total(Size(_), items) == FoldLeft(LAMBDA n, item : n + Size(item), 0, items)

Size(signals, frames) ==
    1 + (IF signals = <<>> THEN 0 ELSE 2 + Total(LAMBDA s : UintBytes(WireValue(s)), signals))
      + (IF frames = <<>> THEN 0
         ELSE 1 + (IF Len(frames) > 1 THEN 1 ELSE 0) + Total(FrameSize, frames))

Join(Write(_), items) == FoldLeft(LAMBDA bytes, item : bytes \o Write(item), <<>>, items)

Written(signals, frames) ==
    LET WriteSignal(signal) == WriteUint(WireValue(signal))
        count == IF Len(frames) = 1 THEN <<>> ELSE <<144 + Len(frames)>>
        first == IF signals = <<>> THEN <<>>
                 ELSE <<0, 144 + Len(signals)>> \o Join(WriteSignal, signals)
        second == IF frames = <<>> THEN <<>> ELSE <<1>> \o count \o Join(WriteFrame, frames)
    IN  <<128 + Cardinality({field \in {first, second} : field # <<>>})>> \o first \o second

Encode(signals, frames, capacity) ==
    CASE Len(signals) > MaxSignals \/ Len(frames) > MaxFrames -> Fail("Limit")
      [] \E i \in DOMAIN frames : ~Transmittable(frames[i].codec) -> Fail("NonTransmittableCodec")
      [] \E i \in DOMAIN frames : Len(frames[i].payload) >= MaxFrameBytes -> Fail("Limit")
      [] Size(signals, frames) > MaxPacketBytes -> Fail("Limit")
      [] capacity < Size(signals, frames) -> Fail("OutputCapacity")
      [] OTHER -> Found(Size(signals, frames), Written(signals, frames))
=============================================================================
