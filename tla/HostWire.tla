------------------------------ MODULE HostWire -----------------------------
(***************************************************************************)
(* The wire format of the host (lxst-core, wire.rs): packets by way of     *)
(* MessagePack values.  Reading and writing a value is rmpv's, modelled    *)
(* from how wire.rs uses it; its limit of depth is beyond any packet here. *)
(***************************************************************************)
EXTENDS WireTypes

Value(type, content) == [type |-> type, content |-> content]

(* The forms of a MessagePack value with a length, and a length's size. *)
LengthSize ==
    [tag \in 196 .. 198 |-> 2 ^ (tag - 196)] @@ [tag \in 199 .. 201 |-> 2 ^ (tag - 199)] @@
    [tag \in 217 .. 219 |-> 2 ^ (tag - 217)] @@ [tag \in 220 .. 221 |-> 2 ^ (tag - 219)] @@
    [tag \in 222 .. 223 |-> 2 ^ (tag - 221)]

LengthOf(b, at, tag) ==
    CASE tag \in DOMAIN LengthSize -> Number(b, at, LengthSize[tag])
      [] tag \in 128 .. 159 -> Found(at, tag % 16)
      [] tag \in 160 .. 191 -> Found(at, tag % 32)
      [] tag \in 212 .. 216 -> Found(at, 2 ^ (tag - 212))
      [] OTHER -> Found(at, 0)

FixedSize(tag) ==
    CASE tag \in 204 .. 207 -> 2 ^ (tag - 204) [] tag \in 208 .. 211 -> 2 ^ (tag - 208)
      [] tag = 202 -> 4 [] tag = 203 -> 8 [] OTHER -> 0

RECURSIVE ReadValue(_, _)
ReadValue(b, at) ==
    LET Bytes(from, n, type)  == Then(Take(b, from, n), LAMBDA to, s : Found(to, Value(type, s)))
        Values(from, n, type) ==
            IF n > Len(b) THEN Fail("Decode")
            ELSE Then(Again(n, Found(from, <<>>), LAMBDA to, vs :
                          Then(ReadValue(b, to), LAMBDA end, v : Found(end, Append(vs, v)))),
                      LAMBDA to, vs : Found(to, Value(type, vs)))
        Of(from, n, tag) ==
            CASE tag \in 0 .. 127 -> Found(from, Value("Integer", tag))
              [] tag \in 204 .. 211 -> Then(Take(b, from, FixedSize(tag)), LAMBDA to, s :
                    Found(to, IF tag >= 208 /\ s[1] >= 128 THEN Value("Negative", s)
                              ELSE Value("Integer", BigEndian(s))))
              [] tag \in 128 .. 143 \cup {222, 223} -> Values(from, 2 * n, "Map")
              [] tag \in 144 .. 159 \cup {220, 221} -> Values(from, n, "Array")
              [] tag \in 196 .. 198 -> Bytes(from, n, "Binary")
              [] tag \in 199 .. 201 \cup 212 .. 216 -> Bytes(from, n + 1, "Ext")
              [] tag \in 160 .. 191 \cup 217 .. 219 -> Bytes(from, n, "String")
              [] OTHER -> Bytes(from, FixedSize(tag), "Other")
    IN  Then(Byte(b, at), LAMBDA to, tag :
        Then(LengthOf(b, to, tag), LAMBDA from, n : Of(from, n, tag)))

-----------------------------------------------------------------------------
(* LxstPacket::from_value *)

ParseSignal(value) ==
    IF value.type = "Integer" /\ value.content <= MaxSignal
    THEN Found(0, <<SignalOf(value.content)>>) ELSE Fail("InvalidSignal")

ParseFrame(value) ==
    LET bytes == value.content IN
    CASE value.type # "Binary" -> Fail("InvalidFieldType")
      [] value.type = "Binary" /\ bytes = <<>> -> Fail("EmptyFrame")
      [] OTHER -> IF bytes[1] \notin DOMAIN CodecIds THEN Fail("UnknownCodec")
                  ELSE IF ~Transmittable(CodecIds[bytes[1]]) THEN Fail("NonTransmittableCodec")
                  ELSE Found(0, <<[codec |-> CodecIds[bytes[1]], payload |-> Tail(bytes)]>>)

(* An array of them, or a single one; the first failure stands for all. *)
Collected(results) ==
    FoldLeft(LAMBDA all, one : Then(all, LAMBDA at, items :
                 Then(one, LAMBDA to, item : Found(0, items \o item))),
             Found(0, <<>>), results)

ParseSignals(value) ==
    IF value.type # "Array" THEN ParseSignal(value)
    ELSE Collected([i \in DOMAIN value.content |-> ParseSignal(value.content[i])])

ParseFrames(value) ==
    IF value.type # "Array" THEN ParseFrame(value)
    ELSE Collected([i \in DOMAIN value.content |-> ParseFrame(value.content[i])])

Entry(packet, key, value) ==
    CASE key.type # "Integer" -> Fail("InvalidFieldKey")
      [] key.type = "Integer" /\ key.content > 255 -> Fail("InvalidFieldKey")
      [] key = Value("Integer", 0) -> Then(ParseSignals(value), LAMBDA at, items :
            Found(0, [packet EXCEPT !.signals = @ \o items]))
      [] key = Value("Integer", 1) -> Then(ParseFrames(value), LAMBDA at, items :
            Found(0, [packet EXCEPT !.frames = @ \o items]))
      [] OTHER -> Found(0, packet)

FromValue(value) ==
    IF value.type # "Map" THEN Fail("RootNotMap")
    ELSE FoldLeft(LAMBDA r, i : Then(r, LAMBDA at, packet :
                      Entry(packet, value.content[2 * i - 1], value.content[2 * i])),
                  Found(0, [signals |-> <<>>, frames |-> <<>>]),
                  [i \in 1 .. Len(value.content) \div 2 |-> i])

Decode(b) == Then(ReadValue(b, 0), LAMBDA at, value : FromValue(value))

-----------------------------------------------------------------------------
(* LxstPacket::encode *)

(* write_value takes the shortest form. *)
WriteLength(n, fix, tags) ==
    CASE n < fix.below -> <<fix.tag + n>>
      [] n >= fix.below /\ n <= 255 /\ 1 \in DOMAIN tags -> <<tags[1], n>>
      [] OTHER -> <<tags[2]>> \o Digits(n, 2)

None == [below |-> 0, tag |-> 0]

WriteInteger(n) ==
    CASE n <= 127 -> <<n>> [] n \in 128 .. 255 -> <<204, n>>
      [] n \in 256 .. 65535 -> <<205>> \o Digits(n, 2) [] OTHER -> <<206>> \o Digits(n, 4)

RECURSIVE WriteValue(_)
WriteValue(value) ==
    LET content == value.content
        written == FoldLeft(LAMBDA bytes, v : bytes \o WriteValue(v), <<>>, content)
    IN  CASE value.type = "Integer" -> WriteInteger(content)
          [] value.type = "Binary" -> WriteLength(Len(content), None, 1 :> 196 @@ 2 :> 197) \o content
          [] value.type = "Array" ->
                WriteLength(Len(content), [below |-> 16, tag |-> 144], 2 :> 220) \o written
          [] value.type = "Map" -> <<128 + Len(content) \div 2>> \o written

Encode(signals, frames) ==
    LET binary(frame) == Value("Binary", <<WireId(frame.codec)>> \o frame.payload)
        integers == [i \in DOMAIN signals |-> Value("Integer", WireValue(signals[i]))]
        binaries == [i \in DOMAIN frames |-> binary(frames[i])]
        first  == IF signals = <<>> THEN <<>>
                  ELSE <<Value("Integer", 0), Value("Array", integers)>>
        second == IF frames = <<>> THEN <<>>
                  ELSE <<Value("Integer", 1),
                         IF Len(frames) = 1 THEN binaries[1] ELSE Value("Array", binaries)>>
    IN  IF \E i \in DOMAIN frames : ~Transmittable(frames[i].codec)
        THEN Fail("NonTransmittableCodec")
        ELSE Found(0, WriteValue(Value("Map", first \o second)))
=============================================================================
