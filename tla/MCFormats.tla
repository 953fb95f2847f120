----------------------------- MODULE MCFormats -----------------------------
(***************************************************************************)
(* Samples of the formats, each grown one piece at a time: bytes that      *)
(* reach a wire parser, packets for the wire encoders, bytes that reach an *)
(* Opus parser, subframes for an Opus packet, fields for a Codec2 frame,   *)
(* speech for a stream of Codec2 frames, vectors and line spectral pairs   *)
(* to quantise, and signals to transform.  What is checked of a sample     *)
(* compares two pieces of code that have to agree on it, or a fast         *)
(* algorithm with its definition.                                          *)
(***************************************************************************)
EXTENDS WireTypes, OpusAgreement

Device == INSTANCE DeviceWire
Host   == INSTANCE HostWire
Codec2 == INSTANCE Codec2Bits
Frames == INSTANCE Codec2Frames
Fourier == INSTANCE KissFft
Search == INSTANCE Codec2Search WITH Survivors <- 2, Group <- 1

CONSTANTS
    MaxWireChunks,  \* bound: pieces of a wire packet
    MaxItems,       \* bound: signals and frames added to a packet
    MaxOpusChunks,  \* bound: pieces of an Opus packet
    MaxChanges,     \* bound: fields of a Codec2 frame or gaps of pairs set apart
    MaxSpeech       \* bound: frames of a Codec2 stream

-----------------------------------------------------------------------------
(* Bytes for the wire: one of each class of tags, and runs that reach the  *)
(* limits, of eight nested arrays and of 254 items, each once.  A parser   *)
(* that has refused a packet is not fed any more of it.                    *)

WireBytes ==
    {0, 1, 2, 127, 128, 129, 130, 144, 146, 149, 161, 192, 196, 197, 199, 202, 204, 205, 208,
     212, 217, 220, 222, 255}
WireChunks(fed) ==
    {<<byte>> : byte \in WireBytes}
    \cup (IF Len(fed) < 8 THEN {Filled(8, 145)} ELSE {})
    \cup (IF Len(fed) < 254 THEN {Filled(254, 1)} ELSE {})

MoreBytes ==
    /\ sample.type = "bytes" /\ sample.chunks < MaxWireChunks
    /\ Device!Decode(sample.bytes).error \in {"None", "Truncated"}
    /\ \E chunk \in WireChunks(sample.bytes) :
         sample' = [sample EXCEPT !.bytes = @ \o chunk, !.chunks = @ + 1]

(* A packet starts empty, or close to the limits. *)
Packets ==
    {[type |-> "packet", items |-> 0, signals |-> Filled(n, SignalOf(6)),
      frames |-> Filled(n \div 2, [codec |-> "Opus", payload |-> <<1>>])] : n \in {0, 7}}

Signals == {SignalOf(v) : v \in {6, 127, 128, 255, 256, 271, 65535, 65536}}
Payloads == [codec : {"Raw", "Codec2", "Null"}, payload : {Filled(n, 1) : n \in {0, 254, 255, 256}}]

MoreItems ==
    /\ sample.type = "packet" /\ sample.items < MaxItems
    /\ \/ \E s \in Signals :
            sample' = [sample EXCEPT !.items = @ + 1, !.signals = Append(@, s)]
       \/ \E f \in Payloads :
            sample' = [sample EXCEPT !.items = @ + 1, !.frames = Append(@, f)]

(* Bytes for Opus: a TOC, a count with and without padding and lengths,    *)
(* lengths of one and of two bytes, and 252 bytes at once.                 *)
Tocs       == {72, 73, 74, 75, 251}
OpusChunks == {<<byte>> : byte \in {0, 1, 2, 3, 64 + 3, 128 + 3, 192 + 2, 128 + 49, 252, 255}}
              \cup {Filled(252, 1)}

MoreOpus ==
    /\ sample.type = "opus" /\ sample.chunks < MaxOpusChunks
    /\ \E chunk \in (IF sample.chunks = 0 THEN {<<toc>> : toc \in Tocs} ELSE OpusChunks) :
         sample' = [sample EXCEPT !.bytes = @ \o chunk, !.chunks = @ + 1]

MoreSubframes ==
    /\ sample.type = "subframes" /\ Len(sample.lengths) < SubframeCount(sample.profile)
    /\ LET i == Len(sample.lengths) + 1
           budget == Budget(OpusProfile[sample.profile], SubframeCount(sample.profile), i)
       IN  \E n \in {0, 1, budget - 1, budget} :
               sample' = [sample EXCEPT !.lengths = Append(@, n)]

(* Fields as measured, some of them beyond what their width can hold. *)
Measured(field) ==
    CASE field.kind = "voiced" -> {0, 1}
      [] field.kind = "index" -> {0, 1, 2 ^ (field.width - 1), 2 ^ field.width - 1}
      [] OTHER -> {-1, 0, 1, 85, 2 ^ field.width - 1, 2 ^ field.width}

MoreFields ==
    /\ sample.type = "codec2" /\ sample.changes < MaxChanges
    /\ LET fields == Codec2!EncoderFields(sample.mode) IN
       \E i \in DOMAIN fields : \E n \in Measured(fields[i]) :
           sample' = [sample EXCEPT !.changes = @ + 1, !.measured[i] = n]

(* Speech as it is measured in each subframe of 10 ms, and its coding. The *)
(* pairs and levels are such as the quantisers keep exactly.               *)
Bright == <<1000, 1600, 2800, 4000, 5400, 6400, 8000, 10000, 11600, 13200>>
Dark   == <<1200, 2000, 3600, 5200, 7000, 8400, 10000, 11200, 12400, 14000>>

SubframesOf(mode) == IF mode = "3200" THEN 2 ELSE 4

(* Pitch and energy of the subframes of a frame. *)
Levels == {<<9, 2>>, <<120, 31>>}
Speech(mode) ==
    {[i \in 1 .. SubframesOf(mode) |->
        LET level == IF i = SubframesOf(mode) THEN last ELSE first
        IN  [voiced |-> voiced[i], wo |-> level[1] % (IF mode = "700C" THEN 64 ELSE 128),
             energy |-> level[2] % (IF mode = "700C" THEN 16 ELSE 32), lsps |-> pairs,
             vector |-> IF pairs = Bright THEN 500 ELSE 7]] :
     <<first, last>> \in {<<p, q>> \in Levels \X Levels : p # q}, pairs \in {Bright, Dark},
     voiced \in [1 .. SubframesOf(mode) -> BOOLEAN]}

MoreSpeech ==
    /\ sample.type = "speech" /\ Len(sample.measured) < MaxSpeech * SubframesOf(sample.mode)
    /\ \E frame \in Speech(sample.mode) :
         LET mode    == sample.mode
             fields  == Frames!EncodeFrame(mode, frame)
             decoded == Frames!DecodeFrame(mode, sample.memory,
                            Codec2!Decode(mode, Codec2!Encode(mode, fields).bytes).values)
         IN  sample' = [sample EXCEPT !.measured = @ \o frame, !.memory = decoded.memory,
                                      !.heard = @ \o decoded.subframes]

(* Codebooks of three vectors and of two, to look up the middle one in. *)
Points == [1 .. 2 -> 0 .. 2]
Middle == <<1, 1>>
MoreVectors ==
    /\ sample.type = "vectors" /\ Len(sample.points) < 5
    /\ \E point \in Points : sample' = [sample EXCEPT !.points = Append(@, point)]

(* Pairs by their gaps, which leave 775 Hz at most; a few are set apart.   *)
Gaps(changes) == IF changes = 0 THEN {200, 250, 999} ELSE {200, 249, 1201, 3100}
MoreGaps ==
    /\ sample.type = "gaps" /\ sample.changes < MaxChanges
    /\ \E i \in 1 .. 10 : \E gap \in Gaps(1) :
         sample' = [sample EXCEPT !.changes = @ + 1, !.gaps[i] = gap]

(* Indexes of pairs as a damaged frame may hold them. *)
MoreIndexes ==
    /\ sample.type = "indexes" /\ Len(sample.indexes) < 10
    /\ LET last == 2 ^ Codec2!LspWidths[Len(sample.indexes) + 1] - 1 IN
       \E index \in {0, last} : sample' = [sample EXCEPT !.indexes = Append(@, index)]

(* Signals of one impulse, which every signal is a sum of. *)
MoreImpulses ==
    /\ sample.type = "impulse" /\ sample.at < sample.size
    /\ sample' = [sample EXCEPT !.at = @ + 1]

Init ==
    \/ sample \in Packets
    \/ sample = [type |-> "bytes", bytes |-> <<>>, chunks |-> 0]
    \/ sample = [type |-> "opus", bytes |-> <<>>, chunks |-> 0]
    \/ \E name \in DOMAIN OpusProfile :
         sample = [type |-> "subframes", profile |-> name, lengths |-> <<>>]
    \/ \E mode \in {"3200", "1600", "700C"} :
         LET fields == Codec2!EncoderFields(mode) IN
         \/ sample = [type |-> "codec2", mode |-> mode, changes |-> 0,
                      measured |-> [i \in DOMAIN fields |-> 0]]
         \/ sample = [type |-> "codec2", mode |-> mode, changes |-> 0,
                      measured |-> [i \in DOMAIN fields |-> 2 ^ fields[i].width - 1]]
    \/ \E mode \in {"3200", "1600", "700C"} :
         sample = [type |-> "speech", mode |-> mode, measured |-> <<>>, heard |-> <<>>,
                   memory |-> IF mode = "700C" THEN Frames!Start700 ELSE Frames!Start]
    \/ sample = [type |-> "vectors", points |-> <<>>]
    \/ \E gap \in Gaps(0) : sample = [type |-> "gaps", changes |-> 0, gaps |-> Filled(10, gap)]
    \/ sample = [type |-> "indexes", indexes |-> <<>>]
    \/ \E transform \in [size : {128, 512}, real : BOOLEAN, inverse : BOOLEAN] :
         /\ transform.real => transform.size = 512
         /\ sample = [type |-> "impulse", at |-> 1] @@ transform

Next ==
    \/ MoreBytes \/ MoreItems \/ MoreOpus \/ MoreSubframes \/ MoreFields
    \/ MoreSpeech \/ MoreVectors \/ MoreGaps \/ MoreIndexes \/ MoreImpulses

Spec == Init /\ [][Next]_sample

-----------------------------------------------------------------------------
(* Properties *)

(* What the device takes, the host takes for the same packet; what the     *)
(* host alone takes is beyond the device's limits, repeats a field or has  *)
(* bytes behind it.                                                        *)
DecodersAgree(bytes) ==
    LET device == Device!Decode(bytes)
        host   == Host!Decode(bytes)
    IN  CASE Good(device) -> /\ Good(host)
                             /\ device.value.signals = host.value.signals
                             /\ device.value.frames = host.value.frames
          [] device.error \in {"Limit", "DuplicateField", "TrailingData"} -> TRUE
          [] OTHER -> ~Good(host)

(* Host and device write the same bytes, as many as the device has         *)
(* measured, and read back what was written; where the device refuses to   *)
(* write for a limit, it would refuse to read as well.                     *)
EncodersAgree(signals, frames) ==
    LET device == Device!Encode(signals, frames, Device!MaxPacketBytes)
        host   == Host!Encode(signals, frames)
        back   == Device!Decode(device.value)
    IN  CASE Good(device) -> /\ device.value = host.value
                             /\ device.at = Len(device.value)
                             /\ back.value.signals = signals /\ back.value.frames = frames
                             /\ ~Good(Device!Encode(signals, frames, device.at - 1))
          [] device.error = "NonTransmittableCodec" -> ~Good(host)
          [] OTHER -> Good(host) => Device!Decode(host.value).error = "Limit"

WireAgrees ==
    /\ sample.type = "bytes" => DecodersAgree(sample.bytes)
    /\ sample.type = "packet" => EncodersAgree(sample.signals, sample.frames)

(* A Codec2 decoder reads back each field as it was quantised, whatever    *)
(* was measured, and both ends use the mode's bits; the packets of a       *)
(* profile are whole native frames.                                        *)
BitsAgree ==
    sample.type = "codec2" =>
        LET mode    == sample.mode
            fields  == Codec2!EncoderFields(mode)
            encoded == Codec2!Encode(mode, sample.measured)
            decoded == Codec2!Decode(mode, encoded.bytes)
        IN  /\ encoded.at = Codec2!BitsPerFrame(mode) /\ decoded.at = encoded.at
            /\ decoded.values = [i \in DOMAIN fields |-> Codec2!Quantised(fields[i], sample.measured[i])]
            /\ \A name \in DOMAIN Codec2!PacketProfile :
                 LET profile == Codec2!PacketProfile[name] IN
                 profile.mode = mode =>
                     /\ profile.samples = Codec2!NativeSamples(mode)
                     /\ profile.bytes = Codec2!NativeBytes(mode)
                     /\ 8 * profile.bytes - Codec2!BitsPerFrame(mode) \in 0 .. 7
                     /\ Codec2!PacketSamples(profile) % profile.samples = 0
                     /\ Codec2!PayloadBytes(profile) <= Device!MaxFrameBytes

(* What a listener should hear in subframe t of modes 3200 and 1600, from  *)
(* the whole of what was measured: pitch and energy are sent of every      *)
(* second subframe, and a subframe between two is voiced if one of them    *)
(* is; the pairs are sent of every frame's last and move evenly.           *)
Before(t, frame) == ((t - 1) \div frame) * frame

HeardEvenly(measured, frame, t) ==
    LET sent(s) == IF s = 0 THEN Frames!Start
                   ELSE [measured[s] EXCEPT !.wo = Frames!DecodeWo(@),
                                            !.energy = Frames!DecodeEnergy(@)]
        near   == IF t % 2 = 0 THEN {t} ELSE {t - 1, t + 1}
        voiced == {s \in near : sent(s).voiced}
        wo(s)     == sent(s).wo
        energy(s) == sent(s).energy
        from == Before(t, frame)
        part == t - from
    IN  [voiced |-> measured[t].voiced /\ voiced # {},
         wo |-> CASE t \in near -> sent(t).wo
                  [] measured[t].voiced /\ voiced # {} ->
                       MapThenSumSet(wo, voiced) \div Cardinality(voiced)
                  [] OTHER -> Frames!WoMin,
         energy |-> MapThenSumSet(energy, near) \div Cardinality(near),
         lsps |-> [i \in 1 .. 10 |-> ((frame - part) * sent(from).lsps[i]
                                      + part * sent(from + frame).lsps[i]) * (4 \div frame)]]

(* In mode 700C it hears a subframe one late, and all of it moves evenly   *)
(* between the last subframes of two frames; but where only one of these   *)
(* is voiced, the half next to it is, with its pitch.                      *)
HeardLate(measured, t) ==
    LET sent(s) == IF s = 0 THEN Frames!Start700
                   ELSE [voiced |-> measured[s].voiced,
                         wo |-> Frames!DecodePitch(Frames!Bit(measured[s]) * measured[s].wo),
                         vector |-> Frames!DecodeVector(measured[s].vector, measured[s].vector,
                                                        measured[s].energy)]
        left  == sent(Before(t, 4))
        right == sent(Before(t, 4) + 4)
        part  == (t - 1) % 4
        near  == IF part < 2 THEN left ELSE right
    IN  [voiced |-> near.voiced,
         wo |-> IF left.voiced /\ right.voiced THEN (4 - part) * left.wo + part * right.wo
                ELSE IF near.voiced THEN 4 * near.wo ELSE 4 * Frames!Unvoiced,
         vector |-> (4 - part) * left.vector + part * right.vector]

(* What the decoder of a stream plays, one frame at a time with a memory   *)
(* of the frame before, is what a listener should hear of the whole.       *)
SubframesAgree ==
    sample.type = "speech" =>
        sample.heard = [t \in DOMAIN sample.measured |->
            IF sample.mode = "700C" THEN HeardLate(sample.measured, t)
            ELSE HeardEvenly(sample.measured, SubframesOf(sample.mode), t)]

(* Encoder and decoder of Codec2 agree on the bits of a frame and on the   *)
(* time its subframes stand for.                                           *)
Codec2Agrees == BitsAgree /\ SubframesAgree

-----------------------------------------------------------------------------
(* The pair of a full search: of the first codebook the nearest entries,   *)
(* earlier before later, are kept; of all pairs with them and an entry of  *)
(* the second the nearest is sent, of equals the one whose first is nearer *)
(* and then the earlier second.                                            *)
Distance(a, b) == Search!Term(a, b, 1) + Search!Term(a, b, 2)

SearchIsFull(first, second, target) ==
    LET nearer(i, j) == \/ Distance(first[i], target) < Distance(first[j], target)
                        \/ Distance(first[i], target) = Distance(first[j], target) /\ i < j
        kept == {i \in DOMAIN first : Cardinality({j \in DOMAIN first : nearer(j, i)}) < 2}
        error(p) == Distance(second[p[2]], Search!Residual(target, first[p[1]]))
        before(p, q) == \/ error(p) < error(q)
                        \/ error(p) = error(q) /\ nearer(p[1], q[1])
                        \/ error(p) = error(q) /\ p[1] = q[1] /\ p[2] <= q[2]
        pairs == kept \X DOMAIN second
        found == Search!Quantize(first, second, target)
    IN  /\ <<found.first, found.second>> \in pairs
        /\ \A p \in pairs : before(<<found.first, found.second>>, p)

(* Pairs whose gaps the codebooks reach are decoded within 25 Hz of what   *)
(* was measured, however many are coded one after the other.               *)
PairsAreKept(lsps) ==
    LET heard == Frames!DecodeLspds(Frames!EncodeLspds(lsps)) IN
    \A i \in 1 .. 10 : heard[i] - lsps[i] \in -Frames!Hertz(25) .. Frames!Hertz(25)

(* Whatever indexes arrive, the pairs a decoder goes on with are in order, *)
(* apart, and between zero and half the sampling rate.                     *)
PairsAreApart(indexes) ==
    LET lsps == Frames!BwExpand(Frames!CheckLspOrder(Frames!DecodeLsps(indexes))) IN
    /\ lsps[1] > 0 /\ lsps[10] < Frames!Hertz(4000)
    /\ \A i \in 2 .. 10 : lsps[i] - lsps[i - 1] >= Frames!Separation(i)

QuantisersAgree ==
    /\ sample.type = "vectors" /\ Len(sample.points) = 5 =>
         SearchIsFull(SubSeq(sample.points, 1, 3), SubSeq(sample.points, 4, 5), Middle)
    /\ sample.type = "gaps" =>
         LET Plus(a, b) == a + b
             lsps == [i \in 1 .. 10 |-> FoldLeft(Plus, 0, SubSeq(sample.gaps, 1, i))]
         IN  lsps[10] < Frames!Hertz(4000) => PairsAreKept(lsps)
    /\ sample.type = "indexes" /\ Len(sample.indexes) = 10 => PairsAreApart(sample.indexes)

(* Each bin of a transform of an impulse, forward or inverse, real or      *)
(* complex, is the power of the root of unity that defines it; the inverse *)
(* of a real signal's half spectrum adds the mirrored bin.                 *)
TransformsAgree ==
    sample.type = "impulse" =>
        LET n == sample.size
            one == Fourier!Complex(1, 0)
            impulse(size, a) == [k \in 1 .. size |-> IF k = sample.at THEN a ELSE Fourier!Zero]
            turn(inverse, k) == Fourier!Twiddle(n, inverse, (sample.at - 1) * (k - 1))
            half == n \div 2 + 1
            plays(a, k) == LET v == Fourier!Mul(a, turn(TRUE, k)).r IN
                           IF sample.at \in {1, half} THEN v ELSE Fourier!Mod(2 * v)
        IN  CASE ~sample.real ->
                   Fourier!Fft(impulse(n, one), sample.inverse) = [k \in 1 .. n |-> turn(sample.inverse, k)]
              [] sample.real /\ ~sample.inverse ->
                   Fourier!Fftr([k \in 1 .. n |-> IF k = sample.at THEN 1 ELSE 0])
                     = [k \in 1 .. half |-> turn(FALSE, k)]
              [] OTHER ->
                   sample.at <= half =>
                     \A a \in {one} \cup (IF sample.at \in {1, half} THEN {} ELSE {Fourier!Complex(0, 1)}) :
                       Fourier!Fftri(impulse(half, a)) = [k \in 1 .. n |-> plays(a, k)]
=============================================================================
