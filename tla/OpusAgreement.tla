--------------------------- MODULE OpusAgreement ---------------------------
(***************************************************************************)
(* What two parsers and a writer of Opus packets have to agree on, for a   *)
(* sample: the bytes of a packet, or the sizes of a profile's subframes.   *)
(***************************************************************************)
EXTENDS OpusPacket

VARIABLE sample

Filled(n, byte) == [i \in 1 .. n |-> byte]

SubframeCount(name) == EncoderLayout(OpusProfile[name]).value.count

(* What stands before the frames of a code 3 packet: their lengths, but    *)
(* for the last, where the rate varies.                                    *)
Headers(packet, frames) ==
    [i \in DOMAIN frames |-> IF Vbr(packet) /\ i < Len(frames)
                            THEN PushLength(Len(frames[i])).value ELSE <<>>]

(* A code 3 packet put together again from its frames. *)
Reassembled(packet, frames) ==
    LET range == PayloadRange(packet) IN
    SubSeq(packet, 1, range.at)
    \o FlattenSeq(Headers(packet, frames)) \o FlattenSeq(frames)
    \o SubSeq(packet, range.value + 1, Len(packet))

(* Neither parser ever slices out of range.  Both find the same frames in  *)
(* a packet of the profile's count, but for an empty packet of constant    *)
(* rate, and these frames with their lengths and padding are the packet.   *)
ParsersAgree(packet) ==
    LET general == PacketFrames(packet)
        call    == SubframePayloads(packet, FrameCount(packet))
        empty   == ~Vbr(packet) /\ \A i \in DOMAIN general.value : general.value[i] = <<>>
    IN  /\ "Panic" \notin {general.error, Inspect(packet).error}
        /\ packet[1] % 4 = 3 /\ Len(packet) > 1 =>
             /\ call.error # "Panic"
             /\ FrameCount(packet) <= 48 =>
                  /\ Good(call) <=> Good(general) /\ ~empty
                  /\ Good(call) => call.value = general.value
             /\ Good(general) => Reassembled(packet, general.value) = packet

(* Encoder and decoder cut a profile's frame alike, and whatever each      *)
(* subframe takes of its budget, the packet fits the profile's ceiling,    *)
(* lasts as long as the profile's frame, and is parsed into the subframes. *)
PacketFits(name, lengths) ==
    LET profile == OpusProfile[name]
        subpackets == [i \in DOMAIN lengths |-> <<72>> \o Filled(lengths[i], i)]
        packet == EncodePacket(subpackets)
    IN  /\ EncoderLayout(profile).value = DecoderLayout(profile).value
        /\ Len(lengths) = SubframeCount(name) /\ Len(lengths) > 1 =>
             /\ Good(packet)
             /\ Len(packet.value) <= MaxPayloadBytes(profile)
             /\ SubframePayloads(packet.value, Len(lengths)).value
                  = [i \in DOMAIN lengths |-> Tail(subpackets[i])]
             /\ Inspect(packet.value).at = 48 * profile.ms

OpusAgrees ==
    /\ sample.type = "opus" /\ sample.bytes # <<>> => ParsersAgree(sample.bytes)
    /\ sample.type = "subframes" => PacketFits(sample.profile, sample.lengths)
=============================================================================
