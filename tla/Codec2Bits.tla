----------------------------- MODULE Codec2Bits ----------------------------
(***************************************************************************)
(* The bit strings of native Codec2 frames (lxst-codec2): how the fields   *)
(* of a mode are quantised, packed in Gray code and unpacked again, and    *)
(* how many of these frames make an LXST packet (lxst-core, codec2.rs).    *)
(* Speech is the index each field would take without clamping.             *)
(***************************************************************************)
EXTENDS Integers, Sequences, SequencesExt, Bitwise

LspWidths  == <<4, 4, 4, 4, 4, 4, 4, 3, 3, 2>>
LspdWidths == [i \in 1 .. 10 |-> 5]

Field(kind, width) == [kind |-> kind, width |-> width]
Codebook(widths)   == [i \in DOMAIN widths |-> Field("index", widths[i])]

Voiced == Field("voiced", 1)
Wo     == Field("level", 7)
Energy == Field("level", 5)

(* What each encoder packs, in order, and what its decoder unpacks. *)
EncoderFields(mode) ==
    CASE mode = "3200" -> <<Voiced, Voiced, Wo, Energy>> \o Codebook(LspdWidths)
      [] mode = "1600" -> <<Voiced, Voiced, Wo, Energy, Voiced, Voiced, Wo, Energy>>
                          \o Codebook(LspWidths)
      [] mode = "700C" -> <<Field("index", 9), Field("index", 9), Field("index", 4),
                            Field("pitch", 6)>>

DecoderWidths(mode) ==
    CASE mode = "3200" -> <<1, 1, 7, 5>> \o LspdWidths
      [] mode = "1600" -> <<1, 1, 7, 5, 1, 1, 7, 5>> \o LspWidths
      [] mode = "700C" -> <<9, 9, 4, 6>>

Gray(mode) == mode # "700C"

(* Deliberate fault: the level behind the last one is let through.         *)
ClampLate(low, high, n) == CASE n < low -> low [] n > high + 1 -> high [] OTHER -> n

Clamp(low, high, n) == CASE n < low -> low [] n > high -> high [] OTHER -> n

(* encode_Wo and encode_energy clamp a level to its width; the pitch of    *)
(* 700C keeps 0 for a frame without voice.                                 *)
Quantised(field, measured) ==
    CASE field.kind = "level" -> Clamp(0, 2 ^ field.width - 1, measured)
      [] field.kind = "pitch" -> IF measured = 0 THEN 0 ELSE Clamp(1, 63, measured)
      [] OTHER -> measured

-----------------------------------------------------------------------------
SliceWidth(at, width) == IF 8 - (at % 8) < width THEN 8 - (at % 8) ELSE width

RECURSIVE PackBits(_, _, _, _)
PackBits(bytes, at, field, width) ==
    IF width = 0 THEN [bytes |-> bytes, at |-> at]
    ELSE LET left  == 8 - (at % 8)
             slice == SliceWidth(at, width)
             bits  == ((field \div 2 ^ (width - slice)) * 2 ^ (left - slice)) % 256
         IN  PackBits([bytes EXCEPT ![at \div 8 + 1] = @ | bits], at + slice, field, width - slice)

Pack(to, field, width, gray) ==
    PackBits(to.bytes, to.at, IF gray THEN (field \div 2) ^^ field ELSE field, width)

RECURSIVE UnpackBits(_, _, _)
UnpackBits(bytes, at, width) ==
    IF width = 0 THEN 0
    ELSE LET left  == 8 - (at % 8)
             slice == SliceWidth(at, width)
             bits  == (bytes[at \div 8 + 1] \div 2 ^ (left - slice)) % 2 ^ slice
         IN  (bits * 2 ^ (width - slice)) | UnpackBits(bytes, at + slice, width - slice)

(* From Gray code, by halving shifts. *)
Binary(field) ==
    LET Fold(t, shift) == t ^^ (t \div 2 ^ shift) IN Fold(Fold(Fold(Fold(field, 8), 4), 2), 1)

Unpack(bytes, at, width, gray) ==
    LET field == UnpackBits(bytes, at, width) IN IF gray THEN Binary(field) ELSE field

-----------------------------------------------------------------------------
Encode(mode, measured) ==
    LET fields == EncoderFields(mode)
        empty  == [bytes |-> [i \in 1 .. (IF mode = "700C" THEN 4 ELSE 8) |-> 0], at |-> 0]
    IN  FoldLeft(LAMBDA to, i :
                     Pack(to, Quantised(fields[i], measured[i]), fields[i].width, Gray(mode)),
                 empty, [i \in DOMAIN fields |-> i])

Decode(mode, bytes) ==
    FoldLeft(LAMBDA from, width :
                 [at |-> from.at + width,
                  values |-> Append(from.values, Unpack(bytes, from.at, width, Gray(mode)))],
             [at |-> 0, values |-> <<>>], DecoderWidths(mode))

-----------------------------------------------------------------------------
(* The sizes that four places of the code have to agree on *)

BitsPerFrame(mode) == IF mode = "700C" THEN 28 ELSE 64
NativeBytes(mode)  == IF mode = "700C" THEN 4 ELSE 8
NativeSamples(mode) == IF mode = "3200" THEN 160 ELSE 320

(* Codec2PacketCodec: mode and frame time of a profile, and the payload    *)
(* with its header.                                                        *)
PacketProfile ==
    [BandwidthUltraLow |-> [mode |-> "700C", ms |-> 400, samples |-> 320, bytes |-> 4],
     BandwidthVeryLow  |-> [mode |-> "1600", ms |-> 320, samples |-> 320, bytes |-> 8],
     BandwidthLow      |-> [mode |-> "3200", ms |-> 200, samples |-> 160, bytes |-> 8]]

PacketSamples(profile) == 8 * profile.ms
PayloadBytes(profile)  == 1 + (PacketSamples(profile) \div profile.samples) * profile.bytes
=============================================================================
