----------------------------- MODULE WireTypes -----------------------------
(***************************************************************************)
(* What the host and the device share of the wire format                   *)
(* (lxst-core, shared/wire_types.rs and shared/profile.rs), and numbers in *)
(* network order.                                                          *)
(***************************************************************************)
EXTENDS ByteReader

StatusCodes  == 0 .. 6
ProfileCodes == {16, 32, 48, 64, 80, 96, 112, 128}
ProfileBase  == 255

SignalOf(value) ==
    CASE value \in StatusCodes -> [type |-> "Status", value |-> value]
      [] value - ProfileBase \in ProfileCodes ->
            [type |-> "PreferredProfile", value |-> value - ProfileBase]
      [] OTHER -> [type |-> "Raw", value |-> value]

WireValue(signal) ==
    IF signal.type = "PreferredProfile" THEN ProfileBase + signal.value ELSE signal.value

CodecIds == 0 :> "Raw" @@ 1 :> "Opus" @@ 2 :> "Codec2" @@ 255 :> "Null"

WireId(codec) == CHOOSE id \in DOMAIN CodecIds : CodecIds[id] = codec

Transmittable(codec) == codec # "Null"

(* Bound: numbers on the wire count up to Huge and no further.  MaxSignal  *)
(* stands for u32::MAX, beyond every value that is told apart.             *)
Huge      == 2 ^ 22
MaxSignal == 2 ^ 20

BigEndian(digits) ==
    FoldLeft(LAMBDA n, d : IF 256 * n + d > Huge THEN Huge ELSE 256 * n + d, 0, digits)

Number(bytes, at, size) ==
    Then(Take(bytes, at, size), LAMBDA to, digits : Found(to, BigEndian(digits)))

Digits(value, size) == [i \in 1 .. size |-> (value \div 256 ^ (size - i)) % 256]
=============================================================================
