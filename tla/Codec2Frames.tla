---------------------------- MODULE Codec2Frames ---------------------------
(***************************************************************************)
(* What a native Codec2 encoder makes of the subframes of a frame, 10 ms   *)
(* each, and what its decoder makes of the frame and of what it remembers  *)
(* of the one before (lxst-codec2, mod.rs and newamp1.rs).  Wo and energy  *)
(* are in units in which the steps of their quantisers are whole, the      *)
(* energy as its logarithm; the pairs of a subframe are in sixteenths of a *)
(* hertz.  For 700C a number stands for a vector, another for a pitch.     *)
(***************************************************************************)
EXTENDS Codec2Lsps

Bit(subframe) == IF subframe.voiced THEN 1 ELSE 0

EncodeFrame(mode, m) ==
    CASE mode = "3200" -> <<Bit(m[1]), Bit(m[2]), m[2].wo, m[2].energy>> \o EncodeLspds(m[2].lsps)
      [] mode = "1600" -> <<Bit(m[1]), Bit(m[2]), m[2].wo, m[2].energy,
                            Bit(m[3]), Bit(m[4]), m[4].wo, m[4].energy>> \o EncodeLsps(m[4].lsps)
      [] mode = "700C" -> <<m[4].vector, m[4].vector, m[4].energy,
                            IF m[4].voiced THEN m[4].wo ELSE 0>>

-----------------------------------------------------------------------------
WoMin             == 256
DecodeWo(n)       == WoMin + 14 * n
DecodeEnergy(n)   == 10 * n - 64
InterpEnergy(a, b) == (a + b) \div 2

(* interp_Wo, between two keys. *)
InterpWo(voiced, prev, next) ==
    IF voiced /\ (prev.voiced \/ next.voiced)
    THEN [voiced |-> TRUE,
          wo |-> CASE ~prev.voiced -> next.wo
                   [] ~next.voiced -> prev.wo
                   [] OTHER -> (prev.wo + next.wo) \div 2]
    ELSE [voiced |-> FALSE, wo |-> WoMin]

InterpLsps(prev, next, quarters) ==
    [i \in DOMAIN next |-> (4 - quarters) * prev[i] + quarters * next[i]]

Subframe(model, energy, lsps) ==
    [voiced |-> model.voiced, wo |-> model.wo, energy |-> energy, lsps |-> lsps]

(* What a decoder starts from: prev_model_dec, prev_e_dec, prev_lsps_dec.  *)
Start ==
    [voiced |-> FALSE, wo |-> WoMin, energy |-> 0, lsps |-> [i \in 1 .. 10 |-> (16000 * (i - 1)) \div 11]]

Key(values, at) ==
    [voiced |-> values[at] = 1, wo |-> DecodeWo(values[at + 1]),
     energy |-> DecodeEnergy(values[at + 2])]

Between(voiced, prev, next, lsps) ==
    Subframe(InterpWo(voiced = 1, prev, next), InterpEnergy(prev.energy, next.energy), lsps)

Decoded(memory, subframes) == [memory |-> memory, subframes |-> subframes]

Decode3200(memory, values) ==
    LET key  == Key(values, 2)
        lsps == DecodeLspds(SubSeq(values, 5, 14))
    IN  Decoded(Subframe(key, key.energy, lsps),
                <<Between(values[1], memory, key, InterpLsps(memory.lsps, lsps, 2)),
                  Subframe(key, key.energy, InterpLsps(memory.lsps, lsps, 4))>>)

(* Deliberate fault: the third subframe is between the keys of the frame   *)
(* before and of this one.                                                 *)
Decode1600Stale(memory, values) ==
    LET middle == Key(values, 2)
        key    == Key(values, 6)
        lsps   == BwExpand(CheckLspOrder(DecodeLsps(SubSeq(values, 9, 18))))
        at(quarters) == InterpLsps(memory.lsps, lsps, quarters)
    IN  Decoded(Subframe(key, key.energy, lsps),
                <<Between(values[1], memory, middle, at(1)), Subframe(middle, middle.energy, at(2)),
                  Between(values[5], memory, key, at(3)), Subframe(key, key.energy, at(4))>>)

Decode1600(memory, values) ==
    LET middle == Key(values, 2)
        key    == Key(values, 6)
        lsps   == BwExpand(CheckLspOrder(DecodeLsps(SubSeq(values, 9, 18))))
        at(quarters) == InterpLsps(memory.lsps, lsps, quarters)
    IN  Decoded(Subframe(key, key.energy, lsps),
                <<Between(values[1], memory, middle, at(1)), Subframe(middle, middle.energy, at(2)),
                  Between(values[5], middle, key, at(3)), Subframe(key, key.energy, at(4))>>)

-----------------------------------------------------------------------------
(* 700C: State's previous, wo_left and voiced_left. *)
Start700 == [voiced |-> FALSE, wo |-> 0, vector |-> 0]

Unvoiced == 0
DecodePitch(n) == IF n = 0 THEN Unvoiced ELSE 100 + n
DecodeVector(first, second, energy) == 3 * first + 2 * second + energy

Decode700C(left, values) ==
    LET right == [voiced |-> values[4] # 0, wo |-> DecodePitch(values[4]),
                  vector |-> DecodeVector(values[1], values[2], values[3])]
        mixed(f, a, b) == (4 - f) * a + f * b
        subframe(f) ==
            [vector |-> mixed(f, left.vector, right.vector)]
            @@ CASE left.voiced /\ right.voiced ->
                      [voiced |-> TRUE, wo |-> mixed(f, left.wo, right.wo)]
                 [] left.voiced /\ ~right.voiced /\ f < 2 -> [voiced |-> TRUE, wo |-> 4 * left.wo]
                 [] ~left.voiced /\ right.voiced /\ f >= 2 -> [voiced |-> TRUE, wo |-> 4 * right.wo]
                 [] OTHER -> [voiced |-> FALSE, wo |-> 4 * Unvoiced]
    IN  Decoded(right, [i \in 1 .. 4 |-> subframe(i - 1)])

DecodeFrame(mode, memory, values) ==
    CASE mode = "3200" -> Decode3200(memory, values)
      [] mode = "1600" -> Decode1600(memory, values)
      [] mode = "700C" -> Decode700C(memory, values)
=============================================================================
