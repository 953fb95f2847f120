----------------------------- MODULE Codec2Lsps ----------------------------
(***************************************************************************)
(* The line spectral pairs of native Codec2 (lxst-codec2, quantise.rs):    *)
(* their scalar quantisers, by difference in 3200 and one by one in 1600,  *)
(* and how a decoder puts pairs in order and keeps them apart.             *)
(* Frequencies are in quarters of a hertz.                                 *)
(***************************************************************************)
EXTENDS Integers, Sequences, SequencesExt

(* quantise: the first of the nearest entries of a codebook, from 0. *)
Nearest(codebook, value) ==
    LET error(j) == (codebook[j] - value) * (codebook[j] - value)
        nearest == {j \in DOMAIN codebook : \A i \in DOMAIN codebook : error(j) <= error(i)}
    IN  (CHOOSE j \in nearest : \A i \in nearest : j <= i) - 1

Hertz(n) == 4 * n
Steps(first, step, size) == [j \in 1 .. size |-> Hertz(first + (j - 1) * step)]

LspCodebook ==
    <<Steps(225, 25, 16), Steps(325, 25, 16), Steps(500, 50, 16), Steps(700, 100, 16),
      Steps(950, 100, 16), Steps(1100, 100, 16), Steps(1500, 100, 16), Steps(2300, 100, 8),
      Steps(2500, 100, 8), Steps(2900, 200, 4)>>

LspdCodebook ==
    LET fine   == Steps(25, 25, 32)
        coarse == Steps(25, 25, 8) \o Steps(250, 50, 24)
    IN  <<fine, fine, fine, coarse, coarse, coarse, fine, fine, fine, fine>>

EncodeLsps(lsps)    == [i \in DOMAIN lsps |-> Nearest(LspCodebook[i], lsps[i])]
DecodeLsps(indexes) == [i \in DOMAIN indexes |-> LspCodebook[i][indexes[i] + 1]]

(* Deliberate fault: the difference from the pair before as it was         *)
(* measured, not as the decoder will know it.                              *)
EncodeLspdsOpen(lsps) ==
    [i \in DOMAIN lsps |->
        Nearest(LspdCodebook[i], lsps[i] - (IF i = 1 THEN 0 ELSE lsps[i - 1]))]

(* Each difference is from the pair before as the decoder will know it.    *)
EncodeLspds(lsps) ==
    FoldLeft(LAMBDA done, i :
                 LET index == Nearest(LspdCodebook[i], lsps[i] - done.last)
                 IN  [last |-> done.last + LspdCodebook[i][index + 1],
                      indexes |-> Append(done.indexes, index)],
             [last |-> 0, indexes |-> <<>>], [i \in DOMAIN lsps |-> i]).indexes

DecodeLspds(indexes) ==
    FoldLeft(LAMBDA lsps, i :
                 Append(lsps, LspdCodebook[i][indexes[i] + 1] + IF i = 1 THEN 0 ELSE Last(lsps)),
             <<>>, [i \in DOMAIN indexes |-> i])

-----------------------------------------------------------------------------
(* check_lsp_order: two out of order are swapped and moved apart by a      *)
(* tenth of a radian each, and the check begins again behind the first.    *)
Tenth == 509

RECURSIVE OrderFrom(_, _)
OrderFrom(lsps, i) ==
    IF i > Len(lsps) THEN lsps
    ELSE IF lsps[i] < lsps[i - 1]
         THEN OrderFrom([lsps EXCEPT ![i - 1] = lsps[i] - Tenth, ![i] = lsps[i - 1] + Tenth], 3)
         ELSE OrderFrom(lsps, i + 1)

CheckLspOrder(lsps) == OrderFrom(lsps, 2)

(* bw_expand_lsps: pairs keep a distance, 50 Hz up to the fourth, then 100 *)
Separation(i) == IF i <= 4 THEN Hertz(50) ELSE Hertz(100)

BwExpand(lsps) ==
    FoldLeft(LAMBDA done, i :
                 IF done[i] - done[i - 1] < Separation(i)
                 THEN [done EXCEPT ![i] = done[i - 1] + Separation(i)] ELSE done,
             lsps, [i \in 1 .. Len(lsps) - 1 |-> i + 1])
=============================================================================
