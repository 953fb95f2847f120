---------------------------- MODULE Codec2Search ---------------------------
(***************************************************************************)
(* The search of native Codec2's 700C mode (lxst-codec2, newamp1.rs) for   *)
(* the pair of codebook entries nearest to a vector.  It keeps a few       *)
(* survivors of the first codebook, gives a vector up as soon as it can no *)
(* longer win, and goes through the second codebook once for all of them.  *)
(***************************************************************************)
EXTENDS Integers, Sequences, SequencesExt

CONSTANTS
    Survivors,  \* entries kept of the first codebook: five in the code
    Group       \* bound checked after so many terms: four in the code

Huge == 1000000

Term(vector, target, k) == (vector[k] - target[k]) * (vector[k] - target[k])

(* squared_error: at least the limit, if it gives up. *)
RECURSIVE ErrorFrom(_, _, _, _, _)
ErrorFrom(vector, target, limit, start, error) ==
    IF start > Len(target) THEN error
    ELSE LET sum == FoldLeft(LAMBDA e, k : e + Term(vector, target, k), error,
                             [i \in 1 .. Group |-> start + i - 1])
         IN  IF sum >= limit THEN sum ELSE ErrorFrom(vector, target, limit, start + Group, sum)

SquaredError(vector, target, limit) == ErrorFrom(vector, target, limit, 1, 0)

Candidate(error, index) == [error |-> error, index |-> index]
NoCandidate == Candidate(Huge, 1)

(* Deliberate fault: of equals the later one is first.                     *)
InsertLate(best, new) ==
    LET better == {p \in DOMAIN best : new.error <= best[p].error} IN
    IF better = {} THEN best
    ELSE LET p == CHOOSE q \in better : \A r \in better : q <= r
         IN  SubSeq(best, 1, p - 1) \o <<new>> \o SubSeq(best, p, Len(best) - 1)

(* The candidates so far, best first; of equals the earlier one is first.  *)
Insert(best, new) ==
    LET better == {p \in DOMAIN best : new.error < best[p].error} IN
    IF better = {} THEN best
    ELSE LET p == CHOOSE q \in better : \A r \in better : q <= r
         IN  SubSeq(best, 1, p - 1) \o <<new>> \o SubSeq(best, p, Len(best) - 1)

Best(first, target) ==
    FoldLeft(LAMBDA best, i :
                 Insert(best, Candidate(SquaredError(first[i], target, Last(best).error), i)),
             [n \in 1 .. Survivors |-> NoCandidate], [i \in DOMAIN first |-> i])

Residual(target, vector) == [k \in DOMAIN target |-> target[k] - vector[k]]

Winner(second, residual) ==
    FoldLeft(LAMBDA winner, j :
                 LET error == SquaredError(second[j], residual, winner.error)
                 IN  IF error < winner.error THEN Candidate(error, j) ELSE winner,
             NoCandidate, [j \in DOMAIN second |-> j])

(* quantize: the pair of entries that is sent. *)
Quantize(first, second, target) ==
    LET best == Best(first, target)
        winner == [n \in DOMAIN best |-> Winner(second, Residual(target, first[best[n].index]))]
    IN  FoldLeft(LAMBDA result, n :
                     IF winner[n].error < result.error
                     THEN [error |-> winner[n].error, first |-> best[n].index,
                           second |-> winner[n].index]
                     ELSE result,
                 [error |-> Huge, first |-> 1, second |-> 1], [n \in DOMAIN best |-> n])
=============================================================================
