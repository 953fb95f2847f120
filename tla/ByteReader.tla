---------------------------- MODULE ByteReader -----------------------------
(***************************************************************************)
(* What the parsers of bytes have in common: the result of a step is an    *)
(* error, or the offset behind what was read together with its value.      *)
(***************************************************************************)
EXTENDS Integers, Sequences, SequencesExt

Found(at, value) == [error |-> "None", at |-> at, value |-> value]
Fail(error)      == [error |-> error, at |-> 0, value |-> <<>>]
Good(result)     == result.error = "None"

Then(result, Step(_, _)) == IF Good(result) THEN Step(result.at, result.value) ELSE result

Steps(n, result, Step(_, _)) ==
    LET after[i \in 0 .. n] == IF i = 0 THEN result ELSE Then(after[i - 1], Step) IN after[n]

(* A step n times, by sixteens, as TLC evaluates only so deep. *)
Again(n, result, Step(_, _)) ==
    LET sixteens[i \in 0 .. n \div 16] ==
            IF i = 0 THEN result
            ELSE LET from == sixteens[i - 1] IN IF Good(from) THEN Steps(16, from, Step) ELSE from
        from == sixteens[n \div 16]
    IN  IF Good(from) THEN Steps(n % 16, from, Step) ELSE from

Take(bytes, at, n) ==
    IF at + n <= Len(bytes) THEN Found(at + n, SubSeq(bytes, at + 1, at + n))
    ELSE Fail("Truncated")

Byte(bytes, at) == IF at < Len(bytes) THEN Found(at + 1, bytes[at + 1]) ELSE Fail("Truncated")
=============================================================================
