------------------------------ MODULE KissFft ------------------------------
(***************************************************************************)
(* The Fourier transforms of native Codec2 (lxst-codec2, kiss_fft.rs), of  *)
(* complex and of real signals, forward and inverse.  Their arithmetic is  *)
(* that of the complex numbers over a finite field instead of floats: the  *)
(* algorithm uses no more of a number than the laws of a field, and that   *)
(* the coefficients are powers of one root of unity, conjugate to its      *)
(* inverse.  The butterflies of radix 3, 5 and above are left out: a size  *)
(* of 128, 256 or 512, all that initialise admits, has factors 4 and 2.    *)
(***************************************************************************)
EXTENDS Integers, Sequences, SequencesExt

(* The field of 3583 elements, in which -1 is no square. *)
Prime == 3583
Mod(n) == n % Prime

Complex(r, i) == [r |-> r, i |-> i]
Zero    == Complex(0, 0)
Add(a, b) == Complex(Mod(a.r + b.r), Mod(a.i + b.i))
Sub(a, b) == Complex(Mod(a.r - b.r), Mod(a.i - b.i))
Mul(a, b) == Complex(Mod(a.r * b.r - a.i * b.i), Mod(a.r * b.i + a.i * b.r))
Conj(a)   == Complex(a.r, Mod(-a.i))
TimesI(a) == Complex(Mod(-a.i), a.r)
Half(a)   == Complex(Mod(a.r * 1792), Mod(a.i * 1792))

(* Powers of a root of order 512, which stands for exp(2 pi i / 512). *)
Order == 512
Root  == Complex(2128, 3560)
RECURSIVE Power(_)
Power(n) ==
    IF n = 0 THEN Complex(1, 0)
    ELSE LET half == Power(n \div 2) IN
         IF n % 2 = 0 THEN Mul(half, half) ELSE Mul(Root, Mul(half, half))

Powers == [n \in 0 .. Order - 1 |-> Power(n)]

(* The coefficient tables: exp(-2 pi i k / n), conjugate where inverse.    *)
Exp(k)    == Powers[k % Order]
Sign(inv) == IF inv THEN 1 ELSE -1
Twiddle(n, inv, k)      == Exp(Sign(inv) * k * (Order \div n))
SuperTwiddle(n, inv, k) == Exp(Sign(inv) * (k * (Order \div (2 * n)) + Order \div 4))

(* The same sequence, as a tuple of values (for TLC). *)
Tuple(s) == s \o <<>>

-----------------------------------------------------------------------------
(* initialise: fours while they divide, then a two. *)
RECURSIVE Factors(_, _)
Factors(n, p) ==
    CASE n % p # 0 -> Factors(n, 2)
      [] n = p -> <<p>>
      [] OTHER -> <<p>> \o Factors(n \div p, p)

(* One butterfly joins the u-th elements of its parts, s[1] to s[p], after *)
(* they are turned; it makes the elements u, u + m, ... of the whole.      *)
Butterfly2(s) == <<Add(s[1], s[2]), Sub(s[1], s[2])>>

Butterfly4(s, inv) ==
    LET even == Add(s[1], s[3])
        odd  == Sub(s[1], s[3])
        sum  == Add(s[2], s[4])
        turn == TimesI(Sub(s[2], s[4]))
        up   == Add(odd, turn)
        down == Sub(odd, turn)
    IN  IF inv THEN <<Add(even, sum), up, Sub(even, sum), down>>
               ELSE <<Add(even, sum), down, Sub(even, sum), up>>

(* kf_work: the transform of every stride-th element of f from at on. *)
RECURSIVE Work(_, _, _, _, _, _)
Work(f, at, stride, factors, n, inv) ==
    LET p == Head(factors)
        m == n \div (stride * p)
        parts == Tuple([q \in 1 .. p |->
                     IF m = 1 THEN <<f[at + (q - 1) * stride]>>
                     ELSE Work(f, at + (q - 1) * stride, stride * p, Tail(factors), n, inv)])
        turned(u) == Tuple([q \in 1 .. p |->
                         Mul(parts[q][u + 1], Twiddle(n, inv, (q - 1) * u * stride))])
        joined == Tuple([u \in 1 .. m |-> IF p = 2 THEN Butterfly2(turned(u - 1))
                                                   ELSE Butterfly4(turned(u - 1), inv)])
    IN  Tuple([k \in 1 .. p * m |-> joined[((k - 1) % m) + 1][((k - 1) \div m) + 1]])

Fft(f, inv) == Work(f, 1, 1, Factors(Len(f), 4), Len(f), inv)

-----------------------------------------------------------------------------
(* kiss_fftr: two real elements make one complex element; the bins of both *)
(* halves are taken apart again.                                           *)
Real(a) == Complex(a, 0)

Fftr(time) ==
    LET n   == Len(time) \div 2
        tmp == Fft(Tuple([k \in 1 .. n |-> Complex(time[2 * k - 1], time[2 * k])]), FALSE)
        bin(k) ==
            LET mirrored == Conj(tmp[n - k + 1])
                f1 == Add(tmp[k + 1], mirrored)
                tw == Mul(Sub(tmp[k + 1], mirrored), SuperTwiddle(n, FALSE, k))
            IN  [low |-> Half(Add(f1, tw)), high |-> Half(Conj(Sub(f1, tw)))]
    IN  [k \in 1 .. n + 1 |->
            CASE k = 1 -> Real(Mod(tmp[1].r + tmp[1].i))
              [] k = n + 1 -> Real(Mod(tmp[1].r - tmp[1].i))
              [] k - 1 \in 1 .. (n \div 2) - 1 -> bin(k - 1).low
              [] OTHER -> bin(n - k + 1).high]

(* Deliberate fault: the mirrored bin is not conjugated back.              *)
FftriUnmirrored(freq) ==
    LET n == Len(freq) - 1
        pair(k) ==
            LET mirrored == Conj(freq[n - k + 1])
                even == Add(freq[k + 1], mirrored)
                odd  == Mul(Sub(freq[k + 1], mirrored), SuperTwiddle(n, TRUE, k))
            IN  [low |-> Add(even, odd), high |-> Sub(even, odd)]
        tmp == [k \in 1 .. n |->
            CASE k = 1 -> Complex(Mod(freq[1].r + freq[n + 1].r), Mod(freq[1].r - freq[n + 1].r))
              [] k - 1 \in 1 .. (n \div 2) - 1 -> pair(k - 1).low
              [] OTHER -> pair(n - k + 1).high]
        time == Fft(Tuple(tmp), TRUE)
    IN  [k \in 1 .. 2 * n |-> IF k % 2 = 1 THEN time[(k + 1) \div 2].r ELSE time[k \div 2].i]

(* kiss_fftri *)
Fftri(freq) ==
    LET n == Len(freq) - 1
        pair(k) ==
            LET mirrored == Conj(freq[n - k + 1])
                even == Add(freq[k + 1], mirrored)
                odd  == Mul(Sub(freq[k + 1], mirrored), SuperTwiddle(n, TRUE, k))
            IN  [low |-> Add(even, odd), high |-> Conj(Sub(even, odd))]
        tmp == [k \in 1 .. n |->
            CASE k = 1 -> Complex(Mod(freq[1].r + freq[n + 1].r), Mod(freq[1].r - freq[n + 1].r))
              [] k - 1 \in 1 .. (n \div 2) - 1 -> pair(k - 1).low
              [] OTHER -> pair(n - k + 1).high]
        time == Fft(Tuple(tmp), TRUE)
    IN  [k \in 1 .. 2 * n |-> IF k % 2 = 1 THEN time[(k + 1) \div 2].r ELSE time[k \div 2].i]
=============================================================================
