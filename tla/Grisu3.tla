------------------------------- MODULE Grisu3 -------------------------------
(***************************************************************************)
(* base/numberConvertingAlogo/grisu3.cpp: the fast conversion of a double  *)
(* to decimal digits with two machine words, which knows when it may be    *)
(* wrong and then leaves the number to Dragon4, and the printing of the    *)
(* digits.  The sizes of the two formats are constants: a double has       *)
(* SignificandSize bits of significand (53) and ExponentBits of exponent   *)
(* (11), a DiyFp has DiyFpSize bits (64).                                  *)
(*                                                                         *)
(* A double is a record of its three fields.  Words are natural numbers;   *)
(* that they fit in DiyFpSize bits is part of the asserts.                 *)
(***************************************************************************)
EXTENDS Dragon4

CONSTANTS ExponentBits, DiyFpSize,
          kAlpha, kGamma,           \* -60, -32: the range of binary exponents
          kCachedPowersSize,        \* 79
          kCachedPowersMinDecExp,   \* -300
          kCachedPowersDecExpStep,  \* 8
          UInt32Max                 \* 2^32 - 1

ASSUME Grisu3Assumption ==
    /\ ExponentBits \in Nat \ {0, 1}
    /\ DiyFpSize \in Nat /\ DiyFpSize >= SignificandSize + 3
    /\ kAlpha \in Int /\ kGamma \in Int
    /\ kAlpha >= 4 - DiyFpSize /\ kAlpha <= kGamma /\ kGamma < 0
    /\ kCachedPowersSize \in Nat \ {0}
    /\ kCachedPowersMinDecExp \in Int
    /\ kCachedPowersDecExpStep \in Nat \ {0}
    /\ UInt32Max \in Nat /\ UInt32Max >= 999999999

HiddenBit == 2 ^ (SignificandSize - 1)
ExponentMask == 2 ^ ExponentBits - 1
ExponentBias == 2 ^ (ExponentBits - 1) - 1 + (SignificandSize - 1)
MinExponent == 1 - ExponentBias
MaxExponent == ExponentMask - 1 - ExponentBias      \* 971

Doubles == [sign : BOOLEAN, E : 0..ExponentMask, F : 0..(HiddenBit - 1)]

IsFinite(v) == v.E # ExponentMask
IsNaN(v) == v.E = ExponentMask /\ v.F # 0
IsZero(v) == v.E = 0 /\ v.F = 0

(* f and e with |v| = f * 2^e                                               *)
Decompose(v) ==
    IF v.E = 0 THEN [f |-> v.F, e |-> MinExponent]
    ELSE [f |-> v.F + HiddenBit, e |-> v.E - ExponentBias]
-----------------------------------------------------------------------------
FloorLog2Pow10(e) == SAR(e * 1741647, 19)

(* x * y / 2^q, rounded, ties up                                            *)
MultiplyHighRoundUp(x, y) ==
    (x * y + 2 ^ (DiyFpSize - 1)) \div 2 ^ DiyFpSize

(* The table: 10^k with the exponent e, rounded to the nearest significand  *)
kSignificand(k, e) ==
    IF k < 0 THEN (2 ^ (1 - e) + 10 ^ (-k)) \div (2 * 10 ^ (-k))
    ELSE IF e <= 0 THEN 10 ^ k * 2 ^ (-e)
    ELSE (10 ^ k + 2 ^ (e - 1)) \div 2 ^ e

CachedIndex(e) ==
    (CeilLog10Pow2(kAlpha - e - 1)
       - (kCachedPowersMinDecExp - (kCachedPowersDecExpStep - 1)))
        \div kCachedPowersDecExpStep

GetCachedPowerForBinaryExponent(e) ==
    LET Cached(k, e_cached) ==
            [f |-> kSignificand(k, e_cached), e |-> e_cached, k |-> k]
        ForExponent(k) == Cached(k, FloorLog2Pow10(k) + 1 - DiyFpSize)
    IN  ForExponent(kCachedPowersMinDecExp
                      + CachedIndex(e) * kCachedPowersDecExpStep)

(* lower_boundary_is_closer: the predecessor of v is only half as far away  *)
LowerBoundaryIsCloser(v) == v.F = 0 /\ v.E > 1

(* GRISU_SMALL_INT_OPTIMIZATION: v is an integer below 2^p                  *)
IsSmallInt(v) ==
    LET d == Decompose(v)
    IN  /\ v.E # 0
        /\ 0 <= -d.e /\ -d.e < SignificandSize
        /\ d.f % 2 ^ (-d.e) = 0

SmallInt(v) == [digits |-> Decompose(v).f \div 2 ^ (-Decompose(v).e),
                exponent |-> 0]

(* m-, v and m+ as normalized words with one exponent                       *)
Shifted(f, e, fm, shift) ==
    [m_minus |-> fm * 2 ^ shift, v |-> 4 * f * 2 ^ shift,
     m_plus |-> (4 * f + 2) * 2 ^ shift, e |-> e - 2 - shift]

Boundaries(v, d) ==
    Shifted(d.f, d.e,
            4 * d.f - 2 + (IF LowerBoundaryIsCloser(v) THEN 1 ELSE 0),
            IF v.E # 0 THEN DiyFpSize - SignificandSize - 2
            ELSE DiyFpSize - EffectivePrecision(4 * d.f))

(* Step 1: the interval, scaled by a cached power; the locals of Grisu3     *)
(* from here on are a record                                                *)
ScaledBy(b, cached) ==
    [phase |-> "scaled",
     w_minus |-> MultiplyHighRoundUp(b.m_minus, cached.f),
     w |-> MultiplyHighRoundUp(b.v, cached.f),
     w_plus |-> MultiplyHighRoundUp(b.m_plus, cached.f),
     e |-> b.e + cached.e + DiyFpSize,
     shared_exponent |-> b.e, k |-> cached.k]

StartGrisu3(v) ==
    LET Start(b) == ScaledBy(b, GetCachedPowerForBinaryExponent(b.e))
    IN  Start(Boundaries(v, Decompose(v)))

(* Step 2: L and H are one unit beyond the boundaries, and H is split at    *)
(* the binary point                                                         *)
SplitH(g) ==
    LET Split(H, delta, one) ==
            [phase |-> IF H % one >= delta THEN "fraction" ELSE "integral",
             distance |-> H - g.w, delta |-> delta, unit |-> 1, one |-> one,
             p1 |-> H \div one, p2 |-> H % one,
             digits |-> H \div one, exponent |-> 0, k |-> g.k,
             rest |-> H % one, ten_kappa |-> one]
    IN  Split(g.w_plus + 1, (g.w_plus + 1) - (g.w_minus - 1), 2 ^ (-g.e))

(* One more digit of the fraction, until p2 is below delta                  *)
FractionDigit(g) ==
    LET p2 == (10 * g.p2) % g.one
        d == (10 * g.p2) \div g.one
    IN  [g EXCEPT !.p2 = p2, !.digits = g.digits * 10 + d,
                  !.exponent = g.exponent - 1,
                  !.delta = g.delta * 10, !.distance = g.distance * 10,
                  !.unit = g.unit * 10, !.rest = p2,
                  !.phase = IF p2 < g.delta * 10 THEN "round" ELSE "fraction"]

(* One digit of p1 fewer, while what is cut off stays below delta           *)
IntegralDigit(g) ==
    LET r_next == g.ten_kappa * (g.p1 % 10) + g.rest
    IN  IF r_next >= g.delta
        THEN [g EXCEPT !.digits = g.p1, !.phase = "round"]
        ELSE [g EXCEPT !.p1 = g.p1 \div 10, !.exponent = g.exponent + 1,
                       !.rest = r_next, !.ten_kappa = g.ten_kappa * 10]
-----------------------------------------------------------------------------
(* Step 3: is the next smaller number nearer to the point at this distance? *)
NearerBelow(g, distance) ==
    \/ g.rest + g.ten_kappa <= distance
    \/ g.rest + g.ten_kappa - distance < distance - g.rest

(* the condition of the while loop                                          *)
MayDecrement(g) ==
    /\ g.rest <= g.distance - g.unit
    /\ g.delta - g.rest > g.ten_kappa
    /\ NearerBelow(g, g.distance - g.unit)

Decrement(g) == [g EXCEPT !.digits = g.digits - 1, !.rest = g.rest + g.ten_kappa]

(* another number may be nearer to v, which may lie anywhere in its units   *)
Ambiguous(g) ==
    /\ g.rest < g.distance + g.unit
    /\ g.delta - g.rest >= g.ten_kappa
    /\ NearerBelow(g, g.distance + g.unit)

(* outside of the safe interval                                             *)
Mutant_Unsafe(g) == g.rest < g.unit
Unsafe(g) == g.rest < 2 * g.unit \/ g.rest > g.delta - 2 * g.unit

Grisu3Succeeds(g) == ~Ambiguous(g) /\ ~Unsafe(g)
Grisu3Decimal(g) == [digits |-> g.digits, exponent |-> g.exponent - g.k]

(* ToDecimal64: the call of Dragon4 after a failure                         *)
FallBack(v) ==
    LET Call(d) == StartDragon4(d.f, d.e, d.f % 2 = 0,
                                d.f = HiddenBit /\ d.e > MinExponent)
    IN  Call(Decompose(v))

(* DRAGON4_ASSERT in ComputeInitialValuesAndEstimate and what it calls:     *)
(* the ranges of e and k, and the room for r.  The numbers are those of a   *)
(* double: 53 (SignificandSize), -1074 and 971, -323 and 308, 55 and 16.    *)
FallBackAsserts(v) ==
    LET f == Decompose(v).f
        e == Decompose(v).e
        p == EffectivePrecision(f)
        k == CeilLog10Pow2(e + (p - 1))
    IN  /\ f # 0 /\ p <= SignificandSize
        /\ e + (p - 1) \in -2620..2620
        /\ e >= 0 => /\ e <= MaxExponent
                     /\ k \in 0..CeilLog10Pow2(MaxExponent + SignificandSize - 1)
                     /\ AssignAsserts(f, e)
        /\ k < 0 => /\ e \in MinExponent..(-1)
                    /\ k >= CeilLog10Pow2(MinExponent)
                    /\ AssignAsserts(f, -k)
        /\ e < 0 /\ k >= 0 => /\ e >= -(SignificandSize + 2)
                              /\ k <= MaxDigits10 - 1
-----------------------------------------------------------------------------
(* GRISU_ASSERT before the loops, in them and after them, and that no word  *)
(* overflows                                                                *)
Grisu3Asserts(g) ==
    /\ g.phase = "scaled" =>
          /\ g.shared_exponent \in (MinExponent + 1 - DiyFpSize)
                                   ..(MaxExponent + SignificandSize - DiyFpSize)
          /\ kAlpha - g.shared_exponent - 1 \in -2620..2620
          /\ CachedIndex(g.shared_exponent) \in 0..(kCachedPowersSize - 1)
          /\ g.k \in -1233..1232
          /\ kAlpha <= g.e /\ g.e <= kGamma
          /\ 2 ^ (DiyFpSize - 2) <= g.w_plus /\ g.w_plus < 2 ^ DiyFpSize - 1
          /\ 1 <= g.w_minus /\ g.w_minus <= g.w /\ g.w <= g.w_plus
          /\ (g.w_plus + 1) \div 2 ^ (-g.e) >= 4
    /\ g.phase = "fraction" =>
          /\ g.digits < 10 ^ MaxDigits10
          /\ 10 * g.p2 < 2 ^ DiyFpSize
          /\ (10 * g.p2) \div g.one <= 9
          /\ 10 * g.delta < 2 ^ DiyFpSize
    /\ g.phase = "integral" =>
          /\ g.exponent = 0 => g.p1 * g.one + g.p2 >= g.delta   \* loop terminates
          /\ g.rest <= g.delta
    /\ g.phase = "round" =>
          /\ g.digits >= 1
          /\ g.distance <= g.delta /\ g.rest <= g.delta
          /\ g.distance >= g.unit /\ g.distance + g.unit < 2 ^ DiyFpSize
          /\ g.delta >= 4 * g.unit
          /\ MayDecrement(g) => g.digits % 10 # 0
-----------------------------------------------------------------------------
(* A buffer of characters, by position from 0; what was never written is    *)
(* "?".  Storing a text at a position:                                      *)
Stored(buffer, at, text) ==
    [i \in DOMAIN buffer |-> IF at <= i /\ i < at + Len(text)
                             THEN text[i - at + 1] ELSE buffer[i]]

Chars == <<"0", "1", "2", "3", "4", "5", "6", "7", "8", "9">>

Pow10[n \in Nat] == IF n = 0 THEN 1 ELSE 10 * Pow10[n - 1]

(* Utoa_2Digits, Utoa_4Digits, Utoa_8Digits: exactly n digits               *)
Utoa(n, digits) == [i \in 1..n |-> Chars[((digits \div Pow10[n - i]) % 10) + 1]]

(* the n with 10^(n - 1) <= v < 10^n                                        *)
DecimalLength(v) ==
    CHOOSE n \in 1..17 : Pow10[n - 1] <= v /\ v \div 10 < Pow10[n - 1]

(* PrintDecimalDigits: from the right, a group of eight digits if there are  *)
(* too many for a uint32_t, then groups of four, two and one or two         *)
Group(output) ==
    IF output > UInt32Max THEN 8
    ELSE IF output >= 10000 THEN 4 ELSE IF output >= 10 THEN 2 ELSE 1
DecimalDigits(output) ==
    LET Groups[o \in 0..output] ==
            IF o < 100 THEN Utoa(Group(o), o)
            ELSE Groups[o \div Pow10[Group(o)]] \o Utoa(Group(o), o % Pow10[Group(o)])
    IN  Groups[output]
PrintDecimalDigits(buffer, at, output, output_length) ==
    LET text == DecimalDigits(output)
    IN  Stored(buffer, at + output_length - Len(text), text)

MaxFixedDecimalPoint == 17
MinFixedDecimalPoint == -6

(* d.igitsE+123 without the mantissa                                        *)
ExponentDigits(k) ==
    IF k < 10 THEN Utoa(1, k)
    ELSE IF k < 100 THEN Utoa(2, k)
    ELSE Utoa(2, k \div 10) \o Utoa(1, k % 10)

ExponentText(scientific_exponent) ==
    IF scientific_exponent < 0
    THEN <<"e", "-">> \o ExponentDigits(-scientific_exponent)
    ELSE <<"e", "+">> \o ExponentDigits(scientific_exponent)

(* FormatDigits at position p of the buffer: the buffer and the position    *)
(* behind the text                                                          *)
FormatDigits(buffer, p, digits, decimal_exponent) ==
    LET num_digits == DecimalLength(digits)
        decimal_point == num_digits + decimal_exponent
        Printed(b, at) == PrintDecimalDigits(b, at, digits, num_digits)
        Zeros(n) == [i \in 1..n |-> "0"]
        Moved(b, at, n) == [i \in 1..n |-> b[at + i - 1]]
    IN  IF decimal_point \notin MinFixedDecimalPoint..MaxFixedDecimalPoint
        THEN LET b == Printed(buffer, p + 1)
                 first == Stored(b, p, <<b[p + 1]>>)
                 mantissa == IF num_digits = 1 THEN first
                             ELSE Stored(first, p + 1, <<".">>)
                 end == IF num_digits = 1 THEN p + 1 ELSE p + 1 + num_digits
                 exp == ExponentText(decimal_point - 1)
             IN  [buf |-> Stored(mantissa, end, exp), end |-> end + Len(exp)]
        ELSE IF decimal_point <= 0
        THEN LET b == Printed(Stored(buffer, p, Zeros(8)), p + 2 - decimal_point)
             IN  [buf |-> Stored(b, p + 1, <<".">>),
                  end |-> p + 2 - decimal_point + num_digits]
        ELSE IF decimal_point < num_digits
        THEN LET b == Printed(buffer, p)
                 q == p + decimal_point
             IN  [buf |-> Stored(Stored(b, q + 1, Moved(b, q, 16)), q, <<".">>),
                  end |-> p + num_digits + 1]
        ELSE [buf |-> Printed(Stored(buffer, p, Zeros(24)), p),
              end |-> p + decimal_point]
=============================================================================
