------------------------------ MODULE Dragon4 -------------------------------
(***************************************************************************)
(* base/numberConvertingAlogo/dragon4.cpp: the exact conversion of a       *)
(* binary floating-point number to its shortest decimal form, on big       *)
(* integers.  The widths of the code are constants here: a bigit has       *)
(* BigitBits bits (32), a significand at most SignificandSize bits (53).   *)
(*                                                                         *)
(* A DiyInt is the sequence of its bigits, least significant first; its    *)
(* length is the member size.  Bigits above size are never read (DivMod    *)
(* writes the one it needs first).  The array behind it has Capacity       *)
(* bigits: a longer sequence is one that an assert refuses.                *)
(***************************************************************************)
EXTENDS Integers, Sequences

CONSTANTS BigitBits, SignificandSize,
          MaxBits,          \* 1130: bits that a DiyInt holds
          MaxPow5,          \* 13: 5^MaxPow5 fits in a bigit
          MaxDigits10       \* 17: digits that are enough for every number

ASSUME Dragon4Assumption ==
    /\ BigitBits \in Nat \ {0} /\ 2 ^ BigitBits > 10
    /\ SignificandSize \in Nat \ {0}
    /\ SignificandSize + 2 <= 2 * BigitBits
    /\ MaxBits \in Nat
    /\ MaxPow5 \in Nat \ {0} /\ 5 ^ MaxPow5 < 2 ^ BigitBits
    /\ MaxDigits10 \in Nat \ {0}

B == 2 ^ BigitBits
Capacity == (MaxBits + BigitBits - 1) \div BigitBits

(* bigit i of x, 0 beyond its ends                                          *)
At(x, i) == IF i \in 0..(Len(x) - 1) THEN x[i + 1] ELSE 0

(* a sequence without the zero bigits at its top                            *)
Clamped(x) ==
    LET k == CHOOSE k \in 0..Len(x) :
                /\ \A i \in (k + 1)..Len(x) : x[i] = 0
                /\ k = 0 \/ x[k] # 0
    IN  SubSeq(x, 1, k)

AssignU32(value) == IF value = 0 THEN <<>> ELSE <<value>>
AssignU64(value) == Clamped(<<value % B, value \div B>>)

(* A * x + b, the carry running from bigit to bigit                         *)
MulAddU32(x, A, b) ==
    IF A = 0 \/ x = <<>> THEN AssignU32(b)
    ELSE LET carry[i \in 0..Len(x)] ==
                 IF i = 0 THEN b ELSE (x[i] * A + carry[i - 1]) \div B
         IN  [i \in 1..Len(x) |-> (x[i] * A + carry[i - 1]) % B]
                 \o AssignU32(carry[Len(x)])

Mul10(x) == MulAddU32(x, 10, 0)

(* x * 2^bit_shift for a shift shorter than a bigit                         *)
ShiftLeft(x, bit_shift) ==
    [i \in 1..Len(x) |-> ((x[i] * 2 ^ bit_shift) % B)
                           + At(x, i - 2) \div 2 ^ (BigitBits - bit_shift)]
        \o AssignU32(At(x, Len(x) - 1) \div 2 ^ (BigitBits - bit_shift))

Mul2(x) == ShiftLeft(x, 1)

Zeroize(n) == [i \in 1..n |-> 0]

MulPow2(x, e2) ==
    IF x = <<>> THEN x
    ELSE Zeroize(e2 \div BigitBits) \o ShiftLeft(x, e2 % BigitBits)

(* x * 5^e5, MaxPow5 factors at a time and the rest at the end              *)
MulPow5(x, e5) ==
    LET Mul[e \in 0..e5] ==
            IF e = 0 THEN x
            ELSE LET n == IF e % MaxPow5 = 0 THEN MaxPow5 ELSE e % MaxPow5
                 IN  MulAddU32(Mul[e - n], 5 ^ n, 0)
    IN  Mul[e5]

AssignPow2(e2) ==
    Zeroize(e2 \div BigitBits) \o <<2 ^ (e2 % BigitBits)>>
AssignPow10(e10) == MulPow2(MulPow5(AssignU32(1), e10), e10)
AssignPow2MulPow5(e2, e5) == MulPow5(AssignPow2(e2), e5)

(* the two or three bigits of value, shifted, behind the zero ones          *)
AssignU64MulPow2(value, e2) ==
    IF value = 0 \/ e2 = 0 THEN AssignU64(value)
    ELSE LET lo == value % B
             hi == value \div B
             up == 2 ^ (e2 % BigitBits)
         IN  Zeroize(e2 \div BigitBits)
               \o Clamped(<<(lo * up) % B,
                            ((hi * up) % B) + (lo * up) \div B,
                            (hi * up) \div B>>)

(* DRAGON4_ASSERT in it: room for the top bigits, written even if 0         *)
AssignAsserts(value, e2) ==
    value # 0 /\ e2 # 0 =>
        Capacity >= e2 \div BigitBits + (IF e2 % BigitBits = 0 THEN 2 ELSE 3)

AssignU64MulPow10(value, e10) == MulPow5(AssignU64MulPow2(value, e10), e10)
-----------------------------------------------------------------------------
(* Number of bits of f, at least 1                                          *)
EffectivePrecision(f) == CHOOSE p \in 1..31 : 2 ^ (p - 1) <= f /\ f < 2 ^ p

(* division by one bigit, from the top; the quotient is its last bigit      *)
DivModShort(u, v) ==
    LET r[i \in 0..Len(u)] ==        \* remainder of the bigits from i up
            IF i = Len(u) THEN 0 ELSE (r[i + 1] * B + u[i + 1]) % v
    IN  [q |-> ((r[1] * B + u[1]) \div v) % B, u |-> AssignU32(r[0])]

(* The bigit at i of x after a shift: that which sets the top bit of v      *)
Normalized(x, i, shift) ==
    ((At(x, i) * 2 ^ shift) % B) + At(x, i - 1) \div 2 ^ (BigitBits - shift)
NormalizingShift(v) == BigitBits - EffectivePrecision(v[Len(v)])

(* D3: the two leading bigits of u by the one of v, both normalized ...     *)
TrialDivision(u, v, shift) ==
    LET rp == Normalized(u, Len(v), shift) * B + Normalized(u, Len(v) - 1, shift)
        v1 == Normalized(v, Len(v) - 1, shift)
    IN  [qp |-> rp \div v1, rp |-> rp % v1]

(* ... is corrected by the next bigits                                      *)
Mutant_Corrected(trial, u, v, shift) == trial.qp
Corrected(trial, u, v, shift) ==
    IF trial.qp * Normalized(v, Len(v) - 2, shift)
         > trial.rp * B + Normalized(u, Len(v) - 2, shift)
    THEN trial.qp - 1 ELSE trial.qp

(* D4: the lower n bigits of u - qp * v, and the borrow from the next one   *)
MultiplySubtract(u, v, qp) ==
    LET p(i, borrow) == qp * v[i] + borrow
        borrow[i \in 0..Len(v)] ==
            IF i = 0 THEN 0
            ELSE p(i, borrow[i - 1]) \div B
                   + (IF u[i] < p(i, borrow[i - 1]) % B THEN 1 ELSE 0)
    IN  <<[i \in 1..Len(v) |-> (u[i] - p(i, borrow[i - 1])) % B],
          borrow[Len(v)]>>

(* D6: the lower n bigits of u + v                                          *)
AddBack(u, v) ==
    LET carry[i \in 0..Len(v)] ==
            IF i = 0 THEN 0 ELSE (u[i] + v[i] + carry[i - 1]) \div B
    IN  [i \in 1..Len(v) |-> (u[i] + v[i] + carry[i - 1]) % B]

(* D5: u - qp * v, or one v more if that was negative                       *)
Remainder(u, v, qp, difference) ==
    IF qp = 0 THEN [q |-> 0, u |-> u]
    ELSE IF At(u, Len(v)) < difference[2]
    THEN [q |-> qp - 1, u |-> Clamped(AddBack(difference[1], v))]
    ELSE [q |-> qp, u |-> Clamped(difference[1])]

DivModLong(u, v, qp) == Remainder(u, v, qp, MultiplySubtract(u, v, qp))

(* The quotient, a decimal digit, and the remainder of u by v               *)
DivMod(u, v) ==
    IF Len(u) < Len(v) THEN [q |-> 0, u |-> u]
    ELSE IF Len(v) = 1 THEN DivModShort(u, v[1])
    ELSE LET shift == NormalizingShift(v)
         IN  DivModLong(u, v, Corrected(TrialDivision(u, v, shift), u, v, shift))

(* DRAGON4_ASSERT in DivMod: room for the bigit behind u, which the shift    *)
(* does not cut                                                             *)
DivModAsserts(u, v) ==
    /\ u # <<>> /\ u[Len(u)] # 0
    /\ v # <<>> /\ v[Len(v)] # 0
    /\ 1 < Len(v) /\ Len(v) <= Len(u) =>
          LET shift == NormalizingShift(v)
              trial == TrialDivision(u, v, shift)
          IN  /\ Capacity >= Len(u) + 1
              /\ At(u, Len(v)) * 2 ^ shift < B
              /\ trial.qp <= 10
              /\ Corrected(trial, u, v, shift) \in 0..9
-----------------------------------------------------------------------------
(* -1, 0 or 1 as lhs < rhs, lhs = rhs or lhs > rhs                          *)
Compare(lhs, rhs) ==
    LET Below[i \in 0..Len(lhs)] ==
            IF i = 0 THEN 0
            ELSE IF lhs[i] < rhs[i] THEN -1
            ELSE IF lhs[i] > rhs[i] THEN 1
            ELSE Below[i - 1]
    IN  IF Len(lhs) < Len(rhs) THEN -1
        ELSE IF Len(lhs) > Len(rhs) THEN 1
        ELSE Below[Len(lhs)]

(* Compare(a + b, c), by subtracting from the top while the difference is   *)
(* 0 or 1                                                                   *)
CompareAdd(a, b, c) ==
    LET m == IF Len(a) > Len(b) THEN Len(a) ELSE Len(b)
        Below[i \in 0..Len(c), borrow \in 0..1] ==
            IF i = 0 THEN -borrow
            ELSE LET ci == borrow * B + c[i]
                     si == At(a, i - 1) + At(b, i - 1)
                 IN  IF ci < si THEN 1
                     ELSE IF ci - si > 1 THEN -1
                     ELSE Below[i - 1, ci - si]
    IN  IF m + 1 < Len(c) THEN -1
        ELSE IF m > Len(c) THEN 1
        ELSE Below[Len(c), 0]
-----------------------------------------------------------------------------
SAR(x, n) == x \div 2 ^ n
CeilLog10Pow2(e) == SAR(e * 315653 + (2 ^ 20 - 1), 20)

(* r / s = f * 2^e / 10^k, and delta is the distance to a boundary          *)
ComputeInitialValuesAndEstimate(f, e, lower_boundary_is_closer) ==
    LET boundary_shift == IF lower_boundary_is_closer THEN 2 ELSE 1
        k == CeilLog10Pow2(e + (EffectivePrecision(f) - 1))
        f2 == f * 2 ^ boundary_shift
    IN  IF e >= 0
        THEN [r |-> AssignU64MulPow2(f2, e),
              s |-> AssignPow2MulPow5(boundary_shift + k, k),
              delta |-> AssignPow2(e), k |-> k]
        ELSE IF k < 0
        THEN [r |-> AssignU64MulPow10(f2, -k),
              s |-> AssignPow2(boundary_shift - e),
              delta |-> AssignPow10(-k), k |-> k]
        ELSE [r |-> AssignU64(f2),
              s |-> AssignPow2MulPow5(boundary_shift - e + k, k),
              delta |-> AssignU32(1), k |-> k]

(* Is the comparison with a bound one that stops?                           *)
Beyond(cmp, accept_bounds) == cmp > 0 \/ (accept_bounds /\ cmp = 0)

(* Dragon4 is three steps on the record of its locals.  The first values:   *)
StartDragon4(f, e, accept_bounds, lower_boundary_is_closer) ==
    LET Start(d) ==
            [phase |-> "estimated", r |-> d.r, s |-> d.s, delta |-> d.delta,
             k |-> d.k, d10 |-> 0, q |-> 0, accept_bounds |-> accept_bounds,
             lower_boundary_is_closer |-> lower_boundary_is_closer]
    IN  Start(ComputeInitialValuesAndEstimate(f, e, lower_boundary_is_closer))

(* If the estimate is one too low, s is the next power                      *)
Mutant_EstimateTooLow(d) == CompareAdd(d.r, d.delta, d.s) > 0
EstimateTooLow(d) == Beyond(CompareAdd(d.r, d.delta, d.s), d.accept_bounds)

Fixup(d, too_low) ==
    [d EXCEPT !.phase = "divide",
              !.s = IF too_low THEN Mul10(d.s) ELSE d.s,
              !.k = IF too_low THEN d.k + 1 ELSE d.k,
              !.r = Mul10(d.r), !.delta = Mul10(d.delta)]

(* The next digit, with the remainder in r                                  *)
Divide(d, division) ==
    [d EXCEPT !.phase = "decide", !.q = division.q, !.r = division.u]

(* tc1, tc2: the digits so far, or one more in the last place, are close    *)
(* enough.  If both are, the nearer is taken, and the even one in a tie.    *)
tc1(d) == Beyond(-Compare(d.r, d.delta), d.accept_bounds)
tc2(d) == Beyond(CompareAdd(d.r, IF d.lower_boundary_is_closer
                                 THEN Mul2(d.delta) ELSE d.delta, d.s),
                 d.accept_bounds)

NearerAbove(d, cmpr) == cmpr > 0 \/ (cmpr = 0 /\ d.q % 2 # 0)

RoundsUp(d, low, high) ==
    high /\ (~low \/ NearerAbove(d, CompareAdd(d.r, d.r, d.s)))

Decide(d, low, high) ==
    [d EXCEPT !.phase = IF low \/ high THEN "done" ELSE "divide",
              !.d10 = d.d10 * 10 + (IF RoundsUp(d, low, high) THEN d.q + 1 ELSE d.q),
              !.k = d.k - 1,
              !.r = Mul10(d.r),
              !.delta = IF d.lower_boundary_is_closer
                        THEN MulAddU32(Mul2(d.delta), 5, 0)
                        ELSE MulAddU32(d.delta, 10, 0)]

(* DRAGON4_ASSERT in Dragon4, in CompareAdd, and where a carry or a shift   *)
(* adds bigits.  No product is shorter than its factors: if a number fits,  *)
(* so did those it was made of.                                             *)
Dragon4Asserts(d) ==
    /\ d.phase # "done" =>
          \A x \in {d.r, d.s, d.delta} : Len(x) <= Capacity
    /\ d.phase = "decide" /\ d.lower_boundary_is_closer => Len(Mul2(d.delta)) <= Capacity
    /\ d.phase \in {"estimated", "decide"} => Len(d.s) >= Len(d.r)
    /\ d.phase = "divide" =>
          d.d10 < 10 ^ (MaxDigits10 - 1) /\ DivModAsserts(d.r, d.s)
    /\ d.phase = "decide" =>
          d.q <= 9 /\ (RoundsUp(d, tc1(d), tc2(d)) => d.q < 9)
=============================================================================
