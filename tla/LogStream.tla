----------------------------- MODULE LogStream ------------------------------
(***************************************************************************)
(* base/LogStream.{h,cpp}: the stream that a log message is put together   *)
(* in, with the conversion of integers (integer2cstr.h) and of doubles     *)
(* (Grisu3, or Dragon4 after it).  One thread uses a stream: the steps of  *)
(* a conversion are separate actions so that each state of its loops is    *)
(* seen.  The bound is one value per message: resetBuf() comes before the  *)
(* next one.                                                               *)
(***************************************************************************)
EXTENDS Grisu3, SequencesExt

CONSTANTS IntegerTypes,  \* [bits, signed, buf]: the operators for integers, with
                         \* the width of the type and the length of the
                         \* operator's local array
          Texts,         \* what is inserted as text
          DecimalInputs  \* [digits, exponent] that FormatDigits is given directly

DtoaMinBufferLength == 64

VARIABLES
    buf_,        \* the text of the message
    inserted,    \* history: the value inserted since resetBuf()
    conv         \* the conversion of a double that is under way

vars == <<buf_, inserted, conv>>

None == [kind |-> "none"]
Idle == [at |-> "idle"]

Integers_(type) ==
    IF type.signed THEN -(2 ^ (type.bits - 1))..(2 ^ (type.bits - 1) - 1)
    ELSE 0..(2 ^ type.bits - 1)

(* integer % 10 and integer / 10 as C++ computes them: with the sign of     *)
(* integer, and towards 0                                                   *)
Remainder10(integer) ==
    IF integer < 0 THEN -((-integer) % 10) ELSE integer % 10
Quotient10(integer) == (integer - Remainder10(integer)) \div 10

dict == <<"9", "8", "7", "6", "5", "4", "3", "2", "1",
          "0", "1", "2", "3", "4", "5", "6", "7", "8", "9">>

(* The digits from the last one on, by a table that also takes negative     *)
(* remainders: no absolute value is needed                                  *)
Mutant_DigitOf(r) == dict[IF r < 0 THEN 10 - r - 1 ELSE 10 + r]
DigitOf(r) == dict[9 + r + 1]

Reversed[integer \in Int] ==
    IF integer = 0 THEN <<>>
    ELSE <<DigitOf(Remainder10(integer))>> \o Reversed[Quotient10(integer)]

itoa_s(integer) ==
    Reverse(Reversed[integer] \o (IF integer < 0 THEN <<"-">> ELSE <<>>))
-----------------------------------------------------------------------------
Init == buf_ = <<>> /\ inserted = None /\ conv = Idle

Ready == conv.at = "idle" /\ inserted = None

(* char buf[]: itoa_s writes the text and a NUL into an array whose length  *)
(* it does not know                                                         *)
Fits(type, integer) == Len(itoa_s(integer)) < type.buf

InsertInteger(type, integer) ==
    /\ Ready /\ Fits(type, integer)
    /\ buf_' = buf_ \o itoa_s(integer)
    /\ inserted' = [kind |-> "integer", integer |-> integer]
    /\ UNCHANGED conv

(* A longer text is written past the end of the array.  That is undefined:  *)
(* the process ends (no step follows), or the stack has room there until    *)
(* append() has copied the text, or something else is in its place.         *)
OverrunInteger(type, integer) ==
    /\ Ready /\ ~Fits(type, integer)
    /\ buf_' \in {buf_ \o itoa_s(integer), buf_ \o SubSeq(itoa_s(integer), 1, type.buf)}
    /\ inserted' = [kind |-> "overrun"]
    /\ UNCHANGED conv

InsertBool(data) ==
    /\ Ready
    /\ buf_' = buf_ \o (IF data THEN <<"T", "r", "u", "e">>
                        ELSE <<"F", "a", "l", "s", "e">>)
    /\ inserted' = [kind |-> "text"]
    /\ UNCHANGED conv

InsertText(pstr) ==
    /\ Ready
    /\ buf_' = buf_ \o pstr
    /\ inserted' = [kind |-> "text"]
    /\ UNCHANGED conv

resetBuf ==
    /\ conv.at = "idle" /\ inserted # None
    /\ buf_' = <<>> /\ inserted' = None
    /\ UNCHANGED conv

(* what ToChars writes for a value without digits                           *)
SpecialText(v) ==
    IF IsNaN(v) THEN <<"n", "a", "n">>
    ELSE (IF v.sign THEN <<"-">> ELSE <<>>)
           \o (IF ~IsFinite(v) THEN <<"i", "n", "f">> ELSE <<"0">>)

InsertSpecialDouble(v) ==
    /\ Ready
    /\ ~IsFinite(v) \/ IsZero(v)
    /\ buf_' = buf_ \o SpecialText(v)
    /\ inserted' = [kind |-> "special"]
    /\ UNCHANGED conv

(* operator<<(double) up to the loops of Grisu3                             *)
InsertDouble(v) ==
    /\ Ready
    /\ IsFinite(v) /\ ~IsZero(v)
    /\ inserted' = [kind |-> "double", v |-> v]
    /\ conv' = IF IsSmallInt(v) THEN [at |-> "format", dec |-> SmallInt(v)]
               ELSE [at |-> "grisu3", g |-> StartGrisu3(v)]
    /\ UNCHANGED buf_

(* Dragon4 is exported (dragon4.h) and right for every double, not only for *)
(* those that Grisu3 leaves to it                                           *)
CallDragon4(v) ==
    /\ Ready
    /\ IsFinite(v) /\ ~IsZero(v)
    /\ inserted' = [kind |-> "double", v |-> v]
    /\ conv' = [at |-> "dragon4", d |-> FallBack(v)]
    /\ UNCHANGED buf_

(* One step of Grisu3                                                       *)
NextOfGrisu3(g) ==
    CASE g.phase = "scaled" -> SplitH(g)
      [] g.phase = "fraction" -> FractionDigit(g)
      [] g.phase = "integral" -> IntegralDigit(g)
      [] g.phase = "round" -> Decrement(g)

Grisu3Step ==
    /\ conv.at = "grisu3"
    /\ conv.g.phase = "round" => MayDecrement(conv.g)
    /\ conv' = [conv EXCEPT !.g = NextOfGrisu3(conv.g)]
    /\ UNCHANGED <<buf_, inserted>>

(* ToDecimal64                                                              *)
Grisu3Returns ==
    /\ conv.at = "grisu3" /\ conv.g.phase = "round" /\ ~MayDecrement(conv.g)
    /\ conv' = IF Grisu3Succeeds(conv.g)
               THEN [at |-> "format", dec |-> Grisu3Decimal(conv.g)]
               ELSE [at |-> "dragon4", d |-> FallBack(inserted.v)]
    /\ UNCHANGED <<buf_, inserted>>

NextOfDragon4(d) ==
    CASE d.phase = "estimated" -> Fixup(d, EstimateTooLow(d))
      [] d.phase = "divide" -> Divide(d, DivMod(d.r, d.s))
      [] d.phase = "decide" -> Decide(d, tc1(d), tc2(d))

Dragon4Step ==
    /\ conv.at = "dragon4" /\ conv.d.phase # "done"
    /\ conv' = [conv EXCEPT !.d = NextOfDragon4(conv.d)]
    /\ UNCHANGED <<buf_, inserted>>

Dragon4Returns ==
    /\ conv.at = "dragon4" /\ conv.d.phase = "done"
    /\ conv' = [at |-> "format", dec |-> [digits |-> conv.d.d10, exponent |-> conv.d.k]]
    /\ UNCHANGED <<buf_, inserted>>

(* The rest of ToChars and of operator<<: the digits are put into a local   *)
(* buffer behind the sign, and appended                                     *)
NewBuf == [i \in 0..DtoaMinBufferLength |-> "?"]
Dtoa(sign, dec) ==
    LET formatted == FormatDigits(Stored(NewBuf, 0, IF sign THEN <<"-">> ELSE <<>>),
                                  IF sign THEN 1 ELSE 0, dec.digits, dec.exponent)
    IN  [i \in 1..formatted.end |-> formatted.buf[i - 1]]

FormatAndAppend ==
    /\ conv.at = "format"
    /\ buf_' = buf_ \o Dtoa(inserted.v.sign, conv.dec)
    /\ conv' = Idle
    /\ UNCHANGED inserted

(* Numbers with more digits and larger exponents than the small format has  *)
InsertDecimal(dec) ==
    /\ Ready
    /\ buf_' = buf_ \o Dtoa(FALSE, dec)
    /\ inserted' = [kind |-> "decimal", dec |-> dec]
    /\ UNCHANGED conv

Next ==
    \/ \E type \in IntegerTypes : \E integer \in Integers_(type) :
          InsertInteger(type, integer) \/ OverrunInteger(type, integer)
    \/ \E data \in BOOLEAN : InsertBool(data)
    \/ \E pstr \in Texts : InsertText(pstr)
    \/ \E v \in Doubles : InsertSpecialDouble(v) \/ InsertDouble(v) \/ CallDragon4(v)
    \/ \E dec \in DecimalInputs : InsertDecimal(dec)
    \/ Grisu3Step \/ Grisu3Returns \/ Dragon4Step \/ Dragon4Returns
    \/ FormatAndAppend
    \/ resetBuf

Spec == Init /\ [][Next]_vars
-----------------------------------------------------------------------------
(* Reading a text back: the number of a sequence of digits, and the parts   *)
(* of [-]digits[.digits][e(+|-)digits]                                      *)
DigitValue(c) == CHOOSE d \in 0..9 : Chars[d + 1] = c
IsNumeral(s) == \A i \in 1..Len(s) : s[i] \in Range(Chars)
Number(s) ==
    LET Value[n \in 0..Len(s)] ==
            IF n = 0 THEN 0 ELSE 10 * Value[n - 1] + DigitValue(s[n])
    IN  Value[Len(s)]

Before(s, c) == IF Contains(s, c) THEN SubSeq(s, 1, SelectInSeq(s, LAMBDA x : x = c) - 1)
                ELSE s
After(s, c) == IF Contains(s, c)
               THEN SubSeq(s, SelectInSeq(s, LAMBDA x : x = c) + 1, Len(s))
               ELSE <<>>

Unsigned(s) == IF s # <<>> /\ s[1] \in {"-", "+"} THEN Tail(s) ELSE s
IsNegative(s) == s # <<>> /\ s[1] = "-"

(* the value of a text, as digits that do not end with a zero times 10^exponent *)
Reads(text) ==
    LET mantissa == Before(Unsigned(text), "e")
        exp == After(Unsigned(text), "e")
        whole == Before(mantissa, ".")
        fraction == After(mantissa, ".")
        digits == whole \o fraction
        last == SelectLastInSeq(digits, LAMBDA c : c # "0")
    IN  [numeral |-> IsNumeral(digits \o Unsigned(exp)) /\ whole # <<>>,
         negative |-> IsNegative(text),
         digits |-> Number(SubSeq(digits, 1, last)),
         exponent |-> (IF IsNegative(exp) THEN -1 ELSE 1) * Number(Unsigned(exp))
                        + (Len(digits) - last) - Len(fraction)]

(* a * 10^x <= b * 2^y, with the powers of two on one side                  *)
AtMost(a, x, b, y) ==
    LET P(n) == IF n > 0 THEN n ELSE 0
    IN  a * 5 ^ P(x) * 2 ^ P(x - y) <= b * 5 ^ P(-x) * 2 ^ P(y - x)
Less(a, x, b, y) ==
    LET P(n) == IF n > 0 THEN n ELSE 0
    IN  a * 5 ^ P(x) * 2 ^ P(x - y) < b * 5 ^ P(-x) * 2 ^ P(y - x)

(* n * 10^x is nearer to v than to its neighbours, or half way and v is even *)
RoundsTo(n, x, v) ==
    LET d == Decompose(v)
        below == 4 * d.f - (IF v.F = 0 /\ v.E > 1 THEN 1 ELSE 2)
        above == 4 * d.f + 2
    IN  IF d.f % 2 = 0
        THEN ~Less(4 * n, x, below, d.e) /\ AtMost(4 * n, x, above, d.e)
        ELSE ~AtMost(4 * n, x, below, d.e) /\ Less(4 * n, x, above, d.e)

Inserted(kind) == conv.at = "idle" /\ inserted.kind = kind

(* The text of a double is a number that a reader rounds to the same        *)
(* double, no number with fewer digits is, and none with as many digits is  *)
(* closer to it, whichever of Grisu3 and Dragon4 made the digits (Dtoa).    *)
DoublesAreShortest ==
    Inserted("double") =>
        LET read == Reads(buf_)
            n == read.digits
            x == read.exponent
            v == inserted.v
            d == Decompose(v)
        IN  /\ read.numeral /\ read.negative = v.sign
            /\ RoundsTo(n, x, v)
            /\ \A m \in {n \div 10, n \div 10 + 1} : ~RoundsTo(m, x + 1, v)
            /\ RoundsTo(n + 1, x, v) => ~Less(2 * n + 1, x, 2 * d.f, d.e)
            /\ RoundsTo(n - 1, x, v) => AtMost(2 * n - 1, x, 2 * d.f, d.e)

(* The text of an integer that fits the array of its operator is its        *)
(* decimal numeral, without a zero in front, for the most negative one too   *)
(* (itoa_s, which negates nothing).  The integer 0 is set aside: its text   *)
(* is empty.                                                                *)
IntegersReadBack ==
    Inserted("integer") /\ inserted.integer # 0 =>
        LET numeral == Unsigned(buf_)
        IN  /\ numeral # <<>> /\ IsNumeral(numeral) /\ numeral[1] # "0"
            /\ inserted.integer = IF IsNegative(buf_) THEN -Number(numeral)
                                  ELSE Number(numeral)

(* Every decimal is read back from its text: FormatDigits in all of its     *)
(* layouts.                                                                 *)
DecimalsReadBack ==
    Inserted("decimal") =>
        LET read == Reads(buf_)
        IN  /\ read.numeral /\ ~read.negative
            /\ read.exponent >= inserted.dec.exponent
            /\ read.digits * Pow10[read.exponent - inserted.dec.exponent]
                 = inserted.dec.digits

(* What was inserted as a number is read back from the text of the message, *)
(* unless the text overran the operator's array.                            *)
TextReadsBack == IntegersReadBack /\ DecimalsReadBack

(* No assert of the two algorithms fails, and no word or big integer        *)
(* overflows: the product with a cached power lands in [kAlpha, kGamma],    *)
(* Grisu3's loops end with the right digits, Dragon4's quotients are        *)
(* decimal digits, and its numbers fit in Capacity bigits.                  *)
NumberAsserts ==
    /\ conv.at = "grisu3" => Grisu3Asserts(conv.g)
    /\ conv.at = "dragon4" => FallBackAsserts(inserted.v) /\ Dragon4Asserts(conv.d)
    /\ conv.at = "format" => /\ conv.dec.digits \in 1..(10 ^ MaxDigits10 - 1)
                             /\ conv.dec.exponent \in -999..999
=============================================================================
