------------------------------- MODULE Decimals -------------------------------
(***************************************************************************)
(* Exact decimals as packages/domain computes with them: a decimal string  *)
(* becomes an integer and a scale, two of them are compared at a common    *)
(* scale, a product is written out again.                                  *)
(*                                                                         *)
(* A decimal string is its sign and its digits before and after the point; *)
(* BigInt is the integers.  What is computed digit by digit is a recursive *)
(* function over the prefixes.                                             *)
(***************************************************************************)
EXTENDS Integers, Sequences

Digits == Seq(0 .. 9)

Decimal == [negative : BOOLEAN, whole : Digits \ {<<>>}, fraction : Digits]

Pow10[n \in Nat] == IF n = 0 THEN 1 ELSE 10 * Pow10[n - 1]

BigInt(digits) ==
    LET read[i \in 0 .. Len(digits)] ==
            IF i = 0 THEN 0 ELSE 10 * read[i - 1] + digits[i]
    IN read[Len(digits)]

ToScaled(a, scale) ==
    LET magnitude == BigInt(a.whole \o a.fraction)
                        * Pow10[scale - Len(a.fraction)]
    IN IF a.negative THEN -magnitude ELSE magnitude

CommonScale(a, b) == IF Len(a.fraction) < Len(b.fraction)
                     THEN Len(b.fraction) ELSE Len(a.fraction)

Sign(left, right) == CASE left < right -> -1
                       [] left > right -> 1
                       [] OTHER -> 0

\* The digits compared without regard to the point.
CompareUnaligned(a, b) == Sign(ToScaled(a, Len(a.fraction)),
                               ToScaled(b, Len(b.fraction)))

CompareDecimal(a, b) == Sign(ToScaled(a, CommonScale(a, b)),
                             ToScaled(b, CommonScale(a, b)))

Zero == [negative |-> FALSE, whole |-> <<0>>, fraction |-> <<>>]

IsPositive(a) == CompareDecimal(a, Zero) > 0

-----------------------------------------------------------------------------
Numeral[n \in Nat] == IF n < 10 THEN <<n>>
                                ELSE Append(Numeral[n \div 10], n % 10)

Zeros(n) == [i \in 1 .. n |-> 0]

PadStart(digits, scale) == Zeros(scale + 1 - Len(digits)) \o digits

Format(scaled, scale) ==
    LET digits == PadStart(Numeral[IF scaled < 0 THEN -scaled ELSE scaled],
                           scale)
        point == Len(digits) - scale
    IN [negative |-> scaled < 0,
        whole |-> SubSeq(digits, 1, point),
        fraction |-> SubSeq(digits, point + 1, Len(digits))]

MultiplyDecimal(a, b) ==
    LET product == BigInt(a.whole \o a.fraction) * BigInt(b.whole \o b.fraction)
        scale == Len(a.fraction) + Len(b.fraction)
    IN Format(IF a.negative # b.negative THEN -product ELSE product, scale)

-----------------------------------------------------------------------------
\* What a decimal means, digit by digit, counted in units of the given place:
\* the reference the algorithms above are held against.  Each digit counts
\* times its place, and the first is the one below 10^top.
DigitSum(digits, top) ==
    LET sum[i \in 0 .. Len(digits)] ==
            IF i = 0 THEN 0 ELSE sum[i - 1] + digits[i] * Pow10[top - i]
    IN sum[Len(digits)]

Units(a, places) ==
    LET magnitude == DigitSum(a.whole \o a.fraction, places + Len(a.whole))
    IN IF a.negative THEN -magnitude ELSE magnitude
=============================================================================
