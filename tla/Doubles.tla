------------------------------- MODULE Doubles -------------------------------
(***************************************************************************)
(* The floating-point numbers that fitness values are: doubles that are    *)
(* not negative, with the operations rounded to the nearest one, ties to   *)
(* even.  [bits, exp] is 0.b1b2b3... in binary, times 2^exp, where b1 = 1  *)
(* unless the number is zero, and there are Precision bits.                *)
(***************************************************************************)
EXTENDS Integers, Sequences, SequencesExt, FiniteSetsExt

Precision == 53

Double(bits, exp) == [bits |-> bits, exp |-> exp]

Zero == Double(<<>>, 0)

Zeros(n) == IF n > 0 THEN [k \in 1..n |-> 0] ELSE <<>>

Binary(n) ==
    LET length == CHOOSE k \in 0..31 : 2^k > n /\ (k = 0 \/ 2^(k - 1) <= n)
    IN [k \in 1..length |-> (n \div 2^(length - k)) % 2]

(* Digits that may exceed one: carries go to the left.                     *)
Carried(digits, exp) ==
    LET carry[k \in DOMAIN digits \cup {Len(digits) + 1}] ==
            IF k > Len(digits) THEN 0 ELSE (digits[k] + carry[k + 1]) \div 2
        bits == [k \in DOMAIN digits |-> (digits[k] + carry[k + 1]) % 2]
        high == Binary(IF digits = <<>> THEN 0 ELSE carry[1])
    IN Double(high \o bits, exp + Len(high))

Leading(x) == SelectInSeq(x.bits, LAMBDA b : b = 1)

(* At least Precision digits, the first of which is not zero.              *)
Normalised(x) ==
    LET n == Leading(x) - 1
        bits == SubSeq(x.bits, n + 1, Len(x.bits))
    IN Double(bits \o Zeros(Precision - Len(bits)), x.exp - n)

Rounded(x) ==
    LET y == Normalised(x)
        kept == SubSeq(y.bits, 1, Precision)
        rest == SubSeq(y.bits, Precision + 1, Len(y.bits))
        half == rest # <<>> /\ Head(rest) = 1
        up == Carried([kept EXCEPT ![Precision] = @ + 1], y.exp)
    IN IF Leading(x) = 0 THEN Zero
       ELSE IF half /\ (1 \in ToSet(Tail(rest)) \/ Last(kept) = 1)
       THEN Double(SubSeq(up.bits, 1, Precision), up.exp)
       ELSE Double(kept, y.exp)

OfNat(n) == Rounded(Double(Binary(n), Len(Binary(n))))

One == OfNat(1)

(* The digits of a sum begin at the exponent of the greater number.        *)
Sum2(x, y) ==
    LET shifted == Zeros(x.exp - y.exp) \o y.bits
        digits == x.bits \o Zeros(Len(shifted) - Precision)
    IN Rounded(Carried([k \in DOMAIN digits |-> digits[k] + shifted[k]], x.exp))

Plus2(x, y) ==
    IF x = Zero THEN y
    ELSE IF y = Zero THEN x
    ELSE IF x.exp >= y.exp THEN Sum2(x, y)
    ELSE Sum2(y, x)

Times(x, n) == Rounded(Carried([k \in DOMAIN x.bits |-> x.bits[k] * n], x.exp))

(* Long division; a last digit stands for what remains.                    *)
Over(x, n) ==
    LET digits == x.bits \o Zeros(2 + Len(Binary(n)))
        rem[k \in 0..Len(digits)] ==
            IF k = 0 THEN 0 ELSE (2 * rem[k - 1] + digits[k]) % n
        quotient == [k \in DOMAIN digits |-> (2 * rem[k - 1] + digits[k]) \div n]
        last == IF rem[Len(digits)] = 0 THEN 0 ELSE 1
    IN Rounded(Double(Append(quotient, last), x.exp))

AtLeast(x, y) ==
    LET differ == {k \in 1..Precision : x.bits[k] # y.bits[k]}
    IN IF Zero \in {x, y} THEN y = Zero
       ELSE IF x.exp # y.exp THEN x.exp > y.exp
       ELSE differ = {} \/ x.bits[Min(differ)] > y.bits[Min(differ)]

=============================================================================
