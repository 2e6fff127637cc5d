------------------------------ MODULE Fractions ------------------------------
(***************************************************************************)
(* Exact amounts, weights and rates: fractions in lowest terms, where the  *)
(* code computes with floats and compares within tolerances far smaller    *)
(* than any difference between the values of an instance.                  *)
(***************************************************************************)
EXTENDS Integers, Functions

Gcd[p \in Nat \X Nat] == IF p[2] = 0 THEN p[1] ELSE Gcd[<<p[2], p[1] % p[2]>>]

Divided(n, d, g) == [num |-> n \div g, den |-> d \div g]
Fraction(n, d) == Divided(n, d, Gcd[<<IF n < 0 THEN -n ELSE n, d>>])

Fractions == [num : Int, den : Nat \ {0}]

Zero == [num |-> 0, den |-> 1]
One == [num |-> 1, den |-> 1]

a \oplus b == Fraction(a.num * b.den + b.num * a.den, a.den * b.den)
a \ominus b == Fraction(a.num * b.den - b.num * a.den, a.den * b.den)
a \otimes b == Fraction(a.num * b.num, a.den * b.den)
Inverted(a) ==
    IF a.num > 0 THEN [num |-> a.den, den |-> a.num] ELSE [num |-> -a.den, den |-> -a.num]
a \oslash b == a \otimes Inverted(b)
a \preceq b == a.num * b.den <= b.num * a.den
a \prec b == a.num * b.den < b.num * a.den

Lesser(a, b) == IF a \preceq b THEN a ELSE b
Greater(a, b) == IF a \preceq b THEN b ELSE a
Negative(a) == [a EXCEPT !.num = -@]
Size(a) == IF a \prec Zero THEN Negative(a) ELSE a

(* Vectors: functions to fractions.                                        *)
Total(f) == FoldFunction(LAMBDA a, b : a \oplus b, Zero, f)
Gross(f) == Total([x \in DOMAIN f |-> Size(f[x])])
Dot(f, g) == Total([x \in DOMAIN f |-> f[x] \otimes g[x]])
Scaled(f, k) == [x \in DOMAIN f |-> f[x] \otimes k]
Sum2(f, g) == [x \in DOMAIN f |-> f[x] \oplus g[x]]
Difference(f, g) == [x \in DOMAIN f |-> f[x] \ominus g[x]]
=============================================================================
