----------------------------- MODULE Fractions ------------------------------
(* Exact fractions <<n, d>>, reduced, with a positive denominator: an      *)
(* arithmetic for the optimizer that TLC can evaluate.                     *)
EXTENDS Integers

Abs(n) == IF n < 0 THEN -n ELSE n
gcd[a \in Nat, b \in Nat] == IF b = 0 THEN a ELSE gcd[b, a % b]
Reduced(n, d) == LET s == IF d < 0 THEN -1 ELSE 1
                     c == gcd[Abs(n), Abs(d)]
                 IN  <<(s * n) \div c, (s * d) \div c>>

Fraction == {x \in Int \X Nat : x[2] > 0 /\ gcd[Abs(x[1]), x[2]] = 1}
Whole(n) == <<n, 1>>
NoFraction == Whole(0)
OneFraction == Whole(1)

AddFractions(x, y) == Reduced(x[1] * y[2] + y[1] * x[2], x[2] * y[2])
MultiplyFractions(x, y) == Reduced(x[1] * y[1], x[2] * y[2])
DivideFractions(x, y) == Reduced(x[1] * y[2], x[2] * y[1])
NegateFraction(x) == <<-x[1], x[2]>>
FractionLeq(x, y) == x[1] * y[2] <= y[1] * x[2]

IsSquareInt(n) == \E r \in 0 .. n : r * r = n
RootInt(n) == CHOOSE r \in 0 .. n : r * r = n
IsSquareFraction(x) == IsSquareInt(x[1]) /\ IsSquareInt(x[2])
FractionRoot(x) == <<RootInt(x[1]), RootInt(x[2])>>
=============================================================================
