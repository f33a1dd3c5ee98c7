------------------------------ MODULE RatArith ------------------------------
(***************************************************************************)
(* Exact rationals [num, den] for the double arithmetic of the numerical  *)
(* routines, in lowest terms with a positive denominator after each       *)
(* operation so that TLC's 32-bit integers hold the products.             *)
(***************************************************************************)
EXTENDS Integers

Q(num, den) == [num |-> num, den |-> den]

RECURSIVE Gcd(_, _)
Gcd(a, b) == IF b = 0 THEN a ELSE Gcd(b, a % b)
AbsInt(a) == IF a < 0 THEN -a ELSE a

Lowest(q) ==
    LET g == Gcd(AbsInt(q.num), AbsInt(q.den))
        s == IF q.den < 0 THEN -1 ELSE 1
    IN  Q(s * (q.num \div g), s * (q.den \div g))

QEq(a, b) == Lowest(a) = Lowest(b)
QAdd(a, b) == Lowest(Q(a.num * b.den + b.num * a.den, a.den * b.den))
QNeg(a) == Q(-a.num, a.den)
QSub(a, b) == QAdd(a, QNeg(b))
QMul(a, b) == Lowest(Q(a.num * b.num, a.den * b.den))
QDiv(a, b) == Lowest(Q(a.num * b.den, a.den * b.num))     \* b # 0
QSign(a) == LET l == Lowest(a) IN IF l.num > 0 THEN 1 ELSE IF l.num < 0 THEN -1 ELSE 0
=============================================================================
