--------------------------------- MODULE Dms ---------------------------------
(***************************************************************************)
(* deg2dms and dms2deg on exact rationals.  An angle is N / DEN degrees.  *)
(* dms[0] is held as a sign flag and a magnitude, so the -0.0 that        *)
(* "dms[0] *= sign" makes of floor(a) = 0 is kept.  floor(a / unit + 0.5) *)
(* of an exact tie may fall on either side once the products are rounded *)
(* to doubles, so a tie has both outcomes.                                *)
(***************************************************************************)
EXTENDS Integers

CONSTANT DEN      \* denominator of the angles, in 1/degree

\* the seconds of a tie at 1/10 s must be exact: 0.05 s = DEN / 72000
ASSUME DEN % 72000 = 0

Unit(ndec) == 10 ^ ndec     \* 1 / pow(0.1, ndec)

(* floor(a / unit + 0.5) for a = sec / DEN seconds: the outcomes.         *)
RoundUnit(sec, ndec) ==
    LET x == 2 * sec * Unit(ndec) + DEN
        q == x \div (2 * DEN)
    IN  IF x % (2 * DEN) = 0 THEN {q - 1, q} ELSE {q}

\* mutant: the carry taken only when the seconds exceed 60
Deg2DmsLateCarry(n, ndec) ==
    LET a   == IF n < 0 THEN -n ELSE n
        d   == a \div DEN
        mn  == ((a % DEN) * 60) \div DEN
        sec == ((a % DEN) * 60 % DEN) * 60
    IN  { LET carry == s > 60 * Unit(ndec)
              m1    == IF carry THEN mn + 1 ELSE mn
          IN  [neg |-> n < 0, d |-> IF m1 >= 60 THEN d + 1 ELSE d,
               m |-> IF m1 >= 60 THEN 0 ELSE m1, s |-> IF carry THEN 0 ELSE s,
               scale |-> Unit(ndec)]
        : s \in RoundUnit(sec, ndec) }

(* deg2dms(deg, dms, ndec): the possible {deg, min, sec}, sec as a        *)
(* numerator over scale; d is the magnitude of dms[0] and neg its sign.   *)
Deg2Dms(n, ndec) ==
    LET a   == IF n < 0 THEN -n ELSE n
        d   == a \div DEN
        mn  == ((a % DEN) * 60) \div DEN
        sec == ((a % DEN) * 60 % DEN) * 60
    IN  { LET carry == s >= 60 * Unit(ndec)
              m1    == IF carry THEN mn + 1 ELSE mn
          IN  [neg |-> n < 0, d |-> IF m1 >= 60 THEN d + 1 ELSE d,
               m |-> IF m1 >= 60 THEN 0 ELSE m1, s |-> IF carry THEN 0 ELSE s,
               scale |-> Unit(ndec)]
        : s \in RoundUnit(sec, ndec) }

(* dms2deg: sign * (|dms[0]| + dms[1] / 60 + dms[2] / 3600), as a        *)
(* numerator over 3600 * scale; -0.0 < 0.0 is false.                       *)
Dms2Deg(dms) ==
    LET sign == IF dms.neg /\ dms.d > 0 THEN -1 ELSE 1
    IN  sign * ((dms.d * 60 + dms.m) * 60 * dms.scale + dms.s)
=============================================================================
