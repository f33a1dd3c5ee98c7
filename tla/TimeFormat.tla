------------------------------ MODULE TimeFormat ------------------------------
(***************************************************************************)
(* The formatting and calendar helpers of the TimeSystem: time2str,      *)
(* time2sec, time2doy and adjgpsweek, in the gtime_t abstraction of      *)
(* GTime (sub-second parts in units of 1/FRAC s).                         *)
(*                                                                         *)
(* time2str prints the seconds with "%0*.*f": the printed value is a      *)
(* numerator over 10^m, m = min(n, 3).  With FRAC dividing 1000, a value  *)
(* of 1/FRAC s is printed exactly from 3 decimals on, so m = 3 stands for *)
(* every n >= 3.  For fewer decimals printf rounds the exact binary value *)
(* to nearest, ties to even (glibc and musl in the default rounding       *)
(* mode).  The test 1.0 - t.sec < 0.5 / pow(10.0, n) is evaluated on      *)
(* exact rationals: t.sec is a multiple of 1/FRAC, far from the rounding  *)
(* error of the threshold.                                                *)
(***************************************************************************)
EXTENDS LeapSeconds

ASSUME 1000 % FRAC = 0

\* the clamp of n to 0..12 at the head of time2str
Decimals(n) == IF n < 0 THEN 0 ELSE IF n > 12 THEN 12 ELSE n

\* digits of the printed seconds that are not exact zeros
Scale(n) == 10 ^ (IF Decimals(n) < 3 THEN Decimals(n) ELSE 3)

\* round a / b (a >= 0, b > 0) to nearest, ties to even
RoundHalfEven(a, b) ==
    LET q == a \div b
        r == a % b
    IN  IF 2 * r > b THEN q + 1
        ELSE IF 2 * r < b THEN q
        ELSE q + (q % 2)

\* 1.0 - t.sec < 0.5 / pow(10.0, n), i.e. (FRAC - sec) * 2 * 10^n < FRAC;
\* false for every n >= 3 once it is false for 3
CarriesUp(sec, n) == (FRAC - sec) * 2 * Scale(n) < FRAC

\* mutant: the carry does not zero t.sec
Time2StrNoZero(t, n) ==
    LET t1 == IF CarriesUp(t.sec, n) THEN AddSecs(t, 1) ELSE t
        ep == Time2Epoch(t1)
    IN  [ep |-> SubSeq(ep, 1, 5), sec |-> RoundHalfEven(ep[6] * Scale(n), FRAC),
         scale |-> Scale(n)]

(* time2str: the fields printed for t with n decimals, the seconds as a  *)
(* numerator over scale.                                                  *)
Time2Str(t, n) ==
    LET t1 == IF CarriesUp(t.sec, n) THEN [AddSecs(t, 1) EXCEPT !.sec = 0] ELSE t
        ep == Time2Epoch(t1)
    IN  [ep |-> SubSeq(ep, 1, 5), sec |-> RoundHalfEven(ep[6] * Scale(n), FRAC),
         scale |-> Scale(n)]

\* mutant: the seconds of the day taken in whole seconds only
Time2SecWhole(t) ==
    LET ep == Time2Epoch(t)
    IN  [sec |-> (ep[4] * 3600 + ep[5] * 60) * FRAC + (ep[6] \div FRAC) * FRAC,
         day |-> Epoch2Time(<<ep[1], ep[2], ep[3], 0, 0, 0>>)]

(* time2sec: seconds of the day (numerator over FRAC) and the day start. *)
Time2Sec(t) ==
    LET ep == Time2Epoch(t)
    IN  [sec |-> (ep[4] * 3600 + ep[5] * 60) * FRAC + ep[6],
         day |-> Epoch2Time(<<ep[1], ep[2], ep[3], 0, 0, 0>>)]

(* time2doy: the day of year, as a numerator over 86400 * FRAC.          *)
Time2Doy(t) ==
    LET ep == Time2Epoch(t)
    IN  TimeDiff(t, Epoch2Time(<<ep[1], 1, 1, 0, 0, 0>>)) + 86400 * FRAC

\* the GPS week of the cpu time, at least 1560 (2009/12/1)
CpuWeek(now, tbl) ==
    LET w == Time2Gpst(Utc2GpstFrom(tbl, now, 0))[1]
    IN  IF w < 1560 THEN 1560 ELSE w

\* mutant: no lower bound on the cpu week
AdjGpsWeekNoClamp(week, now, tbl) ==
    LET w == Time2Gpst(Utc2GpstFrom(tbl, now, 0))[1]
    IN  week + CDiv(w - week + 512, 1024) * 1024

(* adjgpsweek: a week number modulo 1024 made full with the cpu time     *)
(* (timeget(), a UTC instant, converted with the current leap table).    *)
AdjGpsWeek(week, now, tbl) ==
    LET w == CpuWeek(now, tbl)
    IN  week + CDiv(w - week + 512, 1024) * 1024
=============================================================================
