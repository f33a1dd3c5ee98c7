-------------------------------- MODULE GTime --------------------------------
(***************************************************************************)
(* The gtime_t instant of rtklib_rtkcmn.cc and its conversions.            *)
(*                                                                         *)
(* A gtime_t is {time_t time; double sec}.  Two abstractions keep it       *)
(* inside TLC's 32-bit integers without losing exactness:                  *)
(*  - the 64-bit time_t is held as day * 86400 + sod, with day = floor of  *)
(*    time / 86400 and sod in 0..86399 (every time_t has exactly one such  *)
(*    pair, so equal pairs are equal time_t values);                      *)
(*  - the double sub-second part, and every double seconds argument, is a  *)
(*    multiple of 1/FRAC s: a field or argument "sec"/"s" holds the        *)
(*    numerator (sec = 3 with FRAC = 4 is 0.75 s), exact as the double     *)
(*    code is for multiples of a power of two.                             *)
(* C's integer / and % truncate toward zero (CDiv, CMod); floor() is       *)
(* TLA+'s \div.                                                            *)
(***************************************************************************)
EXTENDS Integers, Sequences, FiniteSets

CONSTANT FRAC     \* sub-second resolution of the model (power of two)

ASSUME FRAC \in {1, 2, 4, 8}

\* C integer division and remainder (truncation toward zero), b > 0
CDiv(a, b) == IF a >= 0 THEN a \div b ELSE -((-a) \div b)
CMod(a, b) == a - b * CDiv(a, b)

\* static_cast<int>(x) of a seconds value x = s / FRAC
TruncSec(s) == CDiv(s, FRAC)

\* the gtime_t whose time_t is day * 86400 + secs and whose sec is s
GTimeOf(day, secs, s) ==
    [day |-> day + secs \div 86400, sod |-> secs % 86400, sec |-> s]

\* t.time += secs
AddSecs(t, secs) == GTimeOf(t.day, t.sod + secs, t.sec)

(* epoch2time: calendar {y,m,d,h,min,sec} to gtime_t; zero time outside   *)
(* 1970..2099 or for a month outside 1..12.  The day is not checked.      *)
DOY == <<1, 32, 60, 91, 121, 152, 182, 213, 244, 274, 305, 335>>

\* mutant: the leap day of the current year is not counted
Epoch2TimeNoLeap(ep) ==
    LET year == ep[1]  mon == ep[2]  day == ep[3]
        days == (year - 1970) * 365 + (year - 1969) \div 4 + DOY[mon] + day - 2
        sec  == ep[6] \div FRAC
    IN IF year < 1970 \/ 2099 < year \/ mon < 1 \/ 12 < mon
       THEN GTimeOf(0, 0, 0)
       ELSE GTimeOf(days, ep[4] * 3600 + ep[5] * 60 + sec, ep[6] - sec * FRAC)

Epoch2Time(ep) ==
    LET year == ep[1]  mon == ep[2]  day == ep[3]
        days == (year - 1970) * 365 + (year - 1969) \div 4 + DOY[mon] + day - 2
                  + (IF year % 4 = 0 /\ mon >= 3 THEN 1 ELSE 0)
        sec  == ep[6] \div FRAC                     \* floor(ep[5])
    IN IF year < 1970 \/ 2099 < year \/ mon < 1 \/ 12 < mon
       THEN GTimeOf(0, 0, 0)
       ELSE GTimeOf(days, ep[4] * 3600 + ep[5] * 60 + sec, ep[6] - sec * FRAC)

(* time2epoch: gtime_t to calendar, walking the 48 months of a 1461-day  *)
(* cycle (every fourth year a leap year, right for 1901..2099).  days is *)
(* t.time / 86400 truncated toward zero, as in C.                        *)
MDAY == <<31,28,31,30,31,30,31,31,30,31,30,31, 31,28,31,30,31,30,31,31,30,31,30,31,
          31,29,31,30,31,30,31,31,30,31,30,31, 31,28,31,30,31,30,31,31,30,31,30,31>>

\* the days of the cycle before month m (0-based), m in 0..48
RECURSIVE DaysBefore(_)
DaysBefore(m) == IF m = 0 THEN 0 ELSE DaysBefore(m - 1) + MDAY[m]
MonthStart == [m \in 0 .. 48 |-> DaysBefore(m)]

(* The loop of time2epoch: from month mon, skip each month whose length  *)
(* day still reaches, up to month 48; the months skipped are those that  *)
(* end at or before day.                                                  *)
MonthWalk(day, mon) ==
    LET k == mon + Cardinality({j \in mon + 1 .. 48 : MonthStart[j] - MonthStart[mon] <= day})
    IN  <<day - (MonthStart[k] - MonthStart[mon]), k>>

Time2Epoch(t) ==
    LET days == IF t.day < 0 /\ t.sod > 0 THEN t.day + 1 ELSE t.day
        sec  == t.sod + (t.day - days) * 86400
        dm   == MonthWalk(CMod(days, 1461), 0)
        mon  == dm[2]
    IN << 1970 + CDiv(days, 1461) * 4 + CDiv(mon, 12),
          CMod(mon, 12) + 1,
          dm[1] + 1,
          CDiv(sec, 3600),
          CDiv(CMod(sec, 3600), 60),
          CMod(sec, 60) * FRAC + t.sec >>

(* The week-zero epochs of GPST, GST and BDT. *)
GPST0 == <<1980, 1, 6, 0, 0, 0>>
GST0  == <<1999, 8, 22, 0, 0, 0>>
BDT0  == <<2006, 1, 1, 0, 0, 0>>

(* gpst2time / gst2time / bdt2time: week and seconds of week to gtime_t; *)
(* a seconds argument beyond +-1e9 s is replaced by 0.  The argument is   *)
(* s / FRAC + k * 2^32 s: k # 0 stands for a seconds of week that an int  *)
(* overflow in time2gpst moved by 2^32 s, which TLC cannot hold.          *)
BeyondSanity(s, k) ==
    \/ k # 0
    \/ TruncSec(s) < -1000000000 \/ 1000000000 < TruncSec(s)
    \/ TruncSec(s) = -1000000000 /\ CMod(s, FRAC) < 0
    \/ TruncSec(s) = 1000000000 /\ CMod(s, FRAC) > 0

WeekSec2TimeK(ref, week, s, k) ==
    LET t0 == Epoch2Time(ref)
        sc == IF BeyondSanity(s, k) THEN 0 ELSE s
    IN [ GTimeOf(t0.day + 7 * week, t0.sod + TruncSec(sc), 0)
           EXCEPT !.sec = sc - TruncSec(sc) * FRAC ]

WeekSec2Time(ref, week, s) == WeekSec2TimeK(ref, week, s, 0)

Gpst2Time(week, s) == WeekSec2Time(GPST0, week, s)
Gst2Time(week, s)  == WeekSec2Time(GST0, week, s)
Bdt2Time(week, s)  == WeekSec2Time(BDT0, week, s)

(* time2gpst / time2gst / time2bdt: gtime_t to <<week, seconds of week>>; *)
(* sec = t.time - t0.time and w = sec / 604800 truncated toward zero.     *)
Time2WeekSec(ref, t) ==
    LET t0  == Epoch2Time(ref)
        dd  == t.day - t0.day                       \* sec = dd * 86400 + ds
        ds  == t.sod - t0.sod
        wf  == dd \div 7                            \* floor(sec / 604800)
        rf  == (dd % 7) * 86400 + ds                \* sec - wf * 604800
        w   == IF dd < 0 /\ rf # 0 THEN wf + 1 ELSE wf
    IN <<w, (rf + (wf - w) * 604800) * FRAC + t.sec>>

(* The return value subtracts static_cast<time_t>(w * 604800) with the    *)
(* product in int, which overflows for |w| > 3550 (from 2048 on for GPST). *)
(* Overflow being undefined, the build either wraps the product, which    *)
(* moves the seconds of week by 2^32 s (k = +-1), or computes it in 64    *)
(* bits (k = 0).  Time2WeekSec is the k = 0 outcome, the only one for     *)
(* weeks -3550..3550.                                                     *)
ProductWraps(w) == IF w > 3550 THEN {0, 1} ELSE IF w < -3550 THEN {0, -1} ELSE {0}
Time2WeekSecs(ref, t) ==
    LET ws == Time2WeekSec(ref, t)
    IN  {<<ws[1], ws[2], k>> : k \in ProductWraps(ws[1])}

Time2Gpst(t) == Time2WeekSec(GPST0, t)
Time2Gst(t)  == Time2WeekSec(GST0, t)
Time2Bdt(t)  == Time2WeekSec(BDT0, t)

(* timeadd: add s/FRAC seconds and renormalise with floor(). *)
\* mutant: t.sec += sec without the floor() renormalisation
TimeAddNoNorm(t, s) == [t EXCEPT !.sec = t.sec + s]

TimeAdd(t, s) ==
    LET frac == t.sec + s
        tt   == frac \div FRAC
    IN [AddSecs(t, tt) EXCEPT !.sec = frac - tt * FRAC]

(* timediff: t1 - t2 in units of 1/FRAC s.  Exact in TLC integers only    *)
(* for instants less than 2^31/FRAC s apart; TimeDiffSign is exact for    *)
(* any two instants and is what the >= 0 / < 0 tests of the code use.     *)
TimeDiff(t1, t2) ==
    ((t1.day - t2.day) * 86400 + t1.sod - t2.sod) * FRAC + t1.sec - t2.sec

TimeDiffSign(t1, t2) ==
    LET dd == t1.day - t2.day
        d  == IF dd > 2 \/ dd < -2 THEN dd ELSE TimeDiff(t1, t2)
    IN IF d > 0 THEN 1 ELSE IF d < 0 THEN -1 ELSE 0

\* a fold of the positive side only
TimeDiffWeekCrossoverUp(t1, t2) ==
    LET tk == TimeDiff(t1, t2)
    IN IF tk > 302400 * FRAC THEN tk - 604800 * FRAC ELSE tk

(* timediffweekcrossover: t1 - t2 folded once by a week when beyond a    *)
(* half week (IS-GPS-200 20.3.3.4.3), in units of 1/FRAC s.               *)
TimeDiffWeekCrossover(t1, t2) ==
    LET tk == TimeDiff(t1, t2)
    IN IF tk > 302400 * FRAC THEN tk - 604800 * FRAC
       ELSE IF tk < -302400 * FRAC THEN tk + 604800 * FRAC
       ELSE tk

(* gpst2bdt / bdt2gpst: the fixed 14 s offset. *)
Gpst2Bdt(t) == TimeAdd(t, -14 * FRAC)
Bdt2Gpst(t) == TimeAdd(t, 14 * FRAC)
=============================================================================
