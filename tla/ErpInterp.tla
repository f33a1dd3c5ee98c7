------------------------------ MODULE ErpInterp ------------------------------
(***************************************************************************)
(* geterp: earth rotation parameters at a GPST instant from the table     *)
(* readerp loaded.  An erp_t row is [mjd, xp, xpr, ut1_utc, lod] with the *)
(* mjd in whole days (IERS tables are daily) and the values in small      *)
(* integer units; yp/ypr are computed exactly as xp/xpr and are left out. *)
(* The mjd of the instant is held exactly as X, its distance from MJD     *)
(* 51544.0 in units of 1/FRAC s, so mjd <= data[i].mjd is X <= XOf(..).   *)
(* The results are exact rationals [num, den] of the double the code      *)
(* computes.                                                               *)
(***************************************************************************)
EXTENDS TimeFormat, RatArith

\* 1/FRAC s units per day
DayUnits == 86400 * FRAC

\* a row's mjd on the X scale
XOf(r) == (r.mjd - 51544) * DayUnits

(* mjd = 51544.5 + timediff(gpst2utc(time), epoch2time(ep)) / 86400.0,   *)
(* ep = 2000/1/1 12:00:00, on the X scale.                                 *)
ErpX(t, tbl) ==
    DayUnits \div 2 + TimeDiff(Gpst2UtcFrom(tbl, t, 0), Epoch2Time(<<2000, 1, 1, 12, 0, 0>>))

(* Linear extrapolation from one row, status 1: xp + xpr * day,          *)
(* ut1_utc - lod * day, lod; day = mjd - data[i].mjd.                      *)
Extrap(r, x) ==
    [stat |-> 1,
     xp  |-> Q(r.xp * DayUnits + r.xpr * (x - XOf(r)), DayUnits),
     ut1 |-> Q(r.ut1 * DayUnits - r.lod * (x - XOf(r)), DayUnits),
     lod |-> Q(r.lod, 1)]

(* The bisection "for (j = 0, k = n - 1; j < k - 1;)": data[j].mjd <= mjd *)
(* < data[k].mjd is kept; rows are 1-based, erp[i + 1] is data[i].        *)
RECURSIVE Bisect(_, _, _, _)
Bisect(erp, x, j, k) ==
    IF j < k - 1
    THEN LET i == (j + k) \div 2
         IN  IF x < XOf(erp[i + 1]) THEN Bisect(erp, x, j, i) ELSE Bisect(erp, x, i, k)
    ELSE j

(* (1 - a) * data[j].v + a * data[j + 1].v with                            *)
(* a = (mjd - data[j].mjd) / (data[j + 1].mjd - data[j].mjd), or a = 0.5   *)
(* when the two rows have one mjd.                                          *)
Interp(r0, r1, x, f) ==
    IF XOf(r0) = XOf(r1) THEN Q(r0[f] + r1[f], 2)
    ELSE Q(r0[f] * (XOf(r1) - x) + r1[f] * (x - XOf(r0)), XOf(r1) - XOf(r0))

\* mutant: ut1_utc extrapolated with + lod * day
GeterpLodSign(erp, t, tbl) ==
    LET x == ErpX(t, tbl)
        n == Len(erp)
        j == Bisect(erp, x, 0, n - 1)
        Plus(r) == [Extrap(r, x) EXCEPT !.ut1 = Q(r.ut1 * DayUnits + r.lod * (x - XOf(r)), DayUnits)]
    IN  IF n <= 0 THEN [stat |-> 0]
        ELSE IF x <= XOf(erp[1]) THEN Plus(erp[1])
        ELSE IF x >= XOf(erp[n]) THEN Plus(erp[n])
        ELSE [stat |-> 1, xp |-> Interp(erp[j + 1], erp[j + 2], x, "xp"),
              ut1 |-> Interp(erp[j + 1], erp[j + 2], x, "ut1"),
              lod |-> Interp(erp[j + 1], erp[j + 2], x, "lod")]

(* geterp(erp, time, erpv): status and {xp, ut1_utc, lod}; n <= 0 returns *)
(* 0 and leaves erpv alone.  tbl is the leap-second table gpst2utc reads. *)
Geterp(erp, t, tbl) ==
    LET x == ErpX(t, tbl)
        n == Len(erp)
        j == Bisect(erp, x, 0, n - 1)
    IN  IF n <= 0 THEN [stat |-> 0]
        ELSE IF x <= XOf(erp[1]) THEN Extrap(erp[1], x)
        ELSE IF x >= XOf(erp[n]) THEN Extrap(erp[n], x)
        ELSE [stat |-> 1, xp |-> Interp(erp[j + 1], erp[j + 2], x, "xp"),
              ut1 |-> Interp(erp[j + 1], erp[j + 2], x, "ut1"),
              lod |-> Interp(erp[j + 1], erp[j + 2], x, "lod")]
=============================================================================
