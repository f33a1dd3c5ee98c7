-------------------------------- MODULE MC_Time --------------------------------
(***************************************************************************)
(* The TimeSystem as its callers meet it: either a receiver stamping and  *)
(* advancing epochs with the calendar and week conversions (MC_GTime), or *)
(* a process reloading its leap-second table and converting between GPST *)
(* and UTC (MC_LeapSeconds), or a program printing instants with time2str *)
(* and completing 10-bit GPS weeks with adjgpsweek (TimeFormat).  A state *)
(* holds one of the three, tagged by kind; the variables of the others    *)
(* stay at their initial values.                                          *)
(***************************************************************************)
EXTENDS ErpInterp, Dms, StrConv, TimeInputs, PcvSearch

CONSTANTS Epochs, Weeks, Tows, Steps, MaxSteps

VARIABLES kind, now, steps
VARIABLES call, cpu    \* the last time2str call and its result; timeget()
VARIABLE  ecall       \* the last geterp call: table, time, status, erpv
VARIABLE  dcall       \* the last deg2dms call: angle, decimals, outcome
VARIABLE  scall       \* the last str2time or str2num call and its result
VARIABLE  pcall       \* the last reppath or reppaths call and its result

allVars == <<kind, now, steps, leaps, charSigned, expected, call, cpu, ecall, dcall, scall, pcall>>

G == INSTANCE MC_GTime
L == INSTANCE MC_LeapSeconds

\* the epochs of a receiver that is not running: 1970-01-01, no step taken
GIdle == now = Epoch2Time(<<1970, 1, 1, 0, 0, 0>>) /\ steps = 0
\* the leap-second table of a process that loaded no file, char signed
LIdle == L!Init /\ charSigned = TRUE

\* a few instants around the week-1023/1024 boundary, for the runs about
\* the other kinds
FewEpochs == {<<1999, 8, 22, 0, 0, 0>>, <<1999, 8, 25, 12, 0, 0>>}
FewTows   == {0, 302400 * FRAC}

\* instants time2str is asked to print: the four quarter seconds before
\* midnight of a year end, the last quarter second of 2099, a plain one
FmtEpochs ==
    { <<2016, 12, 31, 23, 59, 59 * FRAC + s>> : s \in 0 .. FRAC - 1 } \cup
    { <<2099, 12, 31, 23, 59, 60 * FRAC - 1>>, <<2000, 2, 29, 12, 30, 0>>,
      <<1970, 1, 1, 0, 0, 0>> }

\* decimals asked for, including the clamped -1 and 13
Decs == {-1, 0, 1, 2, 3, 12, 13}

\* cpu clocks: none set, before 2009/12/1, the last second of GPS week 2047
\* (UTC), and a current date
CpuEpochs ==
    { <<1970, 1, 1, 0, 0, 0>>, <<2009, 11, 30, 0, 0, 0>>,
      <<2019, 4, 6, 23, 59, 41 * FRAC>>, <<2026, 11, 9, 0, 0, 0>> }

\* no call yet (n = -2 is not among the decimals asked for)
NoCall == [t |-> Epoch2Time(<<1970, 1, 1, 0, 0, 0>>), n |-> -2,
           out |-> Time2Str(Epoch2Time(<<1970, 1, 1, 0, 0, 0>>), 0)]
\* no time2str call yet, and the cpu clock of a board without a clock
FIdle == call = NoCall /\ cpu = Epoch2Time(<<1970, 1, 1, 0, 0, 0>>)

\* erp rows: daily values around J2000 with rates of either sign
R0 == [mjd |-> 51544, xp |-> 0, xpr |-> 1, ut1 |-> 3, lod |-> 1]
R1 == [mjd |-> 51545, xp |-> 2, xpr |-> -1, ut1 |-> 0, lod |-> 2]
R2 == [mjd |-> 51547, xp |-> 1, xpr |-> 0, ut1 |-> 1, lod |-> -1]
R3 == [mjd |-> 51548, xp |-> -1, xpr |-> 1, ut1 |-> 2, lod |-> 1]

\* tables readerp may load: none, one row, and rows by increasing mjd
ErpTables == { <<>>, <<R1>>, <<R0, R2>>, <<R0, R1, R2>>, <<R0, R1, R2, R3>> }

\* GPST instants asked for: before, at, between and after the rows (13 s
\* after each UTC instant of interest, 2000 being under 13 leap seconds),
\* and 2000/1/1 00:00:00 GPST itself, 13 s before the first row
ErpEpochs ==
    { <<1999, 12, 31, 12, 0, 13 * FRAC>>, <<2000, 1, 1, 0, 0, 13 * FRAC>>,
      <<2000, 1, 1, 0, 0, 0>>, <<2000, 1, 1, 6, 0, 13 * FRAC>>,
      <<2000, 1, 2, 0, 0, 13 * FRAC>>, <<2000, 1, 3, 12, 0, 13 * FRAC>>,
      <<2000, 1, 4, 0, 0, 13 * FRAC>>, <<2000, 1, 5, 0, 0, 13 * FRAC>>,
      <<2000, 1, 6, 0, 0, 13 * FRAC>> }

\* the caller's erpv array before any call: zeros
ZeroErpv == [xp |-> Q(0, 1), ut1 |-> Q(0, 1), lod |-> Q(0, 1)]
NoErpCall == [erp |-> <<>>, t |-> Epoch2Time(<<1970, 1, 1, 0, 0, 0>>), stat |-> -1, erpv |-> ZeroErpv]
EIdle == ecall = NoErpCall

\* angles (over DEN = 72000 per degree, 0.05" steps): zero, +-0.5 deg,
\* 1d59'59.5" (a tie at 0 decimals whose carry reaches the degrees),
\* 0d0'59.95" and 179d59'59.95" (ties at 1 decimal), 0d0'59.9",
\* -12d34'56.75"
DmsAngles == {0, 36000, -36000, 143990, 1199, 12959999, 1198, -905935}
NoDmsCall == [n |-> 0, ndec |-> -1, out |-> [neg |-> FALSE, d |-> 0, m |-> 0, s |-> 0, scale |-> 1]]
DIdle == dcall = NoDmsCall

\* the epoch fields of RINEX 2 (two-digit year) and RINEX 3 headers and
\* epoch lines, around the ends of the year window and the turn of 2000
StrEpochs == { <<y, 1, 6, 0, 0, 0>> : y \in {1980, 1999, 2000, 2079} } \cup { <<2021, 12, 31, 23, 59, 239>> }
\* number fields of a RINEX navigation record: Fortran D and d, C E
\* exponents, and none
NumFields == { [m |-> 15, letter |-> l, e |-> 1] : l \in {"D", "d", "E", ""} }
StrStarts == {-1, 0, 60, 81, 300}     \* i, on a line of 80 characters
NoNum == [m |-> 0, letter |-> "", e |-> 0]
NoStrCall == [fn |-> "none", i |-> 0, in |-> <<>>, num |-> NoNum, ep |-> <<>>, res |-> [stat |-> -1]]
SIdle == scall = NoStrCall

\* reppath and reppaths: paths of up to two pieces, each a keyword or a
\* letter; lowercase station ids; instants (GPST) of an
\* afternoon and of a Saturday night, and time 0
PathPieces == {K("h"), KH("a"), K("H"), K("r"), K("b"), K("Y"), K("t"), <<"a">>}
PathIns == {p \o q : p, q \in PathPieces \cup {<<>>}}
Ids == {<<>>, <<"a", "b">>, <<"x">>}
T0 == GTimeOf(0, 0, 0)
PathTimes == {Epoch2Time(<<2021, 12, 31, 19, 20, 0>>), Epoch2Time(<<2022, 1, 8, 23, 50, 0>>), T0}
\* reppaths inputs: paths, and intervals of 50 min to 2 h
PathsIns == {K("h"), KH("a"), K("M"), K("D"), K("n") \o K("r")}
Intervals == { <<Epoch2Time(<<2021, 12, 31, 10, 20, 0>>), Epoch2Time(<<2021, 12, 31, 11, 10, 0>>)>>,
               <<Epoch2Time(<<2022, 1, 8, 23, 10, 0>>), Epoch2Time(<<2022, 1, 9, 1, 10, 0>>)>> }
\* expath: a working directory holding names that differ only in case, a
\* hidden one, and patterns with and without stars; every readdir order
DirNames == {<<"a", ".", "o">>, <<"A", ".", "o">>, <<"B", ".", "o">>, <<"a", "b">>, <<".", "a">>}
ExPats == {<<"*", ".", "o">>, <<"a", "*">>, <<"*">>, <<"A", "*", "O">>, <<"*", "O", "*", "o">>,
           <<"a", "b", "*", "b">>, <<"a", "b">>, <<"b">>}
DirOrders == {o \in [1 .. Cardinality(DirNames) -> DirNames] : \A d \in DirNames : \E i \in DOMAIN o : o[i] = d}
\* searchpcv: two windows of satellite 1 with a gap between them, an
\* open-ended one of satellite 2, and receiver antennas where one name
\* holds another ("AB" in "ABC")
Ep(y, m, d) == Epoch2Time(<<y, m, d, 0, 0, 0>>)
Pcvs == << [sat |-> 1, type |-> <<>>, ts |-> Ep(2020, 1, 1), te |-> Ep(2021, 1, 1)],
           [sat |-> 1, type |-> <<>>, ts |-> Ep(2021, 6, 1), te |-> T0],
           [sat |-> 2, type |-> <<>>, ts |-> Ep(2021, 1, 1), te |-> T0],
           [sat |-> 0, type |-> <<"A", "B", "C", " ", "N">>, ts |-> T0, te |-> T0],
           [sat |-> 0, type |-> <<"A", "B", " ", "N">>, ts |-> T0, te |-> T0],
           [sat |-> 0, type |-> <<"A", "B", " ", "S">>, ts |-> T0, te |-> T0] >>
PcvSats  == {1, 2, 3}
PcvTimes == {Ep(2019, 6, 1), Ep(2020, 1, 1), Ep(2021, 1, 1), Ep(2021, 3, 1), Ep(2022, 1, 1)}
\* receiver types: antenna and radome, antenna alone, blanks only, none
RcvTypes == {<<"A", "B", " ", "N">>, <<"A", "B", " ", "S">>, <<"A", "B", " ", "X">>,
             <<"B", " ", "N">>, <<" ", "A", "B", "C">>, <<"C">>, <<" ", " ">>, <<>>}
NoPathCall == [fn |-> "none", path |-> <<>>, t |-> T0, te |-> T0, rov |-> <<>>, base |-> <<>>,
               nmax |-> 0, res |-> [str |-> <<>>, stat |-> 0], paths |-> <<>>, sat |-> 0, pcv |-> 0, dt |-> 0]
PIdle == pcall = NoPathCall

TimeInit ==
    \/ kind = "epochs" /\ G!Init /\ LIdle /\ FIdle /\ EIdle /\ DIdle /\ SIdle /\ PIdle
    \/ kind = "leaps"  /\ GIdle /\ L!Init /\ FIdle /\ EIdle /\ DIdle /\ SIdle /\ PIdle
    \/ kind = "format" /\ GIdle /\ LIdle /\ call = NoCall /\ cpu \in {Epoch2Time(ep) : ep \in CpuEpochs}
                       /\ EIdle /\ DIdle /\ SIdle /\ PIdle
    \/ kind = "erp"    /\ GIdle /\ LIdle /\ FIdle /\ EIdle /\ DIdle /\ SIdle /\ PIdle
    \/ kind = "dms"    /\ GIdle /\ LIdle /\ FIdle /\ EIdle /\ DIdle /\ SIdle /\ PIdle
    \/ kind = "str"    /\ GIdle /\ LIdle /\ FIdle /\ EIdle /\ DIdle /\ SIdle /\ PIdle
    \/ kind = "path"   /\ GIdle /\ LIdle /\ FIdle /\ EIdle /\ DIdle /\ SIdle /\ PIdle

\* a call time2str(t, s, n)
Time2StrCall(t, n) ==
    /\ call' = [t |-> t, n |-> n, out |-> Time2Str(t, n)]
    /\ UNCHANGED <<kind, now, steps, leaps, charSigned, expected, cpu, ecall, dcall, scall, pcall>>

\* a call geterp(erp, t, erpv) on a table erp with the loaded leap seconds
GeterpCall(erp, t) ==
    LET r == Geterp(erp, t, leaps)
    IN  /\ ecall' = [erp |-> erp, t |-> t, stat |-> r.stat,
                     erpv |-> IF r.stat = 1 THEN [f \in {"xp", "ut1", "lod"} |-> r[f]] ELSE ecall.erpv]
        /\ UNCHANGED <<kind, now, steps, leaps, charSigned, expected, call, cpu, dcall, scall, pcall>>

\* a call deg2dms(deg, dms, ndec)
Deg2DmsCall(n, ndec) ==
    /\ \E out \in Deg2Dms(n, ndec) : dcall' = [n |-> n, ndec |-> ndec, out |-> out]
    /\ UNCHANGED <<kind, now, steps, leaps, charSigned, expected, call, cpu, ecall, scall, pcall>>

(* str2time(s, i, n, t) on the epoch ep printed with a yd-digit year,   *)
(* the substring cut after cut of its six numbers                         *)
Str2timeCall(ep, yd, cut, i) ==
    LET nums == SubSeq(<<IF yd = 2 THEN ep[1] % 100 ELSE ep[1]>> \o SubSeq(ep, 2, 6), 1, cut)
    IN  /\ scall' = [fn |-> "time", i |-> i, in |-> nums, num |-> NoNum, ep |-> ep, res |-> Str2time(i, 80, nums)]
        /\ UNCHANGED <<kind, now, steps, leaps, charSigned, expected, call, cpu, ecall, dcall, pcall>>

\* str2num(s, i, 19) on a number field f
Str2numCall(f, i) ==
    /\ scall' = [fn |-> "num", i |-> i, in |-> <<>>, num |-> f, ep |-> <<>>, res |-> [stat |-> 0, v |-> Str2num(i, 80, 19, f)]]
    /\ UNCHANGED <<kind, now, steps, leaps, charSigned, expected, call, cpu, ecall, dcall, pcall>>

\* a call reppath(path, rpath, t, rov, base)
ReppathCall(path, t, rov, base) ==
    /\ pcall' = [NoPathCall EXCEPT !.fn = "path", !.path = path, !.t = t, !.rov = rov,
                                   !.base = base, !.res = Reppath(path, t, rov, base)]
    /\ UNCHANGED <<kind, now, steps, leaps, charSigned, expected, call, cpu, ecall, dcall, scall>>

\* a call reppaths(path, rpath, nmax, ts, te, rov, base)
ReppathsCall(path, nmax, ts, te, rov) ==
    /\ pcall' = [NoPathCall EXCEPT !.fn = "paths", !.path = path, !.t = ts, !.te = te, !.rov = rov,
                                   !.nmax = nmax, !.paths = Reppaths(path, nmax, ts, te, rov, <<>>)]
    /\ UNCHANGED <<kind, now, steps, leaps, charSigned, expected, call, cpu, ecall, dcall, scall>>

\* toe-like references: the week-1024 rollover and a mid-week instant with
\* a quarter second; offsets of t - toe up to 1.5 weeks either way, at and
\* one unit beside each half-week and week bound
CrossRefs == {Epoch2Time(<<1999, 8, 22, 0, 0, 0>>), Epoch2Time(<<1999, 8, 25, 12, 0, 1>>)}
CrossOffsets ==
    {k * 302400 * FRAC + e : k \in -3 .. 3, e \in {-1, 0, 1}} \ {-907200 * FRAC - 1, 907200 * FRAC + 1}

\* a call timediffweekcrossover(t, toe)
CrossoverCall(t, toe) ==
    /\ pcall' = [NoPathCall EXCEPT !.fn = "cross", !.t = t, !.te = toe, !.dt = TimeDiffWeekCrossover(t, toe)]
    /\ UNCHANGED <<kind, now, steps, leaps, charSigned, expected, call, cpu, ecall, dcall, scall>>

\* a call expath(path, paths, nmax) while readdir returns the names in order
ExpathCall(path, order, nmax) ==
    /\ pcall' = [NoPathCall EXCEPT !.fn = "expath", !.path = path, !.nmax = nmax,
                                   !.paths = Expath(path, order, nmax)]
    /\ UNCHANGED <<kind, now, steps, leaps, charSigned, expected, call, cpu, ecall, dcall, scall>>

\* a call searchpcv(sat, type, time, pcvs)
SearchpcvCall(sat, type, time) ==
    /\ pcall' = [NoPathCall EXCEPT !.fn = "pcv", !.sat = sat, !.path = type, !.t = time,
                                   !.pcv = Searchpcv(sat, type, time, Pcvs)]
    /\ UNCHANGED <<kind, now, steps, leaps, charSigned, expected, call, cpu, ecall, dcall, scall>>

TimeNext ==
    \/ kind = "epochs" /\ G!Next /\ UNCHANGED <<kind, leaps, charSigned, expected, call, cpu, ecall, dcall, scall, pcall>>
    \/ kind = "leaps"  /\ L!Next /\ UNCHANGED <<kind, now, steps, call, cpu, ecall, dcall, scall, pcall>>
    \/ kind = "format" /\ \E ep \in FmtEpochs, n \in Decs : Time2StrCall(Epoch2Time(ep), n)
    \/ kind = "erp"    /\ \E erp \in ErpTables, ep \in ErpEpochs : GeterpCall(erp, Epoch2Time(ep))
    \/ kind = "dms"    /\ \E n \in DmsAngles, ndec \in {0, 1} : Deg2DmsCall(n, ndec)
    \/ kind = "str"    /\ \E ep \in StrEpochs, yd \in {2, 4}, cut \in {5, 6}, i \in StrStarts : Str2timeCall(ep, yd, cut, i)
    \/ kind = "str"    /\ \E f \in NumFields, i \in StrStarts : Str2numCall(f, i)
    \/ kind = "path"   /\ PIdle /\ \E path \in PathIns, t \in PathTimes, rov, base \in Ids :
                                        ReppathCall(path, t, rov, base)
    \/ kind = "path"   /\ PIdle /\ \E path \in PathsIns, nmax \in {2, 12}, iv \in Intervals, rov \in Ids :
                                        ReppathsCall(path, nmax, iv[1], iv[2], rov)
    \/ kind = "path"   /\ PIdle /\ \E path \in ExPats, order \in DirOrders, nmax \in {2, 8} :
                                        ExpathCall(path, order, nmax)
    \/ kind = "path"   /\ PIdle /\ \E sat \in PcvSats, time \in PcvTimes : SearchpcvCall(sat, <<>>, time)
    \/ kind = "path"   /\ PIdle /\ \E type \in RcvTypes : SearchpcvCall(0, type, T0)
    \/ kind = "path"   /\ PIdle /\ \E toe \in CrossRefs, d \in CrossOffsets : CrossoverCall(TimeAdd(toe, d), toe)
    \/ kind = "path"   /\ ~PIdle /\ UNCHANGED allVars

TimeSpec == TimeInit /\ [][TimeNext]_allVars

(* Every reachable instant is a gtime_t with its parts in range, and the  *)
(* leap-second table keeps its zero sentinel row (see MC_GTime and        *)
(* MC_LeapSeconds).                                                       *)
TypeOK ==
    /\ kind = "epochs" => G!TypeOK
    /\ kind = "leaps"  => L!TypeOK

(* time2epoch/epoch2time round trip of every reachable instant.           *)
EpochRoundTrip == kind = "epochs" => G!EpochRoundTrip

(* time2gpst/gst/bdt and back round trip of every reachable instant.      *)
WeekRoundTrip == kind = "epochs" => G!WeekRoundTrip

(* utc2gpst then gpst2utc is the identity around every leap date after    *)
(* any sequence of reloads.                                               *)
RoundTrip == kind = "leaps" => L!RoundTrip

(* The sub-second part of every instant is in [0, 1) (spec 3), also for   *)
(* gpst2time/gst2time/bdt2time handed a negative seconds of week.        *)
Normalized == kind = "epochs" => G!Normalized

(* utc2gpst applies the offset the last loaded file states (see           *)
(* MC_LeapSeconds).                                                       *)
OffsetAsStated == kind = "leaps" => L!OffsetAsStated

\* days from 1970-01-01 to a Gregorian date (reference definition, by
\* eras of 400 years counted from March 1st, 0000)
DaysFromCivil(y, m, d) ==
    LET yy  == IF m <= 2 THEN y - 1 ELSE y
        era == yy \div 400
        yoe == yy - era * 400
        doy == (153 * ((m + 9) % 12) + 2) \div 5 + d - 1
    IN  era * 146097 + yoe * 365 + yoe \div 4 - yoe \div 100 + doy - 719468

\* printed instant minus t, in units of 1 / (FRAC * scale) s
PrintedMinusT(out, t) ==
    LET ep == out.ep
    IN  ((DaysFromCivil(ep[1], ep[2], ep[3]) - t.day) * 86400
           + ep[4] * 3600 + ep[5] * 60 - t.sod) * FRAC * out.scale
        + out.sec * FRAC - t.sec * out.scale

(* time2str prints an instant within half a unit of its last printed     *)
(* digit of the one it was given: the carry of a fraction that rounds up  *)
(* moves to the next second with a zero fraction, across the minute, day *)
(* and year.                                                              *)
TimeStrFaithful ==
    kind = "format" /\ call # NoCall =>
        2 * PrintedMinusT(call.out, call.t) <= FRAC /\ -FRAC <= 2 * PrintedMinusT(call.out, call.t)

(* time2str never prints 60 in the seconds field (spec 4.1: "if rounding *)
(* reaches 60.000, carries one second into the integral time and zeros   *)
(* the fraction (prevents 60 appearing in output)").                     *)
TimeStrNoSixty ==
    kind = "format" /\ call # NoCall => call.out.sec < 60 * call.out.scale

(* time2sec splits the instant into its day start and the seconds of the *)
(* day, and time2doy counts from 1 on January 1st.                       *)
DayPartsAgree ==
    kind = "format" /\ call # NoCall =>
        LET d == Time2Sec(call.t)
            doy == Time2Doy(call.t)
        IN  /\ TimeAdd(d.day, d.sec) = call.t
            /\ d.day.sod = 0 /\ d.day.sec = 0
            /\ 86400 * FRAC <= doy /\ doy < 367 * 86400 * FRAC
            /\ (doy - 86400 * FRAC) % (86400 * FRAC) = d.sec

(* adjgpsweek turns every 10-bit week into the week of the same residue  *)
(* modulo 1024 nearest the cpu time's GPS week (week 1560 if the clock is *)
(* earlier), in (w - 512, w + 512].                                       *)
AdjWeekNearest ==
    kind = "format" =>
        \A week \in 0 .. 1023 :
            LET r == AdjGpsWeek(week, cpu, leaps)
                w == CpuWeek(cpu, leaps)
            IN  r % 1024 = week /\ w - 512 < r /\ r <= w + 512

\* the value of f at X = x on the straight line through rows r0 and r1
OnSegment(r0, r1, x, f) ==
    Q(r0[f] * (XOf(r1) - x) + r1[f] * (x - XOf(r0)), XOf(r1) - XOf(r0))

(* geterp gives, for a table of increasing mjd, the earth rotation        *)
(* parameters of the piecewise linear function through its rows at the   *)
(* UTC mjd of the GPST instant asked for: on any row segment holding it,  *)
(* or, outside the table, the end row moved along its rates (xp by xpr,   *)
(* ut1_utc by -lod per day, lod constant); with no rows it fails and      *)
(* leaves erpv as it was.                                                 *)
ErpMatchesTable ==
    kind = "erp" /\ ecall.stat # -1 =>
        LET erp == ecall.erp
            n   == Len(erp)
            x   == ErpX(ecall.t, leaps)
            v   == ecall.erpv
            days(r) == x - XOf(r)
            End(r) ==
                /\ QEq(v.xp, Q(r.xp * DayUnits + r.xpr * days(r), DayUnits))
                /\ QEq(v.ut1, Q(r.ut1 * DayUnits - r.lod * days(r), DayUnits))
                /\ QEq(v.lod, Q(r.lod, 1))
        IN  \/ n = 0 /\ ecall.stat = 0
            \/ n > 0 /\ ecall.stat = 1 /\
               \/ x <= XOf(erp[1]) /\ End(erp[1])
               \/ x >= XOf(erp[n]) /\ End(erp[n])
               \/ \E i \in 1 .. n - 1 :
                    /\ XOf(erp[i]) <= x /\ x <= XOf(erp[i + 1])
                    /\ \A f \in {"xp", "ut1", "lod"} : QEq(v[f], OnSegment(erp[i], erp[i + 1], x, f))
(* deg2dms gives minutes and seconds in [0, 60), carrying a rounding to  *)
(* 60 s into the minutes and on into the degrees, and dms2deg reads back  *)
(* the magnitude of the angle to within half a unit of the last decimal.  *)
DmsReadsBack ==
    kind = "dms" /\ dcall.ndec # -1 =>
        LET o  == dcall.out
            v  == IF Dms2Deg(o) < 0 THEN -Dms2Deg(o) ELSE Dms2Deg(o)
            a  == IF dcall.n < 0 THEN -dcall.n ELSE dcall.n
            dv == v * (DEN \div (3600 * o.scale)) - a
        IN  /\ o.m \in 0 .. 59 /\ o.s \in 0 .. 60 * o.scale - 1
            /\ 2 * o.scale * (IF dv < 0 THEN -dv ELSE dv) <= DEN \div 3600
(* str2time reads a RINEX epoch with a four-digit year, or a two-digit   *)
(* year of 1980..2079, back as the instant of the epoch; it fails exactly *)
(* for a start outside the line or a field cut short.                     *)
Str2timeReadsEpoch ==
    kind = "str" /\ scall.fn = "time" =>
        /\ (scall.res.stat = 0) = (scall.i \in 0 .. 80 /\ Len(scall.in) = 6)
        /\ scall.res.stat = 0 => scall.res.t = Epoch2Time(scall.ep)

\* reppath's keywords, longest first, and the text each stands for
DocKeys == <<KH("a"), KH("b"), KH("c"), K("r"), K("b"), K("Y"), K("y"), K("m"), K("d"),
             K("h"), K("M"), K("S"), K("n"), K("W"), K("D"), K("H"), K("t")>>
DocValue(j, t, rov, base) ==
    IF j = 4 THEN rov ELSE IF j = 5 THEN base ELSE TimeValues(t)[IF j < 4 THEN j ELSE j - 2]
\* a keyword is replaced when its id is not empty, or the time is valid
DocApplies(j, t, rov, base) ==
    IF j = 4 THEN rov # <<>> ELSE IF j = 5 THEN base # <<>> ELSE Valid(t)
\* the first (longest) keyword starting at position i of path, or 0
DocKeyAt(path, i) ==
    LET js == {j \in 1 .. Len(DocKeys) : i + Len(DocKeys[j]) - 1 <= Len(path)
                                         /\ SubSeq(path, i, i + Len(DocKeys[j]) - 1) = DocKeys[j]}
    IN  IF js = {} THEN 0 ELSE CHOOSE j \in js : \A k \in js : j <= k

(* The path as reppath's comment describes it: read from left to right,   *)
(* each keyword of the path is replaced by its text, and other characters *)
(* are kept.                                                              *)
RECURSIVE DocPath(_, _, _, _, _)
DocPath(path, t, rov, base, i) ==
    IF i > Len(path) THEN <<>>
    ELSE LET j == DocKeyAt(path, i)
         IN  IF j # 0 /\ DocApplies(j, t, rov, base)
             THEN DocValue(j, t, rov, base) \o DocPath(path, t, rov, base, i + Len(DocKeys[j]))
             ELSE <<path[i]>> \o DocPath(path, t, rov, base, i + 1)

(* The status reppath's comment gives: -1 when the time is not valid and *)
(* the path has a time keyword, 1 when a keyword was replaced, else 0.    *)
DocStat(path, t, rov, base) ==
    LET js == {DocKeyAt(path, i) : i \in 1 .. Len(path)} \ {0}
    IN  IF ~Valid(t) /\ \E j \in js : j \notin {4, 5} THEN -1
        ELSE IF \E j \in js : DocApplies(j, t, rov, base) THEN 1 ELSE 0

(* reppath writes the path its comment describes: every keyword of the    *)
(* path replaced by the date, time or id it stands for, and no other      *)
(* text, with the status its comment lists.  The code replaces one      *)
(* keyword after the other over the whole string, the ids first.         *)
ReppathAsDocumented ==
    kind = "path" /\ pcall.fn = "path" =>
        pcall.res = [str |-> DocPath(pcall.path, pcall.t, pcall.rov, pcall.base, 1),
                     stat |-> DocStat(pcall.path, pcall.t, pcall.rov, pcall.base)]

\* the instants of [ts, te] on the 900 s grid of the GPS week
Grid(ts, te) ==
    LET gw == Time2Gpst(ts)
        g0 == Gpst2Time(gw[1], (gw[2] \div (900 * FRAC)) * (900 * FRAC))
    IN  { g \in {TimeAdd(g0, k * 900 * FRAC) : k \in 0 .. TimeDiff(te, g0) \div (900 * FRAC)} :
            TimeDiffSign(ts, g) <= 0 }

(* Unless it stopped at nmax paths, reppaths returns the path of every    *)
(* instant of [ts, te] on the 900 s grid, its comment's smallest interval: *)
(* the step it picks from the keywords, its start at the step holding ts, *)
(* the test against te and the removal of repeats lose no file.           *)
ReppathsCovers ==
    kind = "path" /\ pcall.fn = "paths" /\ Len(pcall.paths) < pcall.nmax =>
        \A g \in Grid(pcall.t, pcall.te) :
            \E i \in 1 .. Len(pcall.paths) : pcall.paths[i] = Reppath(pcall.path, g, pcall.rov, <<>>).str

\* '*' matches any text, every other character itself, regardless of case
(* timediffweekcrossover(t, toe), for t within 1.5 weeks of toe as an    *)
(* ephemeris is used, is t - toe moved by whole weeks into [-302400,      *)
(* 302400] s, and t - toe itself when that lies there: the IS-GPS-200     *)
(* rule the code cites.                                                   *)
CrossoverNearest ==
    kind = "path" /\ pcall.fn = "cross" =>
        LET tk == TimeDiff(pcall.t, pcall.te)
            r  == pcall.dt
        IN  -907200 * FRAC <= tk /\ tk <= 907200 * FRAC =>
                /\ -302400 * FRAC <= r /\ r <= 302400 * FRAC
                /\ (r - tk) % (604800 * FRAC) = 0
                /\ (-302400 * FRAC <= tk /\ tk <= 302400 * FRAC) => r = tk

RECURSIVE Glob(_, _)
Glob(name, pat) ==
    IF pat = <<>> THEN name = <<>>
    ELSE IF Head(pat) = "*" THEN Glob(name, Tail(pat)) \/ (name # <<>> /\ Glob(Tail(name), pat))
    ELSE name # <<>> /\ Head(name) = Head(pat) /\ Glob(Tail(name), Tail(pat))

(* expath returns, in strcmp order and without repeats, names of the      *)
(* directory that the pattern matches as a glob in either case: all of    *)
(* them when there are at most nmax, else nmax of them.  Names starting   *)
(* with '.' are hidden.  The code matches by a left-to-right strstr of    *)
(* the pieces between the stars, anchored by '^' and '$'.                 *)
ExpathGlobs ==
    kind = "path" /\ pcall.fn = "expath" =>
        LET M   == {d \in DirNames : d[1] # "." /\ Glob(ToLower(d), ToLower(pcall.path))}
            res == pcall.paths
        IN  /\ \A i \in DOMAIN res : res[i] \in M
            /\ \A i \in 1 .. Len(res) - 1 : StrLess(res[i], res[i + 1])
            /\ Len(res) = IF pcall.nmax < Cardinality(M) THEN pcall.nmax ELSE Cardinality(M)


\* the blank-separated words of an antenna type, as <<start, end>> pairs
WordSpans(type) ==
    {<<a, b>> \in (1 .. Len(type)) \X (1 .. Len(type)) :
        /\ a <= b /\ \A k \in a .. b : type[k] # " "
        /\ (a = 1 \/ type[a - 1] = " ") /\ (b = Len(type) \/ type[b + 1] = " ")}
\* ts <= time <= te, each bound only where set
Holds(pcv, time) == (~Valid(pcv.ts) \/ TimeDiffSign(pcv.ts, time) <= 0) /\ (~Valid(pcv.te) \/ TimeDiffSign(pcv.te, time) >= 0)

(* searchpcv answers the query of spec 4 (PCV repository): for a         *)
(* satellite an entry of that satellite whose validity interval holds the *)
(* time, and one whenever such an entry exists; for a receiver an entry   *)
(* containing every word of the type when one does (radome-qualified),    *)
(* else one whose type starts with the antenna name, else none.  The code *)
(* tests the bounds with timediff and splits the type with strtok.        *)
PcvAsQueried ==
    kind = "path" /\ pcall.fn = "pcv" =>
        LET r == pcall.pcv
            sp == WordSpans(pcall.path)
            W  == {SubSeq(pcall.path, w[1], w[2]) : w \in sp}
            a1 == CHOOSE w \in sp : \A v \in sp : w[1] <= v[1]
            ant == SubSeq(pcall.path, a1[1], a1[2])
            Full(i) == \A w \in W : Contains(Pcvs[i].type, w)
        IN  IF pcall.sat # 0
            THEN /\ r # 0 => Pcvs[r].sat = pcall.sat /\ Holds(Pcvs[r], pcall.t)
                 /\ r = 0 => ~\E i \in DOMAIN Pcvs : Pcvs[i].sat = pcall.sat /\ Holds(Pcvs[i], pcall.t)
            ELSE IF W = {} THEN r = 0
            ELSE IF \E i \in DOMAIN Pcvs : Full(i) THEN r # 0 /\ Full(r)
            ELSE IF \E i \in DOMAIN Pcvs : FindFrom(Pcvs[i].type, ant, 1) = 1 THEN r # 0 /\ FindFrom(Pcvs[r].type, ant, 1) = 1
            ELSE r = 0

=============================================================================
