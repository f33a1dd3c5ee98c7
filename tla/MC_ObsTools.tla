------------------------------ MODULE MC_ObsTools ------------------------------
(***************************************************************************)
(* The observation-handling tables as their callers meet them: either a  *)
(* program configuring code priorities and ranking codes (MC_CodePri), or *)
(* a loop over systems and PRNs converting between (system, PRN), the    *)
(* satellite number and its id string, the way the RINEX and RTCM        *)
(* decoders do; or a post-processor sorting and de-duplicating the nav    *)
(* and obs data it read (MC_ObsSort), or carrier-smoothing the          *)
(* pseudoranges of its obs data (Csmooth); or the satellite scan of a    *)
(* decoder asking satexclude of every number, or a receiver testing the  *)
(* SNR of one signal against the mask as its satellite rises; or one of *)
(* the receiver's network links (MC_Link); or the time functions of      *)
(* MC_Time.  A state holds one of these, tagged by kind; the variables of *)
(* the others keep their initial values.                                   *)
(***************************************************************************)
EXTENDS SatExclude, Csmooth, FiniteSets

CONSTANTS SnrMasks, SnrIn, MAXFREQ, MAXCODE, SysIn, FreqIn, PriIn, Opts, MaxCalls, PrnBound
CONSTANTS DTTOL, GloSats, ReallocMayFail, NoWave, MaxNav, MaxObs, EphSats, SbsSats, ObsSats, Tags
CONSTANTS NTX, NRX, MaxExchanges, ShortIO, Chans, NF, MaxDg, InOrder

VARIABLES kind, codepris, calls, probe
VARIABLES eph, geph, seph, nmax, lam, obs, nepoch
VARIABLE  cs      \* the last csmooth call: obs->data before and after, ns
VARIABLE  snrc    \* the testsnr call of the last elevation and its result
VARIABLES signal, tpc, connected, sent, tcpData, c2s, s2c, served, callOk
VARIABLES gnet, pnet, gsent, psent, channels, heard, monitorPvt, shown
VARIABLES now, steps, leaps, charSigned, expected, call, cpu, ecall, dcall, scall, pcall

sortVars == <<eph, geph, seph, nmax, lam, obs, nepoch>>
obsVars == <<codepris, calls, probe, sortVars, cs, snrc>>
LK == INSTANCE MC_Link
lnkVars == <<signal, tpc, connected, sent, tcpData, c2s, s2c, served, callOk,
             gnet, pnet, gsent, psent, channels, heard, monitorPvt, shown>>
timeVars == <<now, steps, leaps, charSigned, expected, call, cpu, ecall, dcall, scall, pcall>>
vars == <<kind, obsVars, lnkVars, timeVars>>

\* MC_Time with the inputs and bounds of its own runs (see MC_Time_usno.cfg)
TI == INSTANCE TimeInputs WITH FRAC <- 4, MAXLEAPS <- 18, Files <- {}
TM == INSTANCE MC_Time
        WITH FRAC <- 4, DEN <- 72000, MAXLEAPS <- 18, MAXANT <- 64, Weeks <- {0, 1, 1023, 2047}, MaxSteps <- 3,
             Epochs <- TI!TimeEpochs, Tows <- TI!TimeTows, Steps <- TI!TimeSteps, Files <- TI!TimeFiles
TimeIdle == TM!GIdle /\ TM!LIdle /\ TM!FIdle /\ TM!EIdle /\ TM!DIdle /\ TM!SIdle /\ TM!PIdle

CP == INSTANCE MC_CodePri
OS == INSTANCE MC_ObsSort

\* nav and obs of a program that read no file
SortIdle == OS!NavIdle /\ obs = <<>> /\ nepoch = -1

\* the PRN scan of a decoder: an unknown system stands for one that satno
\* does not know (SYS_NONE, SYS_ALL, ...)
ScanSystems == Systems \cup {"OTHER"}

\* obs records of one frequency for csmooth: satellite 1 of the rover with
\* code and carrier present or 0.0 and with or without a loss of lock
\* ((4, 2) and (5, 3) share one code-minus-carrier), satellite 2, and a
\* record of receiver 3, which csmooth skips
CsRecs ==
    { [sat |-> 1, rcv |-> 1, P |-> Q(pr, 1), L |-> l, LLI |-> lli] :
        pr \in {0, 4, 5}, l \in {0, 2, 3}, lli \in {0, 1} }
    \cup { [sat |-> 2, rcv |-> 1, P |-> Q(5, 1), L |-> 1, LLI |-> 0],
          [sat |-> 1, rcv |-> 3, P |-> Q(5, 1), L |-> 1, LLI |-> 0] }
CsMaxSat == 2
NoCs == [in |-> <<>>, ns |-> 0, out |-> <<>>, called |-> FALSE]

\* obs->data of up to three records as read, and the window size
CsInit == cs \in { [in |-> d, ns |-> ns, out |-> <<>>, called |-> FALSE] :
                     d \in SeqOf(CsRecs, 3), ns \in {1, 2, 3} }

\* testsnr again after the satellite rose by half a degree or by 3.5
\* degrees, up to 95 degrees
TestsnrCall ==
    \E step \in {1, 7} :
        /\ snrc.el2 + step <= 190
        /\ snrc' = [snrc EXCEPT !.el2 = @ + step,
                                !.res = Testsnr(snrc.base, snrc.freq, snrc.el2 + step, snrc.snr, snrc.mask)]
        /\ UNCHANGED <<kind, codepris, calls, probe, sortVars, cs>>

\* satexclude inputs: svh of no ephemeris, healthy, the QZSS LEX bit and
\* others; no options, or every satellite marked 0, 1 or 2 with all or only
\* GPS selected
SvhIn == {-1, 0, 1, 2, 3}
ExOpts == {NULL} \cup { [null |-> FALSE, exsats |-> [s \in 1 .. MAXSAT |-> v], navsys |-> ns] :
                          v \in {0, 1, 2}, ns \in {Systems, {"GPS"}} }

NoSnr == [mask |-> CHOOSE m \in SnrMasks : TRUE, base |-> 0, freq |-> -1, snr |-> 0, el2 |-> -10, res |-> 0]

\* a signal of the rover or the base, on a frequency index in or out of
\* range, first tested at -5 degrees
SnrInit == snrc \in { [mask |-> m, base |-> b, freq |-> f, snr |-> s, el2 |-> -10,
                        res |-> Testsnr(b, f, -10, s, m)] :
                          m \in SnrMasks, b \in {0, 1}, f \in {-1, 0, NFREQ - 1, NFREQ}, s \in SnrIn }

\* the call csmooth(obs, ns)
CsmoothCall ==
    /\ ~cs.called
    /\ cs' = [cs EXCEPT !.out = Csmooth(cs.in, cs.ns, CsMaxSat), !.called = TRUE]
    /\ UNCHANGED <<kind, codepris, calls, probe, sortVars, snrc>>

\* the tables of a program that called none of them
ObsIdle ==
    /\ codepris = CP!InitTable /\ calls = 0 /\ probe = [sys |-> "GPS", prn |-> -1]
    /\ SortIdle /\ cs = NoCs /\ snrc = NoSnr

ObsLinkInit ==
    \/ kind = "pri" /\ CP!MCInit /\ probe = [sys |-> "GPS", prn |-> -1] /\ SortIdle /\ cs = NoCs /\ snrc = NoSnr /\ LK!LinkIdle
    \/ kind = "sat" /\ codepris = CP!InitTable /\ calls = 0 /\ probe \in [sys : ScanSystems, prn : {-1}] /\ SortIdle /\ cs = NoCs /\ snrc = NoSnr /\ LK!LinkIdle
    \/ kind = "sort" /\ codepris = CP!InitTable /\ calls = 0 /\ probe = [sys |-> "GPS", prn |-> -1] /\ OS!Init /\ cs = NoCs /\ snrc = NoSnr /\ LK!LinkIdle
    \/ kind = "smooth" /\ codepris = CP!InitTable /\ calls = 0 /\ probe = [sys |-> "GPS", prn |-> -1] /\ SortIdle /\ CsInit /\ snrc = NoSnr /\ LK!LinkIdle
    \/ kind = "snr" /\ codepris = CP!InitTable /\ calls = 0 /\ probe = [sys |-> "GPS", prn |-> -1] /\ SortIdle /\ cs = NoCs /\ SnrInit /\ LK!LinkIdle
    \/ LK!Init /\ ObsIdle

Init ==
    \/ ObsLinkInit /\ TimeIdle
    \/ TM!TimeInit /\ ObsIdle /\ LK!LinkIdle

\* the next PRN of the scan
NextPrn ==
    /\ probe.prn < PrnBound
    /\ probe' = [probe EXCEPT !.prn = @ + 1]
    /\ UNCHANGED <<codepris, calls>>

ObsNext ==
    \/ kind = "pri" /\ CP!MCNext /\ UNCHANGED <<kind, probe, sortVars, cs, snrc>>
    \/ kind = "sat" /\ NextPrn /\ UNCHANGED <<kind, sortVars, cs, snrc>>
    \/ kind = "sort" /\ OS!Next /\ UNCHANGED <<kind, codepris, calls, probe, cs, snrc>>
    \/ kind = "smooth" /\ CsmoothCall
    \/ kind = "smooth" /\ cs.called /\ UNCHANGED vars
    \/ kind = "sat" /\ probe.prn = PrnBound /\ UNCHANGED vars
    \/ kind = "snr" /\ TestsnrCall
    \/ kind = "snr" /\ snrc.el2 = 190 /\ UNCHANGED vars

\* the table kinds, each with the links and the time functions idle; or a
\* link, or a time kind, with the others idle
Next ==
    \/ ObsNext /\ UNCHANGED <<lnkVars, timeVars>>
    \/ kind \in {"tcp", "table", "values"} /\ LK!Next /\ UNCHANGED <<obsVars, timeVars>>
    \/ TM!TimeNext /\ UNCHANGED <<obsVars, lnkVars>>

Spec == Init /\ [][Next]_vars /\ LK!LinkFairness

\* rtklib.h's DTTOL (0.005 s) in ms; time tags of a rover and a base receiver
\* a few ms apart, never three within 2*DTTOL
MCTags == <<{0, 1000}, {4, 1000}>>

\* request sizes of the two signals, as in MC_Link
MCNTX == [gal |-> 5, gps |-> 4]

\* rtklib.h's PRN ranges, as in RTKLIB 2.4.3 with no LEO satellites
MCMin  == [GPS |-> 1, GLO |-> 1, GAL |-> 1, QZS |-> 193, BDS |-> 1, IRN |-> 1, LEO |-> 0, SBS |-> 120]
MCMax  == [GPS |-> 32, GLO |-> 27, GAL |-> 36, QZS |-> 202, BDS |-> 63, IRN |-> 14, LEO |-> 0, SBS |-> 158]
MCNsat == [s \in DOMAIN MCMin |-> IF s = "LEO" THEN 0 ELSE MCMax[s] - MCMin[s] + 1]
\* setcodepri inputs: system masks, priority strings of 0, 3 and 14 codes
\* (15 and 16 codes for the violation run) and receiver options.
ALL == {"GPS", "GLO", "GAL", "QZS", "SBS", "BDS", "IRN", "LEO"}
P3  == <<"X", "Q", "I">>
P14 == <<"C","P","W","Y","M","N","S","L","E","A","B","X","Z","I">>
P15 == P14 \o <<"Q">>
P16 == P15 \o <<"D">>
\* SNR masks in dBHz at 5, 15, ..., 85 degrees: one enabled for the rover
\* only, falling on frequency 0 and rising on the others; one enabled for
\* both, with steps and flat stretches
Falling1 == <<50, 48, 45, 42, 40, 38, 35, 33, 30>>
Falling2 == <<45, 45, 40, 40, 40, 35, 35, 30, 30>>
Rising   == <<30, 32, 35, 38, 40, 42, 45, 48, 50>>
MCSnrMasks ==
    { [ena |-> [b \in {0, 1} |-> b = 0], mask |-> [f \in 0 .. NFREQ - 1 |-> IF f = 0 THEN Falling1 ELSE Rising]],
      [ena |-> [b \in {0, 1} |-> TRUE], mask |-> [f \in 0 .. NFREQ - 1 |-> IF f = 0 THEN Falling2 ELSE Falling1]] }
MCSysIn  == {{"GPS"}, {"GLO", "GAL"}, ALL, {"LEO"}}
MCPriIn  == {<<>>, P3, P14}
MCPriInLong == MCPriIn \cup {P15, P16}
MCOpts ==
    { <<>>,
      << [sys |-> "G", str |-> <<"1", "P">>] >>,
      << [sys |-> "R", str |-> <<"2">>], [sys |-> "G", str |-> <<"1", "C">>],
         [sys |-> "G", str |-> <<"1", "W">>] >> }

(* setcodepri implements CodePriAbs (see MC_CodePri).                     *)
CodePriRefines == CP!CodePriRefines

(* obs2code and code2obs are inverse over the codes 1..MAXCODE: every    *)
(* code has its own string in obscodes[] and obs2code's search, which     *)
(* stops at the first empty string, reaches it.                           *)
CodeRoundTrip ==
    kind = "pri" /\ calls = 0 =>
        \A code \in 1 .. MAXCODE : CP!Obs2Code(CP!Code2Obs(code).obs) = [code |-> code, freq |-> CP!Code2Obs(code).freq]

(* satno numbers exactly the PRNs in their system's range, and satsys     *)
(* inverts it; satsys of every number 1..MAXSAT is a (system, PRN) that    *)
(* satno maps back to it.  Both walk the same per-system counts in the    *)
(* same order, by different arithmetic.                                   *)
SatnoRoundTrip ==
    kind = "sat" =>
        LET n == Satno(probe.sys, probe.prn)
        IN /\ n \in 0 .. MAXSAT
           /\ (n # 0) = (probe.sys \in Systems /\ probe.prn > 0
                         /\ MINPRN[probe.sys] <= probe.prn /\ probe.prn <= MAXPRN[probe.sys])
           /\ n # 0 => Satsys(n) = [sys |-> probe.sys, prn |-> probe.prn]
           /\ probe.prn \in 1 .. MAXSAT =>
                 Satno(Satsys(probe.prn).sys, Satsys(probe.prn).prn) = probe.prn

(* The id satno2id prints for every satellite number reads back to it    *)
(* with satid2no: the letter paths undo the PRN offsets, and an SBAS     *)
(* number printed bare is not taken for a GPS or QZSS one.                *)
SatIdRoundTrip ==
    kind = "sat" /\ probe.prn \in 1 .. MAXSAT => Satid2no(Satno2id(probe.prn)) = probe.prn
(* Every uniqnav sorts each ephemeris list and keeps its keys (see       *)
(* MC_ObsSort).                                                           *)
UniqnavSortsAndKeeps == OS!UniqnavSortsAndKeeps

(* nav->lam agrees with the GLONASS ephemerides nav holds, also after a   *)
(* failed realloc in uniqgeph (see MC_ObsSort).                           *)
LamAgrees == kind = "sort" => OS!LamAgrees

(* sortobs keeps every distinct observation, sorts them, drops repeats    *)
(* and returns the number of epochs (see MC_ObsSort).                     *)
SortobsResult == OS!SortobsResult
\* the records of the arc of record i as csmooth forms it: those of its
\* receiver and satellite that csmooth takes, from the last of them with a
\* loss of lock up to i
SameKey(d, i, k) == d[i].sat = d[k].sat /\ d[i].rcv = d[k].rcv
ArcStart(d, i) ==
    LET slips == { k \in 1 .. i : SameKey(d, i, k) /\ ~Skipped(d[k], CsMaxSat) /\ d[k].LLI # 0 }
    IN  IF slips = {} THEN 1 ELSE Max(slips)
Arc(d, i) == { k \in ArcStart(d, i) .. i : SameKey(d, i, k) /\ ~Skipped(d[k], CsMaxSat) }

\* the same arc, started afresh at every record of the receiver and
\* satellite that flags a loss of lock, taken by csmooth or not
LliArcStart(d, i) ==
    LET slips == { k \in 1 .. i : SameKey(d, i, k) /\ d[k].LLI # 0 }
    IN  IF slips = {} THEN 1 ELSE Max(slips)
LliArc(d, i) == { k \in LliArcStart(d, i) .. i : SameKey(d, i, k) /\ ~Skipped(d[k], CsMaxSat) }

(* csmooth leaves the records it skips alone, and outputs 0.0 for exactly  *)
(* the first ns - 1 records of each arc of a receiver and satellite, an    *)
(* arc starting afresh at every loss of lock (the Hatch filter restarts    *)
(* at a cycle slip; csmooth's loop resets n[][] on a nonzero LLI).  It     *)
(* tests P == 0.0 || L == 0.0 before the LLI, so a slip flagged on a       *)
(* record it skips does not restart the arc.                               *)
CsmoothWarmup ==
    kind = "smooth" /\ cs.called =>
        \A i \in 1 .. Len(cs.in) :
            IF Skipped(cs.in[i], CsMaxSat) THEN cs.out[i] = cs.in[i]
            ELSE cs.out[i].P = Q(0, 1) <=> Cardinality(LliArc(cs.in, i)) < cs.ns

(* The Hatch filter is unbiased: over an arc, as csmooth forms it, whose  *)
(* code minus carrier is constant, every smoothed pseudorange equals the  *)
(* raw one.                                                               *)
CsmoothUnbiased ==
    kind = "smooth" /\ cs.called =>
        \A i \in 1 .. Len(cs.in) :
            /\ ~Skipped(cs.in[i], CsMaxSat)
            /\ Cardinality(Arc(cs.in, i)) >= cs.ns
            /\ \A k \in Arc(cs.in, i) : cs.in[k].P.num - cs.in[k].L = cs.in[i].P.num - cs.in[i].L
            => QEq(cs.out[i].P, cs.in[i].P)

\* mask->mask[freq] never rises with the elevation
Descending(c) ==
    c.freq \in 0 .. NFREQ - 1 => \A k \in 1 .. 8 : c.mask.mask[c.freq][k] >= c.mask.mask[c.freq][k + 1]

(* With an SNR mask that falls with the elevation, a signal testsnr let  *)
(* through is let through again once its satellite has risen, across the *)
(* 10-degree nodes of the mask: the interpolation is continuous there.    *)
SnrRisingPasses ==
    [][kind = "snr" /\ snrc.res = 0 /\ Descending(snrc) => snrc'.res = 0]_vars

(* UdpMonitor: with in-order delivery, print_table shows for each channel *)
(* the newest valid record parsed (populate_channels).                    *)
ChannelShowsLatest == LK!ChannelShowsLatest

(* UdpMonitor: the values column never mixes the fields of two datagrams  *)
(* (print_values_column after a failed read_monitor_pvt).                  *)
ValuesNeverTorn == LK!ValuesNeverTorn

\* The time kinds' properties, as MC_Time states them.
\* Every reached gtime_t is normalised and the leap table keeps its sentinel.
TimeTypeOK == TM!TypeOK
\* epoch2time and time2epoch invert each other over 1970..2099.
EpochRoundTrip == TM!EpochRoundTrip
\* gpst2utc undoes utc2gpst after every read_leaps reload.
RoundTrip == TM!RoundTrip
\* time2str prints the instant it was given, rounded to n decimals.
TimeStrFaithful == TM!TimeStrFaithful
\* time2sec splits the instant at the day start; time2doy counts from January 1st.
DayPartsAgree == TM!DayPartsAgree
\* adjgpsweek picks the full week of the same residue nearest the cpu time's week.
AdjWeekNearest == TM!AdjWeekNearest
\* geterp interpolates the table between the rows around the time.
ErpMatchesTable == TM!ErpMatchesTable
\* deg2dms output, read back as degrees, is the angle to the rounding.
DmsReadsBack == TM!DmsReadsBack
\* str2time of a printed epoch reads that epoch back, or fails as the code does.
Str2timeReadsEpoch == TM!Str2timeReadsEpoch
\* reppaths returns the path of every instant of [ts, te] on its step (MC_Time)
ReppathsCovers == TM!ReppathsCovers
\* expath returns the sorted glob matches of the directory, up to nmax (MC_Time)
ExpathGlobs == TM!ExpathGlobs
\* searchpcv answers the PCV query of the spec (MC_Time)
PcvAsQueried == TM!PcvAsQueried
\* timediffweekcrossover moves t - toe by whole weeks into the half-week range (MC_Time)
CrossoverNearest == TM!CrossoverNearest
=============================================================================
