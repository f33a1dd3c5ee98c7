------------------------------- MODULE ObsSort -------------------------------
(***************************************************************************)
(* Sorting and de-duplication of navigation and observation data:        *)
(* uniqnav (uniqeph, uniqgeph, uniqseph, then the carrier wavelengths of  *)
(* nav->lam) and sortobs.  Records keep only the fields the comparators   *)
(* and the de-duplication read; times are integers of one unit (ms for   *)
(* observation epochs).  qsort is the C library's: with a comparator     *)
(* that is a total preorder on the array it yields one of the sorted     *)
(* permutations (equal records in any order); with one that is not, the  *)
(* behaviour is undefined and any permutation is taken as its outcome.   *)
(***************************************************************************)
EXTENDS Integers, Sequences, SequencesExt, TLC

CONSTANTS
    DTTOL,          \* tolerance of time difference, in the obs time unit
    GloSats,        \* GLONASS satellite numbers whose wavelength is kept
    ReallocMayFail, \* whether the shrinking realloc of uniq*eph may fail
    NoWave          \* satwavelen returned 0.0: no ephemeris of the sat

VARIABLES
    eph, geph, seph,     \* nav->eph[0..n-1], nav->geph[..], nav->seph[..]
    nmax,                \* [eph |-> nav->nmax, geph |-> ngmax, seph |-> nsmax]
    lam,                 \* nav->lam[sat-1][0] of GloSats, as a channel number
    obs,                 \* obs->data[0..n-1]
    nepoch               \* last value returned by sortobs (-1: not called)

navVars == <<eph, geph, seph, nmax, lam>>

(* qsort(base, n, size, cmp) *)
Orderings(s) == { [i \in 1 .. Len(s) |-> s[p[i]]] : p \in Permutations(1 .. Len(s)) }
Sign(x) == IF x < 0 THEN -1 ELSE IF x > 0 THEN 1 ELSE 0

(* cmpeph, cmpgeph, cmpseph: by transmission/frame time, then toe/t0, sat *)
CmpEph(q1, q2) ==
    IF q1.ttr # q2.ttr THEN q1.ttr - q2.ttr
    ELSE IF q1.toe # q2.toe THEN q1.toe - q2.toe ELSE q1.sat - q2.sat
CmpGeph(q1, q2) ==
    IF q1.tof # q2.tof THEN q1.tof - q2.tof
    ELSE IF q1.toe # q2.toe THEN q1.toe - q2.toe ELSE q1.sat - q2.sat
CmpSeph(q1, q2) ==
    IF q1.tof # q2.tof THEN q1.tof - q2.tof
    ELSE IF q1.t0 # q2.t0 THEN q1.t0 - q2.t0 ELSE q1.sat - q2.sat

\* mutant: the de-duplication ignores iode
SameEphNoIode(a, b) == a.sat = b.sat
SameEph(a, b) == a.sat = b.sat /\ a.iode = b.iode
SameGeph(a, b) == a.sat = b.sat /\ a.toe = b.toe /\ a.svh = b.svh
SameSeph(a, b) == a.sat = b.sat /\ a.t0 = b.t0

(* cmpobs: by time unless within DTTOL, then receiver, then satellite.    *)
CmpObs(q1, q2) ==
    LET tt == q1.time - q2.time
    IN  IF tt > DTTOL \/ tt < -DTTOL THEN Sign(tt)
        ELSE IF q1.rcv # q2.rcv THEN q1.rcv - q2.rcv ELSE q1.sat - q2.sat

\* mutant: the de-duplication ignores the time tag
SameObsNoTime(a, b) == a.sat = b.sat /\ a.rcv = b.rcv
SameObs(a, b) == a.sat = b.sat /\ a.rcv = b.rcv /\ a.time = b.time

\* the comparator and the duplicate test of each list: "eph", "geph",
\* "seph" or "obs"
Cmp(lst, a, b) ==
    CASE lst = "eph" -> CmpEph(a, b) [] lst = "geph" -> CmpGeph(a, b)
      [] lst = "seph" -> CmpSeph(a, b) [] lst = "obs" -> CmpObs(a, b)
Same(lst, a, b) ==
    CASE lst = "eph" -> SameEph(a, b) [] lst = "geph" -> SameGeph(a, b)
      [] lst = "seph" -> SameSeph(a, b) [] lst = "obs" -> SameObs(a, b)

IsPreorder(s, lst) ==
    \A i, j, k \in 1 .. Len(s) :
        /\ Sign(Cmp(lst, s[i], s[j])) = -Sign(Cmp(lst, s[j], s[i]))
        /\ (Cmp(lst, s[i], s[j]) <= 0 /\ Cmp(lst, s[j], s[k]) <= 0) => Cmp(lst, s[i], s[k]) <= 0
Qsort(s, lst) ==
    IF IsPreorder(s, lst)
    THEN { o \in Orderings(s) : \A i \in 1 .. Len(o) - 1 : Cmp(lst, o[i], o[i + 1]) <= 0 }
    ELSE Orderings(s)

(* The loop "if (a[i] differs from a[j]) a[++j] = a[i]": each record is   *)
(* compared with the last one kept.                                       *)
Uniq(s, lst) ==
    FoldLeft(LAMBDA kept, r : IF Same(lst, r, Last(kept)) THEN kept ELSE Append(kept, r),
             <<Head(s)>>, Tail(s))

(* uniqeph/uniqgeph/uniqseph on one list with its capacity: the possible  *)
(* [list, max] after the call.  n <= 0 returns at once; a failed realloc  *)
(* frees the list and zeroes n and nmax.                                  *)
UniqList(s, max, lst) ==
    IF Len(s) <= 0 THEN {[list |-> s, max |-> max]}
    ELSE { [list |-> u, max |-> Len(u)] : u \in { Uniq(o, lst) : o \in Qsort(s, lst) } }
         \cup (IF ReallocMayFail THEN {[list |-> <<>>, max |-> 0]} ELSE {})

Uniqeph(s, max)  == UniqList(s, max, "eph")
Uniqgeph(s, max) == UniqList(s, max, "geph")
Uniqseph(s, max) == UniqList(s, max, "seph")

(* satwavelen(sat, 0, nav) for a GLONASS satellite: from the frequency    *)
(* channel of the first geph of that satellite, 0.0 when there is none.   *)
Satwavelen(sat, g) ==
    LET is == { i \in 1 .. Len(g) : g[i].sat = sat }
    IN  IF is = {} THEN NoWave ELSE g[Min(is)].frq

\* mutant: lam computed from the geph list as it was before uniqgeph
UniqnavLamFirst ==
    \E e \in Uniqeph(eph, nmax.eph),
       g \in Uniqgeph(geph, nmax.geph),
       s \in Uniqseph(seph, nmax.seph) :
        /\ eph' = e.list /\ geph' = g.list /\ seph' = s.list
        /\ nmax' = [eph |-> e.max, geph |-> g.max, seph |-> s.max]
        /\ lam' = [sat \in GloSats |-> Satwavelen(sat, geph)]
        /\ UNCHANGED <<obs, nepoch>>

(* uniqnav: the three uniq calls in order, then lam from the new geph.    *)
Uniqnav ==
    \E e \in Uniqeph(eph, nmax.eph),
       g \in Uniqgeph(geph, nmax.geph),
       s \in Uniqseph(seph, nmax.seph) :
        /\ eph' = e.list /\ geph' = g.list /\ seph' = s.list
        /\ nmax' = [eph |-> e.max, geph |-> g.max, seph |-> s.max]
        /\ lam' = [sat \in GloSats |-> Satwavelen(sat, g.list)]
        /\ UNCHANGED <<obs, nepoch>>

(* The epoch-counting loop of sortobs: an epoch runs from data[i] to the  *)
(* first record more than DTTOL after it.                                 *)
RECURSIVE EpochsFrom(_, _)
EpochsFrom(d, i) ==
    IF i > Len(d) THEN 0
    ELSE LET later == { j \in i + 1 .. Len(d) : d[j].time - d[i].time > DTTOL }
         IN  1 + EpochsFrom(d, IF later = {} THEN Len(d) + 1 ELSE Min(later))

Sortobs ==
    /\ IF Len(obs) <= 0
       THEN nepoch' = 0 /\ UNCHANGED obs
       ELSE \E o \in Qsort(obs, "obs") :
                LET u == Uniq(o, "obs")
                IN  obs' = u /\ nepoch' = EpochsFrom(u, 1)
    /\ UNCHANGED navVars
=============================================================================
