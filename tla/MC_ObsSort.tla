------------------------------ MODULE MC_ObsSort ------------------------------
(***************************************************************************)
(* Navigation data as the RINEX readers leave it (unsorted, with          *)
(* repeated ephemerides, lam computed from the lists as read) and         *)
(* observation data of a rover and a base receiver, then any sequence of  *)
(* uniqnav and sortobs calls.  One list is filled at a time: uniqnav      *)
(* treats the three independently, and lam only reads geph.               *)
(***************************************************************************)
EXTENDS ObsSort, FiniteSets

CONSTANTS
    MaxNav,     \* records in each navigation list
    MaxObs,     \* records in obs->data
    EphSats,    \* GPS-like satellites of eph
    SbsSats,    \* SBAS satellites of seph
    ObsSats,    \* satellites of obs
    Tags        \* Tags[rcv]: the epoch time tags of receiver rcv

vars == <<eph, geph, seph, nmax, lam, obs, nepoch>>

EphRecs  == [sat : EphSats, iode : {1, 2}, ttr : {0, 1}, toe : {0, 1}]
GephRecs == [sat : GloSats, toe : {0, 1}, tof : {0, 1}, svh : {0}, frq : {0, 1}]
SephRecs == [sat : SbsSats, t0 : {0, 1}, tof : {0, 1}]
ObsRecs  == UNION { [time : Tags[r], rcv : {r}, sat : ObsSats] : r \in DOMAIN Tags }

NavInit ==
    /\ \/ eph \in SeqOf(EphRecs, MaxNav) /\ geph = <<>> /\ seph = <<>>
       \/ geph \in SeqOf(GephRecs, MaxNav) /\ eph = <<>> /\ seph = <<>>
       \/ seph \in SeqOf(SephRecs, MaxNav) /\ eph = <<>> /\ geph = <<>>
    /\ nmax = [eph |-> MaxNav, geph |-> MaxNav, seph |-> MaxNav]
    /\ lam = [sat \in GloSats |-> Satwavelen(sat, geph)]

NavIdle ==
    /\ eph = <<>> /\ geph = <<>> /\ seph = <<>>
    /\ nmax = [eph |-> 0, geph |-> 0, seph |-> 0]
    /\ lam = [sat \in GloSats |-> NoWave]

Init ==
    \/ NavInit /\ obs = <<>> /\ nepoch = -1
    \/ NavIdle /\ obs \in SeqOf(ObsRecs, MaxObs) /\ nepoch = -1

Next == Uniqnav \/ Sortobs

Spec == Init /\ [][Next]_vars

EphKeys(s)  == { <<r.sat, r.iode>> : r \in ToSet(s) }
GephKeys(s) == { <<r.sat, r.toe, r.svh>> : r \in ToSet(s) }
SephKeys(s) == { <<r.sat, r.t0>> : r \in ToSet(s) }
SortedBy(s, lst) == IsSorted(s, LAMBDA a, b : Cmp(lst, a, b) <= 0)

(* Epochs of a set of observations: the groups of time tags within DTTOL *)
(* of each other (well defined when no tags chain beyond 2*DTTOL).        *)
Epochs(d) == { { r.time : r \in { q \in ToSet(d) : q.time - t <= DTTOL /\ t - q.time <= DTTOL } }
               : t \in { q.time : q \in ToSet(d) } }

(* Every uniqnav leaves each ephemeris list sorted by its comparator and  *)
(* holding exactly the (sat, iode), (sat, toe, svh) or (sat, t0) keys it  *)
(* held before, unless its realloc failed and the list was freed.         *)
UniqnavSortsAndKeeps ==
    [][ /\ SortedBy(eph', "eph") /\ SortedBy(geph', "geph") /\ SortedBy(seph', "seph")
        /\ eph' # <<>> => EphKeys(eph') = EphKeys(eph)
        /\ geph' # <<>> => GephKeys(geph') = GephKeys(geph)
        /\ seph' # <<>> => SephKeys(seph') = SephKeys(seph) ]_navVars

(* nav->lam agrees with the GLONASS ephemerides nav holds: a satellite    *)
(* has a wavelength exactly when nav has an ephemeris of it, and it is   *)
(* the one of that ephemeris' frequency channel; also after uniqgeph     *)
(* freed the list.                                                       *)
LamAgrees ==
    \A sat \in GloSats :
        /\ lam[sat] = NoWave <=> \A i \in 1 .. Len(geph) : geph[i].sat # sat
        /\ lam[sat] # NoWave => \E i \in 1 .. Len(geph) : geph[i].sat = sat /\ geph[i].frq = lam[sat]

(* sortobs keeps every distinct observation, leaves them sorted by time, *)
(* receiver and satellite with no record twice, and returns the number    *)
(* of epochs.                                                             *)
SortobsResult ==
    [][ nepoch' # -1 =>
          /\ ToSet(obs') = ToSet(obs)
          /\ SortedBy(obs', "obs")
          /\ \A i, j \in 1 .. Len(obs') : i # j => ~SameObs(obs'[i], obs'[j])
          /\ nepoch' = Cardinality(Epochs(obs')) ]_<<obs, nepoch>>
=============================================================================
