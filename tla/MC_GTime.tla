------------------------------- MODULE MC_GTime -------------------------------
(***************************************************************************)
(* A caller of the TimeSystem conversions: it sets an instant from a      *)
(* calendar epoch or from a GPS/Galileo/BeiDou week and seconds of week,  *)
(* and moves it with timeadd, the way a receiver stamps and advances its  *)
(* observation epochs.  The properties compare each reachable instant     *)
(* with its conversions back and forth.                                   *)
(***************************************************************************)
EXTENDS GTime

CONSTANTS
    Epochs,     \* calendar inputs {y,m,d,h,min,sec numerator}
    Weeks,      \* week numbers handed to gpst2time/gst2time/bdt2time
    Tows,       \* seconds-of-week numerators handed to them
    Steps,      \* timeadd increments (numerators)
    MaxSteps    \* bound on the number of timeadd calls

VARIABLES now, steps

vars == <<now, steps>>

\* last representable second of 2099 (epoch2time is defined to 2099)
TEnd == Epoch2Time(<<2099, 12, 31, 23, 59, 59 * FRAC>>)

Init ==
    /\ now \in {Epoch2Time(ep) : ep \in Epochs}
    /\ steps = 0

SetEpoch(ep) ==
    /\ now' = Epoch2Time(ep)
    /\ UNCHANGED steps

SetGpsWeek(w, s) ==
    /\ now' = Gpst2Time(w, s)
    /\ UNCHANGED steps

SetGalWeek(w, s) ==
    /\ now' = Gst2Time(w, s)
    /\ UNCHANGED steps

SetBdsWeek(w, s) ==
    /\ now' = Bdt2Time(w, s)
    /\ UNCHANGED steps

Advance(d) ==
    /\ steps < MaxSteps
    /\ 0 <= TimeAdd(now, d).day
    /\ TimeDiffSign(TimeAdd(now, d), TEnd) <= 0
    /\ now' = TimeAdd(now, d)
    /\ steps' = steps + 1

Next ==
    \/ \E ep \in Epochs : SetEpoch(ep)
    \/ \E w \in Weeks, s \in Tows : SetGpsWeek(w, s)
    \/ \E w \in Weeks, s \in Tows : SetGalWeek(w, s)
    \/ \E w \in Weeks, s \in Tows : SetBdsWeek(w, s)
    \/ \E d \in Steps : Advance(d)

Spec == Init /\ [][Next]_vars

TypeOK ==
    /\ now.day \in Int
    /\ now.sod \in 0 .. 86399
    /\ now.sec \in -FRAC + 1 .. FRAC - 1
    /\ steps \in 0 .. MaxSteps

(* The gtime_t invariant of the data model: the sub-second part of every *)
(* instant is in [0, 1) (spec 3, "Instant").  gpst2time/gst2time/bdt2time *)
(* keep sec - (int)sec, which is negative for a negative seconds of week. *)
Normalized == 0 <= now.sec /\ now.sec < FRAC

(* time2epoch then epoch2time gives back the same gtime_t, for every      *)
(* normalised instant of 1970..2099 reached by epoch2time, the week        *)
(* conversions and timeadd (spec 8, first round-trip property).          *)
EpochRoundTrip ==
    (Normalized /\ 0 <= now.day /\ TimeDiffSign(now, TEnd) <= 0)
        => Epoch2Time(Time2Epoch(now)) = now

(* time2gpst/time2gst/time2bdt then gpst2time/gst2time/bdt2time give back *)
(* the same instant, for instants of 1970..2099 at or after the system's  *)
(* week zero, whatever the build does with an overflowing int product:    *)
(* time2gpst's header promises the time of week in seconds.              *)
WeekRoundTrip ==
    \A ref \in {GPST0, GST0, BDT0} :
        (Normalized /\ TimeDiffSign(now, Epoch2Time(ref)) >= 0)
            => \A ws \in Time2WeekSecs(ref, now) : WeekSec2TimeK(ref, ws[1], ws[2], ws[3]) = now

=============================================================================
