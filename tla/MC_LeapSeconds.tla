---------------------------- MODULE MC_LeapSeconds ----------------------------
(***************************************************************************)
(* Leap-second table reloads from small text and USNO files, in any      *)
(* order and any number of times, in builds with signed and with unsigned *)
(* char; the properties probe gpst2utc/utc2gpst around every leap date.   *)
(***************************************************************************)
EXTENDS LeapSeconds

\* UTC probe instants: 1 s and 1/FRAC s either side of every leap date
Probes ==
    { TimeAdd(Epoch2Time(<<r[1], r[2], r[3], 0, 0, 0>>), k) :
        r \in {<<2017, 1, 1>>, <<2015, 7, 1>>, <<2012, 7, 1>>, <<1981, 7, 1>>, <<2009, 1, 1>>},
        k \in {-FRAC, -1, 0, 1} }

(* The type of the table, and its last row leaps[MAXLEAPS] is a zero      *)
(* year: gpst2utc and utc2gpst walk for (i=0;leaps[i][0]>0;i++) with no   *)
(* other bound, so this row is what keeps every walk inside the array.    *)
TypeOK ==
    /\ leaps \in [0 .. MAXLEAPS -> [ep : Seq(Int), ls : Int]]
    /\ charSigned \in BOOLEAN
    /\ leaps[MAXLEAPS].ep[1] = 0

(* utc2gpst then gpst2utc gives back every UTC instant, whatever file was *)
(* loaded last and whatever the build's char: the two walks of the table *)
(* pick the same row (read_leaps notes: "descending order").             *)
RoundTrip ==
    \A u \in Probes : Gpst2Utc(Utc2Gpst(u)) = u

(* utc2gpst applies the offset the last loaded file states for that date *)
(* (read_leaps: "The date and time indicate the start UTC time for the    *)
(* UTC-GPST"; spec 6: USNO rows converted via 19 - TAI-UTC).              *)
OffsetAsStated ==
    \A u \in Probes : Utc2Gpst(u) = Utc2GpstFrom(expected, u, 1)
=============================================================================
