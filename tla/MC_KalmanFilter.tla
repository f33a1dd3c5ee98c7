---------------------------- MODULE MC_KalmanFilter ----------------------------
(***************************************************************************)
(* A positioning loop over three states: it starts and resets states with *)
(* initx() and runs filter() on whatever is in use.  The properties are   *)
(* about the states filter() must leave alone.                            *)
(***************************************************************************)
EXTENDS KalmanFilter

\* P entry (r, c) of the column-major array
PAt(Ps, r, c) == Ps[r + c * N]

TypeOK ==
    /\ x \in [Idx -> XV]
    /\ P \in [0 .. N * N - 1 -> PV]
    /\ info \in {0, -1}
    /\ active \subseteq Idx

(* filter() touches only the states it found in use: a state with         *)
(* x[i] = 0 or P[i+i*n] <= 0 keeps its value, its row and its column of P  *)
(* (spec 8: "masked states are untouched"), whatever filter_ returns.     *)
MaskedUntouched ==
    [][Filter =>
         \A i \in Idx : (x[i] = 0 \/ PAt(P, i, i) <= 0) =>
             /\ x'[i] = x[i]
             /\ \A j \in Idx : PAt(P', i, j) = PAt(P, i, j) /\ PAt(P', j, i) = PAt(P, j, i)]_vars

(* When H'PH+R is singular filter() returns the error and the state      *)
(* vector is as it was (filter_ copied x_ into xp_ before matinv).        *)
FailureKeepsX ==
    [][Filter /\ info' # 0 => x' = x]_vars

(* The documented contract of filter(): on an error status x and P are   *)
(* left unmodified (spec 4.3).  filter() scatters Pp_ back on both       *)
(* outcomes, and on the error outcome filter_ never wrote Pp_.           *)
FailureKeepsP ==
    [][Filter /\ info' # 0 => P' = P]_vars

(* The spec's mask (4.3): a state is excluded when x[i] = 0 and          *)
(* P[i+i*n] <= 0, so a state with only one of the two is still updated.  *)
SpecMask ==
    [][Filter => active' = {i \in Idx : ~(x[i] = 0 /\ PAt(P, i, i) <= 0)}]_vars
=============================================================================
