----------------------------- MODULE MC_EciCache -----------------------------
(***************************************************************************)
(* Callers of eci2ecef() with nearby and distant instants and two erp    *)
(* value sets: the zero erpv windupcorr passes and a set from geterp().  *)
(***************************************************************************)
EXTENDS EciCache

CONSTANTS ErpZero, ErpTable     \* model values

\* instants 5 ms apart (a cache hit), and 15 ms later (a miss)
MCTimes == {100, 101, 103}

Near(a, b) == a - b < 2 /\ b - a < 2

(* Every matrix and gmst eci2ecef returns were computed for an instant    *)
(* within the 0.01 s cache tolerance of the instant asked for, the gmst   *)
(* returned is the one the matrix was built from, and no caller gets the  *)
(* zero-initialised cache ("U: eci to ecef transformation matrix").      *)
ResultNear ==
    \A th \in Threads :
        (pc[th] = "idle" /\ result[th] # NoValue) =>
            LET r == result[th][1]
            IN /\ r # ZeroMat
               /\ Near(r.pn, arg[th].t)
               /\ Near(r.gmst.t, arg[th].t)
               /\ result[th][2] = r.gmst

=============================================================================
