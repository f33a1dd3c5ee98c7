----------------------------- MODULE KalmanFilter -----------------------------
(***************************************************************************)
(* filter() of rtklib_rtkcmn.cc: a Kalman update of the state x (n) and   *)
(* its covariance P (n x n, column-major) restricted to the states that   *)
(* are in use, x[i] != 0 and P[i+i*n] > 0.  Their indices are compacted   *)
(* into ix, x/P are gathered into k-sized work buffers, filter_() runs on *)
(* them and the results are scattered back.                               *)
(*                                                                         *)
(* The floating-point values are abstracted to small sets: a value 0 of a *)
(* P entry stands for any value <= 0.  The kernel filter_() is a          *)
(* nondeterministic step: when H'PH+R inverts (info = 0) the active       *)
(* states take new values; when it does not, xp_ keeps the copy of x_    *)
(* made before the inversion and Pp_ is left as mat() allocated it,       *)
(* uninitialised (any contents).  The caller's initx(), which starts or    *)
(* resets a state, lives in the positioning code that uses filter().     *)
(***************************************************************************)
EXTENDS Integers, Sequences

CONSTANTS
    N,          \* number of states n
    XV,         \* values a state may hold (0 = unused)
    PV          \* values a covariance entry may hold (0 = "<= 0")

ASSUME 0 \in XV /\ 0 \in PV

VARIABLES x, P, info, active

vars == <<x, P, info, active>>

Idx == 0 .. N - 1

\* ix: the in-use state indices in increasing order (for (i=k=0;i<n;i++))
IxOf(xs, Ps) ==
    SelectSeq([p \in 1 .. N |-> p - 1], LAMBDA i : xs[i] # 0 /\ Ps[i + i * N] > 0)

\* x_[i] = x[ix[i]]
GatherX(xs, ix) == [i \in 0 .. Len(ix) - 1 |-> xs[ix[i + 1]]]

\* P_[i+j*k] = P[ix[i]+ix[j]*n]
GatherP(Ps, ix) ==
    LET k == Len(ix)
    IN [c \in 0 .. k * k - 1 |-> Ps[ix[(c % k) + 1] + ix[(c \div k) + 1] * N]]

\* mutant: x[i] = xp_[i], the ix[] indirection forgotten on the way back
ScatterXNoIx(xs, ix, xp) ==
    [r \in Idx |-> IF r < Len(ix) THEN xp[r] ELSE xs[r]]

\* x[ix[i]] = xp_[i]
ScatterX(xs, ix, xp) ==
    [r \in Idx |-> IF \E i \in 1 .. Len(ix) : ix[i] = r
                   THEN xp[CHOOSE i \in 0 .. Len(ix) - 1 : ix[i + 1] = r]
                   ELSE xs[r]]

\* P[ix[i]+ix[j]*n] = Pp_[i+j*k]
ScatterP(Ps, ix, Pp) ==
    LET k == Len(ix)
        pos(r) == CHOOSE i \in 0 .. k - 1 : ix[i + 1] = r
        inIx(r) == \E i \in 1 .. k : ix[i] = r
    IN [c \in 0 .. N * N - 1 |->
          IF inIx(c % N) /\ inIx(c \div N)
          THEN Pp[pos(c % N) + pos(c \div N) * k]
          ELSE Ps[c]]

\* mutant: matcpy(xp, x) moved into the success branch
KernelOutcomesLateCopy(k, xk, Pk) ==
         { [info |-> 0, xp |-> xn,
            Pp |-> [c \in 0 .. k * k - 1 |-> IF c % (k + 1) = 0 THEN d[c \div (k + 1)] ELSE h]] :
             xn \in [0 .. k - 1 -> XV \ {0}], d \in [0 .. k - 1 -> PV], h \in PV }
    \cup
         { [info |-> -1, xp |-> xu, Pp |-> [c \in 0 .. k * k - 1 |-> g]] :
             xu \in [0 .. k - 1 -> XV], g \in PV }

(* filter_(): the outcomes of the update of a k-state problem.  xp_ is a  *)
(* copy of x_ made before matinv; on success K*v is added to it and the   *)
(* whole block Pp_ = (I-K*H')*P is written: any variances (rounding may  *)
(* also cost one its positivity) and covariances.  No guard reads a       *)
(* covariance, so the block's are given one value h.  On failure Pp_ is   *)
(* never written.                                                         *)
KernelOutcomes(k, xk, Pk) ==
         { [info |-> 0, xp |-> xn,
            Pp |-> [c \in 0 .. k * k - 1 |-> IF c % (k + 1) = 0 THEN d[c \div (k + 1)] ELSE h]] :
             xn \in [0 .. k - 1 -> XV \ {0}], d \in [0 .. k - 1 -> PV], h \in PV }
    \cup
         { [info |-> -1, xp |-> xk, Pp |-> [c \in 0 .. k * k - 1 |-> g]] : g \in PV }

(* filter(): gather, update, scatter; the scatter runs on both outcomes. *)
Filter ==
    LET ix == IxOf(x, P)
    IN \E o \in KernelOutcomes(Len(ix), GatherX(x, ix), GatherP(P, ix)) :
          /\ x' = ScatterX(x, ix, o.xp)
          /\ P' = ScatterP(P, ix, o.Pp)
          /\ info' = o.info
          /\ active' = {ix[i] : i \in 1 .. Len(ix)}

\* mutant: the row/column loop of initx runs to j <= nx
InitXOverrun(i, xi, var) ==
    /\ x' = [x EXCEPT ![i] = xi]
    /\ P' = [c \in 0 .. N * N |->
               IF c % N = i /\ c \div N = i THEN var
               ELSE IF c % N = i \/ c \div N = i \/ c = N * N THEN 0
               ELSE P[c]]
    /\ UNCHANGED <<info, active>>

(* initx(rtk, xi, var, i) of the caller: x[i] = xi, row and column i of *)
(* P zero but P[i+i*n] = var.  initx(rtk, 0, 0, i) resets a state.       *)
InitX(i, xi, var) ==
    /\ x' = [x EXCEPT ![i] = xi]
    /\ P' = [c \in 0 .. N * N - 1 |->
               IF c % N = i /\ c \div N = i THEN var
               ELSE IF c % N = i \/ c \div N = i THEN 0
               ELSE P[c]]
    /\ UNCHANGED <<info, active>>

Init ==
    /\ x = [i \in Idx |-> 0]
    /\ P = [c \in 0 .. N * N - 1 |-> 0]
    /\ info = 0
    /\ active = {}

Next ==
    \/ Filter
    \/ \E i \in Idx, xi \in XV, var \in PV : InitX(i, xi, var)

Spec == Init /\ [][Next]_vars
=============================================================================
