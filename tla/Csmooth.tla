------------------------------ MODULE Csmooth ------------------------------
(***************************************************************************)
(* csmooth: carrier smoothing of the pseudoranges of obs->data by the     *)
(* Hatch filter, on exact rationals.  One frequency is modelled (the loop *)
(* over j runs the same steps on independent arrays), and the carrier is *)
(* given in units of its wavelength times LAM_CARR[j] so that dcp = L -   *)
(* Lp.  A record is [sat, rcv, P, L, LLI]; P is a rational.  The local    *)
(* arrays n, Ps, Lp start at zero on every call.                           *)
(***************************************************************************)
EXTENDS RatArith, SequencesExt

\* the zeroed local arrays n[2][maxsat], Ps[..], Lp[..]
Zeroed(maxsat) == [k \in (1 .. 2) \X (1 .. maxsat) |-> [n |-> 0, Ps |-> Q(0, 1), Lp |-> 0]]

\* the continue conditions of the loop body
Skipped(p, maxsat) ==
    \/ p.sat <= 0 \/ maxsat < p.sat \/ p.rcv <= 0 \/ 2 < p.rcv
    \/ p.P.num = 0 \/ p.L = 0

\* mutant: a loss of lock does not restart the count
CsStepNoLli(acc, p, ns, maxsat) ==
    IF Skipped(p, maxsat) THEN [acc EXCEPT !.out = Append(@, p)]
    ELSE LET k  == <<p.rcv, p.sat>>
             n0 == acc.st[k].n
             Ps == IF n0 = 0 THEN p.P
                   ELSE QAdd(QDiv(p.P, Q(ns, 1)),
                             QMul(QAdd(acc.st[k].Ps, Q(p.L - acc.st[k].Lp, 1)), Q(ns - 1, ns)))
         IN  [st  |-> [acc.st EXCEPT ![k] = [n |-> n0 + 1, Ps |-> Ps, Lp |-> p.L]],
              out |-> Append(acc.out, [p EXCEPT !.P = IF n0 + 1 < ns THEN Q(0, 1) ELSE Ps])]

\* mutant: the carrier difference taken as Lp - L
CsStepSwapped(acc, p, ns, maxsat) ==
    IF Skipped(p, maxsat) THEN [acc EXCEPT !.out = Append(@, p)]
    ELSE LET k  == <<p.rcv, p.sat>>
             n0 == IF p.LLI # 0 THEN 0 ELSE acc.st[k].n
             Ps == IF n0 = 0 THEN p.P
                   ELSE QAdd(QDiv(p.P, Q(ns, 1)),
                             QMul(QAdd(acc.st[k].Ps, Q(acc.st[k].Lp - p.L, 1)), Q(ns - 1, ns)))
         IN  [st  |-> [acc.st EXCEPT ![k] = [n |-> n0 + 1, Ps |-> Ps, Lp |-> p.L]],
              out |-> Append(acc.out, [p EXCEPT !.P = IF n0 + 1 < ns THEN Q(0, 1) ELSE Ps])]

(* One pass of the loop body for record p: reset n on a loss of lock,    *)
(* start from P or apply Ps = P/ns + (Ps + dcp)(ns-1)/ns, count the       *)
(* sample, output 0.0 until ns samples were taken, keep L as Lp.          *)
CsStep(acc, p, ns, maxsat) ==
    IF Skipped(p, maxsat) THEN [acc EXCEPT !.out = Append(@, p)]
    ELSE LET k  == <<p.rcv, p.sat>>
             n0 == IF p.LLI # 0 THEN 0 ELSE acc.st[k].n
             Ps == IF n0 = 0 THEN p.P
                   ELSE QAdd(QDiv(p.P, Q(ns, 1)),
                             QMul(QAdd(acc.st[k].Ps, Q(p.L - acc.st[k].Lp, 1)), Q(ns - 1, ns)))
         IN  [st  |-> [acc.st EXCEPT ![k] = [n |-> n0 + 1, Ps |-> Ps, Lp |-> p.L]],
              out |-> Append(acc.out, [p EXCEPT !.P = IF n0 + 1 < ns THEN Q(0, 1) ELSE Ps])]

(* csmooth(obs, ns): obs->data after the call.                            *)
Csmooth(data, ns, maxsat) ==
    FoldLeft(LAMBDA acc, p : CsStep(acc, p, ns, maxsat),
             [st |-> Zeroed(maxsat), out |-> <<>>], data).out
=============================================================================
