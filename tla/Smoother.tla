------------------------------ MODULE Smoother ------------------------------
(***************************************************************************)
(* smoother: the fixed-interval combination of a forward and a backward   *)
(* solution, for n = 2 on exact rationals.  matinv is dgetrf then dgetri: *)
(* an exactly singular matrix makes dgetrf return info > 0 (the first     *)
(* zero pivot) and leaves its LU factors in the array; otherwise the      *)
(* array holds the inverse.                                                *)
(***************************************************************************)
EXTENDS RatArith

Ix == 1 .. 2

\* a matrix with integer entries, given row by row
Mat(rows) == [e \in Ix \X Ix |-> Q(rows[e[1]][e[2]], 1)]
Vec(v) == [i \in Ix |-> Q(v[i], 1)]

MAdd(A, B) == [e \in Ix \X Ix |-> QAdd(A[e], B[e])]
MSub(A, B) == [e \in Ix \X Ix |-> QSub(A[e], B[e])]
MulMV(A, v) == [i \in Ix |-> QAdd(QMul(A[i, 1], v[1]), QMul(A[i, 2], v[2]))]
VAdd(u, v) == [i \in Ix |-> QAdd(u[i], v[i])]
Det(A) == QSub(QMul(A[1, 1], A[2, 2]), QMul(A[1, 2], A[2, 1]))

(* matinv(A, 2): [info, A after the call].  The LU factors left by a      *)
(* failing dgetrf are not tracked: "lu" marks them.                       *)
Matinv(A) ==
    IF QSign(Det(A)) = 0
    THEN [info |-> IF QSign(A[1, 1]) = 0 /\ QSign(A[2, 1]) = 0 THEN 1 ELSE 2,
          m |-> A, holds |-> "lu"]
    ELSE [info |-> 0, holds |-> "inverse",
          m |-> LET d == Det(A)
                IN  [e \in Ix \X Ix |->
                       CASE e = <<1, 1>> -> QDiv(A[2, 2], d)
                         [] e = <<2, 2>> -> QDiv(A[1, 1], d)
                         [] OTHER        -> QDiv(QNeg(A[e]), d)]]

\* mutant: the second matmul with beta = 0.0, dropping invQf * xf
SmootherOverwrite(xf, Qf, xb, Qb, xs, Qs) ==
    LET f == Matinv(Qf)
        b == Matinv(Qb)
        s == Matinv(MAdd(f.m, b.m))
    IN  IF f.info # 0 \/ b.info # 0 THEN [info |-> -1, xs |-> xs, Qs |-> Qs, holds |-> "old"]
        ELSE IF s.info # 0 THEN [info |-> s.info, xs |-> xs, Qs |-> Qs, holds |-> "lu"]
        ELSE [info |-> 0, xs |-> MulMV(s.m, MulMV(b.m, xb)), Qs |-> s.m, holds |-> "inverse"]

(* smoother(xf, Qf, xb, Qb, 2, xs, Qs): status and the outputs.  A        *)
(* singular Qf stops before Qb is inverted (the && of the code) and       *)
(* leaves xs and Qs as they were, status -1; a singular sum leaves its LU *)
(* factors in Qs and xs as it was, status the info of dgetrf.             *)
Smoother(xf, Qf, xb, Qb, xs, Qs) ==
    LET f == Matinv(Qf)
        b == Matinv(Qb)
        s == Matinv(MAdd(f.m, b.m))
    IN  IF f.info # 0 \/ b.info # 0 THEN [info |-> -1, xs |-> xs, Qs |-> Qs, holds |-> "old"]
        ELSE IF s.info # 0 THEN [info |-> s.info, xs |-> xs, Qs |-> Qs, holds |-> "lu"]
        ELSE [info |-> 0, xs |-> MulMV(s.m, VAdd(MulMV(f.m, xf), MulMV(b.m, xb))),
              Qs |-> s.m, holds |-> "inverse"]
=============================================================================
