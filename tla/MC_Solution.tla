----------------------------- MODULE MC_Solution -----------------------------
(***************************************************************************)
(* The run-time state of the receiver's loops: the eci2ecef cache        *)
(* (MC_EciCache), the Kalman filter state (MC_KalmanFilter), the outputs  *)
(* of the fixed-interval smoother (Smoother), and the codec primitives of *)
(* the message decoders (MC_Codec).  They do not interact; a state holds  *)
(* one of them, tagged by kind, and the variables of the others keep      *)
(* their initial values.                                                  *)
(***************************************************************************)
EXTENDS Smoother, TLC

CONSTANTS Threads, Times, Erps, MaxCalls, ErpZero, ErpTable, N, XV, PV
CONSTANTS NB, Pos, Lens, MaxWrites, Bytes, MaxLen, Data, Flips

VARIABLES kind, tutc_, U_, gmst_, pc, arg, tpn, result, calls, x, P, info, active
VARIABLE smo   \* the last smoother call: inputs, status, xs, Qs
VARIABLES buff, fields, writes, msg, src, word

eciVars == <<tutc_, U_, gmst_, pc, arg, tpn, result, calls>>
kfVars == <<x, P, info, active>>
codecVars == <<buff, fields, writes, msg, src, word>>
vars == <<kind, eciVars, kfVars, smo, codecVars>>

E == INSTANCE MC_EciCache
K == INSTANCE MC_KalmanFilter
CD == INSTANCE MC_Codec

\* the codec variables of a receiver decoding nothing
\* the inputs of MC_Codec: every byte, words with their data bits all 0,
\* all 1, alternating or spread, and no flip or a flip of one of 32 bits
MCBytes == 0 .. 255
MCData  == {0, 2^24 - 1, \hA5A5A5, \h5A5A5A, \h123456, 2^23, 1}
MCFlips == -1 .. 31
CodecIdle == CD!BfIdle /\ CD!CR!Init /\ CD!NwIdle

\* instants 5 ms apart (a cache hit), and 15 ms later (a miss)
SolTimes == {100, 101, 103}

\* covariances: positive definite ones, a singular one, the negative of
\* the identity (whose inverse cancels that of the identity), and one
\* with a zero first column
SmMats == { Mat(<<<<1, 0>>, <<0, 1>>>>), Mat(<<<<2, 1>>, <<1, 1>>>>), Mat(<<<<4, 0>>, <<0, 1>>>>),
            Mat(<<<<1, 1>>, <<1, 1>>>>), Mat(<<<<-1, 0>>, <<0, -1>>>>), Mat(<<<<0, 0>>, <<0, 1>>>>) }
SmVecs == { Vec(<<1, 2>>), Vec(<<3, -1>>) }

\* the caller's xs and Qs before any call: zeros; info -2 marks no call
NoSmooth == [info |-> -2, xf |-> Vec(<<0, 0>>), Qf |-> Mat(<<<<0, 0>>, <<0, 0>>>>),
             xb |-> Vec(<<0, 0>>), Qb |-> Mat(<<<<0, 0>>, <<0, 0>>>>),
             xs |-> Vec(<<0, 0>>), Qs |-> Mat(<<<<0, 0>>, <<0, 0>>>>), holds |-> "old"]

\* a call smoother(xf, Qf, xb, Qb, 2, xs, Qs) on the caller's xs and Qs
SmootherCall(xf, Qf, xb, Qb) ==
    /\ smo' = [xf |-> xf, Qf |-> Qf, xb |-> xb, Qb |-> Qb]
              @@ Smoother(xf, Qf, xb, Qb, smo.xs, smo.Qs)
    /\ UNCHANGED <<kind, eciVars, kfVars, codecVars>>

Init ==
    \/ kind = "eci" /\ E!Init /\ K!Init /\ smo = NoSmooth /\ CodecIdle
    \/ kind = "kalman" /\ E!Init /\ K!Init /\ smo = NoSmooth /\ CodecIdle
    \/ kind = "smoother" /\ E!Init /\ K!Init /\ smo = NoSmooth /\ CodecIdle
    \/ CD!Init /\ E!Init /\ K!Init /\ smo = NoSmooth

Next ==
    \/ kind = "eci" /\ E!Next /\ UNCHANGED <<kind, kfVars, smo, codecVars>>
    \/ kind = "kalman" /\ K!Next /\ UNCHANGED <<kind, eciVars, smo, codecVars>>
    \/ kind \in {"fields", "crc", "word"} /\ CD!Next /\ UNCHANGED <<eciVars, kfVars, smo>>
    \/ kind = "smoother" /\ \E xf, xb \in SmVecs, Qf, Qb \in SmMats : SmootherCall(xf, Qf, xb, Qb)

Spec == Init /\ [][Next]_vars

(* The Kalman state is well formed (see MC_KalmanFilter), and the bytes   *)
(* setbitu/setbits write stay bytes (see MC_Codec).                       *)
TypeOK == K!TypeOK /\ CD!TypeOK

(* eci2ecef returns a matrix computed for an instant within 0.01 s of    *)
(* the one asked for (see MC_EciCache).                                  *)
ResultNear == E!ResultNear

(* filter() leaves the states outside its mask alone (see                *)
(* MC_KalmanFilter).                                                      *)
MaskedUntouched == K!MaskedUntouched

(* filter() keeps x when it returns an error (see MC_KalmanFilter).       *)
FailureKeepsX == K!FailureKeepsX
\* a symmetric 2 x 2 matrix is positive definite / semidefinite
PosDef(M) == QSign(M[1, 1]) > 0 /\ QSign(Det(M)) > 0 /\ QEq(M[1, 2], M[2, 1])
PosSemi(M) == QSign(M[1, 1]) >= 0 /\ QSign(M[2, 2]) >= 0 /\ QSign(Det(M)) >= 0 /\ QEq(M[1, 2], M[2, 1])

(* smoother succeeds on two positive definite covariances, and its result *)
(* is a combination of the two: Qs is no larger than Qf or Qb (Qf - Qs    *)
(* and Qb - Qs positive semidefinite), and two equal solutions give that  *)
(* solution back.                                                         *)
SmootherCombines ==
    kind = "smoother" /\ smo.info # -2 /\ PosDef(smo.Qf) /\ PosDef(smo.Qb) =>
        /\ smo.info = 0
        /\ PosSemi(MSub(smo.Qf, smo.Qs)) /\ PosSemi(MSub(smo.Qb, smo.Qs))
        /\ (\A i \in Ix : QEq(smo.xf[i], smo.xb[i])) => \A i \in Ix : QEq(smo.xs[i], smo.xf[i])
(* getbitu/getbits read back every intact field as setbitu/setbits wrote *)
(* it (see MC_BitFields).                                                 *)
FieldsReadBack == CD!FieldsReadBack

(* rtk_crc24q and rtk_crc16 equal the bit-serial CRCs of their            *)
(* polynomials on the message (see MC_Crc).                               *)
CrcMatchesPolynomial == CD!CrcMatchesPolynomial

(* decode_word accepts a correctly encoded word with its data bytes       *)
(* (see MC_NavWord).                                                      *)
DecodeCorrect == CD!DecodeCorrect

(* decode_word rejects a word with a single bit error (see MC_NavWord).   *)
SingleErrorDetected == CD!SingleErrorDetected
=============================================================================
