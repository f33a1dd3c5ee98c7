------------------------------ MODULE PcvSearch ------------------------------
(***************************************************************************)
(* searchpcv of rtklib_rtkcmn.cc: the antenna parameters of a satellite   *)
(* valid at an instant, or of a receiver antenna type.  pcvs is a         *)
(* sequence of records [sat, type, ts, te]; a type is a sequence of one-   *)
(* character strings, ts and te are gtime_t with time 0 for no bound.      *)
(* The result is the index of the entry returned, 0 for NULL.             *)
(***************************************************************************)
EXTENDS PathRep

CONSTANT MAXANT      \* size of buff[] (rtklib.h, outside the repository)

\* the first index of S, or 0 when S is empty
First(S) == IF S = {} THEN 0 ELSE CHOOSE i \in S : \A j \in S : i <= j

\* the validity tests of the satellite loop: ts <= time <= te where set;
\* the first is ts < time, a start that excludes its own instant
PcvStartsAfter(pcv, time) == ~(Valid(pcv.ts) /\ TimeDiffSign(pcv.ts, time) >= 0)
PcvStartsBy(pcv, time) == ~(Valid(pcv.ts) /\ TimeDiffSign(pcv.ts, time) > 0)
PcvEndsAfter(pcv, time) == ~(Valid(pcv.te) /\ TimeDiffSign(pcv.te, time) < 0)

(* The receiver branch: type copied into buff when it fits (else buff    *)
(* stays empty), at most two tokens split off at blanks; NULL without a  *)
(* token; the first entry holding every token, else the first whose type *)
(* starts with the first token.                                          *)
SearchRcv(type, pcvs) ==
    LET buff  == IF Len(type) < MAXANT + 1 THEN type ELSE <<>>
        all   == Tokens(buff, " ")
        types == SubSeq(all, 1, IF Len(all) < 2 THEN Len(all) ELSE 2)
        full  == {i \in DOMAIN pcvs : \A j \in DOMAIN types : Contains(pcvs[i].type, types[j])}
        bare  == {i \in DOMAIN pcvs : types # <<>> /\ FindFrom(pcvs[i].type, types[1], 1) = 1}
    IN  IF types = <<>> THEN 0 ELSE IF full # {} THEN First(full) ELSE First(bare)

\* searchpcv(sat, type, time, pcvs)
Searchpcv(sat, type, time, pcvs) ==
    IF sat # 0
    THEN First({i \in DOMAIN pcvs : pcvs[i].sat = sat /\ PcvStartsBy(pcvs[i], time)
                                    /\ PcvEndsAfter(pcvs[i], time)})
    ELSE SearchRcv(type, pcvs)
=============================================================================
