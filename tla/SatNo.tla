--------------------------------- MODULE SatNo ---------------------------------
(***************************************************************************)
(* Satellite numbering of rtklib_rtkcmn.cc: satno (system and PRN to the  *)
(* satellite number 1..MAXSAT), satsys (back), satid2no (an id string to  *)
(* the number) and satno2id (the number to its id string).                *)
(*                                                                         *)
(* The PRN ranges are rtklib.h's MINPRNxxx/MAXPRNxxx/NSATxxx, constants   *)
(* here.  An id string is abstracted to what the two sscanf calls of       *)
(* satid2no read from it: [num |-> n] for one that starts with a number   *)
(* ("%d" succeeds: "05", "120"), [letter |-> c, num |-> n] for a letter   *)
(* and a number ("%c%d": "G05"), [bad |-> TRUE] for neither ("").  The   *)
(* "%02d"/"%03d" of satno2id print a positive n that "%d" reads back.     *)
(***************************************************************************)
EXTENDS Integers, Sequences, FiniteSetsExt

CONSTANTS
    MINPRN,     \* system -> MINPRNxxx
    MAXPRN,     \* system -> MAXPRNxxx
    NSAT        \* system -> NSATxxx

\* the systems in the order satno numbers them
Order == <<"GPS", "GLO", "GAL", "QZS", "BDS", "IRN", "LEO", "SBS">>
Systems == {Order[k] : k \in 1 .. 8}
IndexOf(sys) == CHOOSE k \in 1 .. 8 : Order[k] = sys

\* NSATGPS + NSATGLO + ... of the systems before the k-th
Offset(k) == MapThenSumSet(LAMBDA m : NSAT[Order[m]], 1 .. k - 1)

MAXSAT == Offset(9)

NONE == "NONE"

(* satno: 0 for prn <= 0, an unknown system or a PRN out of its range    *)
Satno(sys, prn) ==
    IF prn <= 0 \/ sys \notin Systems THEN 0
    ELSE IF prn < MINPRN[sys] \/ MAXPRN[sys] < prn THEN 0
    ELSE Offset(IndexOf(sys)) + prn - MINPRN[sys] + 1

(* satsys: subtract NSATxxx system by system until sat falls inside one; *)
(* sat out of 1..MAXSAT gives SYS_NONE and prn 0.                         *)
\* mutant: (sat -= NSATxxx) < NSATyyy, the last satellite of a system lost
RECURSIVE SatsysFromStrict(_, _)
SatsysFromStrict(sat, k) ==
    IF k > 8 THEN [sys |-> NONE, prn |-> 0]
    ELSE IF sat < NSAT[Order[k]]
    THEN [sys |-> Order[k], prn |-> sat + MINPRN[Order[k]] - 1]
    ELSE SatsysFromStrict(sat - NSAT[Order[k]], k + 1)

RECURSIVE SatsysFrom(_, _)
SatsysFrom(sat, k) ==
    IF k > 8 THEN [sys |-> NONE, prn |-> 0]
    ELSE IF sat <= NSAT[Order[k]]
    THEN [sys |-> Order[k], prn |-> sat + MINPRN[Order[k]] - 1]
    ELSE SatsysFrom(sat - NSAT[Order[k]], k + 1)

Satsys(sat) ==
    IF sat <= 0 \/ MAXSAT < sat THEN [sys |-> NONE, prn |-> 0] ELSE SatsysFrom(sat, 1)

\* the id letters of satid2no's switch, and the PRN offset each adds
Letter == [GPS |-> "G", GLO |-> "R", GAL |-> "E", QZS |-> "J", BDS |-> "C",
           IRN |-> "I", LEO |-> "L"]
LetterSys(c) == CHOOSE s \in DOMAIN Letter : Letter[s] = c

(* satid2no: a bare number is a GPS, SBAS or QZSS PRN, tested in that    *)
(* order; a letter and a number add the system's MINPRN-1 (100 for 'S'). *)
Satid2no(id) ==
    IF "num" \in DOMAIN id /\ "letter" \notin DOMAIN id
    THEN LET prn == id.num
             sys == IF MINPRN["GPS"] <= prn /\ prn <= MAXPRN["GPS"] THEN "GPS"
                    ELSE IF MINPRN["SBS"] <= prn /\ prn <= MAXPRN["SBS"] THEN "SBS"
                    ELSE IF MINPRN["QZS"] <= prn /\ prn <= MAXPRN["QZS"] THEN "QZS"
                    ELSE NONE
         IN IF sys = NONE THEN 0 ELSE Satno(sys, prn)
    ELSE IF "bad" \in DOMAIN id THEN 0
    ELSE IF id.letter = "S" THEN Satno("SBS", id.num + 100)
    ELSE IF id.letter \in {Letter[s] : s \in DOMAIN Letter}
    THEN LET sys == LetterSys(id.letter) IN Satno(sys, id.num + MINPRN[sys] - 1)
    ELSE 0

\* mutant: "J%02d" printed with the raw PRN for every system
Satno2idRawPrn(sat) ==
    LET ss == Satsys(sat)
    IN IF ss.sys = NONE THEN [bad |-> TRUE]
       ELSE IF ss.sys = "SBS" THEN [num |-> ss.prn]
       ELSE [letter |-> Letter[ss.sys], num |-> ss.prn]

(* satno2id: "Gnn", "Rnn", ... with the PRN counted from 1, SBAS as its   *)
(* three-digit PRN, "" for SYS_NONE.                                      *)
Satno2id(sat) ==
    LET ss == Satsys(sat)
    IN IF ss.sys = NONE THEN [bad |-> TRUE]
       ELSE IF ss.sys = "SBS" THEN [num |-> ss.prn]
       ELSE [letter |-> Letter[ss.sys], num |-> ss.prn - MINPRN[ss.sys] + 1]
=============================================================================
