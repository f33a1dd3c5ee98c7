------------------------------ MODULE CodePriAbs ------------------------------
(***************************************************************************)
(* What the comments of setcodepri and getcodepri promise: per system    *)
(* and frequency a list of codes, "higher priority precedes lower";      *)
(* setcodepri replaces the list of each system the mask selects, for a   *)
(* frequency 1..MAXFREQ; getcodepri returns "15:highest-1:lowest,0:error" *)
(* (15 for a code an option names, then 14, 13, ... along the list), so   *)
(* a list holds at most 14 codes.                                         *)
(***************************************************************************)
EXTENDS Integers, Sequences

CONSTANTS
    Systems,    \* the systems with a list
    MAXFREQ,
    Defaults,   \* the lists before any setcodepri
    SysIn, FreqIn, PriIn    \* the arguments setcodepri is called with

VARIABLE pris

MAXPRI == 14

Init == pris = Defaults

SetPri(sys, freq, pri) ==
    /\ freq \in 1 .. MAXFREQ
    /\ Len(pri) <= MAXPRI
    /\ pris' = [k \in DOMAIN pris |-> IF k[1] \in sys /\ k[2] = freq THEN pri ELSE pris[k]]

\* a call that changes nothing (frequency out of range or string too long)
Ignore(sys, freq, pri) ==
    /\ freq \notin 1 .. MAXFREQ
    /\ UNCHANGED pris

Next == \E sys \in SysIn, freq \in FreqIn, pri \in PriIn :
            SetPri(sys, freq, pri) \/ Ignore(sys, freq, pri)

Spec == Init /\ [][Next]_pris
=============================================================================
