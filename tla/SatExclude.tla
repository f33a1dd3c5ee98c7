------------------------------ MODULE SatExclude ------------------------------
(***************************************************************************)
(* satexclude and testsnr: whether a satellite, or one of its signals, is *)
(* left out of a solution.                                                 *)
(*                                                                         *)
(* satexclude: opt is NULL or [null, exsats, navsys], exsats a function of the  *)
(* satellite number 1..MAXSAT (opt->exsats[sat - 1]) and navsys the set   *)
(* of systems whose bit is set in opt->navsys.  opt->exsats[sat - 1] of a *)
(* number outside 1..MAXSAT reads outside the array: any byte, of which   *)
(* 0, 1, 2 and 3 stand for the outcomes the code tells apart.  Results    *)
(* are sets of the possible return values.                                 *)
(*                                                                         *)
(* testsnr: the elevation is in half degrees (el * R2D, exactly), the     *)
(* mask a function of the frequency to mask->mask[freq][0..8] (1-based),  *)
(* the SNR and the mask values whole dBHz.                                *)
(***************************************************************************)
EXTENDS SatNo, RatArith, Bitwise

CONSTANT NFREQ      \* rtklib.h's number of carrier frequencies

\* a NULL opt
NULL == [null |-> TRUE]

\* "if (svh)" after "svh &= 0xFE" for QZSS (the LEX health bit is masked)
Unhealthy(sys, svh) == (IF sys = "QZS" THEN svh & 254 ELSE svh) # 0

\* mutant: the option read at exsats[sat]
ExsatsAtNext(opt, sat) == IF sat + 1 \in 1 .. MAXSAT THEN {opt.exsats[sat + 1]} ELSE {0, 1, 2, 3}

\* opt->exsats[sat - 1]: in bounds, or any byte
ExsatsAt(opt, sat) == IF sat \in 1 .. MAXSAT THEN {opt.exsats[sat]} ELSE {0, 1, 2, 3}

(* satexclude(sat, svh, opt): 1 excluded, 0 used.  No ephemeris first,   *)
(* then the option of the satellite (1 excluded, 2 included whatever its *)
(* health), then the system selection, then the health flags.             *)
Satexclude(sat, svh, opt) ==
    LET sys == Satsys(sat).sys
        health == IF Unhealthy(sys, svh) THEN 1 ELSE 0
    IN  IF svh < 0 THEN {1}
        ELSE IF opt.null THEN {health}
        ELSE { CASE ex = 1 -> 1
                 [] ex = 2 -> 0
                 [] sys \notin opt.navsys -> 1
                 [] OTHER -> health
               : ex \in ExsatsAt(opt, sat) }

(* minsnr for an elevation of el2 half degrees, m = mask->mask[freq]:    *)
(* a = (el + 5) / 10 split into i = floor(a) and the fraction r / 20;     *)
(* below the first and above the ninth node the end value, else the      *)
(* linear interpolation between mask[i - 1] and mask[i].  At a node both  *)
(* neighbouring formulas agree, so the rounding of el * R2D there does   *)
(* not matter.                                                             *)
\* mutant: the two weights swapped
MinSnrSwapped(m, el2) ==
    LET i == (el2 + 10) \div 20
        r == (el2 + 10) % 20
    IN  IF i < 1 THEN Q(m[1], 1)
        ELSE IF i > 8 THEN Q(m[9], 1)
        ELSE Q(m[i + 1] * (20 - r) + m[i] * r, 20)
MinSnr(m, el2) ==
    LET i == (el2 + 10) \div 20
        r == (el2 + 10) % 20
    IN  IF i < 1 THEN Q(m[1], 1)
        ELSE IF i > 8 THEN Q(m[9], 1)
        ELSE Q(m[i] * (20 - r) + m[i + 1] * r, 20)

(* testsnr(base, freq, el, snr, mask): 1 masked, 0 not; a mask that is   *)
(* not enabled for base, or a frequency index out of 0..NFREQ-1, masks    *)
(* nothing.                                                                *)
Testsnr(base, freq, el2, snr, mask) ==
    IF ~mask.ena[base] \/ freq < 0 \/ freq >= NFREQ THEN 0
    ELSE IF QSign(QSub(Q(snr, 1), MinSnr(mask.mask[freq], el2))) < 0 THEN 1 ELSE 0
=============================================================================
