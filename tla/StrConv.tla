------------------------------ MODULE StrConv ------------------------------
(***************************************************************************)
(* str2num and str2time: a number, or the six numbers of an epoch, read   *)
(* by sscanf from the substring s[i .. i+n-1] of a RINEX line.  The line  *)
(* is abstracted to its length and to what sscanf meets in the copied     *)
(* substring: for str2num one number field [m, letter, e], a mantissa     *)
(* with an exponent letter and a power of ten (letter "" for none); for   *)
(* str2time the sequence of numbers it holds before anything that is not  *)
(* a number (fewer than six when the substring is cut short).  Seconds    *)
(* are in 1/FRAC s, as in GTime.                                           *)
(***************************************************************************)
EXTENDS GTime

\* mutant: only a lower-case 'd' replaced by 'E'
ExpLetterLower(c) == IF c = "d" THEN "E" ELSE c

\* "*s == 'd' || *s == 'D' ? 'E' : *s" on the exponent letter
ExpLetter(c) == IF c \in {"d", "D"} THEN "E" ELSE c

(* sscanf("%lf") of the copied field: with an exponent letter e or E the *)
(* whole number, otherwise the mantissa it stops after.                   *)
ScanNum(f) == IF ExpLetter(f.letter) \in {"E", "e"} THEN f.m * 10 ^ f.e ELSE f.m

(* str2num(s, i, n): 0.0 for i outside 0..strlen(s) or n > 255.          *)
Str2num(i, len, n, f) ==
    IF i < 0 \/ len < i \/ 255 < n THEN 0 ELSE ScanNum(f)

\* mutant: two-digit years up to 80 taken as 20xx
YearWindowLate(y) == IF y < 100 THEN y + (IF y <= 80 THEN 2000 ELSE 1900) ELSE y

\* "if (ep[0] < 100.0) ep[0] += ep[0] < 80.0 ? 2000.0 : 1900.0"
YearWindow(y) == IF y < 100 THEN y + (IF y < 80 THEN 2000 ELSE 1900) ELSE y

(* str2time(s, i, n, t): [stat, t]; -1 for i outside 0..strlen(s) or     *)
(* i > 255, or fewer than six numbers; t is left alone then.              *)
Str2time(i, len, nums) ==
    IF i < 0 \/ len < i \/ 255 < i \/ Len(nums) < 6 THEN [stat |-> -1]
    ELSE [stat |-> 0,
          t |-> Epoch2Time(<<YearWindow(nums[1]), nums[2], nums[3], nums[4], nums[5], nums[6]>>)]
=============================================================================
