------------------------------ MODULE LeapSeconds ------------------------------
(***************************************************************************)
(* The process-wide leap-second table leaps[MAXLEAPS+1][7] of             *)
(* rtklib_rtkcmn.cc, its replacement by read_leaps() from a text or a     *)
(* USNO file, and the conversions gpst2utc/utc2gpst that walk it.         *)
(*                                                                         *)
(* A row is [ep |-> <<y,m,d,h,min,sec>>, ls |-> UTC-GPST in s]; the walk   *)
(* stops at the first row whose year is not > 0 (the zero sentinel).      *)
(* A file is abstracted to its parseable lines, in file order:            *)
(*   [fmt |-> "text", rows |-> << <<y,m,d,h,min,s,ls>>, ... >>]            *)
(*   [fmt |-> "usno", rows |-> << <<y,mon,d,tai_utc>>, ... >>]             *)
(* (mon is the index of the month name, 13 for a name not recognised),   *)
(* or [fmt |-> "none"] for a file fopen() cannot open.  A USNO line does  *)
(* not parse as a text line, so read_leaps_text finds no row in it.       *)
(***************************************************************************)
EXTENDS GTime, FiniteSets

CONSTANTS
    MAXLEAPS,   \* rows of the table before the sentinel row
    Files       \* the leap-second files read_leaps() may be handed

VARIABLES
    leaps,      \* leaps[0..MAXLEAPS]
    charSigned, \* whether plain char is signed in this build
    expected    \* ghost: the table the last file read states, newest first

vars == <<leaps, charSigned, expected>>

Row(ep, ls) == [ep |-> ep, ls |-> ls]
ZeroRow == Row(<<0, 0, 0, 0, 0, 0>>, 0)

\* the compiled-in default table (y,m,d,h,min,s,utc-gpst)
DefaultLeaps ==
    << <<2017,1,1,0,0,0,-18>>, <<2015,7,1,0,0,0,-17>>, <<2012,7,1,0,0,0,-16>>,
       <<2009,1,1,0,0,0,-15>>, <<2006,1,1,0,0,0,-14>>, <<1999,1,1,0,0,0,-13>>,
       <<1997,7,1,0,0,0,-12>>, <<1996,1,1,0,0,0,-11>>, <<1994,7,1,0,0,0,-10>>,
       <<1993,7,1,0,0,0,-9>>,  <<1992,7,1,0,0,0,-8>>,  <<1991,1,1,0,0,0,-7>>,
       <<1990,1,1,0,0,0,-6>>,  <<1988,1,1,0,0,0,-5>>,  <<1985,7,1,0,0,0,-4>>,
       <<1983,7,1,0,0,0,-3>>,  <<1982,7,1,0,0,0,-2>>,  <<1981,7,1,0,0,0,-1>> >>

RowOf(r) == Row(<<r[1], r[2], r[3], r[4], r[5], r[6]>>, r[7])

ASSUME MAXLEAPS >= Len(DefaultLeaps)

\* conversion of an int to char, by the signedness of the build
CharOf(v, signed) == IF signed THEN ((v + 128) % 256) - 128 ELSE v % 256

\* static_cast<char> of a double: a negative value has no unsigned char, the
\* conversion is undefined and the unsigned-char targets (AArch64) saturate
\* it to 0
DblToChar(v, signed) == IF signed \/ v >= 0 THEN CharOf(v, signed) ELSE 0

(* read_leaps_text: every parseable line, up to MAXLEAPS, overwrites the  *)
(* next row in place.  Returns the rows written.                          *)
\* mutant: the loop reads without the n < MAXLEAPS bound
ReadLeapsTextNoCap(f) ==
    IF f.fmt = "text" THEN [i \in 1 .. Len(f.rows) |-> RowOf(f.rows[i])] ELSE <<>>

ReadLeapsText(f) ==
    IF f.fmt = "text"
    THEN [i \in 1 .. IF Len(f.rows) < MAXLEAPS THEN Len(f.rows) ELSE MAXLEAPS
             |-> RowOf(f.rows[i])]
    ELSE <<>>

(* read_leaps_usno: lines before 1980 or with an unknown month are        *)
(* skipped; the rest, up to MAXLEAPS, go to a char ls[][7] array and are  *)
(* copied to the table in reverse order (newest first).                   *)
UsnoKept(f) ==
    LET ok == SelectSeq(f.rows, LAMBDA r : r[1] >= 1980 /\ r[2] <= 12)
    IN IF Len(ok) < MAXLEAPS THEN ok ELSE SubSeq(ok, 1, MAXLEAPS)

ReadLeapsUsno(f, signed) ==
    IF f.fmt = "usno"
    THEN LET kept == UsnoKept(f)
             n    == Len(kept)
         IN [i \in 1 .. n |->
               LET r == kept[n - i + 1]
               IN Row(<<CharOf(r[1], signed), CharOf(r[2], signed),
                        CharOf(r[3], signed), 0, 0, 0>>,
                      DblToChar(19 - r[4], signed))]
    ELSE <<>>

(* What a file states, newest first, with its true years. *)
FileTable(f) ==
    IF f.fmt = "text" THEN ReadLeapsText(f)
    ELSE LET kept == UsnoKept(f)
             n    == Len(kept)
         IN [i \in 1 .. n |-> Row(<<kept[n-i+1][1], kept[n-i+1][2],
                                     kept[n-i+1][3], 0, 0, 0>>, 19 - kept[n-i+1][4])]

(* read_leaps: text first, then USNO; on success the rows read replace   *)
(* leaps[0..n-1] and leaps[n] becomes the sentinel, rows after it keep    *)
(* their old contents.  A file that cannot be opened or yields no row     *)
(* leaves the table as it was.                                            *)
ReadLeaps(f) ==
    LET txt  == ReadLeapsText(f)
        rows == IF Len(txt) > 0 THEN txt ELSE ReadLeapsUsno(f, charSigned)
        n    == Len(rows)
    IN /\ f.fmt # "none"
       /\ n > 0
       /\ leaps' = [i \in 0 .. MAXLEAPS |->
                      IF i < n THEN rows[i + 1]
                      ELSE IF i = n THEN ZeroRow
                      ELSE leaps[i]]
       /\ expected' = FileTable(f)
       /\ UNCHANGED charSigned

(* read_leaps on a file that fopen() fails on, or that has no row in     *)
(* either format: returns 0 and changes nothing.                         *)
ReadLeapsFails(f) ==
    /\ \/ f.fmt = "none"
       \/ Len(ReadLeapsText(f)) = 0 /\ Len(ReadLeapsUsno(f, charSigned)) = 0
    /\ UNCHANGED vars

(* utc2gpst: the first row (newest first) whose date is not after t     *)
(* gives the offset; t itself when no row applies.                        *)
RECURSIVE Utc2GpstFrom(_, _, _)
Utc2GpstFrom(tbl, t, i) ==
    IF i \in DOMAIN tbl /\ tbl[i].ep[1] > 0
    THEN IF TimeDiffSign(t, Epoch2Time(tbl[i].ep)) >= 0
         THEN TimeAdd(t, -tbl[i].ls * FRAC)
         ELSE Utc2GpstFrom(tbl, t, i + 1)
    ELSE t

Utc2Gpst(t) == Utc2GpstFrom(leaps, t, 0)

(* gpst2utc: for each row, shift t by its offset and take the first shift *)
(* that lands at or after the row's date.                                 *)
\* mutant: timediff(tu, epoch2time(leaps[i])) > 0.0 instead of >= 0.0
RECURSIVE Gpst2UtcFromStrict(_, _, _)
Gpst2UtcFromStrict(tbl, t, i) ==
    IF i \in DOMAIN tbl /\ tbl[i].ep[1] > 0
    THEN LET tu == TimeAdd(t, tbl[i].ls * FRAC)
         IN IF TimeDiffSign(tu, Epoch2Time(tbl[i].ep)) > 0
            THEN tu
            ELSE Gpst2UtcFromStrict(tbl, t, i + 1)
    ELSE t

RECURSIVE Gpst2UtcFrom(_, _, _)
Gpst2UtcFrom(tbl, t, i) ==
    IF i \in DOMAIN tbl /\ tbl[i].ep[1] > 0
    THEN LET tu == TimeAdd(t, tbl[i].ls * FRAC)
         IN IF TimeDiffSign(tu, Epoch2Time(tbl[i].ep)) >= 0
            THEN tu
            ELSE Gpst2UtcFrom(tbl, t, i + 1)
    ELSE t

Gpst2Utc(t) == Gpst2UtcFrom(leaps, t, 0)

Init ==
    /\ leaps = [i \in 0 .. MAXLEAPS |->
                  IF i < Len(DefaultLeaps) THEN RowOf(DefaultLeaps[i + 1]) ELSE ZeroRow]
    /\ charSigned \in BOOLEAN
    /\ expected = [i \in 1 .. Len(DefaultLeaps) |-> RowOf(DefaultLeaps[i])]

Next ==
    \/ \E f \in Files : ReadLeaps(f)
    \/ \E f \in Files : ReadLeapsFails(f)

Spec == Init /\ [][Next]_vars
=============================================================================
