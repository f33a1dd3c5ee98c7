------------------------------ MODULE TimeInputs ------------------------------
(***************************************************************************)
(* The inputs MC_Time hands the time functions: epochs, seconds of week,  *)
(* timeadd steps and leap-second files.  They are kept apart from MC_Time *)
(* so that a module composing MC_Time can give them to its instance.      *)
(***************************************************************************)
EXTENDS LeapSeconds

\* Instants around leap days, the three week-zero epochs and the ends of
\* the 1970..2099 range (two of them outside it).
TimeEpochs ==
    { <<1970, 1, 1, 0, 0, 0>>, <<1972, 2, 29, 23, 59, 239>>,
      <<1980, 1, 6, 0, 0, 0>>, <<1999, 8, 22, 0, 0, 2>>,
      <<2000, 2, 28, 12, 0, 0>>, <<2006, 1, 1, 0, 0, 0>>,
      <<2016, 12, 31, 23, 59, 239>>, <<2099, 12, 31, 0, 0, 0>>,
      <<2100, 1, 1, 0, 0, 0>>, <<1969, 12, 31, 0, 0, 0>> }

\* Seconds of week and timeadd increments (numerators of 1/FRAC s): zero,
\* a quarter second, the last quarter second of a week, +-4 days, 4 weeks.
TimeTows    == {0, 3, 604800 * FRAC - 1}
TimeTowsNeg == TimeTows \cup {-1}                   \* -0.25 s
TimeSteps   == {1, -1, FRAC, 345600 * FRAC, -345600 * FRAC, 2419200 * FRAC}

LOCAL SX == INSTANCE SequencesExt

\* text-format rows (y m d h min s utc-gpst), newest first as the format asks
T17 == <<2017, 1, 1, 0, 0, 0, -18>>
T15 == <<2015, 7, 1, 0, 0, 0, -17>>
T12 == <<2012, 7, 1, 0, 0, 0, -16>>
T09 == <<2009, 1, 1, 0, 0, 0, -15>>

\* every text file made of some of these rows, newest first
TextFiles ==
    { [fmt |-> "text", rows |-> SX!SetToSortSeq(S, LAMBDA a, b : a[1] > b[1])] :
        S \in SUBSET {T17, T15, T12, T09} }

\* USNO leapsec.dat lines (year, month index, day, TAI-UTC), oldest first
U72 == <<1972, 1, 1, 10>>      \* before 1980: skipped
U12 == <<2012, 7, 1, 35>>
U15 == <<2015, 7, 1, 36>>
U17 == <<2017, 1, 1, 37>>
UBad == <<2016, 13, 1, 36>>    \* month name not recognised: skipped

\* a text file one row longer than the table: the default rows and a
\* further leap second, newest first
LongText ==
    [fmt |-> "text", rows |-> <<<<2027, 1, 1, 0, 0, 0, -19>>>> \o DefaultLeaps]

TimeFiles ==
    TextFiles \cup {LongText} \cup
    { [fmt |-> "usno", rows |-> <<U72, U12, U15, U17>>],
      [fmt |-> "usno", rows |-> <<U12, UBad, U15>>],
      [fmt |-> "none", rows |-> <<>>] }

================================================================================
