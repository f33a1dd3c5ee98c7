-------------------------------- MODULE CodePri --------------------------------
(***************************************************************************)
(* The signal-code tables of rtklib_rtkcmn.cc: obscodes[]/obsfreqs[],     *)
(* code2obs, and the process-wide priority table codepris[7][MAXFREQ][16] *)
(* with setcodepri (strcpy of a user string) and getcodepri.              *)
(*                                                                         *)
(* An entry codepris[i][f-1] of 16 chars is kept as the chars before its  *)
(* first NUL; 16 chars means the entry holds no NUL and a read runs on    *)
(* into the next entry of the array, as C lays it out.  The bytes after   *)
(* an entry's first NUL can never be read again (only strcpy writes an    *)
(* entry, and it rewrites it from its start), so this loses nothing.      *)
(* A char is a one-letter string.  A system mask (SYS_GPS|SYS_GLO...) is  *)
(* the set of system names whose bits it has; a getcodepri option string *)
(* ("-GL1C -RL2P") is the sequence of its options, each the system letter *)
(* and the up to two chars %2s reads.                                     *)
(***************************************************************************)
EXTENDS Integers, Sequences

CONSTANTS
    MAXFREQ,    \* frequencies per system (rtklib.h)
    MAXCODE     \* last valid obs code (rtklib.h)

VARIABLE codepris

ENTRY == 16

\* the rows of codepris, in the order setcodepri tests the system bits
Rows == <<"GPS", "GLO", "GAL", "QZS", "SBS", "BDS", "IRN">>
RowOf == [s \in {Rows[i] : i \in 1 .. 7} |-> CHOOSE i \in 0 .. 6 : Rows[i + 1] = s]
\* the system letter of getcodepri's option format "-GL%2s", "-RL%2s", ...
OptLetter == [GPS |-> "G", GLO |-> "R", GAL |-> "E", QZS |-> "J", SBS |-> "S",
              BDS |-> "C", IRN |-> "I"]

Keys == (0 .. 6) \X (1 .. MAXFREQ)

\* obscodes[]: code -> <<frequency char, attribute char>>, "" as <<>>
OBSCODES ==
  << <<>>, <<"1","C">>, <<"1","P">>, <<"1","W">>, <<"1","Y">>, <<"1","M">>, <<"1","N">>,
     <<"1","S">>, <<"1","L">>, <<"1","E">>, <<"1","A">>, <<"1","B">>, <<"1","X">>,
     <<"1","Z">>, <<"2","C">>, <<"2","D">>, <<"2","S">>, <<"2","L">>, <<"2","X">>,
     <<"2","P">>, <<"2","W">>, <<"2","Y">>, <<"2","M">>, <<"2","N">>, <<"5","I">>,
     <<"5","Q">>, <<"5","X">>, <<"7","I">>, <<"7","Q">>, <<"7","X">>, <<"6","A">>,
     <<"6","B">>, <<"6","C">>, <<"6","X">>, <<"6","Z">>, <<"6","S">>, <<"6","L">>,
     <<"8","L">>, <<"8","Q">>, <<"8","X">>, <<"2","I">>, <<"2","Q">>, <<"6","I">>,
     <<"6","Q">>, <<"3","I">>, <<"3","Q">>, <<"3","X">>, <<"1","I">>, <<"1","Q">>,
     <<"5","A">>, <<"5","B">>, <<"5","C">>, <<"9","A">>, <<"9","B">>, <<"9","C">>,
     <<"9","X">>, <<>>, <<>>, <<>>, <<>> >>

\* obsfreqs[]: code -> frequency index 1..7, 0 for none
OBSFREQS ==
  << 0, 1, 1, 1, 1, 1, 1, 1, 1, 1, 1, 1, 1, 1, 2, 2, 2, 2, 2, 2,
     2, 2, 2, 2, 3, 3, 3, 5, 5, 5, 4, 4, 4, 4, 4, 4, 4, 6, 6, 6,
     2, 2, 4, 4, 3, 3, 3, 1, 1, 3, 3, 3, 7, 7, 7, 7, 0, 0, 0, 0 >>

\* code2obs: the obs string and its frequency; "" and 0 out of range
Code2Obs(code) ==
    IF code <= 0 \/ MAXCODE < code
    THEN [obs |-> <<>>, freq |-> 0]
    ELSE [obs |-> OBSCODES[code + 1], freq |-> OBSFREQS[code + 1]]

(* obs2code: for (i=1;*obscodes[i];i++) the first entry equal to obs,   *)
(* with its frequency; CODE_NONE (0) and frequency 0 when none is.       *)
RECURSIVE Obs2CodeFrom(_, _)
Obs2CodeFrom(obs, i) ==
    IF OBSCODES[i + 1] = <<>> THEN [code |-> 0, freq |-> 0]
    ELSE IF OBSCODES[i + 1] = obs THEN [code |-> i, freq |-> OBSFREQS[i + 1]]
    ELSE Obs2CodeFrom(obs, i + 1)

\* mutant: the search starts at obscodes[0], the empty string
Obs2CodeFromZero(obs) == Obs2CodeFrom(obs, 0)

Obs2Code(obs) == Obs2CodeFrom(obs, 1)

\* the compiled-in priority strings, per system row and frequency
DefaultPris ==
  << << <<"C","P","Y","W","M","N","S","L">>, <<"P","Y","W","C","M","N","D","S","L","X">>,
        <<"I","Q","X">>, <<>>, <<>>, <<>>, <<>> >>,
     << <<"P","C">>, <<"P","C">>, <<"I","Q","X">>, <<>>, <<>>, <<>>, <<>> >>,
     << <<"C","A","B","X","Z">>, <<>>, <<"I","Q","X">>, <<"A","B","C","X","Z">>,
        <<"I","Q","X">>, <<"I","Q","X">>, <<>> >>,
     << <<"C","S","L","X","Z">>, <<"S","L","X">>, <<"I","Q","X">>, <<"S","L","X">>,
        <<>>, <<>>, <<>> >>,
     << <<"C">>, <<>>, <<"I","Q","X">>, <<>>, <<>>, <<>>, <<>> >>,
     << <<"I","Q","X">>, <<"I","Q","X">>, <<"I","Q","X">>, <<"I","Q","X">>,
        <<"I","Q","X">>, <<>>, <<>> >>,
     << <<>>, <<>>, <<"A","B","C","X">>, <<>>, <<>>, <<>>, <<"A","B","C","X">> >> >>

\* the initialiser of codepris (missing entries zero-filled)
InitTable ==
    [k \in Keys |-> IF k[2] <= Len(DefaultPris[k[1] + 1]) THEN DefaultPris[k[1] + 1][k[2]] ELSE <<>>]

\* the entry that follows codepris[i][f-1] in memory, if any
NextKey(k) == IF k[2] < MAXFREQ THEN <<k[1], k[2] + 1>> ELSE <<k[1] + 1, 1>>

(* the C string at codepris[i][f-1]: an entry with no NUL runs on into   *)
(* the next one.  Past the end of the array the read is undefined; it    *)
(* stops there here.                                                      *)
RECURSIVE StrAt(_, _)
StrAt(tbl, k) ==
    IF k \notin Keys THEN <<>>
    ELSE IF Len(tbl[k]) < ENTRY THEN tbl[k] ELSE tbl[k] \o StrAt(tbl, NextKey(k))

(* strcpy(codepris[i][f-1], s) for strlen(s) <= 16: a 16-char string has *)
(* its NUL in the first byte of the next entry, which then reads "" (past *)
(* the end of the array the NUL is lost).                                 *)
Strcpy(tbl, k, s) ==
    [d \in Keys |-> IF d = k THEN s
                    ELSE IF Len(s) = ENTRY /\ d = NextKey(k) THEN <<>>
                    ELSE tbl[d]]

\* strchr(s, ch): the 0-based index of ch in s, -1 if absent (ch not NUL)
Strchr(s, ch) == IF \E k \in 1 .. Len(s) : s[k] = ch
                 THEN (CHOOSE k \in 1 .. Len(s) : s[k] = ch /\ \A m \in 1 .. k - 1 : s[m] # ch) - 1
                 ELSE -1

(* setcodepri(sys, freq, pri): nothing for a frequency out of 1..MAXFREQ *)
(* or a string of 17 chars or more; otherwise pri is strcpy'd into the   *)
(* entry of every system whose bit sys has, GPS first, IRN last.          *)
\* mutant: the GLONASS branch copy-pasted with the SYS_GPS test
RECURSIVE SetRowsGloOnGps(_, _, _, _, _)
SetRowsGloOnGps(tbl, sys, freq, pri, i) ==
    IF i > 6 THEN tbl
    ELSE SetRowsGloOnGps(IF (IF i = 1 THEN "GPS" ELSE Rows[i + 1]) \in sys
                         THEN Strcpy(tbl, <<i, freq>>, pri) ELSE tbl,
                         sys, freq, pri, i + 1)

RECURSIVE SetRows(_, _, _, _, _)
SetRows(tbl, sys, freq, pri, i) ==
    IF i > 6 THEN tbl
    ELSE SetRows(IF Rows[i + 1] \in sys THEN Strcpy(tbl, <<i, freq>>, pri) ELSE tbl,
                 sys, freq, pri, i + 1)

Setcodepri(tbl, sys, freq, pri) ==
    IF freq <= 0 \/ MAXFREQ < freq \/ ~(Len(pri) < 17) THEN tbl
    ELSE SetRows(tbl, sys, freq, pri, 0)

\* mutant: codepris[i][j] searched instead of codepris[i][j-1]
GetcodepriNoMinusOne(tbl, sys, code, opt) ==
    IF ~\E s \in DOMAIN RowOf : sys = {s} THEN 0
    ELSE LET s    == CHOOSE s \in DOMAIN RowOf : sys = {s}
             obs  == Code2Obs(code).obs
             j    == Code2Obs(code).freq
             hits == SelectSeq(opt, LAMBDA o : o.sys = OptLetter[s] /\ o.str[1] = obs[1])
             p    == Strchr(StrAt(tbl, <<RowOf[s], j + 1>>), obs[2])
         IN IF hits # <<>>
            THEN IF Len(hits[1].str) >= 2 /\ hits[1].str[2] = obs[2] THEN 15 ELSE 0
            ELSE IF p >= 0 THEN 14 - p ELSE 0

(* getcodepri(sys, code, opt) for a code in 1..MAXCODE: 0 unless sys is   *)
(* one system with a row; the first option of this system for the code's *)
(* frequency gives 15 if it names the code and 0 if not; otherwise the    *)
(* position p of the code in the priority string gives 14-p, or 0.       *)
Getcodepri(tbl, sys, code, opt) ==
    IF ~\E s \in DOMAIN RowOf : sys = {s} THEN 0
    ELSE LET s    == CHOOSE s \in DOMAIN RowOf : sys = {s}
             obs  == Code2Obs(code).obs
             j    == Code2Obs(code).freq
             hits == SelectSeq(opt, LAMBDA o : o.sys = OptLetter[s] /\ o.str[1] = obs[1])
             p    == Strchr(StrAt(tbl, <<RowOf[s], j>>), obs[2])
         IN IF hits # <<>>
            THEN IF Len(hits[1].str) >= 2 /\ hits[1].str[2] = obs[2] THEN 15 ELSE 0
            ELSE IF p >= 0 THEN 14 - p ELSE 0

Init == codepris = InitTable

SetCodePri(sys, freq, pri) == codepris' = Setcodepri(codepris, sys, freq, pri)
=============================================================================
