------------------------------ MODULE PathRep ------------------------------
(***************************************************************************)
(* Keyword replacement in file paths: repstr, reppath and reppaths of     *)
(* rtklib_rtkcmn.cc.                                                       *)
(*                                                                         *)
(* A C string is a sequence of one-character strings, so <<"%", "h">> is   *)
(* "%h".  sprintf of a number into rep[] is the sequence of its decimal    *)
(* digits, zero-padded to the field width.  The 1024-byte buffers of      *)
(* repstr and the 64-byte rep[] are not bounded: the paths are short.     *)
(***************************************************************************)
EXTENDS GTime

\* "%d" and "%0wd" of a number 0 <= n < 10^6
DigitChar == <<"0", "1", "2", "3", "4", "5", "6", "7", "8", "9">>
Decimal(n) ==
    LET w == CHOOSE k \in 1 .. 6 : n < 10^k /\ (k = 1 \/ n >= 10^(k - 1))
    IN  [i \in 1 .. w |-> DigitChar[((n \div 10^(w - i)) % 10) + 1]]
Padded(n, w) == [i \in 1 .. w - Len(Decimal(n)) |-> "0"] \o Decimal(n)

\* "%c" of 'a' + h, for an hour h in 0..23
HourLetter == <<"a", "b", "c", "d", "e", "f", "g", "h", "i", "j", "k", "l",
                "m", "n", "o", "p", "q", "r", "s", "t", "u", "v", "w", "x">>

\* strstr(s + p - 1, pat): the first index >= p where pat starts, or 0
FindFrom(s, pat, p) ==
    LET at == {q \in p .. Len(s) - Len(pat) + 1 : SubSeq(s, q, q + Len(pat) - 1) = pat}
    IN  IF at = {} THEN 0 ELSE CHOOSE q \in at : \A r \in at : q <= r

Contains(s, pat) == FindFrom(s, pat, 1) # 0

(* repstr: the loop copies the text before each occurrence of pat found  *)
(* by strstr from p, then rep, and goes on after the occurrence; the rest *)
(* of str is copied after the last one.  The text rep brings in is never  *)
(* searched again by this call.                                           *)
RECURSIVE ReplaceFrom(_, _, _, _)
ReplaceFrom(s, pat, rep, p) ==
    LET q == FindFrom(s, pat, p)
    IN  IF q = 0 THEN SubSeq(s, p, Len(s))
        ELSE SubSeq(s, p, q - 1) \o rep \o ReplaceFrom(s, pat, rep, q + Len(pat))

\* repstr(str, pat, rep): str replaced in place, and 1 if pat occurred
Repstr(s, pat, rep) ==
    IF Contains(s, pat) THEN [str |-> ReplaceFrom(s, pat, rep, 1), stat |-> 1]
    ELSE [str |-> s, stat |-> 0]

\* the keywords of reppath: %c, and %ha, %hb, %hc
K(c) == <<"%", c>>
KH(c) == <<"%", "h", c>>

\* the time keywords, in the order reppath replaces them
TimeKeys == <<KH("a"), KH("b"), KH("c"), K("Y"), K("y"), K("m"), K("d"), K("h"),
              K("M"), K("S"), K("n"), K("W"), K("D"), K("H"), K("t")>>

\* time.time != 0
Valid(t) == t.day # 0 \/ t.sod # 0

(* The text reppath puts for each time keyword of an instant t (GPST):   *)
(* the calendar fields of time2epoch, the day of the GPS week, the day of *)
(* the year from timediff to January 1st, and the GPS week.               *)
TimeValues(t) ==
    LET ep  == Time2Epoch(t)
        gw  == Time2Gpst(t)
        dow == gw[2] \div (86400 * FRAC)
        doy == TimeDiff(t, Epoch2Time(<<ep[1], 1, 1, 0, 0, 0>>)) \div (86400 * FRAC) + 1
        h   == ep[4]
    IN << Padded((h \div 3) * 3, 2), Padded((h \div 6) * 6, 2), Padded((h \div 12) * 12, 2),
          Padded(ep[1], 4), Padded(ep[1] % 100, 2), Padded(ep[2], 2), Padded(ep[3], 2),
          Padded(h, 2), Padded(ep[5], 2), Padded(ep[6] \div FRAC, 2), Padded(doy, 3),
          Padded(gw[1], 4), Decimal(dow), <<HourLetter[h + 1]>>, Padded((ep[5] \div 15) * 15, 2) >>

\* repstr for keys[i], keys[i+1], ... with vals[i], ..., or-ing the status
RECURSIVE RepAll(_, _, _, _, _)
RepAll(s, stat, keys, vals, i) ==
    IF i > Len(keys) THEN [str |-> s, stat |-> stat]
    ELSE LET r == Repstr(s, keys[i], vals[i])
         IN  IF r.stat = 1 THEN RepAll(r.str, 1, keys, vals, i + 1)
             ELSE RepAll(r.str, stat, keys, vals, i + 1)

(* reppath(path, rpath, time, rov, base): no '%', status 0; the rover and *)
(* base ids first when they are not empty; then every time keyword when   *)
(* time.time != 0, or -1 when a time keyword is left and time.time == 0.  *)
Reppath(path, t, rov, base) ==
    LET r1 == IF rov # <<>> THEN Repstr(path, K("r"), rov) ELSE [str |-> path, stat |-> 0]
        r2 == IF base # <<>> THEN Repstr(r1.str, K("b"), base) ELSE [str |-> r1.str, stat |-> 0]
        st == IF r1.stat = 1 \/ r2.stat = 1 THEN 1 ELSE 0
    IN  IF ~Contains(path, <<"%">>) THEN [str |-> path, stat |-> 0]
        ELSE IF Valid(t) THEN RepAll(r2.str, st, TimeKeys, TimeValues(t), 1)
        ELSE IF \E i \in 1 .. Len(TimeKeys) : Contains(r2.str, TimeKeys[i])
             THEN [str |-> r2.str, stat |-> -1]
        ELSE [str |-> r2.str, stat |-> st]

(* reppaths: the time step is 900 s when the path has %S, %M or %t, 3600 *)
(* s when it has %h (also found in %ha, %hb, %hc) or %H, and a day        *)
(* otherwise.  Units of 1/FRAC s.                                         *)
Tint(path) ==
    IF Contains(path, K("S")) \/ Contains(path, K("M")) \/ Contains(path, K("t")) THEN 900 * FRAC
    ELSE IF Contains(path, K("h")) \/ Contains(path, K("H")) THEN 3600 * FRAC
    ELSE 86400 * FRAC

(* The loop of reppaths from instant t0: reppath at t0, t0 + tint, ...  *)
(* while the instant is <= te, rpath[n] kept (n++) when it differs from  *)
(* rpath[n-1], until n = nmax: the first nmax of the paths that differ    *)
(* from the one before.                                                   *)
ReppathsFrom(path, nmax, t0, te, rov, base) ==
    LET ti   == Tint(path)
        rp   == [k \in 1 .. TimeDiff(te, t0) \div ti + 1 |->
                    Reppath(path, TimeAdd(t0, (k - 1) * ti), rov, base).str]
        kept == SelectSeq([k \in DOMAIN rp |-> <<k, rp[k]>>],
                          LAMBDA e : e[1] = 1 \/ e[2] # rp[e[1] - 1])
    IN  [j \in 1 .. IF nmax < Len(kept) THEN nmax ELSE Len(kept) |-> kept[j][2]]

\* reppaths stepping from ts itself rather than from the start of its step
ReppathsNoFloor(path, nmax, ts, te, rov, base) ==
    IF ~Valid(ts) \/ ~Valid(te) \/ TimeDiffSign(ts, te) > 0 THEN <<>>
    ELSE ReppathsFrom(path, nmax, ts, te, rov, base)

(* reppaths(path, rpath, nmax, ts, te, rov, base): no path for a missing *)
(* or reversed interval; else from the start of the time step holding ts *)
(* in its GPS week.                                                       *)
Reppaths(path, nmax, ts, te, rov, base) ==
    IF ~Valid(ts) \/ ~Valid(te) \/ TimeDiffSign(ts, te) > 0 THEN <<>>
    ELSE LET gw == Time2Gpst(ts)
             ti == Tint(path)
         IN  ReppathsFrom(path, nmax, Gpst2Time(gw[1], (gw[2] \div ti) * ti), te, rov, base)

(***************************************************************************)
(* expath(path, paths, nmax): the entries of the working directory that   *)
(* match path, '*' standing for any text, compared in lower case.  The    *)
(* code that splits off a directory part is commented out, so the whole   *)
(* path is matched against the names in ".".  Names are sequences of the  *)
(* characters of Chars; StrCode gives their bytes for strcmp.             *)
(***************************************************************************)
Chars == <<".", "A", "B", "O", "a", "b", "o">>
StrCode == <<46, 65, 66, 79, 97, 98, 111>>
CodeOf(c) == StrCode[CHOOSE i \in 1 .. Len(Chars) : Chars[i] = c]

\* tolower of each character
ToLower(s) == [i \in DOMAIN s |-> CASE s[i] = "A" -> "a" [] s[i] = "B" -> "b"
                                   [] s[i] = "O" -> "o" [] OTHER -> s[i]]

\* strcmp(s, t) < 0
StrLess(s, t) ==
    LET diff == {i \in 1 .. Len(s) : i <= Len(t) /\ s[i] # t[i]}
    IN  IF diff = {} THEN Len(s) < Len(t)
        ELSE LET i == CHOOSE i \in diff : \A j \in diff : i <= j
             IN  CodeOf(s[i]) < CodeOf(t[i])

(* strtok(s, sep) repeated: the nonempty runs of s between separators.  *)
Tokens(s, sep) ==
    LET cuts == <<0>> \o SelectSeq([i \in 1 .. Len(s) |-> i], LAMBDA i : s[i] = sep) \o <<Len(s) + 1>>
        runs == [k \in 1 .. Len(cuts) - 1 |-> SubSeq(s, cuts[k] + 1, cuts[k + 1] - 1)]
    IN  SelectSeq(runs, LAMBDA r : r # <<>>)

\* a matching loop that does not step p past the token it found
RECURSIVE MatchFromStay(_, _, _, _)
MatchFromStay(s1, toks, k, p) ==
    k > Len(toks) \/ (FindFrom(s1, toks[k], p) # 0 /\ MatchFromStay(s1, toks, k + 1, FindFrom(s1, toks[k], p)))

(* The loop over the tokens: strstr(p, q) for each token q from p, and p *)
(* moved past it; p becomes NULL when one is not found.                  *)
RECURSIVE MatchFrom(_, _, _, _)
MatchFrom(s1, toks, k, p) ==
    k > Len(toks) \/
        LET q == FindFrom(s1, toks[k], p)
        IN  q # 0 /\ MatchFrom(s1, toks, k + 1, q + Len(toks[k]))

\* one entry d_name against the pattern: "^name$" and "^path$" in lower case
Matches(name, path) ==
    MatchFrom(<<"^">> \o ToLower(name) \o <<"$">>, Tokens(<<"^">> \o ToLower(path) \o <<"$">>, "*"), 1, 1)

\* the exchange sort of paths[0..n-1] by strcmp: the names in ascending order
SortPaths(S) == [i \in 1 .. Cardinality(S) |-> CHOOSE x \in S : Cardinality({y \in S : StrLess(y, x)}) = i - 1]

(* expath on a directory read in the order given: every name not starting *)
(* with '.' that matches is stored while n < nmax, then the stored paths   *)
(* are sorted.                                                             *)
Expath(path, order, nmax) ==
    LET kept == SelectSeq(order, LAMBDA d : d[1] # "." /\ Matches(d, path))
        n    == IF nmax < Len(kept) THEN nmax ELSE Len(kept)
    IN  SortPaths({kept[i] : i \in 1 .. n})
=============================================================================
