------------------------------ MODULE MC_CodePri ------------------------------
(***************************************************************************)
(* A program configuring its code priorities (setcodepri calls, as the   *)
(* option loaders do) while observation decoders rank codes with         *)
(* getcodepri.  The table is shown to implement CodePriAbs: the lists it *)
(* holds are the C strings read out of codepris.                          *)
(***************************************************************************)
EXTENDS CodePri

CONSTANTS
    SysIn,      \* system masks handed to setcodepri
    FreqIn,     \* frequencies handed to setcodepri
    PriIn,      \* priority strings handed to setcodepri
    Opts,       \* option strings handed to getcodepri
    MaxCalls    \* bound on the setcodepri calls

VARIABLE calls

vars == <<codepris, calls>>

\* the lists the table holds: the C string at each entry
Lists(tbl) == [k \in (DOMAIN RowOf) \X (1 .. MAXFREQ) |-> StrAt(tbl, <<RowOf[k[1]], k[2]>>)]

Abs == INSTANCE CodePriAbs
         WITH Systems <- DOMAIN RowOf, Defaults <- Lists(InitTable), pris <- Lists(codepris)

MCInit == Init /\ calls = 0

Call(sys, freq, pri) ==
    /\ calls < MaxCalls
    /\ SetCodePri(sys, freq, pri)
    /\ calls' = calls + 1

\* the configuration is complete
Done == calls = MaxCalls /\ UNCHANGED vars

MCNext == (\E sys \in SysIn, freq \in FreqIn, pri \in PriIn : Call(sys, freq, pri)) \/ Done

MCSpec == MCInit /\ [][MCNext]_vars

(* Every sequence of setcodepri calls is a sequence of CodePriAbs steps   *)
(* on the lists read out of the table: each call replaces exactly the    *)
(* lists of the selected systems at that frequency, and leaves every      *)
(* other list (the neighbouring entries in memory included) as it was.   *)
CodePriRefines == Abs!Spec

=============================================================================
