------------------------------- MODULE EciCache -------------------------------
(***************************************************************************)
(* The single-slot cache of eci2ecef() in rtklib_rtkcmn.cc: the function  *)
(* statics tutc_, U_[9] and gmst_, shared by every caller (sunmoonpos,    *)
(* and through it windupcorr and the tide model).                         *)
(*                                                                         *)
(* The numerics are abstracted to what they were computed from:           *)
(*  - gmst_ = utc2gmst(tutc_, erpv[2]) is Gmst(t, e);                      *)
(*  - U_ = W * Rz(gast) * N * P is Rot(pn, g, e): precession/nutation of   *)
(*    the instant pn, sidereal angle from the gmst value g, polar motion   *)
(*    of e.                                                                *)
(* Instants are integers in units of 5 ms, so the cache test             *)
(* fabs(timediff(tutc, tutc_)) < 0.01 holds for a difference of at most  *)
(* one unit.  The statics start zero-initialised (tutc_ = {0,0}).          *)
(*                                                                         *)
(* A call runs as the steps of the code, so calls of several threads can  *)
(* interleave (the function is documented "not thread-safe").            *)
(***************************************************************************)
EXTENDS Integers

CONSTANTS
    Threads,    \* callers
    Times,      \* UTC instants callers pass (units of 5 ms)
    Erps,       \* erp value sets callers pass (model values)
    MaxCalls    \* calls per thread

NoValue == "none"

Gmst(t, e) == [t |-> t, e |-> e]
Rot(pn, g, e) == [pn |-> pn, gmst |-> g, erp |-> e]
\* the zero-initialised statics U_[9] and gmst_
ZeroGmst == [t |-> 0, e |-> "zero"]
ZeroMat == [pn |-> 0, gmst |-> ZeroGmst, erp |-> "zero"]

VARIABLES
    tutc_, U_, gmst_,        \* the statics
    pc,                      \* pc[th]: the step a call is at
    arg,                     \* arg[th]: [t, e] of the current call
    tpn,                     \* tpn[th]: local t used for precession/nutation
    result,                  \* result[th]: <<U, gmst>> the last call returned
    calls                    \* calls[th]: calls made

vars == <<tutc_, U_, gmst_, pc, arg, tpn, result, calls>>

\* mutant: the fabs() of the cache test is dropped
CacheHitOneSided(t) == t - tutc_ < 2

\* fabs(timediff(tutc, tutc_)) < 0.01
CacheHit(t) == t - tutc_ < 2 /\ tutc_ - t < 2

Init ==
    /\ tutc_ = 0
    /\ U_ = ZeroMat
    /\ gmst_ = ZeroGmst
    /\ pc = [th \in Threads |-> "idle"]
    /\ arg = [th \in Threads |-> NoValue]
    /\ tpn = [th \in Threads |-> NoValue]
    /\ result = [th \in Threads |-> NoValue]
    /\ calls = [th \in Threads |-> 0]

\* a caller enters eci2ecef(tutc, erpv, U, &gmst)
Call(th, t, e) ==
    /\ pc[th] = "idle"
    /\ calls[th] < MaxCalls
    /\ pc' = [pc EXCEPT ![th] = "check"]
    /\ arg' = [arg EXCEPT ![th] = [t |-> t, e |-> e]]
    /\ calls' = [calls EXCEPT ![th] = @ + 1]
    /\ UNCHANGED <<tutc_, U_, gmst_, tpn, result>>

\* if (fabs(timediff(tutc, tutc_)) < 0.01) read cache ... else tutc_ = tutc
Check(th) ==
    /\ pc[th] = "check"
    /\ pc' = [pc EXCEPT ![th] = IF CacheHit(arg[th].t) THEN "copy" ELSE "setkey"]
    /\ UNCHANGED <<tutc_, U_, gmst_, arg, tpn, result, calls>>

SetKey(th) ==
    /\ pc[th] = "setkey"
    /\ tutc_' = arg[th].t
    /\ pc' = [pc EXCEPT ![th] = "precess"]
    /\ UNCHANGED <<U_, gmst_, arg, tpn, result, calls>>

\* tgps = utc2gpst(tutc_): precession and nutation from the static
Precess(th) ==
    /\ pc[th] = "precess"
    /\ tpn' = [tpn EXCEPT ![th] = tutc_]
    /\ pc' = [pc EXCEPT ![th] = "gmst"]
    /\ UNCHANGED <<tutc_, U_, gmst_, arg, result, calls>>

\* gmst_ = utc2gmst(tutc_, erpv[2])
SetGmst(th) ==
    /\ pc[th] = "gmst"
    /\ gmst_' = Gmst(tutc_, arg[th].e)
    /\ pc' = [pc EXCEPT ![th] = "rot"]
    /\ UNCHANGED <<tutc_, U_, arg, tpn, result, calls>>

\* gast from gmst_, then U_ = W * Rz(gast) * N * P
SetRot(th) ==
    /\ pc[th] = "rot"
    /\ U_' = Rot(tpn[th], gmst_, arg[th].e)
    /\ pc' = [pc EXCEPT ![th] = "copy"]
    /\ UNCHANGED <<tutc_, gmst_, arg, tpn, result, calls>>

\* U[i] = U_[i]; *gmst = gmst_; return (both the cache and the fresh path)
CopyOut(th) ==
    /\ pc[th] = "copy"
    /\ result' = [result EXCEPT ![th] = <<U_, gmst_>>]
    /\ pc' = [pc EXCEPT ![th] = "idle"]
    /\ UNCHANGED <<tutc_, U_, gmst_, arg, tpn, calls>>

\* every call has returned and no more are made
Terminated ==
    /\ \A th \in Threads : pc[th] = "idle" /\ calls[th] = MaxCalls
    /\ UNCHANGED vars

Next ==
    \/ \E th \in Threads, t \in Times, e \in Erps : Call(th, t, e)
    \/ \E th \in Threads :
          \/ Check(th) \/ SetKey(th) \/ Precess(th)
          \/ SetGmst(th) \/ SetRot(th) \/ CopyOut(th)
    \/ Terminated

Spec == Init /\ [][Next]_vars
=============================================================================
