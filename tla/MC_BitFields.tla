----------------------------- MODULE MC_BitFields -----------------------------
(***************************************************************************)
(* A message encoder filling a byte buffer with setbitu/setbits fields,   *)
(* the way the RTCM/SBAS encoders build a frame, and a decoder reading     *)
(* them back with getbitu/getbits.  A later field may overwrite part of    *)
(* an earlier one; the ghost "fields" holds the ones still intact.        *)
(***************************************************************************)
EXTENDS BitCodec

CONSTANTS
    NB,         \* bytes in the buffer
    Pos,        \* field start bits
    Lens,       \* field widths (1..30)
    MaxWrites   \* fields written per message

ASSUME Lens \subseteq 1 .. 30

VARIABLES buff, fields, writes

vars == <<buff, fields, writes>>

\* unsigned values: 0, 1, the sign bit alone and all ones
UValues(len) == {0, 1, 2^(len - 1), 2^len - 1}
\* signed values representable in len bits: both ends, -1, 0, 1
SValues(len) == {-(2^(len - 1)), -1, 0, 1, 2^(len - 1) - 1} \cap -(2^(len - 1)) .. 2^(len - 1) - 1

Fits(pos, len) == pos + len <= 8 * NB

Overlaps(f, pos, len) == f.pos < pos + len /\ pos < f.pos + f.len

Kept(pos, len) == {f \in fields : ~Overlaps(f, pos, len)}

Init ==
    /\ buff \in {[k \in 1 .. NB |-> 0], [k \in 1 .. NB |-> 255]}
    /\ fields = {}
    /\ writes = 0

\* setbitu(buff, pos, len, v)
WriteU(pos, len, v) ==
    /\ writes < MaxWrites /\ Fits(pos, len)
    /\ buff' = Setbitu(buff, pos, len, v)
    /\ fields' = Kept(pos, len) \cup {[pos |-> pos, len |-> len, val |-> v, signed |-> FALSE]}
    /\ writes' = writes + 1

\* setbits(buff, pos, len, v)
WriteS(pos, len, v) ==
    /\ writes < MaxWrites /\ Fits(pos, len)
    /\ buff' = Setbits(buff, pos, len, v)
    /\ fields' = Kept(pos, len) \cup {[pos |-> pos, len |-> len, val |-> v, signed |-> TRUE]}
    /\ writes' = writes + 1

\* the message is complete
Complete ==
    /\ writes = MaxWrites
    /\ UNCHANGED vars

Next ==
    \/ \E pos \in Pos, len \in Lens : \E v \in UValues(len) : WriteU(pos, len, v)
    \/ \E pos \in Pos, len \in Lens : \E v \in SValues(len) : WriteS(pos, len, v)
    \/ Complete

Spec == Init /\ [][Next]_vars

TypeOK ==
    /\ buff \in [1 .. NB -> 0 .. 255]
    /\ writes \in 0 .. MaxWrites

(* Every field still intact reads back as written: getbitu after setbitu *)
(* and getbits after setbits (spec 8: "getSignedBits(setSignedBits(buf,  *)
(* pos,len,v),pos,len) == v for all v representable in len bits"),       *)
(* across byte boundaries and next to fields written later.              *)
FieldsReadBack ==
    \A f \in fields :
        IF f.signed THEN Getbits(buff, f.pos, f.len) = f.val
                    ELSE Getbitu(buff, f.pos, f.len) = f.val
=============================================================================
