------------------------------- MODULE MC_Codec -------------------------------
(***************************************************************************)
(* The codec primitives as a receiver meets them: a frame being built     *)
(* field by field (MC_BitFields), a frame whose CRC is computed byte by   *)
(* byte (MC_Crc), or a stream of LNAV words (MC_NavWord).  A state holds  *)
(* one of the three, tagged by kind; the variables of the other two stay  *)
(* at their initial values.                                               *)
(***************************************************************************)
EXTENDS BitCodec

CONSTANTS NB, Pos, Lens, MaxWrites, Bytes, MaxLen, Data, Flips

VARIABLES kind, buff, fields, writes, msg, src, word

vars == <<kind, buff, fields, writes, msg, src, word>>

BF == INSTANCE MC_BitFields
CR == INSTANCE MC_Crc
NW == INSTANCE MC_NavWord

\* a nav word stream not in use holds the zero word, sent after D29*=D30*=0
NwIdle ==
    /\ src = [d |-> 0, p29 |-> 0, p30 |-> 0, flip |-> -1]
    /\ word = NW!Encode(0, 0, 0)

BfIdle == buff = [k \in 1 .. NB |-> 0] /\ fields = {} /\ writes = 0

Init ==
    \/ kind = "fields" /\ BF!Init /\ CR!Init /\ NwIdle
    \/ kind = "crc"    /\ BfIdle /\ CR!Init /\ NwIdle
    \/ kind = "word"   /\ BfIdle /\ CR!Init /\ NW!Init

Next ==
    \/ kind = "fields" /\ BF!Next /\ UNCHANGED <<kind, msg, src, word>>
    \/ kind = "crc"    /\ CR!Next /\ UNCHANGED <<kind, buff, fields, writes, src, word>>
    \/ kind = "word"   /\ NW!Next /\ UNCHANGED <<kind, buff, fields, writes, msg>>

Spec == Init /\ [][Next]_vars

MCBytes == 0 .. 255
MCData  == {0, 2^24 - 1, \hA5A5A5, \h5A5A5A, \h123456, 2^23, 1}
MCFlips == -1 .. 31

(* Bytes written by setbitu/setbits stay bytes. *)
TypeOK == kind = "fields" => BF!TypeOK

(* getbitu/getbits read back every intact field as setbitu/setbits wrote *)
(* it (see MC_BitFields).                                                 *)
FieldsReadBack == kind = "fields" => BF!FieldsReadBack

(* rtk_crc24q and rtk_crc16 equal the bit-serial CRCs of their            *)
(* polynomials on the message (see MC_Crc).                               *)
CrcMatchesPolynomial == kind = "crc" => CR!CrcMatchesPolynomial

(* decode_word accepts a correctly encoded word with its data bytes       *)
(* (see MC_NavWord).                                                      *)
DecodeCorrect == kind = "word" => NW!DecodeCorrect

(* decode_word rejects a word with a single bit error (see MC_NavWord).   *)
SingleErrorDetected == kind = "word" => NW!SingleErrorDetected
=============================================================================
