-------------------------------- MODULE MC_Crc --------------------------------
(***************************************************************************)
(* A frame assembler that appends bytes to a message and checks it with  *)
(* rtk_crc24q (RTCM 3, SBAS) and rtk_crc16 (BINEX, NVS).  The reference   *)
(* is the bit-serial polynomial division each table was generated from:  *)
(* CRC-24Q, polynomial 0x1864CFB, and CRC-16-CCITT, 0x1021, both with a  *)
(* zero initial value, MSB first.                                        *)
(***************************************************************************)
EXTENDS BitCodec

CONSTANTS
    Bytes,      \* byte values appended
    MaxLen      \* message length bound

VARIABLE msg

(* bit-serial CRC of width w and polynomial poly (without its x^w term) *)
RECURSIVE CrcBits(_, _, _, _, _)
CrcBits(m, i, crc, w, poly) ==
    IF i < 8 * Len(m)
    THEN LET top  == (crc \div 2^(w - 1)) % 2
             bit  == BitAt(m, i)
             next == (crc * 2) % 2^w
         IN CrcBits(m, i + 1, IF top # bit THEN next ^^ poly ELSE next, w, poly)
    ELSE crc

Crc24Ref(m) == CrcBits(m, 0, 0, 24, \h864CFB)
Crc16Ref(m) == CrcBits(m, 0, 0, 16, \h1021)

Init == msg = <<>>

AppendByte(b) ==
    /\ Len(msg) < MaxLen
    /\ msg' = Append(msg, b)

\* the assembled message is handed on
Complete ==
    /\ Len(msg) = MaxLen
    /\ UNCHANGED msg

Next == (\E b \in Bytes : AppendByte(b)) \/ Complete

Spec == Init /\ [][Next]_msg

(* rtk_crc24q and rtk_crc16 equal the polynomial CRC of every message:  *)
(* the 256-entry tables TBL_CR_C24_Q and TBL_CR_C16 and the shift/mask/ *)
(* index of each loop agree with the definition, and the empty message  *)
(* has CRC 0 (spec 8).  One-byte messages reach every table entry.      *)
CrcMatchesPolynomial ==
    /\ Crc24q(msg) = Crc24Ref(msg)
    /\ Crc16(msg) = Crc16Ref(msg)
=============================================================================
