------------------------------- MODULE BitCodec -------------------------------
(***************************************************************************)
(* The bit-level primitives of rtklib_rtkcmn.cc: bit fields of a byte     *)
(* buffer (MSB first), the table-driven CRC-24Q and CRC-16, and the       *)
(* parity check of a GPS LNAV word (decode_word).                         *)
(*                                                                         *)
(* A buffer is a sequence of bytes 0..255 (buff[1] is buff[0] of C).      *)
(* Unsigned ints are naturals; a field is at most 30 bits wide so that    *)
(* every value stays inside TLC's integers.  A 32-bit LNAV word, whose    *)
(* top bits do not fit, is a function from bit index 0..31 to {0, 1}.     *)
(***************************************************************************)
EXTENDS Integers, Sequences, Bitwise, FiniteSetsExt

\* bit i of the buffer, counted from the MSB of buff[0]
BitAt(buff, i) == (buff[i \div 8 + 1] \div 2^(7 - (i % 8))) % 2

(* getbitu: for (i=pos;i<pos+len;i++) bits=(bits<<1)+bit(i) *)
RECURSIVE GetBituFrom(_, _, _, _)
GetBituFrom(buff, i, end, bits) ==
    IF i < end THEN GetBituFrom(buff, i + 1, end, bits * 2 + BitAt(buff, i)) ELSE bits

Getbitu(buff, pos, len) == GetBituFrom(buff, pos, pos + len, 0)

\* mutant: the sign test reads bit len of the field instead of bit len-1
GetbitsSignOffByOne(buff, pos, len) ==
    LET bits == Getbitu(buff, pos, len)
    IN IF len <= 0 \/ 32 <= len \/ (bits \div 2^len) % 2 = 0 THEN bits ELSE bits - 2^len

(* getbits: sign-extend when bit len-1 of the field is set *)
Getbits(buff, pos, len) ==
    LET bits == Getbitu(buff, pos, len)
    IN IF len <= 0 \/ 32 <= len \/ (bits \div 2^(len - 1)) % 2 = 0
       THEN bits
       ELSE bits - 2^len

\* mutant: buff[i/8]|=1u<<(7-i%8) given data&mask unnormalised (no "?1:0")
SetbituNoMask(buff, pos, len, data) ==
    IF len <= 0 \/ 32 < len THEN buff
    ELSE [k \in DOMAIN buff |->
            LET bit(j) == LET i == (k - 1) * 8 + j
                          IN IF pos <= i /\ i < pos + len
                             THEN data \div 2^(pos + len - 1 - i)
                             ELSE BitAt(buff, i)
            IN bit(0) * 128 + bit(1) * 64 + bit(2) * 32 + bit(3) * 16
               + bit(4) * 8 + bit(5) * 4 + bit(6) * 2 + bit(7)]

(* setbitu: if (len<=0||32<len) return; the field takes bits len-1..0 of *)
(* data, MSB first (mask = 1u<<(len-1), mask >>= 1 per bit).             *)
Setbitu(buff, pos, len, data) ==
    IF len <= 0 \/ 32 < len THEN buff
    ELSE [k \in DOMAIN buff |->
            LET bit(j) == LET i == (k - 1) * 8 + j
                          IN IF pos <= i /\ i < pos + len
                             THEN (data \div 2^(pos + len - 1 - i)) % 2
                             ELSE BitAt(buff, i)
            IN bit(0) * 128 + bit(1) * 64 + bit(2) * 32 + bit(3) * 16
               + bit(4) * 8 + bit(5) * 4 + bit(6) * 2 + bit(7)]

(* setbits: a negative value gets bit len-1 set (data |= 1<<(len-1)), a  *)
(* non-negative one gets it cleared; the low len bits of the two's       *)
(* complement int go to setbitu.                                         *)
SetbitsData(len, data) ==
    LET low  == data % 2^len
        sign == 2^(len - 1)
    IN IF data < 0
       THEN IF (low \div sign) % 2 = 1 THEN low ELSE low + sign
       ELSE IF (low \div sign) % 2 = 1 THEN low - sign ELSE low

Setbits(buff, pos, len, data) == Setbitu(buff, pos, len, SetbitsData(len, data))
TBL_CR_C16 ==
    << \h0000, \h1021, \h2042, \h3063, \h4084, \h50A5, \h60C6, \h70E7,
       \h8108, \h9129, \hA14A, \hB16B, \hC18C, \hD1AD, \hE1CE, \hF1EF,
       \h1231, \h0210, \h3273, \h2252, \h52B5, \h4294, \h72F7, \h62D6,
       \h9339, \h8318, \hB37B, \hA35A, \hD3BD, \hC39C, \hF3FF, \hE3DE,
       \h2462, \h3443, \h0420, \h1401, \h64E6, \h74C7, \h44A4, \h5485,
       \hA56A, \hB54B, \h8528, \h9509, \hE5EE, \hF5CF, \hC5AC, \hD58D,
       \h3653, \h2672, \h1611, \h0630, \h76D7, \h66F6, \h5695, \h46B4,
       \hB75B, \hA77A, \h9719, \h8738, \hF7DF, \hE7FE, \hD79D, \hC7BC,
       \h48C4, \h58E5, \h6886, \h78A7, \h0840, \h1861, \h2802, \h3823,
       \hC9CC, \hD9ED, \hE98E, \hF9AF, \h8948, \h9969, \hA90A, \hB92B,
       \h5AF5, \h4AD4, \h7AB7, \h6A96, \h1A71, \h0A50, \h3A33, \h2A12,
       \hDBFD, \hCBDC, \hFBBF, \hEB9E, \h9B79, \h8B58, \hBB3B, \hAB1A,
       \h6CA6, \h7C87, \h4CE4, \h5CC5, \h2C22, \h3C03, \h0C60, \h1C41,
       \hEDAE, \hFD8F, \hCDEC, \hDDCD, \hAD2A, \hBD0B, \h8D68, \h9D49,
       \h7E97, \h6EB6, \h5ED5, \h4EF4, \h3E13, \h2E32, \h1E51, \h0E70,
       \hFF9F, \hEFBE, \hDFDD, \hCFFC, \hBF1B, \hAF3A, \h9F59, \h8F78,
       \h9188, \h81A9, \hB1CA, \hA1EB, \hD10C, \hC12D, \hF14E, \hE16F,
       \h1080, \h00A1, \h30C2, \h20E3, \h5004, \h4025, \h7046, \h6067,
       \h83B9, \h9398, \hA3FB, \hB3DA, \hC33D, \hD31C, \hE37F, \hF35E,
       \h02B1, \h1290, \h22F3, \h32D2, \h4235, \h5214, \h6277, \h7256,
       \hB5EA, \hA5CB, \h95A8, \h8589, \hF56E, \hE54F, \hD52C, \hC50D,
       \h34E2, \h24C3, \h14A0, \h0481, \h7466, \h6447, \h5424, \h4405,
       \hA7DB, \hB7FA, \h8799, \h97B8, \hE75F, \hF77E, \hC71D, \hD73C,
       \h26D3, \h36F2, \h0691, \h16B0, \h6657, \h7676, \h4615, \h5634,
       \hD94C, \hC96D, \hF90E, \hE92F, \h99C8, \h89E9, \hB98A, \hA9AB,
       \h5844, \h4865, \h7806, \h6827, \h18C0, \h08E1, \h3882, \h28A3,
       \hCB7D, \hDB5C, \hEB3F, \hFB1E, \h8BF9, \h9BD8, \hABBB, \hBB9A,
       \h4A75, \h5A54, \h6A37, \h7A16, \h0AF1, \h1AD0, \h2AB3, \h3A92,
       \hFD2E, \hED0F, \hDD6C, \hCD4D, \hBDAA, \hAD8B, \h9DE8, \h8DC9,
       \h7C26, \h6C07, \h5C64, \h4C45, \h3CA2, \h2C83, \h1CE0, \h0CC1,
       \hEF1F, \hFF3E, \hCF5D, \hDF7C, \hAF9B, \hBFBA, \h8FD9, \h9FF8,
       \h6E17, \h7E36, \h4E55, \h5E74, \h2E93, \h3EB2, \h0ED1, \h1EF0 >>

TBL_CR_C24_Q ==
    << \h000000, \h864CFB, \h8AD50D, \h0C99F6, \h93E6E1, \h15AA1A, \h1933EC, \h9F7F17,
       \hA18139, \h27CDC2, \h2B5434, \hAD18CF, \h3267D8, \hB42B23, \hB8B2D5, \h3EFE2E,
       \hC54E89, \h430272, \h4F9B84, \hC9D77F, \h56A868, \hD0E493, \hDC7D65, \h5A319E,
       \h64CFB0, \hE2834B, \hEE1ABD, \h685646, \hF72951, \h7165AA, \h7DFC5C, \hFBB0A7,
       \h0CD1E9, \h8A9D12, \h8604E4, \h00481F, \h9F3708, \h197BF3, \h15E205, \h93AEFE,
       \hAD50D0, \h2B1C2B, \h2785DD, \hA1C926, \h3EB631, \hB8FACA, \hB4633C, \h322FC7,
       \hC99F60, \h4FD39B, \h434A6D, \hC50696, \h5A7981, \hDC357A, \hD0AC8C, \h56E077,
       \h681E59, \hEE52A2, \hE2CB54, \h6487AF, \hFBF8B8, \h7DB443, \h712DB5, \hF7614E,
       \h19A3D2, \h9FEF29, \h9376DF, \h153A24, \h8A4533, \h0C09C8, \h00903E, \h86DCC5,
       \hB822EB, \h3E6E10, \h32F7E6, \hB4BB1D, \h2BC40A, \hAD88F1, \hA11107, \h275DFC,
       \hDCED5B, \h5AA1A0, \h563856, \hD074AD, \h4F0BBA, \hC94741, \hC5DEB7, \h43924C,
       \h7D6C62, \hFB2099, \hF7B96F, \h71F594, \hEE8A83, \h68C678, \h645F8E, \hE21375,
       \h15723B, \h933EC0, \h9FA736, \h19EBCD, \h8694DA, \h00D821, \h0C41D7, \h8A0D2C,
       \hB4F302, \h32BFF9, \h3E260F, \hB86AF4, \h2715E3, \hA15918, \hADC0EE, \h2B8C15,
       \hD03CB2, \h567049, \h5AE9BF, \hDCA544, \h43DA53, \hC596A8, \hC90F5E, \h4F43A5,
       \h71BD8B, \hF7F170, \hFB6886, \h7D247D, \hE25B6A, \h641791, \h688E67, \hEEC29C,
       \h3347A4, \hB50B5F, \hB992A9, \h3FDE52, \hA0A145, \h26EDBE, \h2A7448, \hAC38B3,
       \h92C69D, \h148A66, \h181390, \h9E5F6B, \h01207C, \h876C87, \h8BF571, \h0DB98A,
       \hF6092D, \h7045D6, \h7CDC20, \hFA90DB, \h65EFCC, \hE3A337, \hEF3AC1, \h69763A,
       \h578814, \hD1C4EF, \hDD5D19, \h5B11E2, \hC46EF5, \h42220E, \h4EBBF8, \hC8F703,
       \h3F964D, \hB9DAB6, \hB54340, \h330FBB, \hAC70AC, \h2A3C57, \h26A5A1, \hA0E95A,
       \h9E1774, \h185B8F, \h14C279, \h928E82, \h0DF195, \h8BBD6E, \h872498, \h016863,
       \hFAD8C4, \h7C943F, \h700DC9, \hF64132, \h693E25, \hEF72DE, \hE3EB28, \h65A7D3,
       \h5B59FD, \hDD1506, \hD18CF0, \h57C00B, \hC8BF1C, \h4EF3E7, \h426A11, \hC426EA,
       \h2AE476, \hACA88D, \hA0317B, \h267D80, \hB90297, \h3F4E6C, \h33D79A, \hB59B61,
       \h8B654F, \h0D29B4, \h01B042, \h87FCB9, \h1883AE, \h9ECF55, \h9256A3, \h141A58,
       \hEFAAFF, \h69E604, \h657FF2, \hE33309, \h7C4C1E, \hFA00E5, \hF69913, \h70D5E8,
       \h4E2BC6, \hC8673D, \hC4FECB, \h42B230, \hDDCD27, \h5B81DC, \h57182A, \hD154D1,
       \h26359F, \hA07964, \hACE092, \h2AAC69, \hB5D37E, \h339F85, \h3F0673, \hB94A88,
       \h87B4A6, \h01F85D, \h0D61AB, \h8B2D50, \h145247, \h921EBC, \h9E874A, \h18CBB1,
       \hE37B16, \h6537ED, \h69AE1B, \hEFE2E0, \h709DF7, \hF6D10C, \hFA48FA, \h7C0401,
       \h42FA2F, \hC4B6D4, \hC82F22, \h4E63D9, \hD11CCE, \h575035, \h5BC9C3, \hDD8538 >>

\* mutant: the shifted register masked with 0xFFFF instead of 0xFFFFFF
RECURSIVE Crc24qFromMask16(_, _, _)
Crc24qFromMask16(buff, i, crc) ==
    IF i <= Len(buff)
    THEN Crc24qFromMask16(buff, i + 1,
                          ((crc % 2^8) * 256) ^^ TBL_CR_C24_Q[((crc \div 2^16) ^^ buff[i]) + 1])
    ELSE crc

(* rtk_crc24q: crc=((crc<<8)&0xFFFFFF)^TBL_CR_C24_Q[(crc>>16)^buff[i]];  *)
(* (crc<<8)&0xFFFFFF is (crc % 2^16) * 256, inside TLC's integers.      *)
RECURSIVE Crc24qFrom(_, _, _)
Crc24qFrom(buff, i, crc) ==
    IF i <= Len(buff)
    THEN Crc24qFrom(buff, i + 1,
                    ((crc % 2^16) * 256) ^^ TBL_CR_C24_Q[((crc \div 2^16) ^^ buff[i]) + 1])
    ELSE crc

Crc24q(buff) == Crc24qFrom(buff, 1, 0)

(* rtk_crc16: uint16_t crc=(crc<<8)^TBL_CR_C16[((crc>>8)^buff[i])&0xFF] *)
RECURSIVE Crc16From(_, _, _)
Crc16From(buff, i, crc) ==
    IF i <= Len(buff)
    THEN Crc16From(buff, i + 1,
                   ((crc * 256) ^^ TBL_CR_C16[(((crc \div 256) ^^ buff[i]) % 256) + 1]) % 2^16)
    ELSE crc

Crc16(buff) == Crc16From(buff, 1, 0)

(* decode_word: the six hamming[] masks of the parity algorithm, as their *)
(* high and low 16-bit halves.                                            *)
HAMMING ==
    << <<\hBB1F, \h3480>>, <<\h5D8F, \h9A40>>, <<\hAEC7, \hCD00>>,
       <<\h5763, \hE680>>, <<\h6BB1, \hF340>>, <<\h8B7A, \h89C0>> >>

MaskBit(m, b) == IF b >= 16 THEN (m[1] \div 2^(b - 16)) % 2 ELSE (m[2] \div 2^b) % 2

\* sum of w[b] * 2^(b - lo) over bits lo..hi of a word
WordBits(w, lo, hi) == MapThenSumSet(LAMBDA b : w[b] * 2^(b - lo), lo .. hi)

NoData == <<>>

\* mutant: the inversion tested on D29* (0x80000000) instead of D30*
DecodeWordD29(word) ==
    LET w      == IF word[31] = 1
                  THEN [b \in 0 .. 31 |-> IF 6 <= b /\ b <= 29 THEN 1 - word[b] ELSE word[b]]
                  ELSE word
        par(i) == MapThenSumSet(LAMBDA b : w[b] * MaskBit(HAMMING[i + 1], b), 6 .. 31) % 2
        parity == MapThenSumSet(LAMBDA i : par(i) * 2^(5 - i), 0 .. 5)
    IN IF parity # WordBits(w, 0, 5)
       THEN [ok |-> 0, data |-> NoData]
       ELSE [ok |-> 1, data |-> [i \in 1 .. 3 |-> WordBits(w, 30 - 8 * i, 37 - 8 * i)]]

\* mutant: the parity compared with (word&0x3E), D30 left out
DecodeWordNoD30(word) ==
    LET w      == IF word[30] = 1
                  THEN [b \in 0 .. 31 |-> IF 6 <= b /\ b <= 29 THEN 1 - word[b] ELSE word[b]]
                  ELSE word
        par(i) == MapThenSumSet(LAMBDA b : w[b] * MaskBit(HAMMING[i + 1], b), 6 .. 31) % 2
        parity == MapThenSumSet(LAMBDA i : par(i) * 2^(5 - i), 0 .. 4)
    IN IF parity # WordBits(w, 1, 5) * 2
       THEN [ok |-> 0, data |-> NoData]
       ELSE [ok |-> 1, data |-> [i \in 1 .. 3 |-> WordBits(w, 30 - 8 * i, 37 - 8 * i)]]

(* decode_word(word, data): word is D29* D30* D1..D30 in bits 31..0.     *)
(* If D30* is set D1..D24 are inverted (word ^= 0x3FFFFFC0); parity bit  *)
(* i is the XOR of the bits 6..31 that hamming[i] selects; on a match     *)
(* data[i] = (unsigned char)(word >> (22-i*8)), else data is untouched.  *)
DecodeWord(word) ==
    LET w      == IF word[30] = 1
                  THEN [b \in 0 .. 31 |-> IF 6 <= b /\ b <= 29 THEN 1 - word[b] ELSE word[b]]
                  ELSE word
        par(i) == MapThenSumSet(LAMBDA b : w[b] * MaskBit(HAMMING[i + 1], b), 6 .. 31) % 2
        parity == MapThenSumSet(LAMBDA i : par(i) * 2^(5 - i), 0 .. 5)
    IN IF parity # WordBits(w, 0, 5)
       THEN [ok |-> 0, data |-> NoData]
       ELSE [ok |-> 1, data |-> [i \in 1 .. 3 |-> WordBits(w, 30 - 8 * i, 37 - 8 * i)]]
====
