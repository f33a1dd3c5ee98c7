------------------------------ MODULE MC_NavWord ------------------------------
(***************************************************************************)
(* A GPS LNAV subframe stream as decode_word sees it: each 30-bit word,    *)
(* with D29* and D30* of the previous word in the top two bits, encoded   *)
(* per IS-GPS-200 20.3.5.2 (table 20-XIV), possibly with one bit flipped  *)
(* on the way.  The reference is the ICD's parity equations.              *)
(***************************************************************************)
EXTENDS BitCodec

CONSTANTS
    Data,       \* 24-bit source data words d1..d24 (d1 the MSB)
    Flips       \* bit of the 32-bit word flipped in transit, -1 for none

VARIABLES src, word

vars == <<src, word>>

\* d_k, k = 1..24, of a 24-bit source word
DBit(d, k) == (d \div 2^(24 - k)) % 2

Xor2(a, b) == (a + b) % 2

(* IS-GPS-200 table 20-XIV: D25..D30 from D29*, D30* and the source data *)
ParityEq ==
    << [prev |-> 29, d |-> {1,2,3,5,6,10,11,12,13,14,17,18,20,23}],
       [prev |-> 30, d |-> {2,3,4,6,7,11,12,13,14,15,18,19,21,24}],
       [prev |-> 29, d |-> {1,3,4,5,7,8,12,13,14,15,16,19,20,22}],
       [prev |-> 30, d |-> {2,4,5,6,8,9,13,14,15,16,17,20,21,23}],
       [prev |-> 30, d |-> {1,3,5,6,7,9,10,14,15,16,17,18,21,22,24}],
       [prev |-> 29, d |-> {3,5,6,8,9,10,11,13,15,19,22,23,24}] >>

(* The transmitted word: D_k = d_k XOR D30* for k = 1..24, then D25..D30, *)
(* laid out as decode_word expects (D29* bit 31, D30* bit 30, D1 bit 29). *)
Encode(d, p29, p30) ==
    LET prev(n) == IF n = 29 THEN p29 ELSE p30
        par(j)  == (prev(ParityEq[j].prev) + MapThenSumSet(LAMBDA k : DBit(d, k), ParityEq[j].d)) % 2
    IN [b \in 0 .. 31 |->
          CASE b = 31 -> p29
            [] b = 30 -> p30
            [] b >= 6 -> Xor2(DBit(d, 30 - b), p30)
            [] OTHER  -> par(6 - b)]

Flip(w, f) == IF f < 0 THEN w ELSE [w EXCEPT ![f] = 1 - @]

\* the three bytes d1..d8, d9..d16, d17..d24
DataBytes(d) == << d \div 2^16, (d \div 2^8) % 2^8, d % 2^8 >>

Init ==
    \E d \in Data, p29, p30 \in {0, 1}, f \in Flips :
        /\ src = [d |-> d, p29 |-> p29, p30 |-> p30, flip |-> f]
        /\ word = Flip(Encode(d, p29, p30), f)

(* the next word of the stream arrives: its D29* and D30* are the last  *)
(* two parity bits of the word sent before it                           *)
Receive(d, f) ==
    LET prev == Encode(src.d, src.p29, src.p30)
    IN /\ src' = [d |-> d, p29 |-> prev[1], p30 |-> prev[0], flip |-> f]
       /\ word' = Flip(Encode(d, prev[1], prev[0]), f)

Next == \E d \in Data, f \in Flips : Receive(d, f)

Spec == Init /\ [][Next]_vars

(* decode_word accepts every correctly encoded word and returns its     *)
(* source data bytes, whatever D29* and D30* of the previous word were   *)
(* (the D30* inversion is undone before the parity).                     *)
DecodeCorrect ==
    src.flip < 0 => DecodeWord(word) = [ok |-> 1, data |-> DataBytes(src.d)]

(* A single bit error anywhere in the 32 bits (the word or the two bits  *)
(* kept from the previous one) makes decode_word report a parity error.  *)
SingleErrorDetected ==
    src.flip >= 0 => DecodeWord(word).ok = 0
=============================================================================
