------------------------------- MODULE Base64 -------------------------------
(***************************************************************************)
(* The Base64 codec of base64.c, which the SIP plugin uses to put a block  *)
(* of bytes into the value of a header.                                    *)
(*                                                                         *)
(* A character of the alphabet is its place in encoding_table (0..63), and *)
(* Pad stands for '='.  encoding_table has no character twice, so          *)
(* decoding_table, built from it, takes each of them back to its place.    *)
(* Triples stay below 2^24 and fit the uint32_t that holds them.           *)
(***************************************************************************)
EXTENDS Integers, Sequences

Octet == 0..255
Char  == 0..63
Pad   == 64
Text  == Seq(Char \cup {Pad})

\* The bits of a triple that lie before those of its j-th sextet or octet
\* are cut off by the mask, those after it by the shift.
SextetShift == <<262144, 4096, 64, 1>>
OctetShift  == <<65536, 256, 1>>

SextetOf(triple, j) == (triple \div SextetShift[j]) % 64
OctetOf(triple, j)  == (triple \div OctetShift[j]) % 256
-----------------------------------------------------------------------------
(* base64_encode                                                           *)

OctetAt(data, i) == IF i <= Len(data) THEN data[i] ELSE 0

\* The g-th group of three octets, counted from 0.
EncodeTriple(data, g) == OctetAt(data, 3*g + 1) * 65536
                       + OctetAt(data, 3*g + 2) * 256
                       + OctetAt(data, 3*g + 3)

\* Mutant: the entries are in the order of the remainders.
mod_table_ascending == <<0, 1, 2>>

mod_table == <<0, 2, 1>>

Padding(length) == mod_table[(length % 3) + 1]

TextLength(length) == 4 * ((length + 2) \div 3)

Encode(data) ==
  LET length == TextLength(Len(data))
  IN  [p \in 1..length |-> IF p > length - Padding(Len(data)) THEN Pad
                           ELSE SextetOf(EncodeTriple(data, (p-1) \div 4), ((p-1) % 4) + 1)]
-----------------------------------------------------------------------------
(* base64_decode.  Where it returns NULL (a length that is not a multiple  *)
(* of four) there is no value; it also needs a text, as it looks at the    *)
(* last two characters before anything else.                               *)
Decodable(text) == text # <<>> /\ Len(text) % 4 = 0

Sextet(char) == IF char = Pad THEN 0 ELSE char

DecodeTriple(text, g) == Sextet(text[4*g + 1]) * 262144
                       + Sextet(text[4*g + 2]) * 4096
                       + Sextet(text[4*g + 3]) * 64
                       + Sextet(text[4*g + 4])

PadAt(text, p) == IF text[p] = Pad THEN 1 ELSE 0

\* Mutant: only the last character of the text is looked at.
DataLengthOnePad(text) == (Len(text) \div 4) * 3 - PadAt(text, Len(text))

DataLength(text) ==
  (Len(text) \div 4) * 3 - PadAt(text, Len(text)) - PadAt(text, Len(text) - 1)

Decode(text) == [i \in 1..DataLength(text) |->
                   OctetOf(DecodeTriple(text, (i-1) \div 3), ((i-1) % 3) + 1)]
-----------------------------------------------------------------------------
(* The two sizes the callers work with: a block is read into a buffer of   *)
(* BLOCK_SIZE bytes, less one, and its text is copied into a char array    *)
(* and ended with a zero there.  Nothing in the code relates them.         *)

\* Mutant: a multiple of 256, with room for a frame and its tag.
BLOCK_SIZE_rounded == 1536

BLOCK_SIZE == 1505
PayloadSize == 2048
-----------------------------------------------------------------------------
(* What the two operations are for.                                        *)

\* The bits of an octet, the highest first; a sextet has the last six.
Weight == <<128, 64, 32, 16, 8, 4, 2, 1>>

\* Bit k, counted from 0, of numbers that are w bits wide.
BitOf(number, w, k) == (number \div Weight[8 - w + (k % w) + 1]) % 2
Bit(numbers, w, k)  == BitOf(numbers[(k \div w) + 1], w, k)

(* The text is the data's bits, six to a character, filled up with zero    *)
(* bits to a whole character and with '=' to a whole group of four.        *)
IsBase64Of(text, data) ==
  LET bits  == 8 * Len(data)
      chars == (bits + 5) \div 6
  IN  /\ Len(text) % 4 = 0 /\ Len(text) - chars \in 0..2
      /\ \A p \in 1..chars : text[p] \in Char
      /\ \A p \in chars+1 .. Len(text) : text[p] = Pad
      /\ \A k \in 0 .. 6*chars - 1 :
           Bit(text, 6, k) = IF k < bits THEN Bit(data, 8, k) ELSE 0

(* What is decoded is what was encoded.                                    *)
RoundTrips(data) == Decodable(Encode(data)) /\ Decode(Encode(data)) = data
=============================================================================
