------------------------------ MODULE MCBase64 ------------------------------
(* Messages over a few octets, one octet longer at each step: every short  *)
(* one, and the longest that the SIP plugin hands to the encoder.          *)
EXTENDS Base64Proofs

CONSTANTS Octets,     (* the octets that messages are made of              *)
          MaxLength   (* bound: the length of a short message              *)

ASSUME OctetsAssumption == Octets \subseteq Octet /\ MaxLength \in Nat

VARIABLE data

\* A block: what read() of at most BLOCK_SIZE - 1 bytes may return.
IsBlock(d) == Len(d) < BLOCK_SIZE

Init == \E o \in Octets, n \in {1, BLOCK_SIZE - 3} : data = [i \in 1..n |-> o]

Lengthen == /\ Len(data) < MaxLength \/ (Len(data) >= BLOCK_SIZE - 3 /\ Len(data) < BLOCK_SIZE - 1)
            /\ \E o \in Octets : data' = Append(data, o)

Spec == Init /\ [][Lengthen]_data

(* Encode computes the Base64 of every message: base64_encode's shifts,    *)
(* masks, padding and length against the bit strings they stand for.       *)
EncodesBits == IsBase64Of(Encode(data), data)

(* The length that base64_decode computes from the padding, and the octets *)
(* it takes out of each triple, give every message back.                   *)
RoundTrip == RoundTrips(data)

(* The text of every block leaves a place for the zero in the payload of   *)
(* on_rx_request: the 1505 of globals.h and the 2048 of sip_plugin.c.      *)
FitsPayload == IsBlock(data) => Len(Encode(data)) < PayloadSize
-----------------------------------------------------------------------------
(* The messages that MCBase64 walks through are of any octets and of any   *)
(* length.                                                                 *)
Message == data \in Seq(Octet) /\ data # <<>>

LEMMA EveryMessage == Spec => []Message
<1>1. Init => Message
  <2> SUFFICES ASSUME NEW o \in Octets, NEW n \in {1, BLOCK_SIZE - 3},
                      data = [i \in 1..n |-> o]
               PROVE  Message
    BY DEF Init
  <2>1. n \in Nat \ {0} /\ o \in Octet
    BY OctetsAssumption, SMT DEF BLOCK_SIZE
  <2>2. data \in Seq(Octet) /\ Len(data) = n
    BY <2>1
  <2> QED BY <2>1, <2>2 DEF Message
<1>2. Message /\ [Lengthen]_data => Message'
  <2> SUFFICES ASSUME Message, [Lengthen]_data PROVE Message'
    OBVIOUS
  <2>1. CASE UNCHANGED data
    BY <2>1 DEF Message
  <2>2. CASE Lengthen
    <3>1. PICK o \in Octets : data' = Append(data, o)
      BY <2>2 DEF Lengthen
    <3>2. o \in Octet
      BY OctetsAssumption
    <3> QED BY <3>1, <3>2 DEF Message
  <2> QED BY <2>1, <2>2
<1> QED BY <1>1, <1>2, PTL DEF Spec

(* base64_encode writes the Base64 of every one of them.                   *)
THEOREM MessagesAreBase64 == Spec => []EncodesBits
<1>1. Message => EncodesBits
  BY EncodeIsBase64 DEF Message, EncodesBits
<1> QED BY <1>1, EveryMessage, PTL

(* base64_decode gives every one of them back.                             *)
THEOREM MessagesRoundTrip == Spec => []RoundTrip
<1>1. Message => RoundTrip
  BY DecodeInvertsEncode DEF Message, RoundTrip
<1> QED BY <1>1, EveryMessage, PTL

(* The text of a block of any length that read() may return, of any octets,*)
(* fits into on_rx_request's payload.                                      *)
THEOREM BlocksFitPayload == Spec => []FitsPayload
<1>1. ASSUME Message, IsBlock(data) PROVE Len(Encode(data)) < PayloadSize
  <2> DEFINE n == Len(data)
  <2>1. Len(Encode(data)) = 4 * ((n + 2) \div 3)
    BY <1>1, DecodedLength DEF Message
  <2>2. n \in Nat /\ n < 1505
    BY <1>1, SMT DEF Message, IsBlock, BLOCK_SIZE
  <2> HIDE DEF n
  <2>3. 4 * ((n + 2) \div 3) < 2048
    BY <2>2, SMT
  <2> QED BY <2>1, <2>3, SMT DEF PayloadSize
<1>2. Message => FitsPayload
  BY <1>1 DEF FitsPayload
<1> QED BY <1>2, EveryMessage, PTL
=============================================================================
