----------------------------- MODULE ByteStream -----------------------------
(***************************************************************************)
(* What a TCP tunnel promises while its connection is up: for each         *)
(* direction, one FIFO stream of bytes.  What the TUN device of one host   *)
(* hands to the tunnel (accepted) comes out at the TUN device of the other *)
(* (delivered) in the same order, with nothing lost, repeated or invented. *)
(* The promise is about bytes, not about frames: the program keeps no      *)
(* frame boundaries.                                                       *)
(***************************************************************************)
EXTENDS Integers, Sequences

CONSTANTS Node,     (* the two hosts                                       *)
          Peer(_),  (* the host at the other end                           *)
          Inputs    (* the byte sequences one read of a TUN device returns *)

VARIABLES accepted,   (* accepted[n]: bytes read so far from n's TUN       *)
          delivered   (* delivered[n]: bytes written so far to n's TUN     *)

streams == <<accepted, delivered>>

Init == /\ accepted = [n \in Node |-> <<>>]
        /\ delivered = [n \in Node |-> <<>>]

\* The stream that starts at n grows by what one read returned.
Accept(n) == /\ \E s \in Inputs : accepted' = [accepted EXCEPT ![n] = @ \o s]
             /\ UNCHANGED delivered

\* The peer's TUN receives some of the bytes it has not received yet.
Deliver(n) ==
  /\ \E k \in Len(delivered[Peer(n)])+1 .. Len(accepted[n]) :
       delivered' = [delivered EXCEPT ![Peer(n)] = SubSeq(accepted[n], 1, k)]
  /\ UNCHANGED accepted

Next == \E n \in Node : Accept(n) \/ Deliver(n)

Spec == Init /\ [][Next]_streams
=============================================================================
