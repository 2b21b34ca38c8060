---------------------------- MODULE BlockChannel ----------------------------
(***************************************************************************)
(* What a SIP tunnel promises.  On its way in nothing goes wrong: what a   *)
(* host transmits is sent in its order and only once, cut anew into        *)
(* blocks, until the program ends and what it holds is lost.  On its way   *)
(* out each block is whole, with the bytes it was sent with; but it is not *)
(* promised that a block arrives, that it arrives once, or that blocks     *)
(* arrive in the order they were sent in.                                  *)
(***************************************************************************)
EXTENDS Integers, Sequences

CONSTANTS Node,     (* the two hosts                                       *)
          Peer(_),  (* the host at the other end                           *)
          MaxBlock, (* the longest block                                   *)
          Input     (* Input[n][k]: the k-th thing that n transmits        *)

VARIABLES read,     (* read[n]: how many of them have been taken           *)
          outbox,   (* outbox[n]: bytes taken for n and not sent yet       *)
          sent,     (* sent[n]: the blocks that n has sent so far          *)
          inbox     (* inbox[n]: bytes that have come out for n, unread    *)

channel == <<read, outbox, sent, inbox>>

Init == /\ read = [n \in Node |-> 0]
        /\ outbox = [n \in Node |-> <<>>]
        /\ sent = [n \in Node |-> <<>>]
        /\ inbox = [n \in Node |-> <<>>]

Accept(n) ==
  /\ read[n] < Len(Input[n])
  /\ read' = [read EXCEPT ![n] = @ + 1]
  /\ outbox' = [outbox EXCEPT ![n] = @ \o Input[n][read[n] + 1]]
  /\ UNCHANGED <<sent, inbox>>

\* The front of what has been taken becomes a block.
Send(n) ==
  /\ \E k \in 1..MaxBlock :
       /\ k <= Len(outbox[n])
       /\ sent' = [sent EXCEPT ![n] = Append(@, SubSeq(outbox[n], 1, k))]
       /\ outbox' = [outbox EXCEPT ![n] = SubSeq(@, k+1, Len(@))]
  /\ UNCHANGED <<read, inbox>>

\* One of the peer's blocks comes out: an old one, or the same one again.
Arrive(n) ==
  /\ \E k \in 1..Len(sent[Peer(n)]) :
       inbox' = [inbox EXCEPT ![n] = @ \o sent[Peer(n)][k]]
  /\ UNCHANGED <<read, outbox, sent>>

\* Bytes leave in the order they came out.
Leave(n) ==
  /\ \E k \in 1..Len(inbox[n]) :
       inbox' = [inbox EXCEPT ![n] = SubSeq(@, k+1, Len(@))]
  /\ UNCHANGED <<read, outbox, sent>>

\* The program ends, and what it has taken or not delivered goes with it.
End(n) ==
  /\ outbox' = [outbox EXCEPT ![n] = <<>>]
  /\ inbox' = [inbox EXCEPT ![n] = <<>>]
  /\ UNCHANGED <<read, sent>>

Next == \E n \in Node : Accept(n) \/ Send(n) \/ Arrive(n) \/ Leave(n) \/ End(n)

Spec == Init /\ [][Next]_channel
=============================================================================
