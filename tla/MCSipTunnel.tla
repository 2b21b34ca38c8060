---------------------------- MODULE MCSipTunnel ----------------------------
(* An instance of SipTunnel small enough to check.                         *)
EXTENDS SipTunnel

(* Alice's frames do not fit into the pipe together, and the second one is *)
(* too long for a block.  Their texts have every amount of padding.        *)
MCTraffic == [n \in Node |-> IF n = Alice THEN << <<128, 62>>, <<0, 255, 64, 7>> >>
                                          ELSE << <<63>> >>]
=============================================================================
