---------------------------- MODULE MCTcpTunnel ----------------------------
(* Instances of TcpTunnel small enough to check.                           *)
EXTENDS TcpTunnel

CONSTANTS ClientFrames, ServerFrames   (* frames each host transmits       *)

MCMaxFrames == [n \in Node |-> IF n = Client THEN ClientFrames ELSE ServerFrames]
=============================================================================
