--------------------------- MODULE TcpTunnelProofs ---------------------------
(* Proofs about TcpTunnel, for every size of buffer, pipe and frame.       *)
EXTENDS TcpTunnel, SequenceTheorems, TLAPS

-----------------------------------------------------------------------------
(* Nodes.                                                                  *)

LEMMA PeerFacts ==
  ASSUME NEW n \in Node
  PROVE  /\ Peer(n) \in Node
         /\ Peer(n) # n
         /\ Peer(Peer(n)) = n
         /\ \A m \in Node : m = n \/ m = Peer(n)
  BY TunnelAssumption DEF Node, Peer

(* What a bounded read takes and leaves.                                   *)
LEMMA ChunkRest ==
  ASSUME NEW S, NEW s \in Seq(S), NEW size \in Nat
  PROVE  /\ Chunk(s, size) \in Seq(S)
         /\ Rest(s, size) \in Seq(S)
         /\ Len(Chunk(s, size)) = IF Len(s) <= size THEN Len(s) ELSE size
         /\ Len(Rest(s, size)) = Len(s) - Len(Chunk(s, size))
         /\ Chunk(s, size) \o Rest(s, size) = s
<1>1. CASE Len(s) <= size
  BY <1>1 DEF Chunk, Rest
<1>2. CASE ~(Len(s) <= size)
  <2>1. Len(s) \in Nat /\ size+1 \in Nat /\ size < Len(s)
    BY <1>2
  <2>2. Chunk(s, size) = SubSeq(s, 1, size) /\ Rest(s, size) = SubSeq(s, size+1, Len(s))
    BY <1>2 DEF Chunk, Rest
  <2>3. /\ SubSeq(s, 1, size) \in Seq(S) /\ Len(SubSeq(s, 1, size)) = size
        /\ \A i \in 1..size : SubSeq(s, 1, size)[i] = s[i]
    BY <2>1
  <2>4. /\ SubSeq(s, size+1, Len(s)) \in Seq(S)
        /\ Len(SubSeq(s, size+1, Len(s))) = Len(s) - size
        /\ \A i \in 1..(Len(s)-size) : SubSeq(s, size+1, Len(s))[i] = s[size+i]
    BY <2>1
  <2>5. SubSeq(s, 1, size) \o SubSeq(s, size+1, Len(s)) = SubSeq(s, 1, Len(s))
    <3>1. 1 \in 1..Len(s)+1 /\ size \in 1-1..Len(s) /\ Len(s) \in size..Len(s)
      BY <2>1
    <3> QED BY <3>1, ConcatAdjacentSubSeq, Zenon
  <2>6. SubSeq(s, 1, Len(s)) = s
    BY SubSeqFull
  <2> QED BY <2>1, <2>2, <2>3, <2>4, <2>5, <2>6, <1>2
<1> QED BY <1>1, <1>2

LEMMA ChunkBound ==
  ASSUME NEW S, NEW s \in Seq(S), NEW size \in Nat
  PROVE  /\ Chunk(s, size) \in Seq(S) /\ Len(Chunk(s, size)) <= size
         /\ Rest(s, size) \in Seq(S) /\ Len(Rest(s, size)) <= Len(s)
  BY ChunkRest

LEMMA FrameIsSeq ==
  ASSUME NEW n \in Node, NEW k \in Nat, NEW len \in Nat
  PROVE  Frame(n, k, len) \in Seq(Byte) /\ Len(Frame(n, k, len)) = len
  BY DEF Frame, Byte
-----------------------------------------------------------------------------
(* TypeOK is inductive.                                                    *)

LEMMA BlocksDef ==
  ASSUME NEW s, NEW size \in Nat
  PROVE  s \in Blocks(size) <=> s \in Seq(Byte) /\ Len(s) <= size
  BY DEF Blocks

\* The same of what Blocks holds, as the range of a length.
LEMMA BlocksLen ==
  ASSUME NEW size \in Nat, NEW s \in Blocks(size)
  PROVE  s \in Seq(Byte) /\ Len(s) \in 0..size
<1>1. s \in Seq(Byte) /\ Len(s) <= size
  BY DEF Blocks
<1>2. Len(s) \in Nat
  BY <1>1, LenProperties
<1> QED BY <1>1, <1>2

LEMMA TypeInit == Init => TypeOK
  BY TunnelAssumption DEF Init, TypeOK, Blocks, Node

LEMMA TypeStep == TypeOK /\ [Next]_vars => TypeOK'
<1> SUFFICES ASSUME TypeOK, [Next]_vars PROVE TypeOK'
  OBVIOUS
<1> USE TunnelAssumption
<1>1. CASE Connect
  BY <1>1 DEF Connect, TypeOK, Node, vars, pluginVars, tunVars, pipeVars, sockVars, history
<1>2. CASE PluginAccept
  BY <1>2 DEF PluginAccept, TypeOK, Node, mainVars, tunVars, pipeVars, sockVars, history
<1>3. ASSUME NEW n \in Node, TunArrive(n) PROVE TypeOK'
  <2>1. PICK len \in FrameLens :
          tunq' = [tunq EXCEPT ![n] = Append(@, Frame(n, nframes'[n], len))]
    BY <1>3 DEF TunArrive
  <2>2. nframes'[n] \in Nat /\ nframes' = [nframes EXCEPT ![n] = @ + 1]
    BY <1>3 DEF TunArrive, TypeOK
  <2>3. Frame(n, nframes'[n], len) \in Seq(Byte)
    BY <2>2, FrameIsSeq
  <2>4. tunq'[n] = Append(tunq[n], Frame(n, nframes'[n], len)) /\ tunq[n] \in Seq(Seq(Byte))
    BY <2>1 DEF TypeOK
  <2>5. tunq'[n] \in Seq(Seq(Byte)) /\ Len(tunq'[n]) = Len(tunq[n]) + 1
    <3> DEFINE q == tunq[n]
               f == Frame(n, nframes'[n], len)
    <3>1. q \in Seq(Seq(Byte)) /\ f \in Seq(Byte) /\ tunq'[n] = Append(q, f)
      BY <2>3, <2>4
    <3> HIDE DEF q, f
    <3>2. Append(q, f) \in Seq(Seq(Byte)) /\ Len(Append(q, f)) = Len(q) + 1
      BY <3>1
    <3> QED BY <3>1, <3>2, Zenon DEF q
  <2>6. tunq'[n] # <<>> /\ Len(tunq'[n]) <= TunCap
    <3>1. Len(tunq[n]) \in Nat /\ Len(tunq[n]) < TunCap
      BY <1>3, <2>4 DEF TunArrive
    <3> QED BY <2>5, <3>1
  <2>7. nframes'[n] <= MaxFrames[n]
    <3>1. MaxFrames[n] \in Nat
      BY DEF Node
    <3>2. nframes[n] \in Nat /\ nframes[n] < MaxFrames[n] /\ nframes'[n] = nframes[n] + 1
      BY <1>3, <2>2 DEF TunArrive, TypeOK
    <3> QED BY <3>1, <3>2
  <2>8. /\ tunq' \in [Node -> Seq(Seq(Byte))]
        /\ nframes' \in [Node -> Nat]
        /\ \A m \in Node : m # n => tunq'[m] = tunq[m] /\ nframes'[m] = nframes[m]
    BY <2>1, <2>2, <2>5 DEF TypeOK
  <2> QED BY <1>3, <2>5, <2>6, <2>7, <2>8
          DEF TunArrive, TypeOK, mainVars, pluginVars, pipeVars, sockVars, history
<1>4. ASSUME NEW n \in Node, NetDeliver(n) PROVE TypeOK'
  <2>1. PICK k \in 1..Len(sndbuf[n]) :
          /\ Len(rcvbuf[Peer(n)]) + k <= RecvCap
          /\ rcvbuf' = [rcvbuf EXCEPT ![Peer(n)] = @ \o Chunk(sndbuf[n], k)]
          /\ sndbuf' = [sndbuf EXCEPT ![n] = Rest(@, k)]
    BY <1>4 DEF NetDeliver
  <2>2. sndbuf[n] \in Seq(Byte) /\ rcvbuf[Peer(n)] \in Seq(Byte) /\ k \in Nat
    BY PeerFacts DEF TypeOK, Blocks
  <2>3. /\ Chunk(sndbuf[n], k) \in Seq(Byte) /\ Len(Chunk(sndbuf[n], k)) <= k
        /\ Rest(sndbuf[n], k) \in Seq(Byte) /\ Len(Rest(sndbuf[n], k)) <= Len(sndbuf[n])
    BY <2>2, ChunkBound, Zenon
  <2>4. rcvbuf'[Peer(n)] = rcvbuf[Peer(n)] \o Chunk(sndbuf[n], k) /\ sndbuf'[n] = Rest(sndbuf[n], k)
    BY <2>1, PeerFacts DEF TypeOK
  <2>5. rcvbuf'[Peer(n)] \in Seq(Byte) /\ Len(rcvbuf'[Peer(n)]) <= RecvCap
    BY <2>1, <2>2, <2>3, <2>4
  <2>6. sndbuf'[n] \in Seq(Byte) /\ Len(sndbuf'[n]) <= SendCap
    BY <2>2, <2>3, <2>4 DEF TypeOK, Blocks
  <2>7. rcvbuf'[Peer(n)] \in Blocks(RecvCap) /\ sndbuf'[n] \in Blocks(SendCap)
    BY <2>5, <2>6 DEF Blocks
  <2> QED BY <1>4, <2>1, <2>7, PeerFacts
          DEF NetDeliver, TypeOK, mainVars, pluginVars, tunVars, pipeVars, history
<1>5. ASSUME NEW n \in Node, MainSelectTun(n) \/ MainSelectPipe(n) PROVE TypeOK'
  BY <1>5 DEF MainSelectTun, MainSelectPipe, TypeOK, pluginVars, tunVars, pipeVars, sockVars, history
<1>6. ASSUME NEW n \in Node, MainReadTun(n) PROVE TypeOK'
  <2>1. tunq[n] \in Seq(Seq(Byte)) /\ tunq[n] # <<>> /\ BlockSize - 1 \in Nat
    BY <1>6 DEF MainReadTun, TypeOK
  <2>2. /\ Head(tunq[n]) \in Seq(Byte)
        /\ Tail(tunq[n]) \in Seq(Seq(Byte)) /\ Len(Tail(tunq[n])) = Len(tunq[n]) - 1
    BY <2>1
  <2>3. /\ Chunk(Head(tunq[n]), BlockSize - 1) \in Seq(Byte)
        /\ Len(Chunk(Head(tunq[n]), BlockSize - 1)) <= BlockSize - 1
    BY <2>1, <2>2, ChunkBound, Zenon
  <2>4. /\ mbuf'[n] \in Blocks(BlockSize) /\ mbuf'[n] \in Seq(Byte)
        /\ Len(mbuf'[n]) < BlockSize
    <3>1. mbuf'[n] = Chunk(Head(tunq[n]), BlockSize - 1)
      BY <1>6 DEF MainReadTun, TypeOK
    <3>2. mbuf'[n] \in Seq(Byte) /\ Len(mbuf'[n]) <= BlockSize - 1 /\ Len(mbuf'[n]) \in Nat
      BY <2>3, <3>1
    <3> QED BY <3>2 DEF Blocks
  <2>5. accepted'[n] \in Seq(Byte)
    BY <1>6, <2>4 DEF MainReadTun, TypeOK
  <2>6. Len(tunq'[n]) <= TunCap /\ tunq'[n] \in Seq(Seq(Byte)) /\ tunq' = [tunq EXCEPT ![n] = tunq'[n]]
    <3>1. tunq'[n] = Tail(tunq[n]) /\ Len(tunq[n]) <= TunCap
      BY <1>6 DEF MainReadTun, TypeOK
    <3>2. Len(tunq[n]) \in Nat
      BY <2>1
    <3>3. tunq' = [tunq EXCEPT ![n] = tunq'[n]]
      BY <1>6 DEF MainReadTun, TypeOK
    <3> QED BY <2>2, <3>1, <3>2, <3>3
  <2> QED BY <1>6, <2>4, <2>5, <2>6 DEF MainReadTun, TypeOK, pluginVars, pipeVars, sockVars
<1>7. ASSUME NEW n \in Node, MainWritePipe(n) PROVE TypeOK'
  <2>1. toPlugin'[n] \in Blocks(PipeCap) /\ mbuf'[n] \in Blocks(BlockSize)
    BY <1>7 DEF MainWritePipe, Fits, TypeOK, Blocks
  <2> QED BY <1>7, <2>1 DEF MainWritePipe, TypeOK, pluginVars, tunVars, sockVars, history
<1>8. ASSUME NEW n \in Node, MainReadPipe(n) PROVE TypeOK'
  <2>1. fromPlugin[n] \in Seq(Byte) /\ Len(fromPlugin[n]) <= PipeCap /\ BlockSize \in Nat
    BY DEF TypeOK, Blocks
  <2>2. /\ Chunk(fromPlugin[n], BlockSize) \in Seq(Byte)
        /\ Len(Chunk(fromPlugin[n], BlockSize)) <= BlockSize
        /\ Rest(fromPlugin[n], BlockSize) \in Seq(Byte)
        /\ Len(Rest(fromPlugin[n], BlockSize)) <= Len(fromPlugin[n])
    BY <2>1, ChunkBound, Zenon
  <2>3. fromPlugin'[n] \in Blocks(PipeCap) /\ mbuf'[n] \in Blocks(BlockSize)
    BY <1>8, <2>1, <2>2 DEF MainReadPipe, TypeOK, Blocks
  <2> QED BY <1>8, <2>3 DEF MainReadPipe, TypeOK, pluginVars, tunVars, sockVars, history
<1>9. ASSUME NEW n \in Node, MainWriteTun(n) PROVE TypeOK'
  <2>1. delivered'[n] \in Seq(Byte) /\ mbuf'[n] \in Blocks(BlockSize)
    BY <1>9 DEF MainWriteTun, TypeOK, Blocks
  <2> QED BY <1>9, <2>1 DEF MainWriteTun, TypeOK, pluginVars, tunVars, pipeVars, sockVars
<1>10. ASSUME NEW n \in Node, PluginSelectSocket(n) \/ PluginSelectPipe(n) PROVE TypeOK'
  BY <1>10 DEF PluginSelectSocket, PluginSelectPipe, TypeOK, mainVars, tunVars, pipeVars,
               sockVars, history
<1>11. ASSUME NEW n \in Node, PluginRecv(n) PROVE TypeOK'
  <2>1. rcvbuf[n] \in Seq(Byte) /\ Len(rcvbuf[n]) <= RecvCap /\ BlockSize - 1 \in Nat
    BY DEF TypeOK, Blocks
  <2>2. /\ Chunk(rcvbuf[n], BlockSize - 1) \in Seq(Byte)
        /\ Len(Chunk(rcvbuf[n], BlockSize - 1)) <= BlockSize - 1
        /\ Rest(rcvbuf[n], BlockSize - 1) \in Seq(Byte)
        /\ Len(Rest(rcvbuf[n], BlockSize - 1)) <= Len(rcvbuf[n])
    BY <2>1, ChunkBound, Zenon
  <2>3. rcvbuf'[n] \in Blocks(RecvCap) /\ pbuf'[n] \in Blocks(BlockSize - 1)
    BY <1>11, <2>1, <2>2 DEF PluginRecv, TypeOK, Blocks
  <2> QED BY <1>11, <2>3 DEF PluginRecv, TypeOK, mainVars, tunVars, pipeVars, history
<1>12. ASSUME NEW n \in Node, PluginWritePipe(n) PROVE TypeOK'
  <2>1. fromPlugin'[n] \in Blocks(PipeCap) /\ pbuf'[n] \in Blocks(BlockSize - 1)
    BY <1>12 DEF PluginWritePipe, Fits, TypeOK, Blocks
  <2> QED BY <1>12, <2>1 DEF PluginWritePipe, TypeOK, mainVars, tunVars, sockVars, history
<1>13. ASSUME NEW n \in Node, PluginReadPipe(n) PROVE TypeOK'
  <2>1. toPlugin[n] \in Seq(Byte) /\ Len(toPlugin[n]) <= PipeCap /\ BlockSize - 1 \in Nat
    BY DEF TypeOK, Blocks
  <2>2. /\ Chunk(toPlugin[n], BlockSize - 1) \in Seq(Byte)
        /\ Len(Chunk(toPlugin[n], BlockSize - 1)) <= BlockSize - 1
        /\ Rest(toPlugin[n], BlockSize - 1) \in Seq(Byte)
        /\ Len(Rest(toPlugin[n], BlockSize - 1)) <= Len(toPlugin[n])
    BY <2>1, ChunkBound, Zenon
  <2>3. toPlugin'[n] \in Blocks(PipeCap) /\ pbuf'[n] \in Blocks(BlockSize - 1)
    BY <1>13, <2>1, <2>2 DEF PluginReadPipe, TypeOK, Blocks
  <2> QED BY <1>13, <2>3 DEF PluginReadPipe, TypeOK, mainVars, tunVars, sockVars, history
<1>14. ASSUME NEW n \in Node, PluginSend(n) PROVE TypeOK'
  <2>1. PICK k \in 1..Len(pbuf[n]) :
          /\ Len(sndbuf[n]) + k <= SendCap
          /\ sndbuf' = [sndbuf EXCEPT ![n] = @ \o Chunk(pbuf[n], k)]
          /\ pbuf' = [pbuf EXCEPT ![n] = Rest(@, k)]
          /\ ppc' = [ppc EXCEPT ![n] = IF k = Len(pbuf[n]) THEN "select" ELSE "send"]
    BY <1>14 DEF PluginSend
  <2>2. /\ pbuf[n] \in Seq(Byte) /\ Len(pbuf[n]) <= BlockSize - 1
        /\ sndbuf[n] \in Seq(Byte) /\ k \in Nat
    BY DEF TypeOK, Blocks
  <2>3. /\ Chunk(pbuf[n], k) \in Seq(Byte) /\ Len(Chunk(pbuf[n], k)) <= k
        /\ Rest(pbuf[n], k) \in Seq(Byte) /\ Len(Rest(pbuf[n], k)) <= Len(pbuf[n])
    BY <2>2, ChunkBound, Zenon
  <2>4. sndbuf'[n] = sndbuf[n] \o Chunk(pbuf[n], k) /\ pbuf'[n] = Rest(pbuf[n], k)
    BY <2>1 DEF TypeOK
  <2>5. sndbuf'[n] \in Seq(Byte) /\ Len(sndbuf'[n]) <= SendCap
    BY <2>1, <2>2, <2>3, <2>4
  <2>6. sndbuf'[n] \in Blocks(SendCap) /\ pbuf'[n] \in Blocks(BlockSize - 1)
    <3>1. sndbuf'[n] \in Blocks(SendCap)
      BY <2>5 DEF Blocks
    <3>2. pbuf'[n] \in Seq(Byte) /\ Len(pbuf'[n]) <= BlockSize - 1
      BY <2>2, <2>3, <2>4
    <3> QED BY <3>1, <3>2 DEF Blocks
  <2> QED BY <1>14, <2>1, <2>6 DEF PluginSend, TypeOK, mainVars, tunVars, pipeVars, history
<1>15. CASE UNCHANGED vars
  BY <1>15 DEF TypeOK, vars, mainVars, pluginVars, tunVars, pipeVars, sockVars, history
<1> QED
  BY <1>1, <1>2, <1>3, <1>4, <1>5, <1>6, <1>7, <1>8, <1>9, <1>10, <1>11, <1>12, <1>13, <1>14, <1>15
  DEF Next, MainStep, PluginStep

(* The type invariant: every buffer, pipe and queue stays within its size, *)
(* and MainLoop reads the TUN device only when a frame is there.           *)
THEOREM TypeCorrect == Spec => []TypeOK
  BY TypeInit, TypeStep, PTL DEF Spec
-----------------------------------------------------------------------------
(* The two plugins cannot be stuck sending to each other.                  *)
(*                                                                         *)
(* The argument: while a plugin has a block in hand for the socket, the    *)
(* bytes ahead of the peer's receive() are that block, the send buffer and *)
(* the peer's receive buffer.  When the second of the two plugins turns to *)
(* its pipe, select() has just found its receive buffer empty, so the line *)
(* from the first holds at most SendCap + BlockSize - 1 bytes; nothing is  *)
(* added to it until one of the two has finished its send().  A line that  *)
(* is stuck holds more: SendCap + RecvCap + 1 or more.                     *)

Sending(n) == ppc[n] \in {"readPipe", "send"}

InHand(n) == IF ppc[n] = "send" THEN Len(pbuf[n]) ELSE BlockSize - 1

Load(n) == Len(sndbuf[n]) + Len(rcvbuf[Peer(n)]) + InHand(n)

HoldsWhatItSends ==
  \A n \in Node : /\ ppc[n] = "readPipe" => toPlugin[n] # <<>>
                  /\ ppc[n] = "send" => pbuf[n] # <<>>

OneLineHasRoom ==
  (\A n \in Node : Sending(n)) => \E n \in Node : Load(n) <= SendCap + BlockSize - 1

SendInv == HoldsWhatItSends /\ OneLineHasRoom

LEMMA Sizes ==
  ASSUME TypeOK, NEW n \in Node
  PROVE  /\ sndbuf[n] \in Seq(Byte) /\ Len(sndbuf[n]) \in 0..SendCap
         /\ rcvbuf[n] \in Seq(Byte) /\ Len(rcvbuf[n]) \in 0..RecvCap
         /\ toPlugin[n] \in Seq(Byte) /\ Len(toPlugin[n]) \in 0..PipeCap
         /\ fromPlugin[n] \in Seq(Byte) /\ Len(fromPlugin[n]) \in 0..PipeCap
         /\ pbuf[n] \in Seq(Byte) /\ Len(pbuf[n]) \in 0..(BlockSize - 1)
         /\ mbuf[n] \in Seq(Byte) /\ Len(mbuf[n]) \in 0..BlockSize
<1>1. BlockSize \in Nat /\ BlockSize - 1 \in Nat /\ PipeCap \in Nat /\ SendCap \in Nat /\ RecvCap \in Nat
  BY TunnelAssumption
<1>2. /\ sndbuf[n] \in Blocks(SendCap) /\ rcvbuf[n] \in Blocks(RecvCap)
      /\ toPlugin[n] \in Blocks(PipeCap) /\ fromPlugin[n] \in Blocks(PipeCap)
      /\ pbuf[n] \in Blocks(BlockSize - 1) /\ mbuf[n] \in Blocks(BlockSize)
  BY DEF TypeOK
<1> QED BY <1>1, <1>2, BlocksLen, Zenon

LEMMA SizesNext ==
  ASSUME TypeOK', NEW n \in Node
  PROVE  /\ Len(sndbuf'[n]) \in 0..SendCap
         /\ Len(rcvbuf'[n]) \in 0..RecvCap
         /\ Len(pbuf'[n]) \in 0..(BlockSize - 1)
<1>1. BlockSize - 1 \in Nat /\ SendCap \in Nat /\ RecvCap \in Nat
  BY TunnelAssumption
<1>2. sndbuf'[n] \in Blocks(SendCap) /\ rcvbuf'[n] \in Blocks(RecvCap) /\ pbuf'[n] \in Blocks(BlockSize - 1)
  BY DEF TypeOK
<1> QED BY <1>1, <1>2, BlocksLen, Zenon

(* Arithmetic on lengths, with the lengths as variables.                   *)
LEMMA MovedRight ==
  ASSUME NEW a \in Nat, NEW b \in Nat, NEW c \in Nat
  PROVE  (a - c) + (b + c) = a + b
  OBVIOUS

LEMMA MovedLeft ==
  ASSUME NEW a \in Nat, NEW b \in Nat, NEW c \in Nat
  PROVE  (b + c) + (a - c) = b + a
  OBVIOUS

LEMMA SumBound ==
  ASSUME NEW a \in Nat, NEW b \in Nat, NEW c \in Int, NEW d \in Int, d <= c
  PROVE  a + b + d <= a + b + c
  OBVIOUS

LEMMA SumRegrouped ==
  ASSUME NEW a \in Nat, NEW b \in Nat, NEW c \in Nat,
         NEW d \in Nat, NEW e \in Nat, d + e = a + c
  PROVE  d + b + e <= a + b + c
  OBVIOUS

LEMMA StuckLineIsLonger ==
  ASSUME NEW b \in Nat, NEW s \in Nat, NEW r \in Nat, NEW p \in Nat, r >= b - 1, p # 0
  PROVE  ~(s + r + p <= s + b - 1)
  OBVIOUS

LEMMA LenConcat ==
  ASSUME NEW S, NEW s \in Seq(S), NEW t \in Seq(S)
  PROVE  Len(s \o t) = Len(s) + Len(t) /\ Len(s) \in Nat /\ Len(t) \in Nat
  OBVIOUS

LEMMA HoldsStep == TypeOK /\ HoldsWhatItSends /\ [Next]_vars => HoldsWhatItSends'
<1> SUFFICES ASSUME TypeOK, HoldsWhatItSends, [Next]_vars, NEW m \in Node
             PROVE  /\ ppc'[m] = "readPipe" => toPlugin'[m] # <<>>
                    /\ ppc'[m] = "send" => pbuf'[m] # <<>>
  BY DEF HoldsWhatItSends
<1>0. /\ ppc[m] = "readPipe" => toPlugin[m] # <<>>
      /\ ppc[m] = "send" => pbuf[m] # <<>>
  BY DEF HoldsWhatItSends
<1>1. ASSUME UNCHANGED <<ppc, pbuf, toPlugin>>
      PROVE  /\ ppc'[m] = "readPipe" => toPlugin'[m] # <<>>
             /\ ppc'[m] = "send" => pbuf'[m] # <<>>
  BY <1>0, <1>1
<1>2. CASE Connect \/ PluginAccept
  BY <1>0, <1>2 DEF Connect, PluginAccept, TypeOK, pipeVars
<1>3. ASSUME NEW n \in Node, \/ TunArrive(n) \/ NetDeliver(n) \/ MainSelectTun(n)
                             \/ MainSelectPipe(n) \/ MainReadTun(n) \/ MainReadPipe(n)
                             \/ MainWriteTun(n)
      PROVE  UNCHANGED <<ppc, pbuf, toPlugin>>
  BY <1>3 DEF TunArrive, NetDeliver, MainSelectTun, MainSelectPipe, MainReadTun, MainReadPipe,
              MainWriteTun, pluginVars, pipeVars
<1>4. ASSUME NEW n \in Node, MainWritePipe(n)
      PROVE  /\ ppc'[m] = "readPipe" => toPlugin'[m] # <<>>
             /\ ppc'[m] = "send" => pbuf'[m] # <<>>
  <2>1. toPlugin'[m] = toPlugin[m] \/ (m = n /\ toPlugin'[m] = toPlugin[m] \o mbuf[m])
    BY <1>4 DEF MainWritePipe, TypeOK
  <2>2. toPlugin[m] \in Seq(Byte) /\ mbuf[m] \in Seq(Byte)
    BY Sizes
  <2>3. toPlugin[m] \o mbuf[m] = <<>> => toPlugin[m] = <<>>
    BY <2>2, ConcatEqualIffEmpty
  <2>4. toPlugin[m] # <<>> => toPlugin'[m] # <<>>
    BY <2>1, <2>3
  <2> QED BY <1>0, <1>4, <2>4 DEF MainWritePipe, pluginVars
<1>5. ASSUME NEW n \in Node, \/ PluginSelectSocket(n) \/ PluginSelectPipe(n) \/ PluginRecv(n)
                             \/ PluginWritePipe(n)
      PROVE  /\ ppc'[m] = "readPipe" => toPlugin'[m] # <<>>
             /\ ppc'[m] = "send" => pbuf'[m] # <<>>
  BY <1>0, <1>5 DEF PluginSelectSocket, PluginSelectPipe, PluginRecv, PluginWritePipe, TypeOK,
                    pipeVars
<1>6. ASSUME NEW n \in Node, PluginReadPipe(n)
      PROVE  /\ ppc'[m] = "readPipe" => toPlugin'[m] # <<>>
             /\ ppc'[m] = "send" => pbuf'[m] # <<>>
  <2>1. CASE m # n
    BY <1>0, <1>6, <2>1 DEF PluginReadPipe, TypeOK
  <2>2. CASE m = n
    <3>1. toPlugin[n] \in Seq(Byte) /\ BlockSize - 1 \in Nat /\ BlockSize - 1 > 0
      BY TunnelAssumption, Sizes
    <3>2. Len(toPlugin[n]) > 0
      BY <1>0, <1>6, <2>2, <3>1 DEF PluginReadPipe
    <3>3. /\ Chunk(toPlugin[n], BlockSize - 1) \in Seq(Byte)
          /\ Len(Chunk(toPlugin[n], BlockSize - 1)) = IF Len(toPlugin[n]) <= BlockSize - 1
                                                        THEN Len(toPlugin[n]) ELSE BlockSize - 1
      BY <3>1, ChunkRest, Zenon
    <3>4. Len(Chunk(toPlugin[n], BlockSize - 1)) > 0
      BY <3>1, <3>2, <3>3
    <3>5. pbuf'[n] = Chunk(toPlugin[n], BlockSize - 1) /\ ppc'[n] = "send"
      BY <1>6 DEF PluginReadPipe, TypeOK
    <3> QED BY <2>2, <3>3, <3>4, <3>5
  <2> QED BY <2>1, <2>2
<1>7. ASSUME NEW n \in Node, PluginSend(n)
      PROVE  /\ ppc'[m] = "readPipe" => toPlugin'[m] # <<>>
             /\ ppc'[m] = "send" => pbuf'[m] # <<>>
  <2>1. CASE m # n
    BY <1>0, <1>7, <2>1 DEF PluginSend, TypeOK, pipeVars
  <2>2. CASE m = n
    <3>1. PICK k \in 1..Len(pbuf[n]) :
            /\ pbuf' = [pbuf EXCEPT ![n] = Rest(@, k)]
            /\ ppc' = [ppc EXCEPT ![n] = IF k = Len(pbuf[n]) THEN "select" ELSE "send"]
      BY <1>7 DEF PluginSend
    <3>2. pbuf[n] \in Seq(Byte) /\ Len(pbuf[n]) \in Nat /\ k \in Nat
      BY Sizes
    <3>3. /\ Rest(pbuf[n], k) \in Seq(Byte)
          /\ Len(Rest(pbuf[n], k)) = Len(pbuf[n]) - Len(Chunk(pbuf[n], k))
          /\ Len(Chunk(pbuf[n], k)) = IF Len(pbuf[n]) <= k THEN Len(pbuf[n]) ELSE k
      BY <3>2, ChunkRest, Zenon
    <3>4. k # Len(pbuf[n]) => Rest(pbuf[n], k) # <<>>
      <4>1. k \in 1..Len(pbuf[n])
        BY <3>1
      <4>2. ASSUME k # Len(pbuf[n]) PROVE Len(Rest(pbuf[n], k)) # 0
        <5>1. ~(Len(pbuf[n]) <= k)
          BY <3>2, <4>1, <4>2
        <5>2. Len(Rest(pbuf[n], k)) = Len(pbuf[n]) - k
          BY <3>3, <5>1
        <5> QED BY <3>2, <5>1, <5>2
      <4>3. Len(<<>>) = 0
        OBVIOUS
      <4> QED BY <4>2, <4>3
    <3>5. /\ pbuf'[n] = Rest(pbuf[n], k)
          /\ ppc'[n] = IF k = Len(pbuf[n]) THEN "select" ELSE "send"
      BY <3>1 DEF TypeOK
    <3> QED BY <2>2, <3>4, <3>5
  <2> QED BY <2>1, <2>2
<1>8. CASE UNCHANGED vars
  BY <1>0, <1>8 DEF vars, pluginVars, pipeVars
<1> QED BY <1>1, <1>2, <1>3, <1>4, <1>5, <1>6, <1>7, <1>8 DEF Next, MainStep, PluginStep

LEMMA RoomStep ==
  TypeOK /\ SendInv /\ [Next]_vars => OneLineHasRoom'
<1> SUFFICES ASSUME TypeOK, SendInv, [Next]_vars, \A n \in Node : Sending(n)'
             PROVE  \E n \in Node : (Load(n) <= SendCap + BlockSize - 1)'
  BY DEF OneLineHasRoom
<1>0. TypeOK'
  BY TypeStep
<1> USE TunnelAssumption
(* A step that only moves bytes along the line, or leaves it alone.        *)
<1>1. ASSUME \A n \in Node : Sending(n) /\ Load(n)' <= Load(n)
      PROVE  \E n \in Node : (Load(n) <= SendCap + BlockSize - 1)'
  <2>1. PICK n \in Node : Load(n) <= SendCap + BlockSize - 1
    BY <1>1 DEF SendInv, OneLineHasRoom
  <2>2. Load(n) \in Int /\ Load(n)' \in Int
    BY <1>0, PeerFacts, Sizes DEF Load, InHand, TypeOK, Blocks
  <2> QED BY <1>1, <2>1, <2>2
<1>2. CASE Connect \/ PluginAccept
  BY <1>2 DEF Connect, PluginAccept, Sending, Node, TypeOK
<1>3. ASSUME NEW n \in Node, \/ PluginSelectSocket(n) \/ PluginRecv(n) \/ PluginWritePipe(n)
      PROVE  FALSE
  BY <1>3 DEF PluginSelectSocket, PluginRecv, PluginWritePipe, Sending, TypeOK
<1>4. ASSUME UNCHANGED <<ppc, pbuf, sndbuf, rcvbuf>>
      PROVE  \E n \in Node : (Load(n) <= SendCap + BlockSize - 1)'
  <2>1. ASSUME NEW n \in Node PROVE Sending(n) /\ Load(n)' = Load(n)
    BY <1>4, PeerFacts DEF Sending, Load, InHand
  <2>2. \E n \in Node : Load(n) <= SendCap + BlockSize - 1
    BY <2>1 DEF SendInv, OneLineHasRoom
  <2> QED BY <2>1, <2>2
<1>5. ASSUME NEW n \in Node, \/ TunArrive(n) \/ MainSelectTun(n) \/ MainSelectPipe(n)
                             \/ MainReadTun(n) \/ MainWritePipe(n) \/ MainReadPipe(n)
                             \/ MainWriteTun(n)
      PROVE  UNCHANGED <<ppc, pbuf, sndbuf, rcvbuf>>
  BY <1>5 DEF TunArrive, MainSelectTun, MainSelectPipe, MainReadTun, MainWritePipe, MainReadPipe,
              MainWriteTun, pluginVars, sockVars
<1>6. ASSUME NEW n \in Node, NetDeliver(n)
      PROVE  \E l \in Node : (Load(l) <= SendCap + BlockSize - 1)'
  <2>1. PICK k \in 1..Len(sndbuf[n]) :
          /\ rcvbuf' = [rcvbuf EXCEPT ![Peer(n)] = @ \o Chunk(sndbuf[n], k)]
          /\ sndbuf' = [sndbuf EXCEPT ![n] = Rest(@, k)]
    BY <1>6 DEF NetDeliver
  <2>2. sndbuf[n] \in Seq(Byte) /\ rcvbuf[Peer(n)] \in Seq(Byte) /\ k \in Nat /\ Len(sndbuf[n]) \in Nat
    BY PeerFacts, Sizes
  <2>3. /\ Chunk(sndbuf[n], k) \in Seq(Byte)
        /\ Len(Rest(sndbuf[n], k)) = Len(sndbuf[n]) - Len(Chunk(sndbuf[n], k))
    BY <2>2, ChunkRest, Zenon
  <2>4. /\ sndbuf'[n] = Rest(sndbuf[n], k) /\ rcvbuf'[Peer(n)] = rcvbuf[Peer(n)] \o Chunk(sndbuf[n], k)
        /\ \A l \in Node : l # n => sndbuf'[l] = sndbuf[l] /\ rcvbuf'[Peer(l)] = rcvbuf[Peer(l)]
    <3> DEFINE moved == Chunk(sndbuf[n], k)
               left  == Rest(sndbuf[n], k)
    <3>1. /\ rcvbuf' = [rcvbuf EXCEPT ![Peer(n)] = @ \o moved]
          /\ sndbuf' = [sndbuf EXCEPT ![n] = left]
      BY <2>1
    <3> HIDE DEF moved, left
    <3>2. sndbuf'[n] = left /\ \A l \in Node : l # n => sndbuf'[l] = sndbuf[l]
      BY <3>1 DEF TypeOK
    <3>3. rcvbuf'[Peer(n)] = rcvbuf[Peer(n)] \o moved
      BY <3>1, PeerFacts DEF TypeOK
    <3>4. ASSUME NEW l \in Node, l # n PROVE rcvbuf'[Peer(l)] = rcvbuf[Peer(l)]
      <4>1. Peer(l) \in Node /\ Peer(l) # Peer(n)
        BY <3>4, PeerFacts
      <4> QED BY <3>1, <4>1 DEF TypeOK
    <3> QED BY <3>2, <3>3, <3>4 DEF moved, left
  <2>5. Len(sndbuf'[n]) + Len(rcvbuf'[Peer(n)]) = Len(sndbuf[n]) + Len(rcvbuf[Peer(n)])
    <3>1. /\ Len(rcvbuf[Peer(n)] \o Chunk(sndbuf[n], k))
               = Len(rcvbuf[Peer(n)]) + Len(Chunk(sndbuf[n], k))
          /\ Len(Chunk(sndbuf[n], k)) \in Nat /\ Len(rcvbuf[Peer(n)]) \in Nat
      BY <2>2, <2>3, LenConcat, Zenon
    <3>2. Len(sndbuf'[n]) = Len(sndbuf[n]) - Len(Chunk(sndbuf[n], k))
      BY <2>3, <2>4, Zenon
    <3>3. Len(rcvbuf'[Peer(n)]) = Len(rcvbuf[Peer(n)]) + Len(Chunk(sndbuf[n], k))
      BY <2>4, <3>1, Zenon
    <3>4. (Len(sndbuf[n]) - Len(Chunk(sndbuf[n], k)))
            + (Len(rcvbuf[Peer(n)]) + Len(Chunk(sndbuf[n], k)))
            = Len(sndbuf[n]) + Len(rcvbuf[Peer(n)])
      <4>1. /\ Len(sndbuf[n]) \in Nat /\ Len(rcvbuf[Peer(n)]) \in Nat
            /\ Len(Chunk(sndbuf[n], k)) \in Nat
        BY <2>2, <3>1, Zenon
      <4> QED BY <4>1, MovedRight, Zenon
    <3> QED BY <3>2, <3>3, <3>4, Zenon
  <2>6. ppc' = ppc /\ pbuf' = pbuf
    BY <1>6 DEF NetDeliver, pluginVars
  <2>7. ASSUME NEW l \in Node PROVE Sending(l) /\ Load(l)' = Load(l)
    <3>1. CASE l = n
      BY <2>5, <2>6, <3>1, PeerFacts DEF Sending, Load, InHand
    <3>2. CASE l # n
      BY <2>4, <2>6, <3>2 DEF Sending, Load, InHand
    <3> QED BY <3>1, <3>2
  <2>8. \E l \in Node : Load(l) <= SendCap + BlockSize - 1
    BY <2>7 DEF SendInv, OneLineHasRoom
  <2> QED BY <2>7, <2>8
(* The second plugin turns to its pipe: its receive buffer is empty.       *)
<1>7. ASSUME NEW n \in Node, PluginSelectPipe(n)
      PROVE  \E l \in Node : (Load(l) <= SendCap + BlockSize - 1)'
  <2>1. Peer(n) \in Node /\ Peer(Peer(n)) = n
    BY PeerFacts
  <2>2. rcvbuf'[n] = <<>>
    BY <1>7 DEF PluginSelectPipe, sockVars
  <2>3. Len(sndbuf'[Peer(n)]) \in 0..SendCap /\ Len(pbuf'[Peer(n)]) \in 0..(BlockSize - 1)
    BY <1>0, <2>1, SizesNext
  <2>4. Load(Peer(n))' <= SendCap + BlockSize - 1
    <3>1. /\ Len(rcvbuf'[n]) = 0
          /\ Load(Peer(n))' = Len(sndbuf'[Peer(n)]) + Len(rcvbuf'[n]) + InHand(Peer(n))'
      BY <2>1, <2>2 DEF Load
    <3>2. InHand(Peer(n))' \in 0..(BlockSize - 1)
      BY <2>3 DEF InHand
    <3> QED BY <2>3, <3>1, <3>2
  <2> QED BY <2>1, <2>4
<1>8. ASSUME NEW n \in Node, PluginReadPipe(n)
      PROVE  \E l \in Node : (Load(l) <= SendCap + BlockSize - 1)'
  <2>1. Len(pbuf'[n]) \in 0..(BlockSize - 1)
    BY <1>0, SizesNext
  <2>2. ppc[n] = "readPipe" /\ sndbuf' = sndbuf /\ rcvbuf' = rcvbuf
    BY <1>8 DEF PluginReadPipe, sockVars
  <2>3. \A l \in Node : l # n => ppc'[l] = ppc[l] /\ pbuf'[l] = pbuf[l]
    BY <1>8 DEF PluginReadPipe, TypeOK
  <2>4. InHand(n)' <= InHand(n)
    BY <2>1, <2>2 DEF InHand
  <2>5. ASSUME NEW l \in Node PROVE Sending(l) /\ Load(l)' <= Load(l)
    <3>1. Len(sndbuf[l]) \in Nat /\ Len(rcvbuf[Peer(l)]) \in Nat
      BY PeerFacts, Sizes
    <3>2. InHand(l) \in Int /\ InHand(l)' \in Int
      BY <1>0, Sizes, SizesNext DEF InHand
    <3>3. InHand(l)' <= InHand(l) /\ Sending(l)
      <4>1. CASE l = n
        BY <2>2, <2>4, <4>1 DEF Sending
      <4>2. CASE l # n
        <5>1. ppc'[l] = ppc[l] /\ InHand(l)' = InHand(l)
          BY <2>3, <4>2 DEF InHand
        <5> QED BY <3>2, <5>1 DEF Sending
      <4> QED BY <4>1, <4>2
    <3>4. Load(l)' = Len(sndbuf[l]) + Len(rcvbuf[Peer(l)]) + InHand(l)'
      BY <2>2 DEF Load
    <3>5. Load(l) = Len(sndbuf[l]) + Len(rcvbuf[Peer(l)]) + InHand(l)
      BY DEF Load
    <3> HIDE DEF Load, InHand
    <3>6. Load(l)' <= Load(l)
      BY <3>1, <3>2, <3>3, <3>4, <3>5, SumBound, Zenon
    <3> QED BY <3>3, <3>6
  <2> QED BY <1>1, <2>5
<1>9. ASSUME NEW n \in Node, PluginSend(n)
      PROVE  \E l \in Node : (Load(l) <= SendCap + BlockSize - 1)'
  <2>1. PICK k \in 1..Len(pbuf[n]) :
          /\ sndbuf' = [sndbuf EXCEPT ![n] = @ \o Chunk(pbuf[n], k)]
          /\ pbuf' = [pbuf EXCEPT ![n] = Rest(@, k)]
    BY <1>9 DEF PluginSend
  <2>2. pbuf[n] \in Seq(Byte) /\ sndbuf[n] \in Seq(Byte) /\ k \in Nat /\ Len(pbuf[n]) \in Nat
    BY Sizes
  <2>3. /\ Chunk(pbuf[n], k) \in Seq(Byte)
        /\ Len(Rest(pbuf[n], k)) = Len(pbuf[n]) - Len(Chunk(pbuf[n], k))
    BY <2>2, ChunkRest, Zenon
  <2>4. /\ sndbuf'[n] = sndbuf[n] \o Chunk(pbuf[n], k) /\ pbuf'[n] = Rest(pbuf[n], k)
        /\ \A l \in Node : l # n => sndbuf'[l] = sndbuf[l] /\ pbuf'[l] = pbuf[l]
    BY <2>1 DEF TypeOK
  <2>5. Len(sndbuf'[n]) + Len(pbuf'[n]) = Len(sndbuf[n]) + Len(pbuf[n])
    <3>1. /\ Len(sndbuf[n] \o Chunk(pbuf[n], k)) = Len(sndbuf[n]) + Len(Chunk(pbuf[n], k))
          /\ Len(Chunk(pbuf[n], k)) \in Nat /\ Len(sndbuf[n]) \in Nat
      BY <2>2, <2>3, LenConcat, Zenon
    <3>2. Len(pbuf'[n]) = Len(pbuf[n]) - Len(Chunk(pbuf[n], k))
      BY <2>3, <2>4, Zenon
    <3>3. Len(sndbuf'[n]) = Len(sndbuf[n]) + Len(Chunk(pbuf[n], k))
      BY <2>4, <3>1, Zenon
    <3>4. (Len(sndbuf[n]) + Len(Chunk(pbuf[n], k)))
            + (Len(pbuf[n]) - Len(Chunk(pbuf[n], k)))
            = Len(sndbuf[n]) + Len(pbuf[n])
      BY <2>2, <3>1, MovedLeft, Zenon
    <3> QED BY <3>2, <3>3, <3>4, Zenon
  <2>6. /\ ppc[n] = "send" /\ rcvbuf' = rcvbuf
        /\ ppc'[n] = "send"
        /\ \A l \in Node : l # n => ppc'[l] = ppc[l]
    BY <1>9 DEF PluginSend, Sending, TypeOK
  <2>7. ASSUME NEW l \in Node PROVE Sending(l) /\ Load(l)' <= Load(l)
    <3>1. /\ Len(sndbuf[l]) \in Nat /\ Len(rcvbuf[Peer(l)]) \in Nat /\ Len(pbuf[l]) \in Nat
          /\ Len(sndbuf'[l]) \in Nat /\ Len(pbuf'[l]) \in Nat
      <4>1. /\ Len(sndbuf[l]) \in 0..SendCap /\ Len(rcvbuf[Peer(l)]) \in 0..RecvCap
            /\ Len(pbuf[l]) \in 0..(BlockSize - 1)
        BY PeerFacts, Sizes, Zenon
      <4>2. Len(sndbuf'[l]) \in 0..SendCap /\ Len(pbuf'[l]) \in 0..(BlockSize - 1)
        BY <1>0, SizesNext, Zenon
      <4> QED BY <4>1, <4>2, TunnelAssumption
    <3>2. CASE l = n
      <4>1. InHand(n) = Len(pbuf[n]) /\ InHand(n)' = Len(pbuf'[n])
        BY <2>6 DEF InHand
      <4>2. Load(n)' = Len(sndbuf'[n]) + Len(rcvbuf[Peer(n)]) + Len(pbuf'[n])
        BY <2>6, <4>1 DEF Load
      <4>3. Load(n) = Len(sndbuf[n]) + Len(rcvbuf[Peer(n)]) + Len(pbuf[n])
        BY <4>1 DEF Load
      <4>4. Load(n)' <= Load(n)
        <5>1. /\ Len(sndbuf[n]) \in Nat /\ Len(rcvbuf[Peer(n)]) \in Nat /\ Len(pbuf[n]) \in Nat
              /\ Len(sndbuf'[n]) \in Nat /\ Len(pbuf'[n]) \in Nat
          BY <3>1, <3>2, Zenon
        <5>2. Len(sndbuf'[n]) + Len(rcvbuf[Peer(n)]) + Len(pbuf'[n])
                <= Len(sndbuf[n]) + Len(rcvbuf[Peer(n)]) + Len(pbuf[n])
          BY <2>5, <5>1, SumRegrouped, Zenon
        <5> QED BY <4>2, <4>3, <5>2, Zenon
      <4> QED BY <2>6, <3>2, <4>4 DEF Sending
    <3>3. CASE l # n
      <4>1. ppc'[l] = ppc[l] /\ InHand(l)' = InHand(l)
        BY <2>4, <2>6, <3>3 DEF InHand
      <4>2. Load(l)' = Load(l)
        BY <2>4, <2>6, <3>3, <4>1 DEF Load
      <4>3. Load(l) \in Int
        BY <3>1, TunnelAssumption DEF Load, InHand
      <4> QED BY <4>1, <4>2, <4>3 DEF Sending
    <3> QED BY <3>2, <3>3
  <2> QED BY <1>1, <2>7
<1>10. CASE UNCHANGED vars
  <2>1. UNCHANGED <<ppc, pbuf, sndbuf, rcvbuf>>
    BY <1>10 DEF vars, pluginVars, sockVars
  <2> QED BY <1>4, <2>1
<1> QED BY <1>2, <1>3, <1>4, <1>5, <1>6, <1>7, <1>8, <1>9, <1>10 DEF Next, MainStep, PluginStep

LEMMA RoomImpliesNoDeadlock == TypeOK /\ SendInv => NoSendSendDeadlock
<1> SUFFICES ASSUME TypeOK, SendInv,
                    \A n \in Node : WaitsForPeer(n) /\ Len(rcvbuf[Peer(n)]) = RecvCap
             PROVE  FALSE
  BY DEF NoSendSendDeadlock
<1>1. \A n \in Node : ppc[n] = "send" /\ Len(sndbuf[n]) = SendCap
  BY DEF WaitsForPeer
<1>2. PICK n \in Node : Load(n) <= SendCap + BlockSize - 1
  BY <1>1 DEF SendInv, OneLineHasRoom, Sending
<1>3. Len(pbuf[n]) \in Nat /\ Len(pbuf[n]) # 0
  BY <1>1, Sizes DEF SendInv, HoldsWhatItSends
<1>4. Load(n) = SendCap + RecvCap + Len(pbuf[n])
  BY <1>1 DEF InHand, Load
<1>5. BlockSize \in Nat /\ SendCap \in Nat /\ RecvCap \in Nat /\ RecvCap >= BlockSize - 1
  BY TunnelAssumption
<1> QED BY <1>2, <1>3, <1>4, <1>5, StuckLineIsLonger, Zenon

(* The plugins of the two hosts are never both stuck in send(): whatever   *)
(* the sizes of the buffers, as long as a receive buffer takes one block.  *)
THEOREM SendsNeverDeadlock == Spec => []NoSendSendDeadlock
<1>1. Init => SendInv
  BY TunnelAssumption DEF Init, SendInv, HoldsWhatItSends, OneLineHasRoom, Sending, Node
<1>2. TypeOK /\ SendInv /\ [Next]_vars => SendInv'
  BY HoldsStep, RoomStep DEF SendInv
<1> QED BY <1>1, <1>2, TypeCorrect, RoomImpliesNoDeadlock, PTL DEF Spec
-----------------------------------------------------------------------------
(* The local cycle is for ever.                                            *)

LEMMA CycleStep ==
  ASSUME TypeOK, [Next]_vars, NEW m \in Node, LocalCycle(m)
  PROVE  LocalCycle(m)'
<1> DEFINE Stuck == <<mpc[m], mbuf[m], toPlugin[m], ppc[m], pbuf[m], fromPlugin[m]>>
<1>1. /\ mpc[m] = "writePipe" /\ ~Fits(toPlugin[m], mbuf[m])
      /\ ppc[m] = "writePipe" /\ ~Fits(fromPlugin[m], pbuf[m])
  BY DEF LocalCycle, MainBlocked, WaitsForMain
<1>2. ASSUME Connect \/ PluginAccept PROVE UNCHANGED Stuck
  <2>1. CASE Connect
    <3>1. m # Client
      BY <1>1, <2>1 DEF Connect
    <3> QED BY <2>1, <3>1 DEF Connect, TypeOK, pipeVars
  <2>2. CASE PluginAccept
    <3>1. m # Server
      BY <1>1, <2>2 DEF PluginAccept
    <3> QED BY <2>2, <3>1 DEF PluginAccept, TypeOK, mainVars, pipeVars
  <2> QED BY <1>2, <2>1, <2>2
<1>3. ASSUME NEW n \in Node, TunArrive(n) \/ NetDeliver(n) PROVE UNCHANGED Stuck
  BY <1>3 DEF TunArrive, NetDeliver, mainVars, pluginVars, pipeVars
<1>4. ASSUME NEW n \in Node, MainStep(n) PROVE UNCHANGED Stuck
  <2>1. n # m
    BY <1>1, <1>4 DEF MainStep, MainSelectTun, MainSelectPipe, MainReadTun, MainWritePipe,
                      MainReadPipe, MainWriteTun
  <2> QED BY <1>4, <2>1 DEF MainStep, MainSelectTun, MainSelectPipe, MainReadTun, MainWritePipe,
                            MainReadPipe, MainWriteTun, TypeOK, pluginVars, pipeVars
<1>5. ASSUME NEW n \in Node, PluginStep(n) PROVE UNCHANGED Stuck
  <2>1. n # m
    BY <1>1, <1>5 DEF PluginStep, PluginSelectSocket, PluginSelectPipe, PluginRecv,
                      PluginWritePipe, PluginReadPipe, PluginSend
  <2> QED BY <1>5, <2>1 DEF PluginStep, PluginSelectSocket, PluginSelectPipe, PluginRecv,
                            PluginWritePipe, PluginReadPipe, PluginSend, TypeOK, mainVars, pipeVars
<1>6. ASSUME UNCHANGED vars PROVE UNCHANGED Stuck
  BY <1>6 DEF vars, mainVars, pluginVars, pipeVars
<1> HIDE DEF Stuck
<1>7. UNCHANGED Stuck
  BY <1>2, <1>3, <1>4, <1>5, <1>6 DEF Next
<1> QED BY <1>1, <1>7 DEF Stuck, LocalCycle, MainBlocked, WaitsForMain, Fits

(* A host whose two threads each wait for the other stays so for ever.     *)
THEOREM CycleNeverBreaks == Spec => CyclePermanent
<1>1. TypeOK /\ [Next]_vars => [\A n \in Node : LocalCycle(n) => LocalCycle(n)']_vars
  BY CycleStep
<1> QED BY <1>1, TypeCorrect, PTL DEF Spec, CyclePermanent
=============================================================================
