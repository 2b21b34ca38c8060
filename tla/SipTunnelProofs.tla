-------------------------- MODULE SipTunnelProofs --------------------------
(* Proofs about SipTunnel, for every size of block, pipe and header and    *)
(* all traffic, whatever the network does and whoever restarts.            *)
EXTENDS SipTunnel, Base64Proofs, SequenceTheorems

-----------------------------------------------------------------------------
(* Nodes, bounded reads, blocks.                                           *)

LEMMA PeerFacts ==
  ASSUME NEW n \in Node
  PROVE  Peer(n) \in Node /\ Peer(Peer(n)) = n /\ Peer(n) # n
  BY SipAssumption DEF Node, Peer

LEMMA ChunkRest ==
  ASSUME NEW S, NEW s \in Seq(S), NEW size \in Nat, size > 0
  PROVE  /\ Chunk(s, size) \in Seq(S) /\ Len(Chunk(s, size)) <= size
         /\ s # <<>> => Chunk(s, size) # <<>>
         /\ Rest(s, size) \in Seq(S) /\ Len(Rest(s, size)) <= Len(s)
<1>1. CASE Len(s) <= size
  BY <1>1 DEF Chunk, Rest
<1>2. CASE ~(Len(s) <= size)
  <2>1. Len(s) \in Nat /\ size < Len(s)
    BY <1>2
  <2> DEFINE c == SubSeq(s, 1, size)
             r == SubSeq(s, size+1, Len(s))
  <2>2. Chunk(s, size) = c /\ Rest(s, size) = r
    BY <1>2 DEF Chunk, Rest
  <2>3. c \in Seq(S) /\ Len(c) = size
    BY <2>1
  <2>4. r \in Seq(S) /\ Len(r) = Len(s) - size
    BY <2>1
  <2> HIDE DEF c, r
  <2>5. c # <<>>
    BY <2>3
  <2>6. Len(c) <= size /\ Len(r) <= Len(s)
    BY <2>1, <2>3, <2>4
  <2> QED BY <2>2, <2>3, <2>4, <2>5, <2>6, Zenon
<1> QED BY <1>1, <1>2

Block == Bytes(BlockSize - 1) \ {<<>>}

LEMMA BlockFacts ==
  /\ BlockSize - 1 \in Nat /\ BlockSize - 1 > 0 /\ PipeCap \in Nat
  /\ \A b \in Block : b \in Seq(Octet) /\ b # <<>> /\ Len(b) \in 1..BlockSize-1
  /\ <<>> \in Bytes(BlockSize - 1) /\ <<>> \in Bytes(PipeCap)
  BY SipAssumption DEF Block, Bytes

LEMMA ChunkIsBlock ==
  ASSUME NEW s \in Seq(Octet), s # <<>>
  PROVE  Chunk(s, BlockSize - 1) \in Block
  BY BlockFacts, ChunkRest DEF Block, Bytes

LEMMA RestFits ==
  ASSUME NEW s \in Bytes(PipeCap), NEW size \in Nat, size > 0
  PROVE  Rest(s, size) \in Bytes(PipeCap)
<1>1. s \in Seq(Octet) /\ Len(s) <= PipeCap /\ Len(s) \in Nat
  BY DEF Bytes
<1>2. Rest(s, size) \in Seq(Octet) /\ Len(Rest(s, size)) <= Len(s)
  BY <1>1, ChunkRest
<1>3. Len(Rest(s, size)) \in Nat
  BY <1>2
<1> QED BY <1>1, <1>2, <1>3, BlockFacts DEF Bytes

LEMMA ConcatFits ==
  ASSUME NEW pipe \in Bytes(PipeCap), NEW b \in Bytes(BlockSize - 1), Fits(pipe, b)
  PROVE  pipe \o b \in Bytes(PipeCap)
  BY BlockFacts DEF Bytes, Fits

(* What one round of sip_loop_tun_events does.                             *)
LEMMA PipeLoopFacts ==
  ASSUME TypeOK, NEW n \in Node, PipeLoop(n)
  PROVE  \E block \in Block, k \in Number :
           /\ k = Len(sent[n]) + 1
           /\ sent' = [sent EXCEPT ![n] = Append(@, block)]
           /\ sent'[n] \in Seq(Block) /\ Len(sent'[n]) = k /\ sent'[n][k] = block
           /\ \A i \in 1..Len(sent[n]) : sent'[n][i] = sent[n][i]
           /\ toPlugin'[n] \in Bytes(PipeCap)
           /\ \/ /\ requests' = requests \cup {Request(n, k, block)}
                 /\ pending' = [pending EXCEPT ![n] = @ \cup {k}]
              \/ UNCHANGED <<requests, pending>>
<1> DEFINE block == Chunk(toPlugin[n], BlockSize - 1)
           k == Len(sent[n]) + 1
<1>1. toPlugin[n] \in Bytes(PipeCap) /\ toPlugin[n] \in Seq(Octet) /\ toPlugin[n] # <<>>
  BY DEF TypeOK, Bytes, PipeLoop
<1>2. block \in Block
  BY <1>1, ChunkIsBlock
<1>3. sent \in [Node -> Seq(Block)] /\ sent[n] \in Seq(Block)
  BY DEF TypeOK, Block
<1>4. sent' = [sent EXCEPT ![n] = Append(@, block)] /\ sent'[n] = Append(sent[n], block)
  BY <1>3 DEF PipeLoop, sip_envia_datos
<1>5. /\ sent'[n] \in Seq(Block) /\ Len(sent'[n]) = k /\ k \in Number /\ sent'[n][k] = block
      /\ \A i \in 1..Len(sent[n]) : sent'[n][i] = sent[n][i]
  <2> HIDE DEF block
  <2> QED BY <1>2, <1>3, <1>4 DEF Number
<1>6. toPlugin'[n] \in Bytes(PipeCap)
  <2>1. toPlugin'[n] = Rest(toPlugin[n], BlockSize - 1)
    BY DEF PipeLoop, TypeOK
  <2> QED BY <1>1, <2>1, BlockFacts, RestFits
<1>7. \/ /\ requests' = requests \cup {Request(n, k, block)}
         /\ pending' = [pending EXCEPT ![n] = @ \cup {k}]
      \/ UNCHANGED <<requests, pending>>
  <2>1. Len(sent'[n]) = k
    BY <1>5
  <2> HIDE DEF k, block
  <2> QED BY <2>1 DEF PipeLoop, sip_envia_datos, block
<1> HIDE DEF block, k
<1> QED BY <1>2, <1>4, <1>5, <1>6, <1>7 DEF k
-----------------------------------------------------------------------------
(* The inductive invariant.                                                *)

(* A request carries the block of its number.                              *)
Requested == \A r \in requests : /\ r.number \in 1..Len(sent[r.from])
                                 /\ r.text = Encode(sent[r.from][r.number])

(* The event thread holds the block of the request that it serves, and has *)
(* written it when it turns to the answer.                                 *)
Serving == \A n \in Node :
  /\ epc[n] # "idle" => ereq[n] \in 1..Len(sent[Peer(n)])
  /\ epc[n] = "write" => ebuf[n] = sent[Peer(n)][ereq[n]]
  /\ epc[n] = "answer" => ereq[n] \in written[n]

(* What has been answered has been written.                                *)
AnswersTrue == \A a \in answers : a.number \in written[Peer(a.to)]

IInv == TypeOK /\ Requested /\ Serving /\ AnswersTrue /\ AnsweredIsWritten

LEMMA InvInit == Init => IInv
<1> SUFFICES ASSUME Init PROVE IInv
  OBVIOUS
<1>1. TypeOK
  BY SipAssumption, BlockFacts DEF Init, TypeOK, Bytes
<1>2. Requested /\ AnswersTrue /\ AnsweredIsWritten
  BY DEF Init, Requested, AnswersTrue, AnsweredIsWritten
<1>3. Serving
  BY DEF Init, Serving
<1> QED BY <1>1, <1>2, <1>3 DEF IInv

(* What a step may do to the histories: they only grow.                    *)
LEMMA HistoriesGrow ==
  ASSUME TypeOK, [Next]_vars
  PROVE  /\ \A n \in Node : /\ Len(sent[n]) \in Nat /\ Len(sent'[n]) \in Nat
                            /\ Len(sent[n]) <= Len(sent'[n])
                            /\ \A i \in 1..Len(sent[n]) : sent'[n][i] = sent[n][i]
         /\ \A n \in Node : written[n] \subseteq written'[n]
<1>1. \A n \in Node : sent[n] \in Seq(Block) /\ Len(sent[n]) \in Nat
  BY DEF TypeOK, Block
<1>2. CASE sent' = sent
  <2>1. ASSUME NEW p \in Node, EventWritePipe(p), NEW n \in Node
        PROVE  written[n] \subseteq written'[n]
    BY <2>1 DEF EventWritePipe, TypeOK
  <2>2. written' = written \/ \E p \in Node : EventWritePipe(p)
    BY DEF Next, Start, Crash, MainStep, MainReadTun, MainWritePipe, MainDeliver, PipeLoop,
           EventRequest, ServeRequest, EventAnswer, EventAnswered, EventTimeout, vars
  <2> QED BY <1>1, <1>2, <2>1, <2>2
<1>3. ASSUME NEW p \in Node, PipeLoop(p)
      PROVE  /\ \A n \in Node : /\ Len(sent'[n]) \in Nat /\ Len(sent[n]) <= Len(sent'[n])
                                /\ \A i \in 1..Len(sent[n]) : sent'[n][i] = sent[n][i]
             /\ written' = written
  <2>1. PICK block \in Block, k \in Number :
           /\ k = Len(sent[p]) + 1
           /\ sent' = [sent EXCEPT ![p] = Append(@, block)]
           /\ sent'[p] \in Seq(Block) /\ Len(sent'[p]) = k
           /\ \A i \in 1..Len(sent[p]) : sent'[p][i] = sent[p][i]
    BY <1>3, PipeLoopFacts
  <2>2. \A n \in Node : n # p => sent'[n] = sent[n]
    BY <2>1 DEF TypeOK
  <2>3. Len(sent[p]) <= Len(sent'[p]) /\ Len(sent'[p]) \in Nat
    BY <1>1, <2>1
  <2>4. written' = written
    BY <1>3 DEF PipeLoop
  <2> QED BY <1>1, <2>1, <2>2, <2>3, <2>4
<1>4. sent' = sent \/ \E p \in Node : PipeLoop(p)
  BY DEF Next, Start, Crash, MainStep, MainReadTun, MainWritePipe, MainDeliver, EventRequest,
         ServeRequest, EventWritePipe, EventAnswer, EventAnswered, EventTimeout, vars
<1> QED BY <1>1, <1>2, <1>3, <1>4

LEMMA SentIsBlock ==
  ASSUME TypeOK, NEW n \in Node, NEW k \in 1..Len(sent[n])
  PROVE  /\ sent[n][k] \in Block /\ k \in Number
         /\ Decode(Encode(sent[n][k])) = sent[n][k]
<1>1. sent[n] \in Seq(Block)
  BY DEF TypeOK, Block
<1>2. sent[n][k] \in Block /\ k \in Number
  BY <1>1 DEF Number
<1>3. sent[n][k] \in Seq(Octet) /\ sent[n][k] # <<>>
  BY <1>2, BlockFacts
<1> QED BY <1>2, <1>3, DecodeInvertsEncode DEF RoundTrips

(* What on_rx_request is called with decodes to the block that was sent.   *)
LEMMA RequestFacts ==
  ASSUME TypeOK, Requested, NEW n \in Node, EventRequest(n)
  PROVE  \E k \in 1..Len(sent[Peer(n)]) :
           /\ k \in Number /\ sent[Peer(n)][k] \in Block
           /\ ereq' = [ereq EXCEPT ![n] = k]
           /\ ebuf' = [ebuf EXCEPT ![n] = sent[Peer(n)][k]]
<1>1. PICK r \in requests : /\ r.from = Peer(n)
                            /\ ereq' = [ereq EXCEPT ![n] = r.number]
                            /\ ebuf' = [ebuf EXCEPT ![n] = Decode(r.text)]
  BY DEF EventRequest
<1>2. r.number \in 1..Len(sent[Peer(n)]) /\ r.text = Encode(sent[Peer(n)][r.number])
  BY <1>1 DEF Requested
<1>3. /\ sent[Peer(n)][r.number] \in Block /\ r.number \in Number
      /\ Decode(r.text) = sent[Peer(n)][r.number]
  BY <1>2, PeerFacts, SentIsBlock
<1> QED BY <1>1, <1>2, <1>3

LEMMA TypeStep ==
  ASSUME TypeOK, Requested, Serving, [Next]_vars
  PROVE  TypeOK'
<1>1. ASSUME NEW n \in Node, Start(n) PROVE TypeOK'
  BY <1>1 DEF Start, TypeOK, mainVars, pipeVars, eventVars, netVars
<1>2. ASSUME NEW n \in Node, Crash(n) PROVE TypeOK'
  BY <1>2, BlockFacts DEF Crash, TypeOK, netVars
<1>3. ASSUME NEW n \in Node, MainReadTun(n) PROVE TypeOK'
  <2>1. taken[n] \in Nat /\ taken'[n] = taken[n] + 1 /\ taken[n] < Len(Traffic[n])
    BY <1>3 DEF MainReadTun, TypeOK
  <2>2. Traffic[n] \in Seq(Frame)
    BY SipAssumption
  <2>3. taken'[n] \in 1..Len(Traffic[n])
    BY <2>1, <2>2
  <2>4. Traffic[n][taken'[n]] \in Frame
    BY <2>2, <2>3
  <2>5. Chunk(Traffic[n][taken'[n]], BlockSize - 1) \in Bytes(BlockSize - 1)
    BY <2>4, ChunkIsBlock DEF Frame, Block
  <2>6. taken' \in [Node -> Nat] /\ mbuf' \in [Node -> Bytes(BlockSize - 1)]
    BY <1>3, <2>1, <2>5 DEF MainReadTun, TypeOK
  <2>7. up[n] /\ \A m \in Node : m # n => mbuf'[m] = mbuf[m]
    BY <1>3 DEF MainReadTun, TypeOK
  <2> QED BY <1>3, <2>6, <2>7 DEF MainReadTun, TypeOK, pipeVars, eventVars, netVars
<1>4. ASSUME NEW n \in Node, MainWritePipe(n) PROVE TypeOK'
  <2>1. toPlugin[n] \o mbuf[n] \in Bytes(PipeCap)
    BY <1>4, ConcatFits DEF MainWritePipe, TypeOK
  <2>2. /\ toPlugin' \in [Node -> Bytes(PipeCap)] /\ mbuf' \in [Node -> Bytes(BlockSize - 1)]
        /\ mbuf'[n] = <<>> /\ \A m \in Node : m # n => mbuf'[m] = mbuf[m] /\ toPlugin'[m] = toPlugin[m]
    BY <1>4, <2>1, BlockFacts DEF MainWritePipe, TypeOK
  <2>3. up[n]
    BY <1>4 DEF MainWritePipe, TypeOK
  <2> QED BY <1>4, <2>2, <2>3 DEF MainWritePipe, TypeOK, eventVars, netVars
<1>5. ASSUME NEW n \in Node, MainDeliver(n) PROVE TypeOK'
  <2>1. Rest(fromPlugin[n], BlockSize) \in Bytes(PipeCap)
    BY RestFits, SipAssumption DEF TypeOK
  <2>2. /\ fromPlugin' \in [Node -> Bytes(PipeCap)]
        /\ \A m \in Node : m # n => fromPlugin'[m] = fromPlugin[m]
    BY <1>5, <2>1 DEF MainDeliver, TypeOK
  <2>3. up[n]
    BY <1>5 DEF MainDeliver, TypeOK
  <2> QED BY <1>5, <2>2, <2>3 DEF MainDeliver, TypeOK, mainVars, eventVars, netVars
<1>6. ASSUME NEW n \in Node, PipeLoop(n) PROVE TypeOK'
  <2>1. PICK block \in Block, k \in Number :
           /\ sent' = [sent EXCEPT ![n] = Append(@, block)] /\ sent'[n] \in Seq(Block)
           /\ toPlugin'[n] \in Bytes(PipeCap)
           /\ \/ /\ requests' = requests \cup {Request(n, k, block)}
                 /\ pending' = [pending EXCEPT ![n] = @ \cup {k}]
              \/ UNCHANGED <<requests, pending>>
    BY <1>6, PipeLoopFacts
  <2>2. sent' \in [Node -> Seq(Block)]
    BY <2>1 DEF TypeOK, Block
  <2>3. /\ toPlugin' \in [Node -> Bytes(PipeCap)]
        /\ \A m \in Node : m # n => toPlugin'[m] = toPlugin[m]
    BY <1>6, <2>1 DEF PipeLoop, TypeOK
  <2>4. Request(n, k, block) \in [from : Node, number : Number, text : Text]
    BY BlockFacts, EncodedType DEF Request
  <2>5. requests' \subseteq [from : Node, number : Number, text : Text]
    BY <2>1, <2>4 DEF TypeOK
  <2>6. /\ pending' \in [Node -> SUBSET Number]
        /\ \A m \in Node : m # n => pending'[m] = pending[m]
    <3>1. pending \in [Node -> SUBSET Number] /\ pending[n] \cup {k} \in SUBSET Number
      BY DEF TypeOK
    <3>2. pending' = pending \/ pending' = [pending EXCEPT ![n] = pending[n] \cup {k}]
      BY <2>1
    <3> QED BY <3>1, <3>2
  <2>7. up[n]
    BY <1>6 DEF PipeLoop, TypeOK
  <2> QED BY <1>6, <2>2, <2>3, <2>5, <2>6, <2>7 DEF PipeLoop, TypeOK, Block, mainVars, eventVars
<1>7. ASSUME NEW n \in Node, EventRequest(n) PROVE TypeOK'
  <2>1. PICK k \in 1..Len(sent[Peer(n)]) :
           /\ k \in Number /\ sent[Peer(n)][k] \in Block
           /\ ereq' = [ereq EXCEPT ![n] = k]
           /\ ebuf' = [ebuf EXCEPT ![n] = sent[Peer(n)][k]]
    BY <1>7, RequestFacts
  <2>2. ereq' \in [Node -> Nat] /\ ebuf' \in [Node -> Bytes(BlockSize - 1)]
    BY <2>1 DEF TypeOK, Block, Number
  <2>3. /\ epc' \in [Node -> {"idle", "write", "answer"}] /\ up[n]
        /\ \A m \in Node : m # n => epc'[m] = epc[m]
    BY <1>7 DEF EventRequest, TypeOK
  <2> QED BY <1>7, <2>2, <2>3 DEF EventRequest, TypeOK, mainVars, pipeVars, netVars
<1>8. ASSUME NEW n \in Node, EventWritePipe(n) PROVE TypeOK'
  <2>1. fromPlugin[n] \o ebuf[n] \in Bytes(PipeCap)
    BY <1>8, ConcatFits DEF EventWritePipe, TypeOK
  <2>2. ereq[n] \in Number
    BY <1>8, PeerFacts, SentIsBlock DEF EventWritePipe, Serving
  <2>3. /\ fromPlugin' \in [Node -> Bytes(PipeCap)] /\ written' \in [Node -> SUBSET Number]
        /\ \A m \in Node : m # n => fromPlugin'[m] = fromPlugin[m]
    BY <1>8, <2>1, <2>2 DEF EventWritePipe, TypeOK
  <2>4. /\ epc' \in [Node -> {"idle", "write", "answer"}] /\ up[n]
        /\ \A m \in Node : m # n => epc'[m] = epc[m]
    BY <1>8 DEF EventWritePipe, TypeOK
  <2> QED BY <1>8, <2>3, <2>4 DEF EventWritePipe, TypeOK, mainVars, netVars
<1>9. ASSUME NEW n \in Node, EventAnswer(n) PROVE TypeOK'
  <2>1. Answer(Peer(n), ereq[n]) \in [to : Node, number : Number]
    BY <1>9, PeerFacts, SentIsBlock DEF EventAnswer, Serving, Answer
  <2>2. answers' \subseteq [to : Node, number : Number]
    BY <1>9, <2>1 DEF EventAnswer, TypeOK
  <2>3. /\ epc' \in [Node -> {"idle", "write", "answer"}] /\ ereq' \in [Node -> Nat]
        /\ ebuf' \in [Node -> Bytes(BlockSize - 1)]
        /\ \A m \in Node : epc[m] = "idle" => epc'[m] = "idle"
    BY <1>9, BlockFacts DEF EventAnswer, TypeOK
  <2> QED BY <1>9, <2>2, <2>3 DEF EventAnswer, TypeOK, mainVars, pipeVars
<1>10. ASSUME NEW n \in Node, EventAnswered(n) PROVE TypeOK'
  BY <1>10 DEF EventAnswered, TypeOK, mainVars, pipeVars, eventVars, netVars
<1>11. ASSUME NEW n \in Node, NEW k \in pending[n], EventTimeout(n, k) PROVE TypeOK'
  BY <1>11 DEF EventTimeout, TypeOK, mainVars, pipeVars, eventVars, netVars
<1>12. CASE UNCHANGED vars
  BY <1>12 DEF TypeOK, vars, mainVars, pipeVars, eventVars, netVars
<1> QED
  BY <1>1, <1>2, <1>3, <1>4, <1>5, <1>6, <1>7, <1>8, <1>9, <1>10, <1>11, <1>12
  DEF Next, MainStep, ServeRequest

LEMMA RequestedStep ==
  ASSUME TypeOK, Requested, [Next]_vars
  PROVE  Requested'
<1>1. ASSUME NEW r \in requests
      PROVE  /\ r.number \in 1..Len(sent'[r.from])
             /\ r.text = Encode(sent'[r.from][r.number])
  <2>1. r.from \in Node
    BY DEF TypeOK
  <2>2. r.number \in 1..Len(sent[r.from]) /\ r.text = Encode(sent[r.from][r.number])
    BY DEF Requested
  <2>3. /\ Len(sent[r.from]) \in Nat /\ Len(sent'[r.from]) \in Nat
        /\ Len(sent[r.from]) <= Len(sent'[r.from])
        /\ sent'[r.from][r.number] = sent[r.from][r.number]
    BY <2>1, <2>2, HistoriesGrow
  <2> QED BY <2>2, <2>3
<1>2. CASE requests' = requests
  BY <1>1, <1>2 DEF Requested
<1>3. ASSUME NEW n \in Node, PipeLoop(n) PROVE Requested'
  <2>1. PICK block \in Block, k \in Number :
           /\ Len(sent'[n]) = k /\ sent'[n][k] = block
           /\ requests' = requests \cup {Request(n, k, block)} \/ requests' = requests
    BY <1>3, PipeLoopFacts
  <2>2. k \in 1..Len(sent'[n])
    BY <2>1 DEF Number
  <2>3. CASE requests' = requests \cup {Request(n, k, block)}
    <3>1. /\ Request(n, k, block).from = n /\ Request(n, k, block).number = k
          /\ Request(n, k, block).text = Encode(block)
      BY DEF Request
    <3> QED BY <1>1, <2>1, <2>2, <2>3, <3>1 DEF Requested
  <2> QED BY <1>2, <2>1, <2>3
<1>4. requests' = requests \/ \E n \in Node : PipeLoop(n)
  BY DEF Next, Start, Crash, MainStep, MainReadTun, MainWritePipe, MainDeliver, EventRequest,
         ServeRequest, EventWritePipe, EventAnswer, EventAnswered, EventTimeout, vars, netVars
<1> QED BY <1>2, <1>3, <1>4

LEMMA ServingStep ==
  ASSUME TypeOK, Requested, Serving, [Next]_vars
  PROVE  Serving'
<1> DEFINE Serves(n) == /\ epc[n] # "idle" => ereq[n] \in 1..Len(sent[Peer(n)])
                        /\ epc[n] = "write" => ebuf[n] = sent[Peer(n)][ereq[n]]
                        /\ epc[n] = "answer" => ereq[n] \in written[n]
<1>1. SUFFICES ASSUME NEW n \in Node PROVE Serves(n)'
  BY DEF Serving
<1>2. Serves(n) /\ Peer(n) \in Node
  BY PeerFacts DEF Serving
<1>3. /\ Len(sent[Peer(n)]) \in Nat /\ Len(sent'[Peer(n)]) \in Nat
      /\ Len(sent[Peer(n)]) <= Len(sent'[Peer(n)])
      /\ \A i \in 1..Len(sent[Peer(n)]) : /\ sent'[Peer(n)][i] = sent[Peer(n)][i]
                                         /\ i \in 1..Len(sent'[Peer(n)])
      /\ written[n] \subseteq written'[n]
  BY <1>2, HistoriesGrow
<1>4. CASE epc'[n] = epc[n] /\ ereq'[n] = ereq[n] /\ ebuf'[n] = ebuf[n]
  BY <1>2, <1>3, <1>4
<1>5. CASE epc'[n] = "idle"
  BY <1>5
<1>6. CASE EventRequest(n)
  <2>1. PICK k \in 1..Len(sent[Peer(n)]) :
           /\ ereq' = [ereq EXCEPT ![n] = k]
           /\ ebuf' = [ebuf EXCEPT ![n] = sent[Peer(n)][k]]
    BY <1>6, RequestFacts
  <2>2. epc'[n] = "write" /\ ereq'[n] = k /\ ebuf'[n] = sent[Peer(n)][k]
    BY <1>6, <2>1 DEF EventRequest, TypeOK
  <2> QED BY <1>3, <2>2
<1>7. CASE EventWritePipe(n)
  <2>1. /\ epc[n] = "write" /\ epc'[n] = "answer" /\ ereq'[n] = ereq[n]
        /\ ereq[n] \in written'[n]
    BY <1>7 DEF EventWritePipe, TypeOK
  <2> QED BY <1>2, <1>3, <2>1
<1>8. \/ epc'[n] = epc[n] /\ ereq'[n] = ereq[n] /\ ebuf'[n] = ebuf[n]
      \/ epc'[n] = "idle"
      \/ EventRequest(n)
      \/ EventWritePipe(n)
  <2>1. CASE eventVars' = eventVars
    BY <2>1 DEF eventVars
  <2>2. ASSUME NEW p \in Node, p # n,
               Crash(p) \/ EventRequest(p) \/ EventWritePipe(p) \/ EventAnswer(p)
        PROVE  epc'[n] = epc[n] /\ ereq'[n] = ereq[n] /\ ebuf'[n] = ebuf[n]
    BY <2>2 DEF Crash, EventRequest, EventWritePipe, EventAnswer, TypeOK
  <2>3. CASE Crash(n) \/ EventAnswer(n)
    BY <2>3 DEF Crash, EventAnswer, TypeOK
  <2>4. \/ eventVars' = eventVars
        \/ \E p \in Node : Crash(p) \/ EventRequest(p) \/ EventWritePipe(p) \/ EventAnswer(p)
    BY DEF Next, Start, MainStep, MainReadTun, MainWritePipe, MainDeliver, PipeLoop,
           ServeRequest, EventAnswered, EventTimeout, vars
  <2> QED BY <2>1, <2>2, <2>3, <2>4
<1> QED BY <1>4, <1>5, <1>6, <1>7, <1>8

LEMMA AnswersStep ==
  ASSUME TypeOK, Serving, AnswersTrue, [Next]_vars
  PROVE  AnswersTrue'
<1>1. ASSUME NEW a \in answers PROVE a.number \in written'[Peer(a.to)]
  <2>1. a.to \in Node
    BY DEF TypeOK
  <2> QED BY <2>1, PeerFacts, HistoriesGrow DEF AnswersTrue
<1>2. CASE answers' = answers
  BY <1>1, <1>2 DEF AnswersTrue
<1>3. ASSUME NEW n \in Node, EventAnswer(n) PROVE AnswersTrue'
  <2> DEFINE b == Answer(Peer(n), ereq[n])
  <2>1. answers' = answers \cup {b} /\ epc[n] = "answer"
    BY <1>3 DEF EventAnswer
  <2>2. b.to = Peer(n) /\ b.number = ereq[n] /\ Peer(b.to) = n
    BY PeerFacts DEF Answer
  <2>3. ereq[n] \in written'[n]
    BY <2>1, HistoriesGrow DEF Serving
  <2> HIDE DEF b
  <2> QED BY <1>1, <2>1, <2>2, <2>3 DEF AnswersTrue
<1>4. answers' = answers \/ \E n \in Node : EventAnswer(n)
  BY DEF Next, Start, Crash, MainStep, MainReadTun, MainWritePipe, MainDeliver, PipeLoop,
         EventRequest, ServeRequest, EventWritePipe, EventAnswered, EventTimeout, vars, netVars
<1> QED BY <1>2, <1>3, <1>4

LEMMA AnsweredStep ==
  ASSUME TypeOK, AnswersTrue, AnsweredIsWritten, [Next]_vars
  PROVE  AnsweredIsWritten'
<1> SUFFICES ASSUME NEW n \in Node, NEW k \in answered'[n] PROVE k \in written'[Peer(n)]
  BY DEF AnsweredIsWritten
<1>1. Peer(n) \in Node
  BY PeerFacts
<1>2. CASE k \in answered[n]
  BY <1>1, <1>2, HistoriesGrow DEF AnsweredIsWritten
<1>3. CASE k \notin answered[n]
  <2>1. PICK p \in Node : EventAnswered(p)
    BY <1>3 DEF Next, Start, Crash, MainStep, MainReadTun, MainWritePipe, MainDeliver, PipeLoop,
                EventRequest, ServeRequest, EventWritePipe, EventAnswer, EventTimeout, vars
  <2>2. PICK j \in pending[p] : /\ Answer(p, j) \in answers
                                /\ answered' = [answered EXCEPT ![p] = @ \cup {j}]
    BY <2>1 DEF EventAnswered
  <2>3. p = n /\ j = k
    BY <1>3, <2>2 DEF TypeOK
  <2>4. Answer(n, k).number = k /\ Answer(n, k).to = n
    BY DEF Answer
  <2>5. k \in written[Peer(n)]
    BY <2>2, <2>3, <2>4 DEF AnswersTrue
  <2> QED BY <1>1, <2>5, HistoriesGrow
<1> QED BY <1>2, <1>3

LEMMA InvStep == IInv /\ [Next]_vars => IInv'
  BY TypeStep, RequestedStep, ServingStep, AnswersStep, AnsweredStep DEF IInv

THEOREM InvAlways == Spec => []IInv
  BY InvInit, InvStep, PTL DEF Spec

(* The type invariant: every buffer and pipe stays within its size.        *)
THEOREM TypeCorrect == Spec => []TypeOK
<1>1. IInv => TypeOK
  BY DEF IInv
<1> QED BY <1>1, InvAlways, PTL

(* A transaction that has ended with an answer has had its block written   *)
(* to the peer's pipe, over every restart, loss and repetition.            *)
THEOREM AnswersAreTrue == Spec => []AnsweredIsWritten
<1>1. IInv => AnsweredIsWritten
  BY DEF IInv
<1> QED BY <1>1, InvAlways, PTL

(* Every request that is ever under way, and so every one on_rx_request is *)
(* called with, has a header that fits into its payload of 2048 characters *)
(* with the zero that ends it, for every block that MainLoop, the pipe and *)
(* sip_loop_tun_events can make with buffers of up to 1505 bytes.          *)
THEOREM HeadersFit == Spec => [](\A r \in requests : Len(r.text) < PayloadSize)
<1>1. ASSUME IInv, NEW r \in requests PROVE Len(r.text) < PayloadSize
  <2> DEFINE b == sent[r.from][r.number]
  <2>1. r.from \in Node /\ r.number \in 1..Len(sent[r.from]) /\ r.text = Encode(b)
    BY <1>1 DEF IInv, TypeOK, Requested
  <2>2. b \in Seq(Octet) /\ b # <<>> /\ Len(b) \in 1..BlockSize-1
    BY <1>1, <2>1, SentIsBlock, BlockFacts DEF IInv
  <2> HIDE DEF b
  <2>3. Len(r.text) = 4 * ((Len(b) + 2) \div 3)
    BY <2>1, <2>2, DecodedLength
  <2> DEFINE len == Len(b)
  <2>4. len \in 1..BlockSize-1 /\ Len(r.text) = 4 * ((len + 2) \div 3)
    BY <2>2, <2>3
  <2> HIDE DEF len
  <2>5. len \in Nat /\ len < 1505
    BY <2>4, SipAssumption, SMT DEF BLOCK_SIZE
  <2>6. 4 * ((len + 2) \div 3) < 2048
    BY <2>5, SMT
  <2> QED BY <2>4, <2>6, SMT DEF PayloadSize
<1>2. IInv => \A r \in requests : Len(r.text) < PayloadSize
  BY <1>1
<1> QED BY <1>2, InvAlways, PTL
-----------------------------------------------------------------------------
(* The implementation of BlockChannel.                                     *)

LEMMA ChunkIsFront ==
  ASSUME NEW s \in Seq(Octet), NEW size \in Nat, size > 0, s # <<>>
  PROVE  \E k \in 1..size : /\ k <= Len(s)
                            /\ Chunk(s, size) = SubSeq(s, 1, k)
                            /\ Rest(s, size) = SubSeq(s, k+1, Len(s))
<1>1. Len(s) \in Nat /\ Len(s) > 0
  OBVIOUS
<1>2. CASE Len(s) <= size
  <2>1. Chunk(s, size) = s /\ Rest(s, size) = <<>>
    BY <1>2 DEF Chunk, Rest
  <2>2. SubSeq(s, 1, Len(s)) = s /\ SubSeq(s, Len(s)+1, Len(s)) = <<>>
    BY <1>1
  <2>3. Len(s) \in 1..size
    BY <1>1, <1>2
  <2>4. Len(s) <= Len(s)
    BY <1>1
  <2>5. Chunk(s, size) = SubSeq(s, 1, Len(s)) /\ Rest(s, size) = SubSeq(s, Len(s)+1, Len(s))
    BY <2>1, <2>2, Zenon
  <2> QED BY <2>3, <2>4, <2>5, Zenon
<1>3. CASE ~(Len(s) <= size)
  BY <1>1, <1>3 DEF Chunk, Rest
<1> QED BY <1>2, <1>3

\* The front of one sequence is the front of it and what follows.
LEMMA FrontOfBoth ==
  ASSUME NEW s \in Seq(Octet), NEW t \in Seq(Octet), NEW k \in 1..Len(s)
  PROVE  /\ k <= Len(s \o t)
         /\ SubSeq(s \o t, 1, k) = SubSeq(s, 1, k)
         /\ SubSeq(s \o t, k+1, Len(s \o t)) = SubSeq(s, k+1, Len(s)) \o t
<1> DEFINE u == s \o t
<1>1. /\ Len(s) \in Nat /\ Len(t) \in Nat /\ k \in Nat /\ 1 <= k /\ k <= Len(s)
      /\ u \in Seq(Octet) /\ Len(u) = Len(s) + Len(t)
  OBVIOUS
<1>2. \A i \in 1..Len(u) : u[i] = IF i <= Len(s) THEN s[i] ELSE t[i - Len(s)]
  BY <1>1
<1> HIDE DEF u
<1>3. SubSeq(u, 1, k) = SubSeq(s, 1, k)
  <2>1. /\ SubSeq(u, 1, k) \in Seq(Octet) /\ SubSeq(s, 1, k) \in Seq(Octet)
        /\ Len(SubSeq(u, 1, k)) = k /\ Len(SubSeq(s, 1, k)) = k
    BY <1>1
  <2>2. \A i \in 1..k : SubSeq(u, 1, k)[i] = SubSeq(s, 1, k)[i]
    BY <1>1, <1>2
  <2> QED BY <2>1, <2>2, SeqEqual
<1>4. SubSeq(u, k+1, Len(u)) = SubSeq(s, k+1, Len(s)) \o t
  <2> DEFINE x == SubSeq(u, k+1, Len(u))
             f == SubSeq(s, k+1, Len(s))
  <2>1. x \in Seq(Octet) /\ Len(x) = Len(u) - k /\ \A i \in 1..Len(x) : x[i] = u[k+i]
    BY <1>1
  <2>2. f \in Seq(Octet) /\ Len(f) = Len(s) - k /\ \A i \in 1..Len(f) : f[i] = s[k+i]
    BY <1>1
  <2> HIDE DEF x, f
  <2>3. f \o t \in Seq(Octet) /\ Len(f \o t) = Len(x)
    <3>1. f \o t \in Seq(Octet) /\ Len(f \o t) = Len(f) + Len(t)
      <4>1. f \in Seq(Octet)
        BY <2>2
      <4> QED BY <4>1, ConcatProperties
    <3>2. Len(f) = Len(s) - k /\ Len(x) = Len(u) - k
      BY <2>1, <2>2
    <3>3. Len(f) + Len(t) = Len(x)
      BY <1>1, <3>2
    <3> QED BY <3>1, <3>3
  <2>4. ASSUME NEW i \in 1..Len(x) PROVE x[i] = (f \o t)[i]
    <3>1. i \in Nat /\ 1 <= i /\ i <= Len(u) - k /\ k + i \in 1..Len(u) /\ x[i] = u[k+i]
      BY <1>1, <2>1
    <3>2. CASE i <= Len(f)
      BY <1>1, <1>2, <2>2, <3>1, <3>2
    <3>3. CASE i > Len(f)
      <4>1. (f \o t)[i] = t[i - Len(f)]
        BY <1>1, <2>1, <2>2, <3>1, <3>3
      <4>2. u[k+i] = t[k + i - Len(s)] /\ k + i - Len(s) = i - Len(f)
        BY <1>1, <1>2, <2>2, <3>1, <3>3
      <4> QED BY <3>1, <4>1, <4>2
    <3>4. Len(f) \in Nat
      BY <1>1, <2>2
    <3>5. i <= Len(f) \/ i > Len(f)
      BY <3>1, <3>4
    <3> QED BY <3>2, <3>3, <3>5
  <2>5. x = f \o t
    BY <2>1, <2>3, <2>4, SeqEqual
  <2> QED BY <2>5 DEF x, f
<1>5. k <= Len(u)
  BY <1>1
<1> QED BY <1>3, <1>4, <1>5 DEF u

\* What a step of n does to the bytes on their way to the network.
LEMMA OutboxIs ==
  ASSUME NEW n \in Node, NEW v, toPlugin'[n] \o mbuf'[n] = v,
         \A m \in Node : m # n => toPlugin'[m] = toPlugin[m] /\ mbuf'[m] = mbuf[m]
  PROVE  Outbox' = [Outbox EXCEPT ![n] = v]
  BY DEF Outbox

LEMMA MainReadTunRefines ==
  ASSUME IInv, NEW n \in Node, MainReadTun(n)
  PROVE  Channel!Accept(n)
<1> DEFINE k == taken[n] + 1
           c == Chunk(Traffic[n][k], BlockSize - 1)
<1>1. /\ taken[n] \in Nat /\ Len(Traffic[n]) \in Nat /\ taken[n] < Len(Traffic[n])
      /\ Traffic[n] \in Seq(Frame) /\ k \in 1..Len(Traffic[n])
  <2>1. taken[n] \in Nat /\ taken[n] < Len(Traffic[n])
    BY DEF MainReadTun, IInv, TypeOK
  <2>2. Traffic[n] \in Seq(Frame)
    BY SipAssumption
  <2>3. Len(Traffic[n]) \in Nat
    BY <2>2
  <2> QED BY <2>1, <2>2, <2>3
<1>2. Traffic[n][k] \in Seq(Octet) /\ Traffic[n][k] # <<>>
  BY <1>1 DEF Frame
<1>3. c \in Seq(Octet)
  BY <1>2, ChunkIsBlock, BlockFacts
<1>4. Input[n] = [i \in 1..Len(Traffic[n]) |-> Chunk(Traffic[n][i], BlockSize - 1)]
  BY DEF Input
<1>5. Len(Input[n]) = Len(Traffic[n]) /\ Input[n][k] = c
  BY <1>1, <1>4
<1>6. /\ taken' = [taken EXCEPT ![n] = @ + 1]
      /\ mbuf' = [mbuf EXCEPT ![n] = c]
      /\ UNCHANGED <<toPlugin, sent, fromPlugin>>
  <2>1. taken'[n] = k
    BY DEF MainReadTun, IInv, TypeOK
  <2> QED BY <2>1 DEF MainReadTun, pipeVars
<1> HIDE DEF c, k
<1>7. toPlugin'[n] \o mbuf'[n] = Outbox[n] \o c
  <2>1. toPlugin[n] \in Seq(Octet) /\ mbuf[n] = <<>> /\ mbuf'[n] = c
    BY <1>6 DEF IInv, TypeOK, Bytes, MainReadTun
  <2>2. toPlugin[n] \o <<>> = toPlugin[n]
    BY <2>1
  <2>3. Outbox[n] = toPlugin[n]
    BY <2>1, <2>2 DEF Outbox
  <2> QED BY <1>6, <2>1, <2>3
<1>8. Outbox' = [Outbox EXCEPT ![n] = Outbox[n] \o c]
  <2>1. \A m \in Node : m # n => toPlugin'[m] = toPlugin[m] /\ mbuf'[m] = mbuf[m]
    BY <1>6 DEF IInv, TypeOK
  <2> QED BY <1>7, <2>1, OutboxIs
<1>9. taken[n] < Len(Input[n]) /\ Input[n][taken[n] + 1] = c
  BY <1>1, <1>5 DEF k
<1> QED BY <1>6, <1>8, <1>9 DEF Channel!Accept

LEMMA MainWritePipeRefines ==
  ASSUME IInv, NEW n \in Node, MainWritePipe(n)
  PROVE  UNCHANGED Channel!channel
<1>1. /\ toPlugin' = [toPlugin EXCEPT ![n] = @ \o mbuf[n]]
      /\ mbuf' = [mbuf EXCEPT ![n] = <<>>]
      /\ UNCHANGED <<taken, sent, fromPlugin>>
  BY DEF MainWritePipe
<1>2. toPlugin \in [Node -> Bytes(PipeCap)] /\ mbuf \in [Node -> Bytes(BlockSize - 1)]
  BY DEF IInv, TypeOK
<1>3. toPlugin[n] \in Seq(Octet) /\ mbuf[n] \in Seq(Octet)
  BY <1>2 DEF Bytes
<1>4. ASSUME NEW m \in Node PROVE toPlugin'[m] \o mbuf'[m] = toPlugin[m] \o mbuf[m]
  <2>1. CASE m = n
    <3>1. toPlugin'[n] = toPlugin[n] \o mbuf[n] /\ mbuf'[n] = <<>>
      BY <1>1, <1>2
    <3>2. (toPlugin[n] \o mbuf[n]) \o <<>> = toPlugin[n] \o mbuf[n]
      BY <1>3
    <3> QED BY <2>1, <3>1, <3>2
  <2>2. CASE m # n
    BY <1>1, <1>2, <2>2
  <2> QED BY <2>1, <2>2
<1>5. Outbox' = Outbox
  BY <1>4 DEF Outbox
<1> QED BY <1>1, <1>5 DEF Channel!channel

LEMMA PipeLoopRefines ==
  ASSUME IInv, NEW n \in Node, PipeLoop(n)
  PROVE  Channel!Send(n)
<1>1. /\ toPlugin[n] \in Seq(Octet) /\ mbuf[n] \in Seq(Octet) /\ toPlugin[n] # <<>>
      /\ toPlugin \in [Node -> Bytes(PipeCap)]
  BY DEF PipeLoop, IInv, TypeOK, Bytes
<1>2. PICK k \in 1..BlockSize-1 :
         /\ k <= Len(toPlugin[n])
         /\ Chunk(toPlugin[n], BlockSize - 1) = SubSeq(toPlugin[n], 1, k)
         /\ Rest(toPlugin[n], BlockSize - 1) = SubSeq(toPlugin[n], k+1, Len(toPlugin[n]))
  BY <1>1, BlockFacts, ChunkIsFront
<1>3. Outbox[n] = toPlugin[n] \o mbuf[n]
  BY DEF Outbox
<1>4. /\ k <= Len(Outbox[n])
      /\ SubSeq(Outbox[n], 1, k) = Chunk(toPlugin[n], BlockSize - 1)
      /\ SubSeq(Outbox[n], k+1, Len(Outbox[n])) = Rest(toPlugin[n], BlockSize - 1) \o mbuf[n]
  <2>1. k \in 1..Len(toPlugin[n])
    BY <1>1, <1>2, BlockFacts
  <2>2. /\ k <= Len(toPlugin[n] \o mbuf[n])
        /\ SubSeq(toPlugin[n] \o mbuf[n], 1, k) = SubSeq(toPlugin[n], 1, k)
        /\ SubSeq(toPlugin[n] \o mbuf[n], k+1, Len(toPlugin[n] \o mbuf[n]))
             = SubSeq(toPlugin[n], k+1, Len(toPlugin[n])) \o mbuf[n]
    BY <1>1, <2>1, FrontOfBoth
  <2> QED BY <1>2, <1>3, <2>2, Zenon
<1> DEFINE rest == Rest(toPlugin[n], BlockSize - 1)
           block == Chunk(toPlugin[n], BlockSize - 1)
<1>5. /\ toPlugin' = [toPlugin EXCEPT ![n] = rest]
      /\ sent' = [sent EXCEPT ![n] = Append(@, block)]
      /\ UNCHANGED <<taken, mbuf, fromPlugin>>
  BY DEF PipeLoop, sip_envia_datos, mainVars
<1> HIDE DEF rest, block
<1>6. Outbox' = [Outbox EXCEPT ![n] = rest \o mbuf[n]]
  <2>1. toPlugin'[n] \o mbuf'[n] = rest \o mbuf[n]
    BY <1>1, <1>5
  <2>2. \A m \in Node : m # n => toPlugin'[m] = toPlugin[m] /\ mbuf'[m] = mbuf[m]
    BY <1>1, <1>5
  <2> QED BY <2>1, <2>2, OutboxIs
<1>7. /\ sent' = [sent EXCEPT ![n] = Append(@, SubSeq(Outbox[n], 1, k))]
      /\ Outbox' = [Outbox EXCEPT ![n] = SubSeq(Outbox[n], k+1, Len(Outbox[n]))]
  BY <1>4, <1>5, <1>6, Zenon DEF rest, block
<1> QED BY <1>2, <1>4, <1>5, <1>7 DEF Channel!Send

LEMMA EventWritePipeRefines ==
  ASSUME IInv, NEW n \in Node, EventWritePipe(n)
  PROVE  Channel!Arrive(n)
<1>1. ereq[n] \in 1..Len(sent[Peer(n)]) /\ ebuf[n] = sent[Peer(n)][ereq[n]]
  BY DEF EventWritePipe, IInv, Serving
<1>2. /\ fromPlugin' = [fromPlugin EXCEPT ![n] = @ \o ebuf[n]]
      /\ UNCHANGED <<taken, mbuf, toPlugin, sent>>
  BY DEF EventWritePipe, mainVars
<1>3. Outbox' = Outbox
  BY <1>2 DEF Outbox
<1> QED BY <1>1, <1>2, <1>3 DEF Channel!Arrive

LEMMA MainDeliverRefines ==
  ASSUME IInv, NEW n \in Node, MainDeliver(n)
  PROVE  Channel!Leave(n)
<1>1. fromPlugin[n] \in Seq(Octet) /\ fromPlugin[n] # <<>>
  BY DEF MainDeliver, IInv, TypeOK, Bytes
<1>2. PICK k \in 1..BlockSize :
         /\ k <= Len(fromPlugin[n])
         /\ Rest(fromPlugin[n], BlockSize) = SubSeq(fromPlugin[n], k+1, Len(fromPlugin[n]))
  <2>1. BlockSize \in Nat /\ BlockSize > 0
    BY SipAssumption
  <2> QED BY <1>1, <2>1, ChunkIsFront
<1>3. k \in 1..Len(fromPlugin[n])
  BY <1>1, <1>2, SipAssumption
<1>4. /\ fromPlugin' = [fromPlugin EXCEPT ![n] = Rest(@, BlockSize)]
      /\ UNCHANGED <<taken, mbuf, toPlugin, sent>>
  BY DEF MainDeliver, mainVars
<1>5. Outbox' = Outbox
  BY <1>4 DEF Outbox
<1> QED BY <1>2, <1>3, <1>4, <1>5 DEF Channel!Leave

LEMMA CrashRefines ==
  ASSUME IInv, NEW n \in Node, Crash(n)
  PROVE  Channel!End(n)
<1>1. /\ toPlugin' = [toPlugin EXCEPT ![n] = <<>>] /\ mbuf' = [mbuf EXCEPT ![n] = <<>>]
      /\ fromPlugin' = [fromPlugin EXCEPT ![n] = <<>>] /\ UNCHANGED <<taken, sent>>
  BY DEF Crash
<1>2. toPlugin \in [Node -> Bytes(PipeCap)] /\ mbuf \in [Node -> Bytes(BlockSize - 1)]
  BY DEF IInv, TypeOK
<1>3. Outbox' = [Outbox EXCEPT ![n] = <<>>]
  <2>1. toPlugin'[n] \o mbuf'[n] = <<>>
    BY <1>1, <1>2
  <2>2. \A m \in Node : m # n => toPlugin'[m] = toPlugin[m] /\ mbuf'[m] = mbuf[m]
    BY <1>1, <1>2
  <2> QED BY <2>1, <2>2, OutboxIs
<1> QED BY <1>1, <1>3 DEF Channel!End

LEMMA StepRefines ==
  ASSUME IInv, [Next]_vars
  PROVE  [Channel!Next]_(Channel!channel)
<1>1. CASE UNCHANGED <<taken, mbuf, toPlugin, sent, fromPlugin>>
  BY <1>1 DEF Channel!channel, Outbox
<1>2. \/ UNCHANGED <<taken, mbuf, toPlugin, sent, fromPlugin>>
      \/ \E n \in Node : \/ MainReadTun(n) \/ MainWritePipe(n) \/ PipeLoop(n)
                         \/ EventWritePipe(n) \/ MainDeliver(n) \/ Crash(n)
  BY DEF Next, Start, MainStep, EventRequest, ServeRequest, EventAnswer, EventAnswered,
         EventTimeout, vars, mainVars, pipeVars
<1> QED BY <1>1, <1>2, MainReadTunRefines, MainWritePipeRefines, PipeLoopRefines,
           EventWritePipeRefines, MainDeliverRefines, CrashRefines DEF Channel!Next

(* What is transmitted on one host is sent in order and once, but for what *)
(* a crash takes with it; what comes out of a SIP tunnel is whole blocks   *)
(* of the peer's, with the bytes they were sent with.                      *)
THEOREM TunnelImplementsChannel == Spec => ImplementsChannel
<1>1. Init => Channel!Init
  <2>1. Init => Outbox = [n \in Node |-> <<>>]
    BY DEF Init, Outbox
  <2> QED BY <2>1 DEF Init, Channel!Init
<1>2. IInv /\ [Next]_vars => [Channel!Next]_(Channel!channel)
  BY StepRefines
<1> QED BY <1>1, <1>2, InvAlways, PTL DEF Spec, ImplementsChannel, Channel!Spec
=============================================================================
