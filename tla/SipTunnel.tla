----------------------------- MODULE SipTunnel -----------------------------
(***************************************************************************)
(* The data path of a tunnel over SIP.  Each host runs three threads,      *)
(* joined by two pipes:                                                    *)
(*   main   MainLoop (main.c), as in a TCP tunnel;                         *)
(*   pipe   sip_loop_tun_events (sip_plugin.c): takes a block from         *)
(*          pipe_to_plugin and sends it, in Base64, as a header of an      *)
(*          OPTIONS request of its own;                                    *)
(*   event  sip_loop_sip_events: all that comes from the network and all   *)
(*          timers, so on_rx_request, which decodes a block and writes it  *)
(*          to pipe_from_plugin, and the transactions' answers and ends.   *)
(*                                                                         *)
(* pjsip is modelled from the calls made to it: requests and answers       *)
(* travel as datagrams that are lost, delayed, repeated and overtake each  *)
(* other, and a transaction lasts until its answer or its timeout.         *)
(* requests and answers hold all that were ever sent: one that is never    *)
(* taken from there is lost, one taken twice was repeated, by the network  *)
(* or by the transaction that retransmits it.                              *)
(*                                                                         *)
(* Requests that are not OPTIONS or lack the header Multivpn are answered  *)
(* 500 and change nothing, so they are left out.                           *)
(***************************************************************************)
EXTENDS Base64

CONSTANTS
  Alice, Bob,       (* the two hosts                                       *)
  BlockSize,        (* the size of every thread's buffer: BLOCK_SIZE, or   *)
                    (* less of it to make an instance small                *)
  PipeCap,          (* bytes a pipe holds                                  *)
  Traffic           (* bound: the frames that each host transmits          *)

Node == {Alice, Bob}
Peer(n) == IF n = Alice THEN Bob ELSE Alice

Frame == {s \in Seq(Octet) : s # <<>>}

(* A block fits in a pipe.  Nothing is assumed of the payload that its     *)
(* text is copied into.                                                    *)
ASSUME SipAssumption ==
  /\ Alice # Bob
  /\ BlockSize \in Nat /\ BlockSize > 1 /\ BlockSize <= BLOCK_SIZE
  /\ PipeCap \in Nat /\ PipeCap >= BlockSize - 1
  /\ Traffic \in [Node -> Seq(Frame)]

VARIABLES
  up,         (* whether each host's program runs                          *)
  taken,      (* frames MainLoop has read from the TUN                     *)
  mbuf,       (* MainLoop's buffer, while it holds bytes read, not written *)
  toPlugin,   (* global_v.pipe_to_plugin                                   *)
  fromPlugin, (* global_v.pipe_from_plugin                                 *)
  epc,        (* where the event thread is                                 *)
  ereq,       (* the number of the request it is serving, or 0             *)
  ebuf,       (* decodedpayload, until it is written                       *)
  pending,    (* the numbers of the transactions under way                 *)
  requests,   (* the requests sent so far                                  *)
  answers,    (* the answers sent so far                                   *)
  sent,       (* history: the blocks given to sip_envia_datos              *)
  written,    (* history: the peer's blocks written to pipe_from_plugin    *)
  answered    (* history: the transactions that ended with an answer       *)

mainVars  == <<taken, mbuf>>
pipeVars  == <<toPlugin, fromPlugin>>
eventVars == <<epc, ereq, ebuf>>
netVars   == <<requests, answers>>
vars == <<up, mainVars, pipeVars, eventVars, pending, netVars, sent, written, answered>>

Chunk(s, size) == IF Len(s) <= size THEN s ELSE SubSeq(s, 1, size)
Rest(s, size)  == IF Len(s) <= size THEN <<>> ELSE SubSeq(s, size+1, Len(s))
Fits(pipe, block) == Len(pipe) + Len(block) <= PipeCap

Init ==
  /\ up = [n \in Node |-> FALSE]
  /\ taken = [n \in Node |-> 0]
  /\ mbuf = [n \in Node |-> <<>>]
  /\ toPlugin = [n \in Node |-> <<>>]
  /\ fromPlugin = [n \in Node |-> <<>>]
  /\ epc = [n \in Node |-> "idle"]
  /\ ereq = [n \in Node |-> 0]
  /\ ebuf = [n \in Node |-> <<>>]
  /\ pending = [n \in Node |-> {}]
  /\ requests = {}
  /\ answers = {}
  /\ sent = [n \in Node |-> <<>>]
  /\ written = [n \in Node |-> {}]
  /\ answered = [n \in Node |-> {}]
-----------------------------------------------------------------------------
(* A program starts and ends at any time.  sip_start reaches its loops     *)
(* with nothing but empty pipes, and asks nothing of the peer.             *)
Start(n) ==
  /\ ~up[n]
  /\ up' = [up EXCEPT ![n] = TRUE]
  /\ UNCHANGED <<mainVars, pipeVars, eventVars, pending, netVars, sent, written, answered>>

\* Killed, or stopped by an assertion of pjlib.
Crash(n) ==
  /\ up[n]
  /\ up' = [up EXCEPT ![n] = FALSE]
  /\ mbuf' = [mbuf EXCEPT ![n] = <<>>]
  /\ toPlugin' = [toPlugin EXCEPT ![n] = <<>>]
  /\ fromPlugin' = [fromPlugin EXCEPT ![n] = <<>>]
  /\ epc' = [epc EXCEPT ![n] = "idle"]
  /\ ereq' = [ereq EXCEPT ![n] = 0]
  /\ ebuf' = [ebuf EXCEPT ![n] = <<>>]
  /\ pending' = [pending EXCEPT ![n] = {}]
  /\ UNCHANGED <<taken, netVars, sent, written, answered>>
-----------------------------------------------------------------------------
(* MainLoop.  The TUN comes first, but whether the next frame has arrived  *)
(* yet is open, so it may find the pipe alone readable at any time.        *)

\* Mutant: read() is given the whole of the buffer.
MainReadTunWhole(n) ==
  /\ up[n] /\ mbuf[n] = <<>>
  /\ taken[n] < Len(Traffic[n])
  /\ taken' = [taken EXCEPT ![n] = @ + 1]
  /\ mbuf' = [mbuf EXCEPT ![n] = Chunk(Traffic[n][taken'[n]], BlockSize)]
  /\ UNCHANGED <<up, pipeVars, eventVars, pending, netVars, sent, written, answered>>

MainReadTun(n) ==
  /\ up[n] /\ mbuf[n] = <<>>
  /\ taken[n] < Len(Traffic[n])
  /\ taken' = [taken EXCEPT ![n] = @ + 1]
  /\ mbuf' = [mbuf EXCEPT ![n] = Chunk(Traffic[n][taken'[n]], BlockSize - 1)]
  /\ UNCHANGED <<up, pipeVars, eventVars, pending, netVars, sent, written, answered>>

MainWritePipe(n) ==
  /\ mbuf[n] # <<>>
  /\ Fits(toPlugin[n], mbuf[n])
  /\ toPlugin' = [toPlugin EXCEPT ![n] = @ \o mbuf[n]]
  /\ mbuf' = [mbuf EXCEPT ![n] = <<>>]
  /\ UNCHANGED <<up, taken, fromPlugin, eventVars, pending, netVars, sent, written, answered>>

\* A read from the pipe and the write to the TUN, which never blocks.
MainDeliver(n) ==
  /\ mbuf[n] = <<>>
  /\ fromPlugin[n] # <<>>
  /\ fromPlugin' = [fromPlugin EXCEPT ![n] = Rest(@, BlockSize)]
  /\ UNCHANGED <<up, mainVars, toPlugin, eventVars, pending, netVars, sent, written, answered>>
-----------------------------------------------------------------------------
(* The pipe thread.                                                        *)

Request(n, k, block) == [from |-> n, number |-> k, text |-> Encode(block)]

\* A request on its way, with a transaction that waits for the answer; or a
\* call of pjsip fails.  The loop does not look at the result: the block is
\* lost.
sip_envia_datos(n, block) ==
  /\ sent' = [sent EXCEPT ![n] = Append(@, block)]
  /\ \/ /\ requests' = requests \cup {Request(n, Len(sent'[n]), block)}
        /\ pending' = [pending EXCEPT ![n] = @ \cup {Len(sent'[n])}]
     \/ UNCHANGED <<requests, pending>>

\* Mutant: the event thread does this too, between two events.
PipeLoopOneThread(n) ==
  /\ epc[n] = "idle"
  /\ toPlugin[n] # <<>>
  /\ toPlugin' = [toPlugin EXCEPT ![n] = Rest(@, BlockSize - 1)]
  /\ sip_envia_datos(n, Chunk(toPlugin[n], BlockSize - 1))
  /\ UNCHANGED <<up, mainVars, fromPlugin, eventVars, answers, written, answered>>

PipeLoop(n) ==
  /\ toPlugin[n] # <<>>
  /\ toPlugin' = [toPlugin EXCEPT ![n] = Rest(@, BlockSize - 1)]
  /\ sip_envia_datos(n, Chunk(toPlugin[n], BlockSize - 1))
  /\ UNCHANGED <<up, mainVars, fromPlugin, eventVars, answers, written, answered>>
-----------------------------------------------------------------------------
(* The event thread.                                                       *)

Answer(n, k) == [to |-> n, number |-> k]

\* Mutant: the answer is sent before the block is written.
EventRequestAnswered(n) ==
  /\ up[n] /\ epc[n] = "idle"
  /\ \E r \in requests :
       /\ r.from = Peer(n)
       /\ ereq' = [ereq EXCEPT ![n] = r.number]
       /\ ebuf' = [ebuf EXCEPT ![n] = Decode(r.text)]
       /\ answers' = answers \cup {Answer(Peer(n), r.number)}
  /\ epc' = [epc EXCEPT ![n] = "write"]
  /\ UNCHANGED <<up, mainVars, pipeVars, pending, requests, sent, written, answered>>

\* on_rx_request is called with a request.  Answers are stateless: nothing
\* remembers that a request has been served before.
EventRequest(n) ==
  /\ up[n] /\ epc[n] = "idle"
  /\ \E r \in requests :
       /\ r.from = Peer(n)
       /\ ereq' = [ereq EXCEPT ![n] = r.number]
       /\ ebuf' = [ebuf EXCEPT ![n] = Decode(r.text)]
  /\ epc' = [epc EXCEPT ![n] = "write"]
  /\ UNCHANGED <<up, mainVars, pipeVars, pending, netVars, sent, written, answered>>

\* Mutant: the pipe is non-blocking and takes what it has room for.
EventWritePipeShort(n) ==
  /\ epc[n] = "write"
  /\ Len(fromPlugin[n]) < PipeCap
  /\ fromPlugin' = [fromPlugin EXCEPT ![n] = @ \o Chunk(ebuf[n], PipeCap - Len(@))]
  /\ written' = [written EXCEPT ![n] = @ \cup {ereq[n]}]
  /\ epc' = [epc EXCEPT ![n] = "answer"]
  /\ UNCHANGED <<up, mainVars, toPlugin, ereq, ebuf, pending, netVars, sent, answered>>

EventWritePipe(n) ==
  /\ epc[n] = "write"
  /\ Fits(fromPlugin[n], ebuf[n])
  /\ fromPlugin' = [fromPlugin EXCEPT ![n] = @ \o ebuf[n]]
  /\ written' = [written EXCEPT ![n] = @ \cup {ereq[n]}]
  /\ epc' = [epc EXCEPT ![n] = "answer"]
  /\ UNCHANGED <<up, mainVars, toPlugin, ereq, ebuf, pending, netVars, sent, answered>>

\* The answer 666, and the end of on_rx_request.
EventAnswer(n) ==
  /\ epc[n] = "answer"
  /\ answers' = answers \cup {Answer(Peer(n), ereq[n])}
  /\ epc' = [epc EXCEPT ![n] = "idle"]
  /\ ereq' = [ereq EXCEPT ![n] = 0]
  /\ ebuf' = [ebuf EXCEPT ![n] = <<>>]
  /\ UNCHANGED <<up, mainVars, pipeVars, pending, requests, sent, written, answered>>

\* An answer ends its transaction; without one it is thrown away.
EventAnswered(n) ==
  /\ epc[n] = "idle"
  /\ \E k \in pending[n] :
       /\ Answer(n, k) \in answers
       /\ pending' = [pending EXCEPT ![n] = @ \ {k}]
       /\ answered' = [answered EXCEPT ![n] = @ \cup {k}]
  /\ UNCHANGED <<up, mainVars, pipeVars, eventVars, netVars, sent, written>>


\* pjsip gives a transaction up, and the block with it.
EventTimeout(n, k) ==
  /\ epc[n] = "idle"
  /\ k \in pending[n]
  /\ pending' = [pending EXCEPT ![n] = @ \ {k}]
  /\ UNCHANGED <<up, mainVars, pipeVars, eventVars, netVars, sent, written, answered>>
-----------------------------------------------------------------------------
MainStep(n) == MainReadTun(n) \/ MainWritePipe(n) \/ MainDeliver(n)

\* What is left to do of a request that on_rx_request has been called with.
ServeRequest(n) == EventWritePipe(n) \/ EventAnswer(n)

Next == \E n \in Node :
          \/ Start(n) \/ Crash(n)
          \/ MainStep(n)
          \/ PipeLoop(n)
          \/ EventRequest(n) \/ ServeRequest(n) \/ EventAnswered(n)
          \/ \E k \in pending[n] : EventTimeout(n, k)

Spec == Init /\ [][Next]_vars

\* The kernel schedules every runnable thread.  pjsip_endpt_handle_events
\* polls the timers each time it is called, whatever else it finds to do, so
\* a transaction whose end is possible over and over again does end.
\* Nothing obliges a program to start or the network to deliver.
Fairness == \A n \in Node :
  /\ WF_vars(MainStep(n))
  /\ WF_vars(PipeLoop(n))
  /\ WF_vars(ServeRequest(n))
  /\ \A k \in 1..Len(Traffic[n]) : SF_vars(EventTimeout(n, k))

FairSpec == Spec /\ Fairness
-----------------------------------------------------------------------------
Bytes(size) == {s \in Seq(Octet) : Len(s) <= size}
Number == Nat \ {0}

(* The type of every variable, and how full each buffer can be.  Only a    *)
(* program that runs holds anything.                                       *)
TypeOK ==
  /\ up \in [Node -> BOOLEAN]
  /\ taken \in [Node -> Nat]
  /\ mbuf \in [Node -> Bytes(BlockSize - 1)]
  /\ toPlugin \in [Node -> Bytes(PipeCap)]
  /\ fromPlugin \in [Node -> Bytes(PipeCap)]
  /\ epc \in [Node -> {"idle", "write", "answer"}]
  /\ ereq \in [Node -> Nat]
  /\ ebuf \in [Node -> Bytes(BlockSize - 1)]
  /\ pending \in [Node -> SUBSET Number]
  /\ requests \subseteq [from : Node, number : Number, text : Text]
  /\ answers \subseteq [to : Node, number : Number]
  /\ sent \in [Node -> Seq(Bytes(BlockSize - 1) \ {<<>>})]
  /\ written \in [Node -> SUBSET Number]
  /\ answered \in [Node -> SUBSET Number]
  /\ \A n \in Node : ~up[n] =>
       /\ mbuf[n] = <<>> /\ toPlugin[n] = <<>> /\ fromPlugin[n] = <<>>
       /\ epc[n] = "idle" /\ pending[n] = {}

(* A transaction ends with an answer only when its block has been written  *)
(* to the peer's pipe: the answer is the peer's word for it, also when the *)
(* peer has crashed and come back in between, or the answer is an old one. *)
AnsweredIsWritten == \A n \in Node : answered[n] \subseteq written[Peer(n)]

(* SipTunnel implements BlockChannel.  Between the TUN device and the      *)
(* network no byte is lost, repeated or moved while the program runs; and  *)
(* with requests lost, repeated and out of order, either program           *)
(* restarting, and Base64 in between, what enters pipe_from_plugin is      *)
(* whole blocks that the peer took from its own pipe.                      *)
Input  == [n \in Node |-> [k \in 1..Len(Traffic[n]) |-> Chunk(Traffic[n][k], BlockSize - 1)]]
Outbox == [n \in Node |-> toPlugin[n] \o mbuf[n]]
Channel == INSTANCE BlockChannel WITH Node <- Node, Peer <- Peer, MaxBlock <- BlockSize - 1,
                                      Input <- Input, read <- taken, outbox <- Outbox,
                                      sent <- sent, inbox <- fromPlugin
ImplementsChannel == Channel!Spec

(* No write to a pipe blocks for ever: sending has a thread of its own, so *)
(* the two pipes cannot block each other as they do in a TCP tunnel.       *)
WritesEnd == \A n \in Node : /\ mbuf[n] # <<>> ~> mbuf[n] = <<>>
                             /\ epc[n] = "write" ~> epc[n] # "write"

=============================================================================
