------------------------------ MODULE TcpTunnel ------------------------------
(***************************************************************************)
(* The data path of a TCP tunnel between two hosts, from the moment both   *)
(* programs are built (plugin_build succeeded on each; the client's        *)
(* connect() included) and for as long as the connection stays up.         *)
(*                                                                         *)
(* Each host runs two threads, joined by two pipes:                        *)
(*   main    MainLoop (main.c): TUN -> pipe_to_plugin,                     *)
(*           pipe_from_plugin -> TUN;                                      *)
(*   plugin  tcp_startClient / tcp_startServer (tcp_plugin.c):             *)
(*           pipe_to_plugin -> socket, socket -> pipe_from_plugin.         *)
(* Every loop is: select() on two descriptors, serve ONE of them (the      *)
(* first in the if / else-if order), with a blocking read and then a       *)
(* blocking write.  The two loops of the plugin differ only in the         *)
(* accept() that precedes the server's, so one set of actions models both. *)
(*                                                                         *)
(* setReading is not initialised before the first FD_SET.  Descriptors are *)
(* handed out lowest first, so every descriptor below maxfd is open, and   *)
(* a stray bit can only wake select() early: the loop goes round again     *)
(* without changing anything, which is a stuttering step here.             *)
(***************************************************************************)
EXTENDS Integers, Sequences

CONSTANTS
  Client, Server,   (* the two hosts                                       *)
  BlockSize,        (* BLOCK_SIZE: the size of every thread's buffer       *)
  PipeCap,          (* bytes a pipe holds                                  *)
  SendCap, RecvCap, (* bytes the kernel's socket buffers hold              *)
  TunCap,           (* frames the TUN device queues for reading            *)
  FrameLens,        (* the lengths of the frames the host transmits        *)
  MaxFrames         (* bound: frames each host transmits                   *)

(* A block fits in a pipe, so a write to a pipe is one atomic step         *)
(* (BLOCK_SIZE = 1505 <= PIPE_BUF); a receive buffer takes a full block.   *)
ASSUME TunnelAssumption ==
  /\ Client # Server
  /\ BlockSize \in Nat /\ BlockSize > 1
  /\ PipeCap \in Nat /\ PipeCap >= BlockSize - 1
  /\ SendCap \in Nat \ {0}
  /\ RecvCap \in Nat /\ RecvCap >= BlockSize - 1
  /\ TunCap \in Nat \ {0}
  /\ FrameLens \subseteq Nat \ {0}
  /\ MaxFrames \in [{Client, Server} -> Nat]

Node == {Client, Server}
Peer(n) == IF n = Client THEN Server ELSE Client

VARIABLES
  mpc,        (* where each main thread is                                 *)
  mbuf,       (* MainLoop's buffer, while it holds bytes read, not written *)
  ppc,        (* where each plugin thread is                               *)
  pbuf,       (* the plugin loop's buffer, likewise                        *)
  tunq,       (* frames waiting in the TUN device                          *)
  nframes,    (* frames the host has transmitted so far                    *)
  toPlugin,   (* global_v.pipe_to_plugin                                   *)
  fromPlugin, (* global_v.pipe_from_plugin                                 *)
  sndbuf,     (* bytes sent on the socket, not yet at the peer             *)
  rcvbuf,     (* bytes arrived at the socket, not yet received             *)
  accepted,   (* history: bytes MainLoop read from the TUN                 *)
  delivered   (* history: bytes MainLoop handed to write(fdTun)            *)

mainVars   == <<mpc, mbuf>>
pluginVars == <<ppc, pbuf>>
tunVars    == <<tunq, nframes>>
pipeVars   == <<toPlugin, fromPlugin>>
sockVars   == <<sndbuf, rcvbuf>>
history    == <<accepted, delivered>>
vars == <<mainVars, pluginVars, tunVars, pipeVars, sockVars, history>>

-----------------------------------------------------------------------------
(* A byte is the place it was transmitted from: host, frame and offset.    *)
Byte == Node \X Nat \X Nat

Frame(n, k, len) == [i \in 1..len |-> <<n, k, i>>]

\* What read(fd, buffer, size) returns of s, and what it leaves.
Chunk(s, size) == IF Len(s) <= size THEN s ELSE SubSeq(s, 1, size)
Rest(s, size)  == IF Len(s) <= size THEN <<>> ELSE SubSeq(s, size+1, Len(s))

\* The two ends of a pipe write: it blocks until the whole block fits.
Fits(pipe, block) == Len(pipe) + Len(block) <= PipeCap

Init ==
  /\ mpc = [n \in Node |-> IF n = Client THEN "connect" ELSE "select"]
  /\ ppc = [n \in Node |-> IF n = Client THEN "connect" ELSE "accept"]
  /\ nframes = [n \in Node |-> 0]
  /\ mbuf = [n \in Node |-> <<>>]
  /\ pbuf = [n \in Node |-> <<>>]
  /\ tunq = [n \in Node |-> <<>>]
  /\ toPlugin = [n \in Node |-> <<>>]
  /\ fromPlugin = [n \in Node |-> <<>>]
  /\ sndbuf = [n \in Node |-> <<>>]
  /\ rcvbuf = [n \in Node |-> <<>>]
  /\ accepted = [n \in Node |-> <<>>]
  /\ delivered = [n \in Node |-> <<>>]
-----------------------------------------------------------------------------
(* The environment: connection set-up, the TUN device and the network.     *)

\* The client's connect() completes (the server's kernel answers it before
\* accept() is called): plugin_build returns and both its threads start.
Connect ==
  /\ mpc[Client] = "connect" /\ ppc[Client] = "connect"
  /\ mpc' = [mpc EXCEPT ![Client] = "select"]
  /\ ppc' = [ppc EXCEPT ![Client] = "select"]
  /\ UNCHANGED <<mbuf, pbuf, tunVars, pipeVars, sockVars, history>>

\* The host transmits a frame through the interface.  (A frame that finds
\* the device's queue full is dropped there and never reaches the program.)
TunArrive(n) ==
  /\ mpc[n] # "connect"
  /\ nframes[n] < MaxFrames[n]
  /\ Len(tunq[n]) < TunCap
  /\ nframes' = [nframes EXCEPT ![n] = @ + 1]
  /\ \E len \in FrameLens :
       tunq' = [tunq EXCEPT ![n] = Append(@, Frame(n, nframes'[n], len))]
  /\ UNCHANGED <<mainVars, pluginVars, pipeVars, sockVars, history>>

\* TCP moves bytes to the peer: in order, any number at a time, and no more
\* than its receive buffer has room for.
NetDeliver(n) ==
  /\ \E k \in 1..Len(sndbuf[n]) :
       /\ Len(rcvbuf[Peer(n)]) + k <= RecvCap
       /\ rcvbuf' = [rcvbuf EXCEPT ![Peer(n)] = @ \o Chunk(sndbuf[n], k)]
       /\ sndbuf' = [sndbuf EXCEPT ![n] = Rest(@, k)]
  /\ UNCHANGED <<mainVars, pluginVars, tunVars, pipeVars, history>>
-----------------------------------------------------------------------------
(* MainLoop.  The TUN device comes first in the if / else-if.              *)

\* Mutant: the result of FD_ISSET(fdTun) is not tested.
MainSelectTunUntested(n) ==
  /\ mpc[n] = "select"
  /\ mpc' = [mpc EXCEPT ![n] = "readTun"]
  /\ UNCHANGED <<mbuf, pluginVars, tunVars, pipeVars, sockVars, history>>

MainSelectTun(n) ==
  /\ mpc[n] = "select"
  /\ tunq[n] # <<>>
  /\ mpc' = [mpc EXCEPT ![n] = "readTun"]
  /\ UNCHANGED <<mbuf, pluginVars, tunVars, pipeVars, sockVars, history>>

\* Mutant: maxFd leaves the pipe out, so only the TUN wakes select().
MainSelectPipeMissed(n) ==
  /\ mpc[n] = "select"
  /\ tunq[n] # <<>>
  /\ fromPlugin[n] # <<>>
  /\ mpc' = [mpc EXCEPT ![n] = "readPipe"]
  /\ UNCHANGED <<mbuf, pluginVars, tunVars, pipeVars, sockVars, history>>

MainSelectPipe(n) ==
  /\ mpc[n] = "select"
  /\ tunq[n] = <<>>
  /\ fromPlugin[n] # <<>>
  /\ mpc' = [mpc EXCEPT ![n] = "readPipe"]
  /\ UNCHANGED <<mbuf, pluginVars, tunVars, pipeVars, sockVars, history>>

\* read(fdTun, buffer, BLOCK_SIZE-1) takes one frame; the device discards
\* what the buffer has no room for.
MainReadTun(n) ==
  /\ mpc[n] = "readTun"
  /\ mbuf' = [mbuf EXCEPT ![n] = Chunk(Head(tunq[n]), BlockSize - 1)]
  /\ tunq' = [tunq EXCEPT ![n] = Tail(@)]
  /\ accepted' = [accepted EXCEPT ![n] = @ \o mbuf'[n]]
  /\ mpc' = [mpc EXCEPT ![n] = "writePipe"]
  /\ UNCHANGED <<nframes, delivered, pluginVars, pipeVars, sockVars>>

\* Mutant: the pipe is non-blocking and a block that does not fit is dropped.
MainWritePipeDropping(n) ==
  /\ mpc[n] = "writePipe"
  /\ toPlugin' = IF Fits(toPlugin[n], mbuf[n])
                   THEN [toPlugin EXCEPT ![n] = @ \o mbuf[n]] ELSE toPlugin
  /\ mbuf' = [mbuf EXCEPT ![n] = <<>>]
  /\ mpc' = [mpc EXCEPT ![n] = "select"]
  /\ UNCHANGED <<pluginVars, tunVars, fromPlugin, sockVars, history>>

MainWritePipe(n) ==
  /\ mpc[n] = "writePipe"
  /\ Fits(toPlugin[n], mbuf[n])
  /\ toPlugin' = [toPlugin EXCEPT ![n] = @ \o mbuf[n]]
  /\ mbuf' = [mbuf EXCEPT ![n] = <<>>]
  /\ mpc' = [mpc EXCEPT ![n] = "select"]
  /\ UNCHANGED <<pluginVars, tunVars, fromPlugin, sockVars, history>>

\* This one read passes BLOCK_SIZE, every other one BLOCK_SIZE-1.
MainReadPipe(n) ==
  /\ mpc[n] = "readPipe"
  /\ mbuf' = [mbuf EXCEPT ![n] = Chunk(fromPlugin[n], BlockSize)]
  /\ fromPlugin' = [fromPlugin EXCEPT ![n] = Rest(@, BlockSize)]
  /\ mpc' = [mpc EXCEPT ![n] = "writeTun"]
  /\ UNCHANGED <<pluginVars, tunVars, toPlugin, sockVars, history>>

\* One write(fdTun), which never blocks: the device takes it as one frame,
\* or refuses it (interface down, less than a header).  A refusal is only
\* logged, so the program goes on as if it had succeeded: delivered is what
\* the device was given.
MainWriteTun(n) ==
  /\ mpc[n] = "writeTun"
  /\ delivered' = [delivered EXCEPT ![n] = @ \o mbuf[n]]
  /\ mbuf' = [mbuf EXCEPT ![n] = <<>>]
  /\ mpc' = [mpc EXCEPT ![n] = "select"]
  /\ UNCHANGED <<accepted, pluginVars, tunVars, pipeVars, sockVars>>
-----------------------------------------------------------------------------
(* The plugin's loop.  The socket comes first in the if / else-if.         *)

PluginAccept ==
  /\ ppc[Server] = "accept"
  /\ mpc[Client] # "connect"
  /\ ppc' = [ppc EXCEPT ![Server] = "select"]
  /\ UNCHANGED <<pbuf, mainVars, tunVars, pipeVars, sockVars, history>>

PluginSelectSocket(n) ==
  /\ ppc[n] = "select"
  /\ rcvbuf[n] # <<>>
  /\ ppc' = [ppc EXCEPT ![n] = "recv"]
  /\ UNCHANGED <<pbuf, mainVars, tunVars, pipeVars, sockVars, history>>

\* Mutant: the pipe is served even when the socket is readable.
PluginSelectPipeFirst(n) ==
  /\ ppc[n] = "select"
  /\ toPlugin[n] # <<>>
  /\ ppc' = [ppc EXCEPT ![n] = "readPipe"]
  /\ UNCHANGED <<pbuf, mainVars, tunVars, pipeVars, sockVars, history>>

PluginSelectPipe(n) ==
  /\ ppc[n] = "select"
  /\ rcvbuf[n] = <<>>
  /\ toPlugin[n] # <<>>
  /\ ppc' = [ppc EXCEPT ![n] = "readPipe"]
  /\ UNCHANGED <<pbuf, mainVars, tunVars, pipeVars, sockVars, history>>

\* Mutant: recv() with MSG_PEEK leaves the bytes in the receive buffer.
PluginRecvPeek(n) ==
  /\ ppc[n] = "recv"
  /\ pbuf' = [pbuf EXCEPT ![n] = Chunk(rcvbuf[n], BlockSize - 1)]
  /\ ppc' = [ppc EXCEPT ![n] = "writePipe"]
  /\ UNCHANGED <<mainVars, tunVars, pipeVars, sockVars, history>>

PluginRecv(n) ==
  /\ ppc[n] = "recv"
  /\ pbuf' = [pbuf EXCEPT ![n] = Chunk(rcvbuf[n], BlockSize - 1)]
  /\ rcvbuf' = [rcvbuf EXCEPT ![n] = Rest(@, BlockSize - 1)]
  /\ ppc' = [ppc EXCEPT ![n] = "writePipe"]
  /\ UNCHANGED <<mainVars, tunVars, pipeVars, sndbuf, history>>

PluginWritePipe(n) ==
  /\ ppc[n] = "writePipe"
  /\ Fits(fromPlugin[n], pbuf[n])
  /\ fromPlugin' = [fromPlugin EXCEPT ![n] = @ \o pbuf[n]]
  /\ pbuf' = [pbuf EXCEPT ![n] = <<>>]
  /\ ppc' = [ppc EXCEPT ![n] = "select"]
  /\ UNCHANGED <<mainVars, tunVars, toPlugin, sockVars, history>>

PluginReadPipe(n) ==
  /\ ppc[n] = "readPipe"
  /\ pbuf' = [pbuf EXCEPT ![n] = Chunk(toPlugin[n], BlockSize - 1)]
  /\ toPlugin' = [toPlugin EXCEPT ![n] = Rest(@, BlockSize - 1)]
  /\ ppc' = [ppc EXCEPT ![n] = "send"]
  /\ UNCHANGED <<mainVars, tunVars, fromPlugin, sockVars, history>>

\* Mutant: a send() that takes part of the block is not continued.
PluginSendShort(n) ==
  /\ ppc[n] = "send"
  /\ \E k \in 1..Len(pbuf[n]) :
       /\ Len(sndbuf[n]) + k <= SendCap
       /\ sndbuf' = [sndbuf EXCEPT ![n] = @ \o Chunk(pbuf[n], k)]
  /\ pbuf' = [pbuf EXCEPT ![n] = <<>>]
  /\ ppc' = [ppc EXCEPT ![n] = "select"]
  /\ UNCHANGED <<mainVars, tunVars, pipeVars, rcvbuf, history>>

\* Mutant: it waits until the whole block fits into the send buffer.
PluginSendWhole(n) ==
  /\ ppc[n] = "send"
  /\ Len(sndbuf[n]) + Len(pbuf[n]) <= SendCap
  /\ sndbuf' = [sndbuf EXCEPT ![n] = @ \o pbuf[n]]
  /\ pbuf' = [pbuf EXCEPT ![n] = <<>>]
  /\ ppc' = [ppc EXCEPT ![n] = "select"]
  /\ UNCHANGED <<mainVars, tunVars, pipeVars, rcvbuf, history>>

\* send() on a blocking socket copies bytes as the send buffer makes room
\* and returns when all are copied.
PluginSend(n) ==
  /\ ppc[n] = "send"
  /\ \E k \in 1..Len(pbuf[n]) :
       /\ Len(sndbuf[n]) + k <= SendCap
       /\ sndbuf' = [sndbuf EXCEPT ![n] = @ \o Chunk(pbuf[n], k)]
       /\ pbuf' = [pbuf EXCEPT ![n] = Rest(@, k)]
       /\ ppc' = [ppc EXCEPT ![n] = IF k = Len(pbuf[n]) THEN "select" ELSE "send"]
  /\ UNCHANGED <<mainVars, tunVars, pipeVars, rcvbuf, history>>
-----------------------------------------------------------------------------
MainStep(n) == \/ MainSelectTun(n) \/ MainSelectPipe(n)
               \/ MainReadTun(n)   \/ MainWritePipe(n)
               \/ MainReadPipe(n)  \/ MainWriteTun(n)

PluginStep(n) == \/ PluginSelectSocket(n) \/ PluginSelectPipe(n)
                 \/ PluginRecv(n)         \/ PluginWritePipe(n)
                 \/ PluginReadPipe(n)     \/ PluginSend(n)

Next == \/ Connect
        \/ PluginAccept
        \/ \E n \in Node : TunArrive(n) \/ NetDeliver(n) \/ MainStep(n) \/ PluginStep(n)

Spec == Init /\ [][Next]_vars

\* The kernel schedules every runnable thread, and TCP retransmits until the
\* peer has the bytes.  Nothing obliges the client to connect or a host to
\* transmit.
Fairness == /\ WF_vars(PluginAccept)
            /\ \A n \in Node : /\ WF_vars(MainStep(n))
                               /\ WF_vars(PluginStep(n))
                               /\ WF_vars(NetDeliver(n))

FairSpec == Spec /\ Fairness
-----------------------------------------------------------------------------
Blocks(size) == {s \in Seq(Byte) : Len(s) <= size}

(* The type of every variable, and how full each buffer can be: a thread   *)
(* holds at most what one read can have returned, no pipe or socket buffer *)
(* exceeds its capacity, and a thread that is about to read the TUN device *)
(* (select() said it is readable) finds a frame there.                     *)
TypeOK ==
  /\ mpc \in [Node -> {"connect", "select", "readTun", "writePipe", "readPipe", "writeTun"}]
  /\ ppc \in [Node -> {"connect", "accept", "select", "recv", "writePipe", "readPipe", "send"}]
  /\ nframes \in [Node -> Nat]
  /\ tunq \in [Node -> Seq(Seq(Byte))]
  /\ \A n \in Node : /\ nframes[n] <= MaxFrames[n]
                     /\ Len(tunq[n]) <= TunCap
                     /\ mpc[n] = "readTun" => tunq[n] # <<>>
                     /\ mpc[n] = "writePipe" => Len(mbuf[n]) < BlockSize
  /\ mbuf \in [Node -> Blocks(BlockSize)]
  /\ pbuf \in [Node -> Blocks(BlockSize - 1)]
  /\ toPlugin \in [Node -> Blocks(PipeCap)]
  /\ fromPlugin \in [Node -> Blocks(PipeCap)]
  /\ sndbuf \in [Node -> Blocks(SendCap)]
  /\ rcvbuf \in [Node -> Blocks(RecvCap)]
  /\ accepted \in [Node -> Seq(Byte)]
  /\ delivered \in [Node -> Seq(Byte)]
-----------------------------------------------------------------------------
(* The bytes on their way from n to its peer, oldest first.  A thread's    *)
(* buffer belongs to the direction that the thread is serving.             *)
Held(pc, here, buf) == IF pc = here THEN buf ELSE <<>>

Transit(n) ==
  LET m == Peer(n)
  IN  Held(mpc[m], "writeTun", mbuf[m])  \o fromPlugin[m] \o
      Held(ppc[m], "writePipe", pbuf[m]) \o rcvbuf[m] \o sndbuf[n] \o
      Held(ppc[n], "send", pbuf[n])      \o toPlugin[n] \o
      Held(mpc[n], "writePipe", mbuf[n])

(* The stream read from one TUN is the stream written to the other plus    *)
(* what is in transit, in that order: through two pipes, four buffers and  *)
(* two socket buffers no byte is lost, repeated, reordered or sent back.   *)
StreamIntegrity == \A n \in Node : accepted[n] = delivered[Peer(n)] \o Transit(n)

\* What a thread can be waiting for.
MainIdle(n)     == mpc[n] = "select" /\ tunq[n] = <<>> /\ fromPlugin[n] = <<>>
MainBlocked(n)  == mpc[n] = "writePipe" /\ ~Fits(toPlugin[n], mbuf[n])
PluginIdle(n)   == ppc[n] = "select" /\ rcvbuf[n] = <<>> /\ toPlugin[n] = <<>>
WaitsForMain(n) == ppc[n] = "writePipe" /\ ~Fits(fromPlugin[n], pbuf[n])
WaitsForPeer(n) == ppc[n] = "send" /\ Len(sndbuf[n]) = SendCap
NetIdle(n)      == sndbuf[n] = <<>> \/ Len(rcvbuf[Peer(n)]) = RecvCap

(* The two plugins are never stuck in send() against each other, each      *)
(* waiting for the other to receive.  It holds although both sockets are   *)
(* blocking and there is no flow control of its own: select() serves the   *)
(* socket before the pipe, so a plugin that starts to send has just seen   *)
(* its receive buffer empty, and the peer's block fits in there.           *)
NoSendSendDeadlock ==
  ~ \A n \in Node : WaitsForPeer(n) /\ Len(rcvbuf[Peer(n)]) = RecvCap

(* The two threads of one host, each stuck writing to the pipe that only   *)
(* the other one reads.                                                    *)
LocalCycle(n) == MainBlocked(n) /\ WaitsForMain(n)

(* Nothing in the program breaks that cycle: no timeout, no signal, no     *)
(* second reader.  A host that is in it stays in it, and its tunnel is     *)
(* dead in both directions, whatever the peer and the network do.          *)
CyclePermanent == [][\A n \in Node : LocalCycle(n) => LocalCycle(n)']_vars

(* When neither a thread nor the network has anything more it can do,      *)
(* connection set-up and the arrival of new frames aside.                  *)
Halted ==
  /\ ppc[Server] # "accept" /\ mpc[Client] # "connect"
  /\ \A n \in Node : /\ MainIdle(n) \/ MainBlocked(n)
                     /\ PluginIdle(n) \/ WaitsForMain(n) \/ WaitsForPeer(n)
                     /\ NetIdle(n)

(* The local cycle is the one way to get stuck: a tunnel that has come to  *)
(* rest without it has delivered everything it accepted, both ways.        *)
HaltedIsDelivered ==
  Halted => \/ \E n \in Node : LocalCycle(n)
            \/ \A n \in Node : delivered[Peer(n)] = accepted[n]

(* How many steps are left to take, at most: a turn of a loop is counted   *)
(* where the loop stands, the turns that a byte can still cause where the  *)
(* byte is, and those of a whole block for every frame not yet read.       *)
StepsLeft(pc) == IF pc \in {"readTun", "readPipe", "recv"} THEN 0
                 ELSE IF pc = "select" THEN 1 ELSE 2

WorkAt(n) ==
  StepsLeft(mpc[n]) + StepsLeft(ppc[n])
    + (11 * (BlockSize - 1) + 3) * Len(tunq[n])
    + 11 * (Len(Held(mpc[n], "writePipe", mbuf[n])) + Len(toPlugin[n]))
    + 8 * Len(Held(ppc[n], "send", pbuf[n])) + 7 * Len(sndbuf[n]) + 6 * Len(rcvbuf[n])
    + 3 * (Len(Held(ppc[n], "writePipe", pbuf[n])) + Len(fromPlugin[n]))

Work == WorkAt(Client) + WorkAt(Server)

(* No thread turns in circles, alone or with the others: what is not the   *)
(* arrival of a frame leaves less to do.  Every wake-up of a select() has  *)
(* bytes to move, every read takes some, and no byte goes back.            *)
NoLivelock == [][(\E n \in Node : nframes'[n] > nframes[n]) \/ Work' < Work]_vars

(* TcpTunnel implements the byte streams of ByteStream.                    *)
Inputs == UNION {{Chunk(Frame(n, k, len), BlockSize - 1) :
                    k \in 1..MaxFrames[n], len \in FrameLens} : n \in Node}
Stream == INSTANCE ByteStream WITH Node <- Node, Peer <- Peer, Inputs <- Inputs,
                                   accepted <- accepted, delivered <- delivered
ImplementsStreams == Stream!Spec

Connected == mpc[Client] # "connect"

(* Where only one host transmits (its peer has nothing to answer with)     *)
(* every byte that it accepts is delivered, without exception: the cycle   *)
(* takes traffic from both.                                                *)
OneWayDelivered == \A n \in Node :
  [](nframes[Peer(n)] = 0) =>
    ((Connected /\ accepted[n] # delivered[Peer(n)]) ~> (accepted[n] = delivered[Peer(n)]))

(* With traffic both ways the same holds unless a host falls into the      *)
(* local cycle.                                                            *)
DeliveredOrCycle == \A n \in Node :
  (Connected /\ accepted[n] # delivered[Peer(n)])
     ~> (accepted[n] = delivered[Peer(n)] \/ \E m \in Node : LocalCycle(m))

(* tcp_plugin.c promises in both loops that what was read from the socket  *)
(* is "then" written to the pipe.  Nothing guarantees it: in the local     *)
(* cycle the write never returns.                                          *)
ReadThenWritten == \A n \in Node : (ppc[n] = "writePipe") ~> (ppc[n] # "writePipe")

(* MainLoop takes what it reads from the pipe for one message and hands it *)
(* to the device with one write, which makes it one frame.  It would have  *)
(* to be a frame the peer's host transmitted, whole.  The pipe and TCP     *)
(* keep no boundaries and BLOCK_SIZE-1 bytes may not hold a frame, so      *)
(* frames come out joined, split or cut short.                             *)
WholeFrames == \A n \in Node :
  mpc[n] = "writeTun" =>
    \E k \in 1..MaxFrames[Peer(n)], len \in FrameLens : mbuf[n] = Frame(Peer(n), k, len)
=============================================================================
