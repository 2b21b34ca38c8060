----------------------------- MODULE TcpSession -----------------------------
(***************************************************************************)
(* What becomes of a TCP tunnel when programs end and are started again.   *)
(*                                                                         *)
(* TcpTunnel is one connection that stays up, byte by byte.  Here a block  *)
(* (what one read returned) is the unit and only its place matters, but    *)
(* either program may exit at any time and be started again.  The code has *)
(* three rules that decide what happens then:                              *)
(*   - the server calls accept() once, before its loop (tcp_startServer),  *)
(*     while listen() lets further clients connect to the kernel's queue;  *)
(*   - recv() returning 0 or -1 is only logged: the loop selects again,    *)
(*     the dead socket is readable again, and the else branch that would   *)
(*     serve the pipe is never reached;                                    *)
(*   - SIGPIPE is not caught: send() on a connection that was reset ends   *)
(*     the program.                                                        *)
(* The end of a program and what its peer knows of it are two things: the  *)
(* FIN or the reset takes its time, and a host that fails sends neither.   *)
(* Until it is told, the peer's plugin goes on serving its pipe.           *)
(* The k-th run of the client has connection k.                            *)
(***************************************************************************)
EXTENDS Integers, Sequences

CONSTANTS
  Client, Server,
  PipeCap,    (* blocks a pipe holds                                       *)
  SockCap,    (* blocks the socket buffers of one direction hold           *)
  Backlog,    (* the backlog of listen(): 1; the queue holds one more      *)
  MaxRuns     (* bound: how often each program is started                  *)

ASSUME SessionAssumption ==
  /\ Client # Server
  /\ PipeCap \in Nat \ {0} /\ SockCap \in Nat \ {0}
  /\ Backlog \in Nat /\ MaxRuns \in Nat

Node == {Client, Server}
Peer(n) == IF n = Client THEN Server ELSE Client
Connections == 1..MaxRuns

VARIABLES
  run,        (* how often each program has been started                   *)
  madeTo,     (* the server run each connection was made to                *)
  queue,      (* connections the server's kernel holds for accept()        *)
  served,     (* the connection accept() returned; 0 before                *)
  told,       (* told[n]: n's kernel knows that the other end is closed    *)
  mpc, ppc,   (* where each main and each plugin thread is                 *)
  toPlugin,   (* blocks in pipe_to_plugin                                  *)
  fromPlugin, (* blocks in pipe_from_plugin                                *)
  wire        (* wire[c][n]: blocks n sent on c that nobody has received   *)

procVars == <<mpc, ppc, toPlugin, fromPlugin>>
connVars == <<madeTo, queue, served, told>>
vars == <<run, connVars, procVars, wire>>

Running(n) == mpc[n] # "down"

\* The process that runs at n holds n's end of connection c.
Holds(n, c) == Running(n) /\ c = IF n = Client THEN run[Client] ELSE served
Queued(c)   == \E i \in DOMAIN queue : queue[i] = c

\* n's end of c is open: its process has it or, for a connection that was
\* not accepted yet, the server's kernel.
Open(n, c) == Holds(n, c) \/ (n = Server /\ Queued(c))

\* The connection of the plugin at n, socketRemote or socketConnected.
Conn(n) == IF n = Client THEN run[Client] ELSE served
PeerOpen(n) == Open(Peer(n), Conn(n))

InSession(n) == Running(n) /\ ppc[n] # "accept"
Arrived(n)   == wire[Conn(n)][Peer(n)]
Readable(n)  == Arrived(n) > 0 \/ told[n]

Init ==
  /\ run = [n \in Node |-> 0]
  /\ madeTo = [c \in Connections |-> 0]
  /\ queue = <<>>
  /\ served = 0
  /\ told = [n \in Node |-> FALSE]
  /\ mpc = [n \in Node |-> "down"]
  /\ ppc = [n \in Node |-> "down"]
  /\ toPlugin = [n \in Node |-> 0]
  /\ fromPlugin = [n \in Node |-> 0]
  /\ wire = [c \in Connections |-> [n \in Node |-> 0]]
-----------------------------------------------------------------------------
(* Programs start and end.                                                 *)

ServerStart ==
  /\ ~Running(Server)
  /\ run[Server] < MaxRuns
  /\ run' = [run EXCEPT ![Server] = @ + 1]
  /\ mpc' = [mpc EXCEPT ![Server] = "select"]
  /\ ppc' = [ppc EXCEPT ![Server] = "accept"]
  /\ UNCHANGED <<connVars, toPlugin, fromPlugin, wire>>

\* Mutant: connect() is called twice, for an attempt taken to have failed.
ClientStartTwice ==
  /\ ~Running(Client)
  /\ run[Client] < MaxRuns
  /\ Running(Server) /\ Len(queue) < Backlog
  /\ run' = [run EXCEPT ![Client] = @ + 1]
  /\ madeTo' = [madeTo EXCEPT ![run'[Client]] = run[Server]]
  /\ queue' = queue \o <<run'[Client], run'[Client]>>
  /\ mpc' = [mpc EXCEPT ![Client] = "select"]
  /\ ppc' = [ppc EXCEPT ![Client] = "select"]
  /\ UNCHANGED <<served, told, toPlugin, fromPlugin, wire>>

\* connect() succeeds as soon as the server's kernel has a place in the
\* queue.  (When it fails the program exits: nothing changes.)
ClientStart ==
  /\ ~Running(Client)
  /\ run[Client] < MaxRuns
  /\ Running(Server) /\ Len(queue) <= Backlog
  /\ run' = [run EXCEPT ![Client] = @ + 1]
  /\ madeTo' = [madeTo EXCEPT ![run'[Client]] = run[Server]]
  /\ queue' = Append(queue, run'[Client])
  /\ mpc' = [mpc EXCEPT ![Client] = "select"]
  /\ ppc' = [ppc EXCEPT ![Client] = "select"]
  /\ UNCHANGED <<served, told, toPlugin, fromPlugin, wire>>

\* The kernel closes what the process had open.  Of what it had sent, the
\* first blocks still arrive: all of them, fewer when the connection is
\* reset (blocks were left unread, or the peer sends more) or the host
\* fails.  What the peer sent stays under way until the peer is told.
Exit(n) ==
  /\ mpc' = [mpc EXCEPT ![n] = "down"]
  /\ ppc' = [ppc EXCEPT ![n] = "down"]
  /\ toPlugin' = [toPlugin EXCEPT ![n] = 0]
  /\ fromPlugin' = [fromPlugin EXCEPT ![n] = 0]
  /\ queue' = IF n = Server THEN <<>> ELSE queue
  /\ served' = IF n = Server THEN 0 ELSE served
  /\ told' = [told EXCEPT ![n] = FALSE]
  /\ \E left \in 0..SockCap :
       wire' = [c \in Connections |->
                  IF ~Open(n, c) THEN wire[c]
                  ELSE IF ~Open(Peer(n), c) THEN [m \in Node |-> 0]
                  ELSE [m \in Node |-> IF m = n /\ left < wire[c][n] THEN left ELSE wire[c][m]]]
  /\ UNCHANGED <<run, madeTo>>

Crash(n) == Running(n) /\ Exit(n)

\* The FIN, a reset, or the end of the kernel's retransmissions.  From now
\* on the socket is readable for ever, and what n sends is lost.
EndArrives(n) ==
  /\ InSession(n) /\ ~PeerOpen(n) /\ ~told[n]
  /\ told' = [told EXCEPT ![n] = TRUE]
  /\ wire' = [wire EXCEPT ![Conn(n)][n] = 0]
  /\ UNCHANGED <<run, madeTo, queue, served, procVars>>
-----------------------------------------------------------------------------
(* The loops of main: TUN to pipe, pipe to TUN.                            *)

MainReadTun(n) ==
  /\ mpc[n] = "select"
  /\ mpc' = [mpc EXCEPT ![n] = "write"]
  /\ UNCHANGED <<run, connVars, ppc, toPlugin, fromPlugin, wire>>

MainWritePipe(n) ==
  /\ mpc[n] = "write" /\ toPlugin[n] < PipeCap
  /\ toPlugin' = [toPlugin EXCEPT ![n] = @ + 1]
  /\ mpc' = [mpc EXCEPT ![n] = "select"]
  /\ UNCHANGED <<run, connVars, ppc, fromPlugin, wire>>

MainDeliver(n) ==
  /\ mpc[n] = "select" /\ fromPlugin[n] > 0
  /\ fromPlugin' = [fromPlugin EXCEPT ![n] = @ - 1]
  /\ UNCHANGED <<run, connVars, mpc, ppc, toPlugin, wire>>
-----------------------------------------------------------------------------
(* The plugin's thread.  A recv() that returns 0 (the socket is readable   *)
(* and nothing has arrived) leaves everything as it is.  select() and the  *)
(* recv() after it are one step: only this thread takes what has arrived,  *)
(* and the end, once known, stays.  Between select() and the read() of the *)
(* pipe, however, blocks and the end of the connection may arrive.         *)

\* Mutant: the outer loop accepts again when the connection has ended.
AcceptAgain ==
  /\ queue # <<>>
  /\ ppc[Server] = "accept" \/ (ppc[Server] = "select" /\ told[Server])
  /\ served' = Head(queue)
  /\ queue' = Tail(queue)
  /\ ppc' = [ppc EXCEPT ![Server] = "select"]
  /\ UNCHANGED <<run, madeTo, told, mpc, toPlugin, fromPlugin, wire>>

\* Mutant: accept() waits until the pipe has been drained.
AcceptWhenDrained ==
  /\ queue # <<>> /\ toPlugin[Server] = 0 /\ mpc[Server] # "write"
  /\ ppc[Server] = "accept"
  /\ served' = Head(queue)
  /\ queue' = Tail(queue)
  /\ ppc' = [ppc EXCEPT ![Server] = "select"]
  /\ UNCHANGED <<run, madeTo, told, mpc, toPlugin, fromPlugin, wire>>

\* Mutant: accept() is called in a loop, and the last client replaces the others.
AcceptAll ==
  /\ queue # <<>>
  /\ ppc[Server] = "accept"
  /\ served' = Head(queue)
  /\ queue' = Tail(queue)
  /\ UNCHANGED <<run, madeTo, told, procVars, wire>>

Accept ==
  /\ queue # <<>>
  /\ ppc[Server] = "accept"
  /\ served' = Head(queue)
  /\ queue' = Tail(queue)
  /\ ppc' = [ppc EXCEPT ![Server] = "select"]
  /\ UNCHANGED <<run, madeTo, told, mpc, toPlugin, fromPlugin, wire>>

PluginRecv(n) ==
  /\ ppc[n] = "select" /\ Arrived(n) > 0
  /\ wire' = [wire EXCEPT ![Conn(n)][Peer(n)] = @ - 1]
  /\ ppc' = [ppc EXCEPT ![n] = "write"]
  /\ UNCHANGED <<run, connVars, mpc, toPlugin, fromPlugin>>

PluginWritePipe(n) ==
  /\ ppc[n] = "write" /\ fromPlugin[n] < PipeCap
  /\ fromPlugin' = [fromPlugin EXCEPT ![n] = @ + 1]
  /\ ppc' = [ppc EXCEPT ![n] = "select"]
  /\ UNCHANGED <<run, connVars, mpc, toPlugin, wire>>

\* Mutant: the pipe is served even when the socket is readable.
PluginSelectPipeToo(n) ==
  /\ ppc[n] = "select" /\ toPlugin[n] > 0
  /\ ppc' = [ppc EXCEPT ![n] = "readPipe"]
  /\ UNCHANGED <<run, connVars, mpc, toPlugin, fromPlugin, wire>>

PluginSelectPipe(n) ==
  /\ ppc[n] = "select" /\ ~Readable(n) /\ toPlugin[n] > 0
  /\ ppc' = [ppc EXCEPT ![n] = "readPipe"]
  /\ UNCHANGED <<run, connVars, mpc, toPlugin, fromPlugin, wire>>

PluginReadPipe(n) ==
  /\ ppc[n] = "readPipe" /\ toPlugin[n] > 0
  /\ toPlugin' = [toPlugin EXCEPT ![n] = @ - 1]
  /\ ppc' = [ppc EXCEPT ![n] = "send"]
  /\ UNCHANGED <<run, connVars, mpc, fromPlugin, wire>>

\* As long as n is not told, its kernel takes blocks for a peer that is gone.
PluginSend(n) ==
  /\ ppc[n] = "send" /\ ~told[n] /\ wire[Conn(n)][n] < SockCap
  /\ wire' = [wire EXCEPT ![Conn(n)][n] = @ + 1]
  /\ ppc' = [ppc EXCEPT ![n] = "select"]
  /\ UNCHANGED <<run, connVars, mpc, toPlugin, fromPlugin>>

\* The block is lost, whether send() takes it (after a FIN) or returns -1,
\* which is logged.
PluginSendLost(n) ==
  /\ ppc[n] = "send" /\ told[n]
  /\ ppc' = [ppc EXCEPT ![n] = "select"]
  /\ UNCHANGED <<run, connVars, mpc, toPlugin, fromPlugin, wire>>

\* ... or the connection was reset, and send() raises SIGPIPE.
PluginSigPipe(n) == ppc[n] = "send" /\ told[n] /\ Exit(n)
-----------------------------------------------------------------------------
MainStep(n)   == MainReadTun(n) \/ MainWritePipe(n) \/ MainDeliver(n)
PluginStep(n) == \/ PluginRecv(n) \/ PluginWritePipe(n)
                 \/ PluginSelectPipe(n) \/ PluginReadPipe(n)
                 \/ PluginSend(n) \/ PluginSendLost(n) \/ PluginSigPipe(n)

Next == \/ ServerStart \/ ClientStart \/ Accept
        \/ \E n \in Node : Crash(n) \/ EndArrives(n) \/ MainStep(n) \/ PluginStep(n)

Spec == Init /\ [][Next]_vars

\* Threads are scheduled, and the hosts keep transmitting (MainReadTun).
\* Nothing obliges a program to be started or to end, nor the end of one
\* to become known to its peer.
BusyFairness ==
  /\ WF_vars(Accept)
  /\ \A n \in Node : /\ WF_vars(MainReadTun(n)) /\ WF_vars(MainWritePipe(n))
                     /\ WF_vars(PluginStep(n))

BusySpec == Spec /\ BusyFairness
-----------------------------------------------------------------------------
MainPcs   == {"down", "select", "write"}
PluginPcs == {"down", "accept", "select", "write", "readPipe", "send"}

(* The type of every variable, the capacities, and which thread states go  *)
(* together: both threads of a host run or neither does, the server's      *)
(* plugin waits in accept() exactly while no connection is served, and a   *)
(* read() of the pipe that select() has announced does not block.          *)
TypeOK ==
  /\ run \in [Node -> 0..MaxRuns]
  /\ madeTo \in [Connections -> 0..MaxRuns]
  /\ queue \in Seq(Connections) /\ Len(queue) <= Backlog + 1
  /\ served \in 0..MaxRuns
  /\ mpc \in [Node -> MainPcs]
  /\ ppc \in [Node -> PluginPcs]
  /\ \A n \in Node : mpc[n] = "down" <=> ppc[n] = "down"
  /\ ppc[Client] # "accept"
  /\ ppc[Server] \in {"down", "accept"} <=> served = 0
  /\ told \in [Node -> BOOLEAN]
  /\ \A n \in Node : ppc[n] = "readPipe" => toPlugin[n] > 0
  /\ toPlugin \in [Node -> 0..PipeCap]
  /\ fromPlugin \in [Node -> 0..PipeCap]
  /\ wire \in [Connections -> [Node -> 0..SockCap]]

(* The one connection that a run of the server will ever serve.            *)
Chosen == IF served # 0 THEN served ELSE IF queue # <<>> THEN Head(queue) ELSE 0

(* The kernel's queue and the program agree.  Whatever has been started,   *)
(* killed and started again: the queue holds connections of the present    *)
(* run of the server only, oldest first and all later than the one being   *)
(* served; only the last can still have its client; and the server has     *)
(* sent nothing on a connection that it does not serve.                    *)
QueueInOrder ==
  /\ \A i \in DOMAIN queue : madeTo[queue[i]] = run[Server] /\ queue[i] <= run[Client]
  /\ \A i, j \in DOMAIN queue : i < j => queue[i] < queue[j]
  /\ \A i \in DOMAIN queue : served < queue[i] /\ wire[queue[i]][Server] = 0
  /\ served # 0 => madeTo[served] = run[Server] /\ served <= run[Client]

\* The tunnel is whole, or will be once accept() returns.
Linked == Running(Client) /\ Running(Server) /\ Chosen = run[Client]

\* A program that runs, has its connection, and is not part of a tunnel.
Hopeless(n) == Running(n) /\ (n = Server => Chosen # 0) /\ ~Linked

(* A program that has lost its peer never gets another one: the client     *)
(* does not connect again, the server does not accept again, and a client  *)
(* that connects to a server which already has a connection (be its client *)
(* alive or dead) is not served, however long it waits.  Only ending the   *)
(* program and starting it again helps.                                    *)
HopelessForGood == [][\A n \in Node : Hopeless(n) => Hopeless(n)' \/ ~Running(n)']_vars

\* The connection that n sends on, or will once accept() has returned.
Line(n) == IF n = Client THEN run[Client] ELSE Chosen

(* The blocks that main can still read from the TUN device of n before it  *)
(* blocks for good: one in its hands, the rest of the pipe and what the    *)
(* plugin's thread still takes out of the pipe.  That is a block in its    *)
(* hands and what the socket holds, until it is told of the peer's end,    *)
(* and afterwards the one block that select() had announced before.        *)
Room(n) == (IF mpc[n] = "write" THEN 0 ELSE 1)
           + (PipeCap - toPlugin[n])
           + (IF told[n] THEN (IF ppc[n] = "readPipe" THEN 1 ELSE 0)
                         ELSE (IF ppc[n] = "send" THEN 0 ELSE 1) + (SockCap - wire[Line(n)][n]))

(* A program that has lost its peer swallows a bounded number of blocks.   *)
(* Whatever the others do, no room is ever made for another one, and each  *)
(* read of the TUN device takes some of what there is.                     *)
LosesOnlyItsRoom ==
  [][\A n \in Node : Hopeless(n) /\ Running(n)' =>
       /\ Room(n)' <= Room(n)
       /\ mpc[n] = "select" /\ mpc'[n] = "write" => Room(n)' < Room(n)]_vars

\* select() returns at once, recv() returns 0, and so on.
Spinning(n) == InSession(n) /\ ppc[n] = "select" /\ Arrived(n) = 0 /\ told[n]

(* Once the plugin's thread has read all that a closed connection had to   *)
(* give, it never leaves that loop, nor serves the pipe again, while its   *)
(* program runs.                                                           *)
SpinsForever ==
  [][\A n \in Node : Spinning(n) /\ Running(n)' =>
                       Spinning(n)' /\ toPlugin'[n] >= toPlugin[n]]_vars

(* A server that is running and has served nobody serves the first client  *)
(* that connects, unless one of the two ends.                              *)
FirstIsServed == Linked ~> (served = run[Client] \/ ~Linked)

\* main is stuck in a write to the pipe that nobody reads.
Jammed(n) == mpc[n] = "write" /\ toPlugin[n] = PipeCap

(* A program that has lost its peer ends or stops reading its TUN device   *)
(* for good: pipe (and socket) fill up and main blocks.  It is not told.   *)
HopelessJams == \A n \in Node : Hopeless(n) ~> ([]Jammed(n) \/ ~Running(n))
=============================================================================
