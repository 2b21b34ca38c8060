-------------------------- MODULE TcpSessionProofs --------------------------
(* Proofs about TcpSession, for every capacity, backlog and number of runs.*)
EXTENDS TcpSession, SequenceTheorems, TLAPS

-----------------------------------------------------------------------------
LEMMA PeerFacts ==
  ASSUME NEW n \in Node
  PROVE  Peer(n) \in Node /\ Peer(n) # n /\ \A m \in Node : m = n \/ m = Peer(n)
  BY SessionAssumption DEF Node, Peer

LEMMA Hosts == Client \in Node /\ Server \in Node /\ Client # Server
  BY SessionAssumption DEF Node

\* A thread of the plugin that is in its loop has a connection.
HasRun == \A n \in Node : Running(n) => run[n] >= 1

LEMMA ConnTyped ==
  ASSUME TypeOK, HasRun, NEW n \in Node, ppc[n] \in {"select", "write", "readPipe", "send"}
  PROVE  Conn(n) \in Connections
<1>1. CASE n = Client
  <2>1. Running(n) /\ run[n] \in 0..MaxRuns /\ run[n] >= 1
    BY DEF TypeOK, HasRun, Running
  <2> QED
    BY <1>1, <2>1, SessionAssumption DEF Conn, Connections
<1>2. CASE n = Server
  <2>1. served \in 0..MaxRuns /\ served # 0
    BY <1>2 DEF TypeOK
  <2> QED
    BY <1>2, <2>1, SessionAssumption DEF Conn, Connections
<1> QED
  BY <1>1, <1>2 DEF Node

-----------------------------------------------------------------------------
(* Types.                                                                  *)

LEMMA TypeInit == Init => TypeOK /\ HasRun
<1> SUFFICES ASSUME Init PROVE TypeOK /\ HasRun
  OBVIOUS
<1>1. <<>> \in Seq(Connections) /\ Len(<<>>) = 0
  OBVIOUS
<1> QED
  BY <1>1, Hosts, SessionAssumption DEF Init, TypeOK, HasRun, Running, MainPcs, PluginPcs, Connections

LEMMA TypeServerStart == TypeOK /\ HasRun /\ ServerStart => (TypeOK /\ HasRun)'
<1> SUFFICES ASSUME TypeOK, HasRun, ServerStart PROVE (TypeOK /\ HasRun)'
  OBVIOUS
<1>1. run' \in [Node -> 0..MaxRuns] /\ HasRun'
  <2>1. run[Server] \in Nat /\ run[Server] + 1 \in 0..MaxRuns
    BY Hosts, SessionAssumption DEF ServerStart, TypeOK
  <2>2. run' = [run EXCEPT ![Server] = run[Server] + 1]
    BY DEF ServerStart
  <2>3. run' \in [Node -> 0..MaxRuns] /\ run'[Server] >= 1
    BY <2>1, <2>2, Hosts DEF TypeOK
  <2>4. ASSUME NEW n \in Node, Running(n)' PROVE run'[n] >= 1
    <3>1. CASE n = Server
      BY <3>1, <2>3
    <3>2. CASE n # Server
      BY <3>2, <2>2, <2>4 DEF TypeOK, HasRun, Running, ServerStart
    <3> QED
      BY <3>1, <3>2
  <2> QED
    BY <2>3, <2>4 DEF HasRun
<1> QED
  BY <1>1, Hosts DEF ServerStart, TypeOK, Running, connVars, MainPcs, PluginPcs

LEMMA TypeClientStart == TypeOK /\ HasRun /\ ClientStart => (TypeOK /\ HasRun)'
<1> SUFFICES ASSUME TypeOK, HasRun, ClientStart PROVE (TypeOK /\ HasRun)'
  OBVIOUS
<1>1. run[Client] \in Nat /\ run[Client] + 1 \in Connections /\ run[Client] + 1 \in 0..MaxRuns
  <2>1. run[Client] \in 0..MaxRuns
    BY Hosts DEF TypeOK
  <2>2. run[Client] < MaxRuns
    BY DEF ClientStart
  <2> QED
    BY <2>1, <2>2, SessionAssumption DEF Connections
<1>2. run' = [run EXCEPT ![Client] = run[Client] + 1] /\ run'[Client] = run[Client] + 1
  BY Hosts DEF ClientStart, TypeOK
<1>3. run' \in [Node -> 0..MaxRuns] /\ run'[Client] >= 1
  BY <1>1, <1>2, Hosts DEF TypeOK
<1>4. ASSUME NEW n \in Node, Running(n)' PROVE run'[n] >= 1
  <2>1. CASE n = Client
    BY <2>1, <1>3
  <2>2. CASE n # Client
    BY <2>2, <1>2, <1>4 DEF TypeOK, HasRun, Running, ClientStart
  <2> QED
    BY <2>1, <2>2
<1>5. madeTo' \in [Connections -> 0..MaxRuns]
  BY <1>1, <1>2, Hosts DEF ClientStart, TypeOK
<1>6. queue' \in Seq(Connections) /\ Len(queue') <= Backlog + 1
  <2>1. queue' = Append(queue, run[Client] + 1)
    BY <1>2 DEF ClientStart
  <2>2. queue' \in Seq(Connections) /\ Len(queue') = Len(queue) + 1 /\ Len(queue) \in Nat
    BY <2>1, <1>1 DEF TypeOK
  <2>3. Len(queue) <= Backlog
    BY DEF ClientStart
  <2> QED
    BY <2>2, <2>3, SessionAssumption
<1> QED
  BY <1>3, <1>4, <1>5, <1>6, Hosts
  DEF ClientStart, TypeOK, HasRun, Running, MainPcs, PluginPcs

\* What an exit does to the blocks on their way.
LEMMA ExitWire ==
  ASSUME NEW n \in Node, TypeOK, Exit(n), NEW c \in Connections
  PROVE  /\ wire'[c] \in [Node -> 0..SockCap]
         /\ wire[c][Server] = 0 => wire'[c][Server] = 0
         /\ ~Open(n, c) => wire'[c] = wire[c]
         /\ Open(Peer(n), c) => wire'[c][Peer(n)] = wire[c][Peer(n)]
<1>1. PICK left \in 0..SockCap :
        wire' = [d \in Connections |->
                  IF ~Open(n, d) THEN wire[d]
                  ELSE IF ~Open(Peer(n), d) THEN [m \in Node |-> 0]
                  ELSE [m \in Node |-> IF m = n /\ left < wire[d][n] THEN left ELSE wire[d][m]]]
  BY DEF Exit
<1>2. wire[c] \in [Node -> 0..SockCap] /\ SockCap \in Nat /\ Peer(n) \in Node /\ Peer(n) # n
  BY PeerFacts, SessionAssumption DEF TypeOK
<1>3. CASE ~Open(n, c)
  BY <1>1, <1>2, <1>3
<1>4. CASE Open(n, c) /\ ~Open(Peer(n), c)
  <2>1. wire'[c] = [m \in Node |-> 0]
    BY <1>1, <1>4
  <2> QED
    BY <2>1, <1>2, <1>4, Hosts
<1>5. CASE Open(n, c) /\ Open(Peer(n), c)
  <2>1. wire'[c] = [m \in Node |-> IF m = n /\ left < wire[c][n] THEN left ELSE wire[c][m]]
    BY <1>1, <1>5
  <2>2. \A m \in Node : wire[c][m] \in 0..SockCap
    BY <1>2
  <2>3. wire[c][Server] = 0 => wire'[c][Server] = 0
    BY <2>1, <2>2, Hosts
  <2>4. wire'[c] \in [Node -> 0..SockCap]
    BY <2>1, <2>2
  <2>5. wire'[c][Peer(n)] = wire[c][Peer(n)]
    BY <2>1, <1>2
  <2> QED
    BY <2>3, <2>4, <2>5, <1>5
<1> QED
  BY <1>3, <1>4, <1>5

LEMMA TypeExit == \A n \in Node : TypeOK /\ HasRun /\ Exit(n) => (TypeOK /\ HasRun)'
<1> SUFFICES ASSUME NEW n \in Node, TypeOK, HasRun, Exit(n) PROVE (TypeOK /\ HasRun)'
  OBVIOUS
<1>1. wire' \in [Connections -> [Node -> 0..SockCap]]
  <2>1. \A c \in Connections : wire'[c] \in [Node -> 0..SockCap]
    BY ExitWire
  <2>2. \E f : wire' = [c \in Connections |-> f[c]]
    <3>1. PICK left \in 0..SockCap :
            wire' = [d \in Connections |->
                      IF ~Open(n, d) THEN wire[d]
                      ELSE IF ~Open(Peer(n), d) THEN [m \in Node |-> 0]
                      ELSE [m \in Node |-> IF m = n /\ left < wire[d][n] THEN left ELSE wire[d][m]]]
      BY DEF Exit
    <3>2. wire' = [c \in Connections |-> wire'[c]]
      BY <3>1
    <3> QED
      BY <3>2
  <2> QED
    BY <2>1, <2>2
<1>2. queue' \in Seq(Connections) /\ Len(queue') <= Backlog + 1
  <2>1. <<>> \in Seq(Connections) /\ Len(<<>>) = 0
    OBVIOUS
  <2> QED
    BY <2>1, SessionAssumption DEF Exit, TypeOK
<1>3. served' \in 0..MaxRuns
  BY SessionAssumption DEF Exit, TypeOK
<1>4. toPlugin' \in [Node -> 0..PipeCap] /\ fromPlugin' \in [Node -> 0..PipeCap]
  BY SessionAssumption DEF Exit, TypeOK
<1>5. HasRun'
  BY DEF HasRun, Running, Exit, TypeOK
<1> QED
  BY <1>1, <1>2, <1>3, <1>4, <1>5, Hosts DEF Exit, TypeOK, MainPcs, PluginPcs

LEMMA TypeMain == \A n \in Node : TypeOK /\ HasRun /\ MainStep(n) => (TypeOK /\ HasRun)'
<1> SUFFICES ASSUME NEW n \in Node, TypeOK, HasRun, MainStep(n) PROVE (TypeOK /\ HasRun)'
  OBVIOUS
<1>1. toPlugin[n] \in 0..PipeCap /\ fromPlugin[n] \in 0..PipeCap
  BY DEF TypeOK
<1>2. CASE MainReadTun(n)
  BY <1>2, Hosts DEF MainReadTun, TypeOK, HasRun, Running, MainPcs, connVars
<1>3. CASE MainWritePipe(n)
  <2>1. toPlugin' \in [Node -> 0..PipeCap]
    BY <1>3, <1>1, SessionAssumption DEF MainWritePipe, TypeOK
  <2> QED
    BY <1>3, <2>1, Hosts DEF MainWritePipe, TypeOK, HasRun, Running, MainPcs, connVars
<1>4. CASE MainDeliver(n)
  <2>1. fromPlugin' \in [Node -> 0..PipeCap]
    BY <1>4, <1>1, SessionAssumption DEF MainDeliver, TypeOK
  <2> QED
    BY <1>4, <2>1, Hosts DEF MainDeliver, TypeOK, HasRun, Running, MainPcs, connVars
<1> QED
  BY <1>2, <1>3, <1>4 DEF MainStep

LEMMA TypeAccept == TypeOK /\ HasRun /\ Accept => (TypeOK /\ HasRun)'
<1> SUFFICES ASSUME TypeOK, HasRun, Accept PROVE (TypeOK /\ HasRun)'
  OBVIOUS
<1>1. queue \in Seq(Connections) /\ queue # <<>> /\ Len(queue) \in Nat
  BY DEF Accept, TypeOK
<1>2. /\ Head(queue) \in Connections /\ Tail(queue) \in Seq(Connections)
      /\ Len(Tail(queue)) = Len(queue) - 1
  BY <1>1
<1>3. served' \in 0..MaxRuns /\ served' # 0
  BY <1>2, SessionAssumption DEF Accept, Connections
<1>4. Len(queue') <= Backlog + 1 /\ queue' \in Seq(Connections)
  BY <1>1, <1>2, SessionAssumption DEF Accept, TypeOK
<1> QED
  BY <1>3, <1>4, Hosts DEF Accept, TypeOK, HasRun, Running, PluginPcs

LEMMA TypePlugin ==
  \A n \in Node : TypeOK /\ HasRun /\ PluginStep(n) => (TypeOK /\ HasRun)'
<1> SUFFICES ASSUME NEW n \in Node, TypeOK, HasRun, PluginStep(n) PROVE (TypeOK /\ HasRun)'
  OBVIOUS
<1>1. toPlugin[n] \in 0..PipeCap /\ fromPlugin[n] \in 0..PipeCap
  BY DEF TypeOK
<1>2. CASE PluginRecv(n)
  <2>1. Conn(n) \in Connections /\ Peer(n) \in Node
    BY <1>2, ConnTyped, PeerFacts DEF PluginRecv
  <2>2. wire[Conn(n)] \in [Node -> 0..SockCap] /\ wire[Conn(n)][Peer(n)] \in 0..SockCap
    BY <2>1 DEF TypeOK
  <2>3. wire[Conn(n)][Peer(n)] - 1 \in 0..SockCap
    BY <1>2, <2>2, SessionAssumption DEF PluginRecv, Arrived
  <2>4. wire' \in [Connections -> [Node -> 0..SockCap]]
    BY <1>2, <2>1, <2>2, <2>3 DEF PluginRecv, TypeOK
  <2> QED
    BY <1>2, <2>4, Hosts DEF PluginRecv, TypeOK, HasRun, Running, PluginPcs, connVars
<1>3. CASE PluginWritePipe(n)
  <2>1. fromPlugin' \in [Node -> 0..PipeCap]
    BY <1>3, <1>1, SessionAssumption DEF PluginWritePipe, TypeOK
  <2> QED
    BY <1>3, <2>1, Hosts DEF PluginWritePipe, TypeOK, HasRun, Running, PluginPcs, connVars
<1>8. CASE PluginSelectPipe(n)
  BY <1>8, Hosts DEF PluginSelectPipe, TypeOK, HasRun, Running, PluginPcs, connVars
<1>4. CASE PluginReadPipe(n)
  <2>1. toPlugin' \in [Node -> 0..PipeCap]
    BY <1>4, <1>1, SessionAssumption DEF PluginReadPipe, TypeOK
  <2> QED
    BY <1>4, <2>1, Hosts DEF PluginReadPipe, TypeOK, HasRun, Running, PluginPcs, connVars
<1>5. CASE PluginSend(n)
  <2>1. Conn(n) \in Connections
    BY <1>5, ConnTyped DEF PluginSend
  <2>2. wire[Conn(n)] \in [Node -> 0..SockCap] /\ wire[Conn(n)][n] \in 0..SockCap
    BY <2>1 DEF TypeOK
  <2>3. wire[Conn(n)][n] + 1 \in 0..SockCap
    BY <1>5, <2>2, SessionAssumption DEF PluginSend
  <2>4. wire' \in [Connections -> [Node -> 0..SockCap]]
    BY <1>5, <2>1, <2>2, <2>3 DEF PluginSend, TypeOK
  <2> QED
    BY <1>5, <2>4, Hosts DEF PluginSend, TypeOK, HasRun, Running, PluginPcs, connVars
<1>6. CASE PluginSendLost(n)
  BY <1>6, Hosts DEF PluginSendLost, TypeOK, HasRun, Running, PluginPcs, connVars
<1>7. CASE PluginSigPipe(n)
  BY <1>7, TypeExit DEF PluginSigPipe
<1> QED
  BY <1>2, <1>3, <1>4, <1>5, <1>6, <1>7, <1>8 DEF PluginStep

LEMMA TypeEnd == \A n \in Node : TypeOK /\ HasRun /\ EndArrives(n) => (TypeOK /\ HasRun)'
<1> SUFFICES ASSUME NEW n \in Node, TypeOK, HasRun, EndArrives(n) PROVE (TypeOK /\ HasRun)'
  OBVIOUS
<1>1. ppc[n] \in {"select", "write", "readPipe", "send"}
  BY DEF EndArrives, InSession, TypeOK, PluginPcs, Running
<1>2. wire[Conn(n)] \in [Node -> 0..SockCap] /\ Conn(n) \in Connections /\ 0 \in 0..SockCap
  BY <1>1, ConnTyped, SessionAssumption DEF TypeOK
<1>3. wire' \in [Connections -> [Node -> 0..SockCap]]
  BY <1>2 DEF EndArrives, TypeOK
<1> QED
  BY <1>3 DEF EndArrives, TypeOK, HasRun, Running, procVars

LEMMA TypeStep == TypeOK /\ HasRun /\ [Next]_vars => (TypeOK /\ HasRun)'
<1>1. TypeOK /\ HasRun /\ UNCHANGED vars => (TypeOK /\ HasRun)'
  BY DEF TypeOK, HasRun, Running, vars, connVars, procVars
<1> QED
  BY <1>1, TypeServerStart, TypeClientStart, TypeExit, TypeMain, TypeAccept, TypePlugin, TypeEnd
  DEF Next, Crash

(* The type invariant, for every number of runs and every capacity.        *)
THEOREM TypeCorrect == Spec => []TypeOK
  BY TypeInit, TypeStep, PTL DEF Spec
-----------------------------------------------------------------------------
(* The queue.  The invariant is strengthened by what holds of connections  *)
(* that do not exist yet and of a server that does not run.                *)

Fresh == \A c \in Connections : c > run[Client] => wire[c][Server] = 0
DownClean == ~Running(Server) => queue = <<>>
SessionInv == TypeOK /\ HasRun /\ QueueInOrder /\ Fresh /\ DownClean

LEMMA ServedTyped == ASSUME TypeOK PROVE served \in Nat /\ run[Client] \in Nat
  BY Hosts, SessionAssumption DEF TypeOK

LEMMA QueueTyped ==
  ASSUME TypeOK
  PROVE  /\ queue \in Seq(Connections) /\ Len(queue) \in Nat /\ DOMAIN queue = 1..Len(queue)
         /\ \A i \in DOMAIN queue : queue[i] \in Connections /\ queue[i] \in Nat
<1>1. queue \in Seq(Connections)
  BY DEF TypeOK
<1>2. Len(queue) \in Nat /\ DOMAIN queue = 1..Len(queue) /\ \A i \in 1..Len(queue) : queue[i] \in Connections
  BY <1>1
<1>3. \A c \in Connections : c \in Nat
  BY SessionAssumption DEF Connections
<1> QED
  BY <1>1, <1>2, <1>3

LEMMA SessionInit == Init => SessionInv
<1> SUFFICES ASSUME Init PROVE SessionInv
  OBVIOUS
<1>1. queue = <<>> /\ DOMAIN queue = {} /\ served = 0
  BY DEF Init
<1>2. \A c \in Connections : wire[c][Server] = 0
  BY Hosts DEF Init
<1> QED
  BY <1>1, <1>2, TypeInit DEF SessionInv, QueueInOrder, Fresh, DownClean

LEMMA SessionServerStart == SessionInv /\ ServerStart => (QueueInOrder /\ Fresh /\ DownClean)'
<1> SUFFICES ASSUME SessionInv, ServerStart PROVE (QueueInOrder /\ Fresh /\ DownClean)'
  OBVIOUS
<1>a. queue = <<>>
  BY DEF SessionInv, DownClean, ServerStart
<1>b. ppc[Server] = "down"
  BY Hosts DEF SessionInv, TypeOK, ServerStart, Running
<1>c. served = 0
  BY <1>b DEF SessionInv, TypeOK
<1>1. queue = <<>> /\ served = 0 /\ UNCHANGED <<queue, served, wire>>
  BY <1>a, <1>c DEF ServerStart, connVars
<1>2. run'[Client] = run[Client] /\ Running(Server)'
  BY Hosts DEF ServerStart, SessionInv, TypeOK, Running
<1>3. DOMAIN queue' = {}
  BY <1>1
<1> QED
  BY <1>1, <1>2, <1>3 DEF SessionInv, QueueInOrder, Fresh, DownClean

LEMMA SessionClientStart == SessionInv /\ ClientStart => (QueueInOrder /\ Fresh /\ DownClean)'
<1> SUFFICES ASSUME SessionInv, ClientStart PROVE (QueueInOrder /\ Fresh /\ DownClean)'
  OBVIOUS
<1> DEFINE new == run[Client] + 1
<1>t. TypeOK /\ run[Client] \in Nat
  BY ServedTyped DEF SessionInv
<1>n. new \in Connections /\ new \in Nat /\ new > run[Client]
  <2>1. run[Client] \in 0..MaxRuns
    BY <1>t, Hosts DEF TypeOK
  <2>2. run[Client] < MaxRuns
    BY DEF ClientStart
  <2> QED
    BY <2>1, <2>2, SessionAssumption DEF Connections
<1>1. run'[Client] = new /\ run'[Server] = run[Server]
  BY <1>t, Hosts DEF ClientStart, TypeOK
<1>2. /\ madeTo' = [madeTo EXCEPT ![new] = run[Server]] /\ queue' = Append(queue, new)
      /\ UNCHANGED <<served, wire>>
  BY <1>1 DEF ClientStart
<1> HIDE DEF new
<1>3. /\ DOMAIN queue' = 1..Len(queue)+1 /\ queue'[Len(queue)+1] = new
      /\ \A i \in DOMAIN queue : queue'[i] = queue[i]
  BY <1>t, <1>2, <1>n, QueueTyped
<1>4. \A i \in DOMAIN queue' : i \in DOMAIN queue \/ i = Len(queue)+1
  BY <1>3, <1>t, QueueTyped
<1>5. madeTo'[new] = run[Server] /\ \A c \in Connections : c # new => madeTo'[c] = madeTo[c]
  BY <1>2, <1>n, <1>t DEF TypeOK
<1>6. ASSUME NEW i \in DOMAIN queue PROVE queue[i] < new /\ queue[i] \in Connections
  BY <1>n, <1>t, QueueTyped DEF SessionInv, QueueInOrder
<1>7. \A i \in DOMAIN queue' : madeTo'[queue'[i]] = run'[Server] /\ queue'[i] <= run'[Client]
  <2> SUFFICES ASSUME NEW i \in DOMAIN queue'
               PROVE  madeTo'[queue'[i]] = run'[Server] /\ queue'[i] <= run'[Client]
    OBVIOUS
  <2>1. CASE i \in DOMAIN queue
    <3>1. queue[i] \in Connections /\ queue[i] \in Nat /\ queue[i] < new /\ queue'[i] = queue[i]
      BY <2>1, <1>3, <1>6, <1>t, QueueTyped
    <3>2. queue[i] # new
      BY <3>1, <1>n
    <3>3. madeTo[queue[i]] = run[Server]
      BY <2>1 DEF SessionInv, QueueInOrder
    <3> QED
      BY <3>1, <3>2, <3>3, <1>1, <1>5, <1>n
  <2>2. CASE i = Len(queue)+1
    BY <2>2, <1>1, <1>3, <1>5, <1>n
  <2> QED
    BY <2>1, <2>2, <1>4
<1>8. \A i, j \in DOMAIN queue' : i < j => queue'[i] < queue'[j]
  <2> SUFFICES ASSUME NEW i \in DOMAIN queue', NEW j \in DOMAIN queue', i < j
               PROVE  queue'[i] < queue'[j]
    OBVIOUS
  <2>1. i \in DOMAIN queue
    BY <1>3, <1>t, QueueTyped
  <2>2. CASE j \in DOMAIN queue
    BY <2>1, <2>2, <1>3 DEF SessionInv, QueueInOrder
  <2>3. CASE j = Len(queue)+1
    BY <2>1, <2>3, <1>3, <1>6
  <2> QED
    BY <2>2, <2>3, <1>4
<1>9. \A i \in DOMAIN queue' : served' < queue'[i] /\ wire'[queue'[i]][Server] = 0
  <2> SUFFICES ASSUME NEW i \in DOMAIN queue'
               PROVE  served' < queue'[i] /\ wire'[queue'[i]][Server] = 0
    OBVIOUS
  <2>1. CASE i \in DOMAIN queue
    BY <2>1, <1>2, <1>3 DEF SessionInv, QueueInOrder
  <2>2. CASE i = Len(queue)+1
    <3>1. served < new
      <4>1. served \in Nat /\ (served # 0 => served <= run[Client])
        BY <1>t, ServedTyped DEF SessionInv, QueueInOrder
      <4> QED
        BY <4>1, <1>n, <1>t
    <3>2. wire[new][Server] = 0
      BY <1>n DEF SessionInv, Fresh
    <3> QED
      BY <3>1, <3>2, <2>2, <1>2, <1>3
  <2> QED
    BY <2>1, <2>2, <1>4
<1>10. served' # 0 => madeTo'[served'] = run'[Server] /\ served' <= run'[Client]
  <2> SUFFICES ASSUME served # 0
               PROVE  madeTo'[served] = run[Server] /\ served <= new
    BY <1>1, <1>2
  <2>1. served \in Connections /\ served \in Nat /\ served <= run[Client] /\ madeTo[served] = run[Server]
    BY <1>t, SessionAssumption DEF SessionInv, QueueInOrder, TypeOK, Connections
  <2>2. served < new
    BY <2>1, <1>n, <1>t
  <2> QED
    BY <2>1, <2>2, <1>5, <1>n
<1>11. Fresh'
  <2> SUFFICES ASSUME NEW c \in Connections, c > new PROVE wire[c][Server] = 0
    BY <1>1, <1>2 DEF Fresh
  <2>1. c \in Nat /\ c > run[Client]
    BY <1>n, <1>t, SessionAssumption DEF Connections
  <2> QED
    BY <2>1 DEF SessionInv, Fresh
<1>12. DownClean'
  <2>1. Running(Server)'
    BY <1>t, Hosts DEF ClientStart, Running, TypeOK
  <2> QED
    BY <2>1 DEF DownClean
<1> QED
  BY <1>7, <1>8, <1>9, <1>10, <1>11, <1>12 DEF QueueInOrder

LEMMA SessionExit ==
  \A n \in Node : SessionInv /\ Exit(n) => (QueueInOrder /\ Fresh /\ DownClean)'
<1> SUFFICES ASSUME NEW n \in Node, SessionInv, Exit(n)
             PROVE  (QueueInOrder /\ Fresh /\ DownClean)'
  OBVIOUS
<1>t. TypeOK
  BY DEF SessionInv
<1>1. UNCHANGED <<run, madeTo>>
  BY DEF Exit
<1>2. Fresh'
  <2> SUFFICES ASSUME NEW c \in Connections, c > run[Client] PROVE wire'[c][Server] = 0
    BY <1>1 DEF Fresh
  <2>1. wire[c][Server] = 0
    BY DEF SessionInv, Fresh
  <2> QED
    BY <2>1, <1>t, ExitWire
<1>3. CASE n = Server
  <2>1. queue' = <<>> /\ served' = 0
    BY <1>3 DEF Exit
  <2>2. DOMAIN queue' = {}
    BY <2>1
  <2> QED
    BY <2>1, <2>2, <1>2 DEF QueueInOrder, DownClean
<1>4. CASE n = Client
  <2>1. UNCHANGED <<queue, served>> /\ mpc'[Server] = mpc[Server]
    BY <1>4, <1>t, Hosts DEF Exit, TypeOK
  <2>2. ASSUME NEW i \in DOMAIN queue PROVE wire'[queue[i]][Server] = 0
    <3>1. queue[i] \in Connections /\ wire[queue[i]][Server] = 0
      BY <1>t, QueueTyped DEF SessionInv, QueueInOrder
    <3> QED
      BY <3>1, <1>t, ExitWire
  <2> QED
    BY <2>1, <2>2, <1>1, <1>2 DEF SessionInv, QueueInOrder, DownClean, Running
<1> QED
  BY <1>3, <1>4 DEF Node

LEMMA SessionAccept == SessionInv /\ Accept => (QueueInOrder /\ Fresh /\ DownClean)'
<1> SUFFICES ASSUME SessionInv, Accept PROVE (QueueInOrder /\ Fresh /\ DownClean)'
  OBVIOUS
<1>t. TypeOK
  BY DEF SessionInv
<1>1. /\ queue \in Seq(Connections) /\ queue # <<>> /\ queue' = Tail(queue) /\ served' = Head(queue)
      /\ UNCHANGED <<run, madeTo, wire>>
  BY <1>t DEF Accept, TypeOK
<1>2. /\ Len(queue) \in Nat \ {0} /\ DOMAIN queue = 1..Len(queue) /\ 1 \in DOMAIN queue
      /\ served' = queue[1] /\ DOMAIN queue' = 1..Len(queue)-1
      /\ \A i \in DOMAIN queue' : i+1 \in DOMAIN queue /\ queue'[i] = queue[i+1]
  BY <1>1
<1>3. \A i \in DOMAIN queue' : madeTo[queue'[i]] = run[Server] /\ queue'[i] <= run[Client]
                             /\ wire[queue'[i]][Server] = 0
  BY <1>2 DEF SessionInv, QueueInOrder
<1>4. \A i \in DOMAIN queue' : served' < queue'[i]
  <2> SUFFICES ASSUME NEW i \in DOMAIN queue' PROVE queue[1] < queue[i+1]
    BY <1>2
  <2>1. 1 \in DOMAIN queue /\ i+1 \in DOMAIN queue /\ 1 < i+1
    BY <1>2
  <2> QED
    BY <2>1 DEF SessionInv, QueueInOrder
<1>5. \A i, j \in DOMAIN queue' : i < j => queue'[i] < queue'[j]
  <2> SUFFICES ASSUME NEW i \in DOMAIN queue', NEW j \in DOMAIN queue', i < j
               PROVE  queue[i+1] < queue[j+1]
    BY <1>2
  <2>1. i+1 \in DOMAIN queue /\ j+1 \in DOMAIN queue /\ i+1 < j+1
    BY <1>2
  <2> QED
    BY <2>1 DEF SessionInv, QueueInOrder
<1>6. madeTo[served'] = run[Server] /\ served' <= run[Client]
  BY <1>2 DEF SessionInv, QueueInOrder
<1>7. DownClean'
  <2>1. Running(Server)'
    BY <1>t, Hosts DEF Accept, Running, TypeOK
  <2> QED
    BY <2>1 DEF DownClean
<1> QED
  BY <1>1, <1>3, <1>4, <1>5, <1>6, <1>7 DEF SessionInv, QueueInOrder, Fresh

LEMMA SessionMain ==
  \A n \in Node : SessionInv /\ MainStep(n) => (QueueInOrder /\ Fresh /\ DownClean)'
<1> SUFFICES ASSUME NEW n \in Node, SessionInv, MainStep(n)
             PROVE  (QueueInOrder /\ Fresh /\ DownClean)'
  OBVIOUS
<1>1. UNCHANGED <<run, madeTo, queue, served, wire>> /\ (Running(Server)' <=> Running(Server))
  BY Hosts DEF SessionInv, TypeOK, MainStep, MainReadTun, MainWritePipe, MainDeliver, connVars, Running
<1> QED
  BY <1>1 DEF SessionInv, QueueInOrder, Fresh, DownClean

LEMMA SessionPlugin ==
  \A n \in Node : SessionInv /\ PluginStep(n) => (QueueInOrder /\ Fresh /\ DownClean)'
<1> SUFFICES ASSUME NEW n \in Node, SessionInv, PluginStep(n)
             PROVE  (QueueInOrder /\ Fresh /\ DownClean)'
  OBVIOUS
<1>t. TypeOK /\ HasRun
  BY DEF SessionInv
<1>1. CASE PluginSigPipe(n)
  BY <1>1, SessionExit DEF PluginSigPipe
<1>2. CASE ~PluginSigPipe(n)
  <2>1. UNCHANGED <<run, madeTo, queue, served, mpc>>
    BY <1>2 DEF PluginStep, PluginRecv, PluginWritePipe, PluginSelectPipe, PluginReadPipe, PluginSend,
                PluginSendLost, connVars
  <2>2. ASSUME NEW c \in Connections,
               c > run[Client] \/ \E i \in DOMAIN queue : c = queue[i]
        PROVE  wire'[c][Server] = 0
    <3>1. wire[c][Server] = 0
      BY <2>2 DEF SessionInv, QueueInOrder, Fresh
    <3>2. c \in Nat /\ served \in Nat /\ run[Client] \in Nat
      BY <1>t, ServedTyped, SessionAssumption DEF Connections
    <3>3. c # served
      <4>1. CASE c > run[Client]
        BY <4>1, <3>2 DEF SessionInv, QueueInOrder
      <4>2. CASE \E i \in DOMAIN queue : c = queue[i]
        BY <4>2, <3>2 DEF SessionInv, QueueInOrder
      <4> QED
        BY <4>1, <4>2, <2>2
    <3>4. wire[c] \in [Node -> 0..SockCap]
      BY <1>t DEF TypeOK
    <3>5. CASE PluginRecv(n)
      <4>1. Conn(n) \in Connections /\ Peer(n) \in Node
        BY <3>5, <1>t, ConnTyped, PeerFacts DEF PluginRecv
      <4>2. ~(c = Conn(n) /\ Peer(n) = Server)
        BY <3>5, <3>1 DEF PluginRecv, Arrived
      <4> QED
        BY <3>1, <3>4, <3>5, <4>1, <4>2, <1>t, Hosts DEF PluginRecv, TypeOK
    <3>6. CASE PluginSend(n)
      <4>1. Conn(n) \in Connections
        BY <3>6, <1>t, ConnTyped DEF PluginSend
      <4>2. ~(c = Conn(n) /\ n = Server)
        BY <3>3, Hosts DEF Conn
      <4> QED
        BY <3>1, <3>4, <3>6, <4>1, <4>2, <1>t, Hosts DEF PluginSend, TypeOK
    <3>7. CASE wire' = wire
      BY <3>1, <3>7
    <3> QED
      BY <3>5, <3>6, <3>7, <1>2 DEF PluginStep, PluginWritePipe, PluginSelectPipe,
         PluginReadPipe, PluginSendLost
  <2>3. \A i \in DOMAIN queue : queue[i] \in Connections
    BY <1>t, QueueTyped
  <2> QED
    BY <2>1, <2>2, <2>3 DEF SessionInv, QueueInOrder, Fresh, DownClean, Running
<1> QED
  BY <1>1, <1>2

LEMMA SessionEnd ==
  \A n \in Node : SessionInv /\ EndArrives(n) => (QueueInOrder /\ Fresh /\ DownClean)'
<1> SUFFICES ASSUME NEW n \in Node, SessionInv, EndArrives(n)
             PROVE  (QueueInOrder /\ Fresh /\ DownClean)'
  OBVIOUS
<1>t. TypeOK
  BY DEF SessionInv
<1>1. UNCHANGED <<run, madeTo, queue, served, mpc>>
  BY DEF EndArrives, procVars
<1>2. ASSUME NEW c \in Connections, wire[c][Server] = 0 PROVE wire'[c][Server] = 0
  BY <1>2, <1>t, Hosts DEF EndArrives, TypeOK
<1>3. \A i \in DOMAIN queue : queue[i] \in Connections
  BY <1>t, QueueTyped
<1> QED
  BY <1>1, <1>2, <1>3 DEF SessionInv, QueueInOrder, Fresh, DownClean, Running

LEMMA SessionStep == SessionInv /\ [Next]_vars => SessionInv'
<1> SUFFICES ASSUME SessionInv, [Next]_vars PROVE SessionInv'
  OBVIOUS
<1>1. (TypeOK /\ HasRun)'
  BY TypeStep DEF SessionInv
<1>2. CASE UNCHANGED vars
  BY <1>1, <1>2 DEF SessionInv, QueueInOrder, Fresh, DownClean, Running, vars, connVars, procVars
<1>3. CASE Next
  BY <1>1, <1>3, SessionServerStart, SessionClientStart, SessionExit, SessionAccept,
     SessionMain, SessionPlugin, SessionEnd DEF SessionInv, Next, Crash
<1> QED
  BY <1>2, <1>3

LEMMA SessionAlways == Spec => []SessionInv
  BY SessionInit, SessionStep, PTL DEF Spec

(* Whatever is started, killed and started again, the kernel's queue holds *)
(* connections of the present run of the server, in order, none of which   *)
(* it has served or sent anything to.                                      *)
THEOREM QueueStaysInOrder == Spec => []QueueInOrder
<1>1. SessionInv => QueueInOrder
  BY DEF SessionInv
<1> QED
  BY <1>1, SessionAlways, PTL
-----------------------------------------------------------------------------
(* A program that has lost its peer.  What matters of a step is what it    *)
(* does to the connection that is served or will be, and who runs.         *)

\* A step that neither starts nor ends a program nor accepts a connection.
Quiet(m) == MainStep(m) \/ (PluginStep(m) /\ ~PluginSigPipe(m)) \/ EndArrives(m)

LEMMA QuietStep ==
  ASSUME SessionInv, NEW m \in Node, Quiet(m)
  PROVE  /\ UNCHANGED <<run, madeTo, queue, served>>
         /\ \A n \in Node : Running(n)' = Running(n)
         /\ \A n \in Node, c \in Connections : Open(n, c)' = Open(n, c)
         /\ \A n \in Node : Conn(n)' = Conn(n) /\ PeerOpen(n)' = PeerOpen(n)
<1>t. TypeOK
  BY DEF SessionInv
<1>1. UNCHANGED <<run, madeTo, queue, served>> /\ \A n \in Node : Running(n)' = Running(n)
  <2>1. CASE MainStep(m)
    BY <2>1, <1>t DEF TypeOK, MainStep, MainReadTun, MainWritePipe, MainDeliver, connVars, Running
  <2>2. CASE PluginStep(m) /\ ~PluginSigPipe(m)
    BY <2>2 DEF PluginStep, PluginRecv, PluginWritePipe, PluginSelectPipe, PluginReadPipe,
                PluginSend, PluginSendLost, connVars, Running
  <2>3. CASE EndArrives(m)
    BY <2>3 DEF EndArrives, procVars, Running
  <2> QED
    BY <2>1, <2>2, <2>3 DEF Quiet
<1>2. \A n \in Node : \A c : Open(n, c)' = Open(n, c)
  BY <1>1 DEF Open, Holds, Queued
<1>3. \A n \in Node : Conn(n)' = Conn(n)
  BY <1>1 DEF Conn
<1>4. \A n \in Node : PeerOpen(n)' = PeerOpen(n)
  <2> SUFFICES ASSUME NEW n \in Node PROVE PeerOpen(n)' = PeerOpen(n)
    OBVIOUS
  <2>1. Peer(n) \in Node /\ Peer(n)' = Peer(n)
    BY PeerFacts DEF Peer
  <2>2. Open(Peer(n), Conn(n))' = Open(Peer(n), Conn(n))
    BY <1>1, <1>3, <2>1 DEF Open, Holds, Queued
  <2> QED
    BY <2>2 DEF PeerOpen
<1> QED
  BY <1>1, <1>2, <1>3, <1>4

LEMMA AcceptKeepsChosen ==
  ASSUME SessionInv, Accept
  PROVE  /\ served = 0 /\ queue # <<>> /\ Head(queue) = queue[1] /\ 1 \in DOMAIN queue
         /\ served' = queue[1] /\ Chosen' = Chosen /\ UNCHANGED <<run, mpc>>
<1>t. TypeOK
  BY DEF SessionInv
<1>1. served = 0 /\ queue # <<>> /\ served' = Head(queue) /\ UNCHANGED <<run, mpc>>
  BY <1>t DEF Accept, TypeOK
<1>2. Head(queue) = queue[1] /\ 1 \in DOMAIN queue
  BY <1>1, <1>t DEF TypeOK
<1>3. queue[1] # 0
  <2>1. \A c \in Connections : c # 0
    BY SessionAssumption DEF Connections
  <2> QED
    BY <2>1, <1>2, <1>t, QueueTyped
<1> QED
  BY <1>1, <1>2, <1>3 DEF Chosen

LEMMA ClientStartKeepsChosen ==
  ASSUME SessionInv, ClientStart, Chosen # 0
  PROVE  Chosen' = Chosen /\ Chosen' # run'[Client]
<1>t. TypeOK /\ run[Client] \in Nat
  BY ServedTyped DEF SessionInv
<1>1. run'[Client] = run[Client] + 1 /\ served' = served /\ queue' = Append(queue, run'[Client])
  BY <1>t, Hosts DEF ClientStart, TypeOK
<1>2. CASE served # 0
  <2>1. served \in Nat /\ served <= run[Client]
    BY <1>2, <1>t, ServedTyped DEF SessionInv, QueueInOrder
  <2>2. Chosen' = served /\ Chosen = served
    BY <1>1, <1>2 DEF Chosen
  <2> QED
    BY <1>1, <1>t, <2>1, <2>2
<1>3. CASE served = 0
  <2>1. queue # <<>>
    BY <1>3 DEF Chosen
  <2>2. /\ 1 \in DOMAIN queue /\ Head(queue) = queue[1]
        /\ queue' # <<>> /\ Head(queue') = queue[1]
    <3>1. queue \in Seq(Connections) /\ run'[Client] \in Nat
      BY <1>1, <1>t DEF TypeOK
    <3> HIDE DEF Connections
    <3> DEFINE e == run'[Client]
    <3>2. queue' = Append(queue, e)
      BY <1>1
    <3>3. Len(queue) \in Nat \ {0} /\ DOMAIN queue = 1..Len(queue)
      BY <3>1, <2>1
    <3>4. Len(queue') = Len(queue) + 1 /\ queue'[1] = queue[1]
      BY <3>1, <3>2, <3>3
    <3> QED
      BY <3>1, <3>2, <3>3, <3>4
  <2>3. queue[1] \in Nat /\ queue[1] <= run[Client]
    BY <2>2, <1>t, QueueTyped DEF SessionInv, QueueInOrder
  <2>4. Chosen' = queue[1] /\ Chosen = queue[1]
    BY <1>1, <1>3, <2>1, <2>2 DEF Chosen
  <2> QED
    BY <1>1, <1>t, <2>3, <2>4
<1> QED
  BY <1>2, <1>3

LEMMA ExitHopeless ==
  ASSUME SessionInv, NEW m \in Node, Exit(m), NEW n \in Node, Hopeless(n), Running(n)'
  PROVE  Hopeless(n)'
<1>t. TypeOK
  BY DEF SessionInv
<1>1. ~Running(m)' /\ m # n
  BY <1>t DEF Exit, TypeOK, Running
<1>2. ~Linked'
  BY <1>1 DEF Linked, Node
<1>3. n = Server => Chosen' = Chosen
  BY <1>1, Hosts DEF Exit, Chosen, Node
<1> QED
  BY <1>2, <1>3 DEF Hopeless

LEMMA HopelessStep ==
  ASSUME SessionInv, [Next]_vars, NEW n \in Node, Hopeless(n), Running(n)'
  PROVE  Hopeless(n)'
<1>t. TypeOK /\ HasRun
  BY DEF SessionInv
<1>1. CASE ServerStart
  <2>1. n = Client /\ run'[Client] = run[Client] /\ run[Client] \in Nat /\ run[Client] >= 1
    BY <1>1, <1>t, Hosts, ServedTyped DEF ServerStart, Hopeless, Running, HasRun, Node, TypeOK
  <2>2. queue' = <<>> /\ served' = 0
    <3>1. ppc[Server] = "down"
      BY <1>1, <1>t, Hosts DEF TypeOK, ServerStart, Running
    <3>2. served = 0
      BY <3>1, <1>t DEF TypeOK
    <3> QED
      BY <3>2, <1>1 DEF SessionInv, DownClean, ServerStart, connVars
  <2>3. Chosen' = 0
    BY <2>2 DEF Chosen
  <2> QED
    BY <2>1, <2>3, Hosts DEF Hopeless, Linked
<1>2. CASE ClientStart
  <2>1. n = Server
    BY <1>2 DEF ClientStart, Hopeless, Node
  <2>2. Chosen # 0
    BY <2>1 DEF Hopeless
  <2> QED
    BY <2>1, <2>2, <1>2, ClientStartKeepsChosen DEF Hopeless, Linked
<1>3. CASE Accept
  <2>1. \A h \in Node : Running(h)' = Running(h)
    BY <1>3, AcceptKeepsChosen DEF Running
  <2> QED
    BY <1>3, <2>1, Hosts, AcceptKeepsChosen DEF Hopeless, Linked
<1>4. CASE \E m \in Node : Exit(m)
  BY <1>4, ExitHopeless
<1>5. CASE \E m \in Node : Quiet(m)
  BY <1>5, Hosts, QuietStep DEF Hopeless, Linked, Chosen
<1>6. CASE UNCHANGED vars
  BY <1>6 DEF vars, connVars, procVars, Hopeless, Linked, Chosen, Running
<1> QED
  BY <1>1, <1>2, <1>3, <1>4, <1>5, <1>6 DEF Next, Crash, PluginSigPipe, Quiet

(* A program that has lost its peer never gets another one, whatever is    *)
(* started around it.                                                      *)
THEOREM HopelessIsForGood == Spec => HopelessForGood
<1>1. SessionInv /\ [Next]_vars
        => [\A n \in Node : Hopeless(n) => Hopeless(n)' \/ ~Running(n)']_vars
  BY HopelessStep
<1> QED
  BY <1>1, SessionAlways, PTL DEF Spec, HopelessForGood
-----------------------------------------------------------------------------
(* What a program that has lost its peer still takes.  Its connection      *)
(* stays the same and open at its own end, and nobody at the other end     *)
(* receives from it.                                                       *)

LEMMA LineFacts ==
  ASSUME SessionInv, NEW n \in Node, Hopeless(n)
  PROVE  /\ Line(n) \in Connections /\ Open(n, Line(n))
         /\ wire[Line(n)] \in [Node -> 0..SockCap]
         /\ ppc[n] \in {"select", "write", "readPipe", "send"} => Conn(n) = Line(n)
<1>t. TypeOK /\ HasRun /\ Running(n)
  BY DEF SessionInv, Hopeless
<1>1. Line(n) \in Connections /\ Open(n, Line(n))
  <2>1. CASE n = Client
    <3>1. run[Client] \in 0..MaxRuns /\ run[Client] >= 1
      BY <1>t, <2>1 DEF TypeOK, HasRun
    <3> QED
      BY <1>t, <2>1, <3>1, SessionAssumption DEF Line, Connections, Open, Holds
  <2>2. CASE n = Server /\ served # 0
    <3>1. served \in 0..MaxRuns
      BY <1>t DEF TypeOK
    <3> QED
      BY <1>t, <2>2, <3>1, Hosts, SessionAssumption DEF Line, Chosen, Connections, Open, Holds
  <2>3. CASE n = Server /\ served = 0
    <3>1. queue # <<>>
      BY <2>3 DEF Hopeless, Chosen
    <3>2. Head(queue) = queue[1] /\ 1 \in DOMAIN queue
      BY <3>1, <1>t DEF TypeOK
    <3> QED
      BY <2>3, <3>1, <3>2, <1>t, QueueTyped, Hosts DEF Line, Chosen, Open, Queued
  <2> QED
    BY <2>1, <2>2, <2>3 DEF Node
<1>2. ASSUME ppc[n] \in {"select", "write", "readPipe", "send"} PROVE Conn(n) = Line(n)
  BY <1>2, <1>t, Hosts DEF Conn, Line, Chosen, TypeOK, Node
<1> QED
  BY <1>1, <1>2, <1>t DEF TypeOK

\* Nobody at the other end has the connection: it would be a whole tunnel.
LEMMA LineIsNotServed ==
  ASSUME SessionInv, NEW n \in Node, Hopeless(n), NEW m \in Node, m # n, ppc[m] = "select"
  PROVE  Conn(m) # Line(n)
<1>t. TypeOK /\ Running(n) /\ Running(m)
  BY DEF SessionInv, TypeOK, Hopeless, Running
<1>1. CASE n = Client /\ m = Server
  <2>1. served # 0
    BY <1>1, <1>t DEF TypeOK
  <2> QED
    BY <1>1, <2>1, <1>t, Hosts DEF Conn, Line, Chosen, Hopeless, Linked
<1>2. CASE n = Server /\ m = Client
  BY <1>2, <1>t, Hosts DEF Conn, Line, Hopeless, Linked
<1> QED
  BY <1>1, <1>2 DEF Node

LEMMA LineStays ==
  ASSUME SessionInv, Next, NEW n \in Node, Hopeless(n), Running(n)'
  PROVE  Line(n)' = Line(n)
<1>t. TypeOK
  BY DEF SessionInv
<1>1. CASE ServerStart
  BY <1>1, <1>t, Hosts DEF ServerStart, Hopeless, Line, Node, TypeOK
<1>2. CASE ClientStart
  <2>1. n = Server /\ Chosen # 0
    BY <1>2 DEF ClientStart, Hopeless, Node
  <2> QED
    BY <2>1, <1>2, Hosts, ClientStartKeepsChosen DEF Line
<1>3. CASE Accept
  BY <1>3, AcceptKeepsChosen DEF Line
<1>4. CASE \E m \in Node : Exit(m)
  <2>1. PICK m \in Node : Exit(m)
    BY <1>4
  <2>2. m # n
    BY <2>1, <1>t DEF Exit, TypeOK, Running
  <2> QED
    BY <2>1, <2>2, Hosts DEF Exit, Line, Chosen, Node
<1>5. CASE \E m \in Node : Quiet(m)
  BY <1>5, QuietStep DEF Line, Chosen
<1> QED
  BY <1>1, <1>2, <1>3, <1>4, <1>5 DEF Next, Crash, PluginSigPipe, Quiet

MainRoom(n)   == (IF mpc[n] = "write" THEN 0 ELSE 1) + (PipeCap - toPlugin[n])
PluginRoom(n) == IF told[n] THEN (IF ppc[n] = "readPipe" THEN 1 ELSE 0)
                            ELSE (IF ppc[n] = "send" THEN 0 ELSE 1) + (SockCap - wire[Line(n)][n])

LEMMA RoomTypes ==
  SessionInv => \A n \in Node : Hopeless(n) =>
                  /\ MainRoom(n) \in Nat /\ PluginRoom(n) \in Nat
                  /\ Room(n) = MainRoom(n) + PluginRoom(n)
<1> SUFFICES ASSUME SessionInv, NEW n \in Node, Hopeless(n)
             PROVE  /\ MainRoom(n) \in Nat /\ PluginRoom(n) \in Nat
                    /\ Room(n) = MainRoom(n) + PluginRoom(n)
  OBVIOUS
<1>t. TypeOK
  BY DEF SessionInv
<1>1. toPlugin[n] \in 0..PipeCap /\ PipeCap \in Nat /\ SockCap \in Nat
  BY <1>t, SessionAssumption DEF TypeOK
<1>2. MainRoom(n) \in Nat
  BY <1>1 DEF MainRoom
<1>3. PluginRoom(n) \in Nat
  <2>1. wire[Line(n)][n] \in 0..SockCap
    BY LineFacts
  <2> QED
    BY <2>1, <1>1 DEF PluginRoom
<1> QED
  BY <1>2, <1>3 DEF Room, MainRoom, PluginRoom

\* A step that leaves alone what n has in hand.
LEMMA RoomStays ==
  ASSUME NEW n \in Node, mpc'[n] = mpc[n], toPlugin'[n] = toPlugin[n], told'[n] = told[n],
         ppc'[n] = "send" <=> ppc[n] = "send", ppc'[n] = "readPipe" <=> ppc[n] = "readPipe",
         Line(n)' = Line(n), wire'[Line(n)][n] = wire[Line(n)][n]
  PROVE  MainRoom(n)' = MainRoom(n) /\ PluginRoom(n)' = PluginRoom(n)
<1>1. wire'[Line(n)'][n] = wire[Line(n)][n]
  OBVIOUS
<1> QED
  BY <1>1 DEF MainRoom, PluginRoom

LEMMA RoomStart ==
  ASSUME SessionInv, NEW n \in Node, Hopeless(n), Line(n)' = Line(n), ServerStart \/ ClientStart
  PROVE  MainRoom(n)' = MainRoom(n) /\ PluginRoom(n)' = PluginRoom(n) /\ mpc'[n] = mpc[n]
<1>t. TypeOK
  BY DEF SessionInv
<1>1. CASE ServerStart
  <2>1. n # Server
    BY <1>1, Hosts DEF ServerStart, Hopeless, Node
  <2>2. mpc'[n] = mpc[n] /\ ppc'[n] = ppc[n] /\ UNCHANGED <<told, toPlugin, wire>>
    BY <1>1, <2>1, <1>t, Hosts DEF ServerStart, TypeOK, connVars
  <2> QED
    BY <2>2, RoomStays
<1>2. CASE ClientStart
  <2>1. n # Client
    BY <1>2, Hosts DEF ClientStart, Hopeless, Node
  <2>2. mpc'[n] = mpc[n] /\ ppc'[n] = ppc[n] /\ UNCHANGED <<told, toPlugin, wire>>
    BY <1>2, <2>1, <1>t, Hosts DEF ClientStart, TypeOK
  <2> QED
    BY <2>2, RoomStays
<1> QED
  BY <1>1, <1>2

LEMMA RoomAccept ==
  ASSUME SessionInv, NEW n \in Node, Line(n)' = Line(n), Accept
  PROVE  MainRoom(n)' = MainRoom(n) /\ PluginRoom(n)' = PluginRoom(n) /\ mpc'[n] = mpc[n]
<1>1. UNCHANGED <<mpc, told, toPlugin, wire>>
  BY DEF Accept
<1>2. \/ ppc'[n] = ppc[n]
      \/ ppc[n] = "accept" /\ ppc'[n] = "select"
  BY Hosts DEF Accept, SessionInv, TypeOK
<1> QED
  BY <1>1, <1>2, RoomStays

LEMMA RoomExit ==
  ASSUME SessionInv, NEW n \in Node, Hopeless(n), Line(n)' = Line(n),
         NEW m \in Node, Exit(m), Running(n)'
  PROVE  MainRoom(n)' = MainRoom(n) /\ PluginRoom(n)' = PluginRoom(n) /\ mpc'[n] = mpc[n]
<1>t. TypeOK
  BY DEF SessionInv
<1>1. m # n /\ n = Peer(m)
  BY <1>t, PeerFacts DEF Exit, TypeOK, Running
<1>2. /\ mpc'[n] = mpc[n] /\ ppc'[n] = ppc[n] /\ toPlugin'[n] = toPlugin[n]
      /\ told'[n] = told[n]
  BY <1>1, <1>t DEF Exit, TypeOK
<1>3. wire'[Line(n)][n] = wire[Line(n)][n]
  BY <1>1, <1>t, LineFacts, ExitWire
<1> QED
  BY <1>2, <1>3, RoomStays

\* The loops of the other host, and what arrives there.
LEMMA RoomPeer ==
  ASSUME SessionInv, NEW n \in Node, Hopeless(n), Line(n)' = Line(n),
         NEW m \in Node, m # n, Quiet(m)
  PROVE  MainRoom(n)' = MainRoom(n) /\ PluginRoom(n)' = PluginRoom(n) /\ mpc'[n] = mpc[n]
<1>t. TypeOK /\ n = Peer(m)
  BY PeerFacts DEF SessionInv
<1>1. CASE MainStep(m)
  <2>1. mpc'[n] = mpc[n] /\ toPlugin'[n] = toPlugin[n] /\ UNCHANGED <<told, ppc, wire>>
    BY <1>1, <1>t DEF MainStep, MainReadTun, MainWritePipe, MainDeliver, TypeOK, connVars
  <2> QED
    BY <2>1, RoomStays
<1>2. CASE PluginStep(m) /\ ~PluginSigPipe(m)
  <2>1. ppc'[n] = ppc[n] /\ toPlugin'[n] = toPlugin[n] /\ UNCHANGED <<told, mpc>>
    BY <1>2, <1>t DEF PluginStep, PluginRecv, PluginWritePipe, PluginSelectPipe, PluginReadPipe,
                      PluginSend, PluginSendLost, TypeOK, connVars
  <2>2. wire'[Line(n)][n] = wire[Line(n)][n]
    <3>0. Line(n) \in Connections
      BY LineFacts
    <3>1. CASE PluginRecv(m)
      <4>1. Conn(m) # Line(n)
        BY <3>1, LineIsNotServed DEF PluginRecv
      <4> QED
        BY <3>0, <3>1, <4>1, <1>t DEF PluginRecv, TypeOK
    <3>2. CASE PluginSend(m)
      <4>1. Conn(m) \in Connections
        BY <3>2, <1>t, ConnTyped DEF PluginSend, SessionInv
      <4> QED
        BY <3>0, <3>2, <4>1, <1>t DEF PluginSend, TypeOK
    <3> QED
      BY <1>2, <3>1, <3>2 DEF PluginStep, PluginWritePipe, PluginSelectPipe, PluginReadPipe,
         PluginSendLost
  <2> QED
    BY <2>1, <2>2, RoomStays
<1>3. CASE EndArrives(m)
  <2>1. UNCHANGED <<mpc, ppc, toPlugin>> /\ told'[n] = told[n]
    BY <1>3, <1>t DEF EndArrives, procVars, TypeOK
  <2>2. wire'[Line(n)][n] = wire[Line(n)][n]
    <3>1. Line(n) \in Connections /\ wire' = [wire EXCEPT ![Conn(m)][m] = 0]
      BY <1>3, LineFacts DEF EndArrives
    <3> QED
      BY <3>1, <1>t DEF TypeOK
  <2> QED
    BY <2>1, <2>2, RoomStays
<1> QED
  BY <1>1, <1>2, <1>3 DEF Quiet

\* The program's own main.
LEMMA RoomMain ==
  ASSUME SessionInv, NEW n \in Node, Hopeless(n), Line(n)' = Line(n), MainStep(n)
  PROVE  \/ /\ MainRoom(n)' = MainRoom(n) /\ PluginRoom(n)' = PluginRoom(n)
            /\ mpc'[n] \in {mpc[n], "select"}
         \/ MainRoom(n)' = MainRoom(n) - 1 /\ PluginRoom(n)' = PluginRoom(n)
<1>1. /\ toPlugin[n] \in Nat /\ PipeCap \in Nat
      /\ mpc \in [Node -> MainPcs] /\ toPlugin \in [Node -> 0..PipeCap]
  BY SessionAssumption DEF SessionInv, TypeOK
<1>2. UNCHANGED <<told, ppc, wire>>
  BY DEF MainStep, MainReadTun, MainWritePipe, MainDeliver, connVars
<1>3. PluginRoom(n)' = PluginRoom(n)
  <2>1. wire'[Line(n)'][n] = wire[Line(n)][n]
    BY <1>2
  <2> QED
    BY <1>2, <2>1 DEF PluginRoom
<1>4. CASE MainReadTun(n)
  <2>1. mpc[n] = "select" /\ mpc'[n] = "write" /\ toPlugin' = toPlugin
    BY <1>4, <1>1 DEF MainReadTun
  <2> QED
    BY <2>1, <1>1, <1>3 DEF MainRoom
<1>5. CASE MainWritePipe(n)
  <2>1. mpc[n] = "write" /\ mpc'[n] = "select" /\ toPlugin'[n] = toPlugin[n] + 1
    BY <1>5, <1>1 DEF MainWritePipe
  <2>2. MainRoom(n)' = MainRoom(n)
    BY <2>1, <1>1 DEF MainRoom
  <2> QED
    BY <2>1, <2>2, <1>3
<1>6. CASE MainDeliver(n)
  <2>1. UNCHANGED <<mpc, toPlugin>>
    BY <1>6 DEF MainDeliver
  <2> QED
    BY <2>1, <1>3 DEF MainRoom
<1> QED
  BY <1>4, <1>5, <1>6 DEF MainStep

\* The program's own plugin.  What its thread takes out of the pipe is room
\* for main, and one block less for the plugin.
LEMMA RoomPlugin ==
  ASSUME SessionInv, NEW n \in Node, Hopeless(n), Line(n)' = Line(n),
         PluginRoom(n) \in Nat,
         (PluginStep(n) /\ ~PluginSigPipe(n)) \/ EndArrives(n)
  PROVE  \/ /\ MainRoom(n)' = MainRoom(n) /\ PluginRoom(n)' <= PluginRoom(n)
            /\ mpc'[n] \in {mpc[n], "select"}
         \/ /\ MainRoom(n)' = MainRoom(n) + 1 /\ PluginRoom(n)' = PluginRoom(n) - 1
            /\ mpc'[n] = mpc[n]
<1>1. /\ toPlugin[n] \in Nat /\ PipeCap \in Nat /\ SockCap \in Nat
      /\ told \in [Node -> BOOLEAN] /\ ppc \in [Node -> PluginPcs]
      /\ toPlugin \in [Node -> 0..PipeCap] /\ wire \in [Connections -> [Node -> 0..SockCap]]
  BY SessionAssumption DEF SessionInv, TypeOK
<1>2. Line(n) \in Connections /\ wire[Line(n)][n] \in 0..SockCap
  BY LineFacts
<1>3. CASE PluginRecv(n)
  <2>1. UNCHANGED <<mpc, told, toPlugin>> /\ ppc'[n] = "write" /\ ppc[n] = "select"
    BY <1>3, <1>1 DEF PluginRecv, connVars
  <2>2. wire'[Line(n)][n] = wire[Line(n)][n]
    <3>1. wire' = [wire EXCEPT ![Conn(n)][Peer(n)] = @ - 1]
      BY <1>3 DEF PluginRecv
    <3> QED
      BY <3>1, <1>1, <1>2, PeerFacts
  <2> QED
    BY <2>1, <2>2, <1>1, RoomStays, RoomTypes
<1>4. CASE PluginWritePipe(n)
  <2>1. UNCHANGED <<mpc, told, toPlugin, wire>> /\ ppc'[n] = "select" /\ ppc[n] = "write"
    BY <1>4, <1>1 DEF PluginWritePipe, connVars
  <2> QED
    BY <2>1, RoomStays, RoomTypes
<1>5. CASE PluginSelectPipe(n)
  <2>1. UNCHANGED <<mpc, told, toPlugin, wire>> /\ ppc'[n] = "readPipe" /\ ppc[n] = "select" /\ ~told[n]
    BY <1>5, <1>1 DEF PluginSelectPipe, Readable, connVars
  <2>2. wire'[Line(n)'][n] = wire[Line(n)][n]
    BY <2>1
  <2>3. PluginRoom(n)' = PluginRoom(n)
    BY <2>1, <2>2 DEF PluginRoom
  <2>4. MainRoom(n)' = MainRoom(n)
    BY <2>1 DEF MainRoom
  <2> QED
    BY <2>1, <2>3, <2>4
<1>6. CASE PluginReadPipe(n)
  <2>1. /\ UNCHANGED <<mpc, told, wire>> /\ ppc[n] = "readPipe" /\ ppc'[n] = "send"
        /\ toPlugin'[n] = toPlugin[n] - 1
    BY <1>6, <1>1 DEF PluginReadPipe, connVars
  <2>2. wire'[Line(n)'][n] = wire[Line(n)][n]
    BY <2>1
  <2>3. MainRoom(n)' = MainRoom(n) + 1
    BY <2>1, <1>1 DEF MainRoom
  <2>4. PluginRoom(n)' = PluginRoom(n) - 1
    BY <2>1, <2>2, <1>1, <1>2 DEF PluginRoom
  <2> QED
    BY <2>1, <2>3, <2>4
<1>7. CASE PluginSend(n)
  <2>1. /\ UNCHANGED <<mpc, told, toPlugin>> /\ ppc[n] = "send" /\ ppc'[n] = "select" /\ ~told[n]
    BY <1>7, <1>1 DEF PluginSend, connVars
  <2>2. wire'[Line(n)][n] = wire[Line(n)][n] + 1
    <3>1. wire' = [wire EXCEPT ![Conn(n)][n] = @ + 1] /\ Conn(n) = Line(n)
      BY <1>7, LineFacts DEF PluginSend
    <3> QED
      BY <3>1, <1>1, <1>2
  <2>3. wire'[Line(n)'][n] = wire[Line(n)][n] + 1
    BY <2>2
  <2>4. MainRoom(n)' = MainRoom(n)
    BY <2>1 DEF MainRoom
  <2>5. PluginRoom(n)' = PluginRoom(n)
    BY <2>1, <2>3, <1>1, <1>2 DEF PluginRoom
  <2> QED
    BY <2>1, <2>4, <2>5
<1>8. CASE PluginSendLost(n)
  <2>1. UNCHANGED <<mpc, told, toPlugin>> /\ ppc[n] = "send" /\ ppc'[n] = "select" /\ told[n]
    BY <1>8, <1>1 DEF PluginSendLost, connVars
  <2>2. PluginRoom(n)' = PluginRoom(n)
    BY <2>1 DEF PluginRoom
  <2>3. MainRoom(n)' = MainRoom(n)
    BY <2>1 DEF MainRoom
  <2> QED
    BY <2>1, <2>2, <2>3
<1>9. CASE EndArrives(n)
  <2>1. UNCHANGED <<mpc, ppc, toPlugin>> /\ ~told[n] /\ told'[n]
    BY <1>9, <1>1 DEF EndArrives, procVars
  <2>2. PluginRoom(n)' <= PluginRoom(n)
    BY <2>1, <1>1, <1>2 DEF PluginRoom
  <2>3. MainRoom(n)' = MainRoom(n)
    BY <2>1 DEF MainRoom
  <2> QED
    BY <2>1, <2>2, <2>3
<1> QED
  BY <1>3, <1>4, <1>5, <1>6, <1>7, <1>8, <1>9 DEF PluginStep

LEMMA RoomStep ==
  ASSUME SessionInv, Next, NEW n \in Node, Hopeless(n), Running(n)',
         MainRoom(n) \in Nat, PluginRoom(n) \in Nat, Room(n) = MainRoom(n) + PluginRoom(n),
         MainRoom(n)' \in Nat, PluginRoom(n)' \in Nat, Room(n)' = MainRoom(n)' + PluginRoom(n)'
  PROVE  /\ Room(n)' <= Room(n)
         /\ mpc[n] = "select" /\ mpc'[n] = "write" => Room(n)' < Room(n)
<1>1. \/ /\ MainRoom(n)' = MainRoom(n) /\ PluginRoom(n)' <= PluginRoom(n)
         /\ mpc'[n] \in {mpc[n], "select"}
      \/ MainRoom(n)' = MainRoom(n) - 1 /\ PluginRoom(n)' = PluginRoom(n)
      \/ /\ MainRoom(n)' = MainRoom(n) + 1 /\ PluginRoom(n)' = PluginRoom(n) - 1
         /\ mpc'[n] = mpc[n]
  <2>0. Line(n)' = Line(n)
    BY LineStays
  <2>1. CASE ServerStart \/ ClientStart
    BY <2>0, <2>1, RoomStart
  <2>2. CASE Accept
    BY <2>0, <2>2, RoomAccept
  <2>3. CASE \E m \in Node : Exit(m)
    BY <2>0, <2>3, RoomExit
  <2>4. ASSUME NEW m \in Node, m # n, Quiet(m)
        PROVE  /\ MainRoom(n)' = MainRoom(n) /\ PluginRoom(n)' = PluginRoom(n)
               /\ mpc'[n] = mpc[n]
    BY <2>0, <2>4, RoomPeer
  <2>5. CASE MainStep(n)
    BY <2>0, <2>5, RoomMain
  <2>6. CASE (PluginStep(n) /\ ~PluginSigPipe(n)) \/ EndArrives(n)
    BY <2>0, <2>6, RoomPlugin
  <2> QED
    BY <2>1, <2>2, <2>3, <2>4, <2>5, <2>6 DEF Next, Crash, PluginSigPipe, Quiet
<1>2. ASSUME NEW a \in Nat, NEW b \in Nat, NEW a1 \in Nat, NEW b1 \in Nat,
             \/ a1 = a /\ b1 <= b
             \/ a1 = a - 1 /\ b1 = b
             \/ a1 = a + 1 /\ b1 = b - 1
      PROVE  a1 + b1 <= a + b /\ (a1 = a - 1 => a1 + b1 < a + b)
  BY <1>2
<1> QED
  BY <1>1, <1>2

(* Once a program has lost its peer, the number of blocks it will still    *)
(* read from its TUN device is bounded by the room there is at that        *)
(* moment: nothing that any program does afterwards makes more, whether    *)
(* its kernel is told of the peer's end soon, late or never, and wherever  *)
(* between its select() and its send() the plugin's thread is then.        *)
THEOREM HopelessTakesLittle == Spec => LosesOnlyItsRoom
<1> DEFINE Typed == \A n \in Node : Hopeless(n) =>
                      /\ MainRoom(n) \in Nat /\ PluginRoom(n) \in Nat
                      /\ Room(n) = MainRoom(n) + PluginRoom(n)
<1>1. SessionInv => Typed
  BY RoomTypes
<1>2. SessionInv /\ Typed /\ Typed' /\ [Next]_vars
        => [\A n \in Node : Hopeless(n) /\ Running(n)' =>
              /\ Room(n)' <= Room(n)
              /\ mpc[n] = "select" /\ mpc'[n] = "write" => Room(n)' < Room(n)]_vars
  <2> SUFFICES ASSUME SessionInv, Typed, Typed', Next,
                      NEW n \in Node, Hopeless(n), Running(n)'
               PROVE  /\ Room(n)' <= Room(n)
                      /\ mpc[n] = "select" /\ mpc'[n] = "write" => Room(n)' < Room(n)
    OBVIOUS
  <2>1. Hopeless(n)'
    BY HopelessStep
  <2> QED
    BY <2>1, RoomStep
<1> QED
  BY <1>1, <1>2, SessionAlways, PTL DEF Spec, LosesOnlyItsRoom
-----------------------------------------------------------------------------
(* A connection whose other end is closed stays so, whatever is started    *)
(* around it; and only of such a one is the kernel told.                   *)

LEMMA EndedQuiet ==
  ASSUME SessionInv, NEW n \in Node, InSession(n), ~PeerOpen(n), NEW m \in Node, Quiet(m)
  PROVE  InSession(n)' /\ ~PeerOpen(n)' /\ Conn(n)' = Conn(n)
<1>1. ~PeerOpen(n)' /\ Conn(n)' = Conn(n) /\ Running(n)' = Running(n)
  BY QuietStep
<1>2. ppc'[n] = ppc[n] \/ ppc'[n] \in {"select", "write", "readPipe", "send"}
  BY DEF Quiet, MainStep, MainReadTun, MainWritePipe, MainDeliver, PluginStep, PluginRecv,
         PluginWritePipe, PluginSelectPipe, PluginReadPipe, PluginSend, PluginSendLost,
         EndArrives, procVars, SessionInv, TypeOK
<1> QED
  BY <1>1, <1>2 DEF InSession

LEMMA EndedStep ==
  ASSUME SessionInv, Next, NEW n \in Node, InSession(n), ~PeerOpen(n), Running(n)'
  PROVE  InSession(n)' /\ ~PeerOpen(n)' /\ Conn(n)' = Conn(n)
<1>t. TypeOK /\ HasRun /\ Peer(n) \in Node /\ Peer(n)' = Peer(n)
  BY PeerFacts DEF SessionInv, Peer
<1>0. Running(n) /\ ppc[n] # "accept" /\ ~Open(Peer(n), Conn(n))
  BY DEF InSession, PeerOpen
<1>1. CASE ServerStart
  <2>1. n = Client /\ Peer(n) = Server /\ n # Server
    BY <1>0, <1>1, Hosts DEF ServerStart, Node, Peer
  <2>2. served = 0
    <3>1. ppc[Server] = "down"
      BY <1>1, <1>t, Hosts DEF TypeOK, ServerStart, Running
    <3> QED
      BY <3>1, <1>t DEF TypeOK
  <2>3. UNCHANGED <<queue, served>> /\ run'[Client] = run[Client] /\ ppc'[n] = ppc[n]
    BY <1>1, <2>1, <1>t, Hosts DEF ServerStart, connVars, TypeOK
  <2>4. Conn(n)' = Conn(n) /\ Conn(n) # 0
    <3>1. run[Client] >= 1 /\ run[Client] \in Nat
      BY <1>0, <1>t, <2>1, ServedTyped DEF HasRun
    <3> QED
      BY <2>1, <2>3, <3>1 DEF Conn
  <2>5. ~Open(Server, Conn(n))'
    BY <1>0, <2>1, <2>2, <2>3, <2>4, Hosts DEF Open, Holds, Queued
  <2> QED
    BY <1>0, <1>t, <2>1, <2>3, <2>4, <2>5 DEF InSession, PeerOpen
<1>2. CASE ClientStart
  <2>1. n = Server /\ Peer(n) = Client /\ n # Client
    BY <1>0, <1>2, Hosts DEF ClientStart, Node, Peer
  <2>2. /\ served' = served /\ run'[Client] = run[Client] + 1 /\ ppc'[n] = ppc[n]
        /\ Conn(n) = served /\ Conn(n)' = served
    BY <1>2, <2>1, <1>t, Hosts DEF ClientStart, TypeOK, Conn
  <2>3. served # run[Client] + 1
    <3>1. served \in Nat /\ run[Client] \in Nat /\ (served # 0 => served <= run[Client])
      BY <1>t, ServedTyped DEF SessionInv, QueueInOrder
    <3> QED
      BY <3>1
  <2>4. ~Open(Client, Conn(n))'
    BY <2>1, <2>2, <2>3 DEF Open, Holds
  <2> QED
    BY <1>0, <1>t, <2>1, <2>2, <2>4 DEF InSession, PeerOpen
<1>3. CASE Accept
  <2>1. n = Client /\ n # Server /\ Peer(n) = Server
    BY <1>0, <1>3, Hosts DEF Accept, Node, Peer
  <2>2. /\ UNCHANGED <<run, mpc>> /\ ppc'[n] = ppc[n]
        /\ served' = queue[1] /\ 1 \in DOMAIN queue
    BY <1>3, <2>1, <1>t, AcceptKeepsChosen DEF Accept, TypeOK
  <2>3. \A i \in DOMAIN queue : queue[i] # Conn(n)
    BY <1>0, <2>1 DEF Open, Queued
  <2>4. \A i \in DOMAIN queue' : \E j \in DOMAIN queue : queue'[i] = queue[j]
    <3>1. queue \in Seq(Connections) /\ queue # <<>> /\ queue' = Tail(queue)
      BY <1>3, <1>t DEF Accept, TypeOK
    <3>2. \A i \in DOMAIN queue' : i+1 \in DOMAIN queue /\ queue'[i] = queue[i+1]
      BY <3>1
    <3> QED
      BY <3>2
  <2>5. Conn(n)' = Conn(n)
    BY <2>1, <2>2 DEF Conn
  <2>6. ~Open(Server, Conn(n))'
    BY <2>1, <2>2, <2>3, <2>4, <2>5 DEF Open, Queued, Holds
  <2> QED
    BY <1>0, <1>t, <2>1, <2>2, <2>5, <2>6 DEF InSession, PeerOpen
<1>4. CASE \E m \in Node : Exit(m)
  <2>1. PICK m \in Node : Exit(m)
    BY <1>4
  <2>2. ~Running(m)' /\ m = Peer(n) /\ m # n
    BY <2>1, <1>t, PeerFacts DEF Exit, TypeOK, Running
  <2>3. ppc'[n] = ppc[n] /\ run' = run /\ (n = Server => served' = served)
    BY <2>1, <2>2, <1>t, Hosts DEF Exit, TypeOK, Peer
  <2>4. Conn(n)' = Conn(n)
    BY <2>3 DEF Conn, Node
  <2>5. m = Server => queue' = <<>>
    BY <2>1 DEF Exit
  <2>6. ~Open(m, Conn(n))'
    BY <2>2, <2>5 DEF Open, Holds, Queued
  <2> QED
    BY <1>0, <1>t, <2>2, <2>3, <2>4, <2>6 DEF InSession, PeerOpen
<1>5. CASE \E m \in Node : Quiet(m)
  BY <1>5, EndedQuiet
<1> QED
  BY <1>1, <1>2, <1>3, <1>4, <1>5 DEF Next, Crash, PluginSigPipe, Quiet

ToldTrue == \A n \in Node : told[n] => InSession(n) /\ ~PeerOpen(n)

LEMMA ToldStep == SessionInv /\ ToldTrue /\ [Next]_vars => ToldTrue'
<1> SUFFICES ASSUME SessionInv, ToldTrue, [Next]_vars, NEW n \in Node, told'[n]
             PROVE  InSession(n)' /\ ~PeerOpen(n)'
  BY DEF ToldTrue
<1>t. TypeOK /\ told \in [Node -> BOOLEAN] /\ mpc \in [Node -> MainPcs]
  BY DEF SessionInv, TypeOK
<1>1. CASE UNCHANGED vars
  BY <1>1 DEF ToldTrue, vars, connVars, procVars, InSession, Running, PeerOpen, Open, Holds,
              Queued, Conn, Peer
<1>2. CASE EndArrives(n)
  BY <1>2, EndedQuiet DEF EndArrives, Quiet
<1>3. CASE Next /\ ~EndArrives(n)
  <2>1. told[n] \/ \E m \in Node : EndArrives(m) /\ m # n
    BY <1>3, <1>t DEF Next, ServerStart, ClientStart, Accept, Crash, Exit, MainStep, MainReadTun,
       MainWritePipe, MainDeliver, PluginStep, PluginRecv, PluginWritePipe, PluginSelectPipe,
       PluginReadPipe, PluginSend, PluginSendLost, PluginSigPipe, connVars
  <2>2. told[n]
    BY <2>1, <1>t DEF EndArrives
  <2>3. InSession(n) /\ ~PeerOpen(n) /\ Running(n)
    BY <2>2 DEF ToldTrue, InSession
  <2>4. Running(n)'
    <3>1. CASE \E m \in Node : Exit(m)
      BY <3>1, <2>3, <1>t DEF Exit, Running
    <3>2. CASE \E m \in Node : Quiet(m)
      BY <3>2, <2>3, QuietStep
    <3>3. CASE ServerStart \/ ClientStart \/ Accept
      BY <3>3, <2>3, <1>t, Hosts DEF ServerStart, ClientStart, Accept, Running
    <3> QED
      BY <1>3, <3>1, <3>2, <3>3 DEF Next, Crash, PluginSigPipe, Quiet
  <2> QED
    BY <1>3, <2>3, <2>4, EndedStep
<1> QED
  BY <1>1, <1>2, <1>3

LEMMA ToldAlways == Spec => []ToldTrue
<1>1. Init => ToldTrue
  BY DEF Init, ToldTrue
<1> QED
  BY <1>1, ToldStep, SessionAlways, PTL DEF Spec
-----------------------------------------------------------------------------
(* The loop that only calls recv().                                        *)

\* Spinning, taken apart.
LEMMA SpinParts ==
  ASSUME SessionInv, ToldTrue, NEW n \in Node, Spinning(n)
  PROVE  /\ Running(n) /\ InSession(n) /\ ppc[n] = "select" /\ told[n]
         /\ Conn(n) \in Connections /\ wire[Conn(n)] \in [Node -> 0..SockCap]
         /\ wire[Conn(n)][Peer(n)] = 0
         /\ ~PeerOpen(n) /\ ~Open(Peer(n), Conn(n))
         /\ toPlugin[n] \in Nat
<1>1. Running(n) /\ InSession(n) /\ ppc[n] = "select" /\ told[n] /\ wire[Conn(n)][Peer(n)] = 0
  BY DEF Spinning, InSession, Arrived
<1>2. Conn(n) \in Connections
  BY <1>1, ConnTyped DEF SessionInv
<1>3. ~PeerOpen(n)
  BY <1>1 DEF ToldTrue
<1> QED
  BY <1>1, <1>2, <1>3, SessionAssumption DEF SessionInv, TypeOK, PeerOpen

\* What each step leaves as it is for a loop that spins.
Idle(n) == /\ ppc'[n] = "select" /\ told'[n] /\ toPlugin'[n] >= toPlugin[n]
           /\ wire'[Conn(n)][Peer(n)] = 0

LEMMA SpinStart ==
  ASSUME SessionInv, ToldTrue, NEW n \in Node, Spinning(n), ServerStart \/ ClientStart \/ Accept
  PROVE  Idle(n)
<1>t. TypeOK
  BY DEF SessionInv
<1>1. ppc'[n] = ppc[n] /\ UNCHANGED <<told, toPlugin, wire>>
  BY <1>t, SpinParts DEF ServerStart, ClientStart, Accept, connVars, TypeOK
<1> QED
  BY <1>1, SpinParts DEF Idle

LEMMA SpinExit ==
  ASSUME SessionInv, ToldTrue, NEW m \in Node, Exit(m), NEW n \in Node, Spinning(n), Running(n)'
  PROVE  Idle(n)
<1>t. TypeOK
  BY DEF SessionInv
<1>1. m = Peer(n) /\ m # n
  BY <1>t, PeerFacts DEF Exit, TypeOK, Running
<1>2. ppc'[n] = ppc[n] /\ toPlugin'[n] = toPlugin[n] /\ told'[n] = told[n]
  BY <1>1, <1>t DEF Exit, TypeOK
<1>3. wire'[Conn(n)] = wire[Conn(n)]
  BY <1>1, <1>t, SpinParts, ExitWire
<1> QED
  BY <1>2, <1>3, SpinParts DEF Idle

\* main may still fill the pipe.
LEMMA SpinMain ==
  ASSUME SessionInv, ToldTrue, NEW n \in Node, Spinning(n), NEW m \in Node, MainStep(m)
  PROVE  Idle(n)
<1>1. UNCHANGED <<told, ppc, wire>>
  BY DEF MainStep, MainReadTun, MainWritePipe, MainDeliver, connVars
<1>2. toPlugin' = toPlugin \/ toPlugin' = [toPlugin EXCEPT ![m] = @ + 1]
  BY DEF MainStep, MainReadTun, MainWritePipe, MainDeliver
<1>3. toPlugin'[n] = toPlugin[n] \/ toPlugin'[n] = toPlugin[n] + 1
  <2>1. toPlugin \in [Node -> 0..PipeCap]
    BY DEF SessionInv, TypeOK
  <2>2. CASE m = n
    BY <1>2, <2>1, <2>2
  <2>3. CASE m # n
    BY <1>2, <2>1, <2>3
  <2> QED
    BY <2>2, <2>3
<1>4. toPlugin'[n] >= toPlugin[n]
  BY <1>3, SpinParts
<1> QED
  BY <1>1, <1>4, SpinParts DEF Idle

\* The peer's plugin has another connection, if any.
LEMMA SpinPlugin ==
  ASSUME SessionInv, ToldTrue, NEW n \in Node, Spinning(n), NEW m \in Node,
         (PluginStep(m) /\ ~PluginSigPipe(m)) \/ EndArrives(m)
  PROVE  Idle(n)
<1>t. TypeOK
  BY DEF SessionInv
<1>1. m # n
  BY SpinParts DEF PluginStep, PluginRecv, PluginWritePipe, PluginSelectPipe, PluginReadPipe,
     PluginSend, PluginSendLost, EndArrives, Arrived, Readable
<1>2. m = Peer(n) /\ Peer(m) = n
  BY <1>1, PeerFacts
<1>3. ppc'[n] = ppc[n] /\ toPlugin'[n] = toPlugin[n] /\ told'[n] = told[n]
  BY <1>1, <1>t DEF TypeOK, PluginStep, PluginRecv, PluginWritePipe, PluginSelectPipe,
     PluginReadPipe, PluginSend, PluginSendLost, EndArrives, connVars, procVars
<1>4. wire'[Conn(n)][m] = wire[Conn(n)][m]
  <2>1. CASE PluginRecv(m)
    <3>1. wire' = [wire EXCEPT ![Conn(m)][n] = @ - 1]
      BY <2>1, <1>2 DEF PluginRecv
    <3> QED
      BY <3>1, <1>1, <1>t, SpinParts DEF TypeOK
  <2>2. CASE PluginSend(m)
    <3>1. wire' = [wire EXCEPT ![Conn(m)][m] = @ + 1] /\ Running(m)
      BY <2>2, <1>t DEF PluginSend, TypeOK, Running
    <3>2. Conn(m) # Conn(n)
      BY <3>1, <1>2, SpinParts DEF Open, Holds, Conn
    <3> QED
      BY <3>1, <3>2, <1>t, SpinParts DEF TypeOK
  <2>3. CASE EndArrives(m)
    <3>1. wire' = [wire EXCEPT ![Conn(m)][m] = 0] /\ wire[Conn(n)][m] = 0
      BY <2>3, <1>2, SpinParts DEF EndArrives
    <3> QED
      BY <3>1, <1>t, SpinParts DEF TypeOK
  <2> QED
    BY <2>1, <2>2, <2>3 DEF PluginStep, PluginWritePipe, PluginSelectPipe, PluginReadPipe,
       PluginSendLost
<1> QED
  BY <1>2, <1>3, <1>4, SpinParts DEF Idle

LEMMA SpinStep ==
  ASSUME SessionInv, ToldTrue, Next, NEW n \in Node, Spinning(n), Running(n)'
  PROVE  Spinning(n)' /\ toPlugin'[n] >= toPlugin[n]
<1>1. Idle(n)
  <2>1. CASE \E m \in Node : Exit(m)
    BY <2>1, SpinExit
  <2> QED
    BY <2>1, SpinStart, SpinMain, SpinPlugin DEF Next, Crash, PluginSigPipe
<1>2. InSession(n)' /\ Conn(n)' = Conn(n)
  BY SpinParts, EndedStep
<1>3. wire'[Conn(n)'][Peer(n)] = 0
  BY <1>1, <1>2 DEF Idle
<1> QED
  BY <1>1, <1>2, <1>3 DEF Idle, Spinning, Arrived, Peer

(* Once all that a closed connection had to give has been read, the        *)
(* plugin's loop never does anything again while its program runs.         *)
THEOREM SpinningIsForever == Spec => SpinsForever
<1>1. SessionInv /\ ToldTrue /\ [Next]_vars
        => [\A n \in Node : Spinning(n) /\ Running(n)' =>
                              Spinning(n)' /\ toPlugin'[n] >= toPlugin[n]]_vars
  BY SpinStep
<1> QED
  BY <1>1, SessionAlways, ToldAlways, PTL DEF Spec, SpinsForever
=============================================================================
