----------------------------- MODULE ConnTable -----------------------------
(***************************************************************************)
(* The connection table of one plugin (generictunel.c): a static array of  *)
(* MAX_IN_CONNECTIONS slots, whose index is a connection's identifier.     *)
(* Callers keep to the rules: they remove only what they have stored and   *)
(* not removed yet, and store NULL or data just allocated: malloc() gives  *)
(* what no connection holds, what has been freed included.                 *)
(*                                                                         *)
(* The program stores one connection, when a client is built; Remove,      *)
(* Retrieve, the packet queues are there for plugins to use.  GetPacket... *)
(* fails on a socket that was never connected and changes nothing.         *)
(***************************************************************************)
EXTENDS Naturals

CONSTANTS MaxConn,  (* MAX_IN_CONNECTIONS                                  *)
          MaxInt,   (* MAXINT                                              *)
          Data,     (* the data that plugins allocate for connections      *)
          NULL

ASSUME TableAssumption ==
  /\ MaxConn \in Nat /\ MaxConn > 1
  /\ MaxInt \in Nat
  /\ NULL \notin Data

VARIABLES
  connections,      (* plugindata[pnumber].connections                     *)
  state,            (* "runs"; "overrun" once Store has looked past the    *)
                    (* array's end, where anything may follow; or "ended"  *)
  held,             (* the identifiers that callers hold                   *)
  freed,            (* the data given to free() and not allocated since    *)
  stores            (* history: the connections stored so far              *)

vars == <<connections, state, held, freed, stores>>

Slot   == 1..(MaxConn - 1)   \* slot 0 is never used: 0 means failure
Socket == {"none", "open", "failed"}
tnconnection ==
  [connectiondata : Data \cup {NULL}, sendsocket : Socket, recvsocket : Socket, active : BOOLEAN]

Init ==
  /\ connections = [i \in Slot |-> [connectiondata |-> NULL, sendsocket |-> "none",
                                    recvsocket |-> "none", active |-> FALSE]]
  /\ state = "runs"
  /\ held = {} /\ freed = {} /\ stores = 0

RetrieveConnectionInformation(i) == connections[i].connectiondata

\* What malloc() may give a caller; a slot may still point at it.
Fresh == Data \ {RetrieveConnectionInformation(i) : i \in held}

\* Mutant: the search goes on while slots are not active.
StopsAtActive(i) == i < MaxInt /\ (i = 1 \/ connections[i].active)

\* The search comes to rest at i: every slot before it is taken.
StopsAt(i) == /\ i < MaxInt
              /\ ~connections[i].active
              /\ \A j \in Slot : j < i => connections[j].active

\* Mutant: line 58 is missing.
StoreUnmarked(d) ==
  /\ state = "runs"
  /\ \E i \in Slot, send, recv \in {"open", "failed"} :
       /\ StopsAt(i)
       /\ connections' = [connections EXCEPT ![i] =
            [connectiondata |-> d, sendsocket |-> send, recvsocket |-> recv,
             active |-> connections[i].active]]
       /\ held' = held \cup {i}
  /\ freed' = freed \ {d}
  /\ stores' = stores + 1
  /\ UNCHANGED state

StoreConnectionInformation(d) ==
  /\ state = "runs"
  /\ \E i \in Slot, send, recv \in {"open", "failed"} :
       /\ StopsAt(i)
       /\ connections' = [connections EXCEPT ![i] =
            [connectiondata |-> d, sendsocket |-> send, recvsocket |-> recv, active |-> TRUE]]
       /\ held' = held \cup {i}
  /\ freed' = freed \ {d}
  /\ stores' = stores + 1
  /\ UNCHANGED state

\* No slot of the array is free, and the search goes on to MAXINT.  (Were
\* the array as long as that, Store would return 0 and change nothing.)
StoreOverruns ==
  /\ state = "runs"
  /\ MaxConn < MaxInt
  /\ \A i \in Slot : connections[i].active
  /\ state' = "overrun"
  /\ UNCHANGED <<connections, held, freed, stores>>

\* Mutant: the data is not freed.
RemoveKeepsData(i) ==
  /\ state = "runs"
  /\ i \in held
  /\ connections' = [connections EXCEPT ![i].active = TRUE]
  /\ held' = held \ {i}
  /\ UNCHANGED <<state, freed, stores>>

RemoveStoredConnectionInformation(i) ==
  /\ state = "runs"
  /\ i \in held
  /\ connections' = [connections EXCEPT ![i].active = TRUE]
  /\ freed' = freed \cup ({RetrieveConnectionInformation(i)} \ {NULL})
  /\ held' = held \ {i}
  /\ UNCHANGED <<state, stores>>

\* send() on a socket that was never connected raises SIGPIPE.
PutPacket(i) ==
  /\ state = "runs"
  /\ i \in held
  /\ "open" \in {connections[i].sendsocket, connections[i].recvsocket}
  /\ state' = "ended"
  /\ UNCHANGED <<connections, held, freed, stores>>

Next == \/ \E d \in Fresh \cup {NULL} : StoreConnectionInformation(d)
        \/ StoreOverruns
        \/ \E i \in held : RemoveStoredConnectionInformation(i) \/ PutPacket(i)

Spec == Init /\ [][Next]_vars

-----------------------------------------------------------------------------
(* Properties.                                                             *)

\* Types; callers hold slots that are taken.
TypeOK == /\ connections \in [Slot -> tnconnection]
          /\ state \in {"runs", "overrun", "ended"}
          /\ held \subseteq {i \in Slot : connections[i].active}
          /\ freed \subseteq Data
          /\ stores \in 0..(MaxConn - 1)

\* Slots are spent, not lent: the taken ones are the first that were stored,
\* whatever has been removed since (line 67), so the search runs past the
\* array at the MAX_IN_CONNECTIONS-th Store and at no earlier one.
SlotsSpent == /\ \A i \in Slot : connections[i].active <=> i <= stores
              /\ state = "overrun" => stores = MaxConn - 1

\* Remove leaves the freed pointer in its slot (lines 66-69), and malloc()
\* may hand the same address out again, so that an old identifier leads to
\* another connection's data.  Even so data is freed exactly when the one
\* connection that holds it is removed: it does not leak, is not freed
\* under its owner, and is not freed twice.
DataAccounted ==
  /\ \A i \in Slot : RetrieveConnectionInformation(i) # NULL =>
       (RetrieveConnectionInformation(i) \in freed <=>
          \A j \in held : RetrieveConnectionInformation(j) # RetrieveConnectionInformation(i))
  /\ \A i, j \in held : i # j /\ RetrieveConnectionInformation(i) # NULL =>
       RetrieveConnectionInformation(i) # RetrieveConnectionInformation(j)

\* The table is a map from the identifiers that callers hold to their data.
Map == INSTANCE IdMap WITH Value <- Data \cup {NULL},
                           map <- [i \in held |-> RetrieveConnectionInformation(i)],
                           broken <- state # "runs"
ImplementsMap == Map!Spec

\* "We did that to reuse empty holes" (line 56): Store runs out of slots
\* only when callers hold all of them.
HolesAreReused == state = "overrun" => held = Slot
=============================================================================
