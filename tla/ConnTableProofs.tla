-------------------------- MODULE ConnTableProofs --------------------------
(* Proofs about ConnTable, for every number of slots and any data.         *)
EXTENDS ConnTable, TLAPS

Inv == TypeOK /\ SlotsSpent /\ DataAccounted

-----------------------------------------------------------------------------
(* One action at a time.                                                   *)

LEMMA InvInit == Init => Inv
<1> SUFFICES ASSUME Init PROVE Inv
  OBVIOUS
<1>1. TypeOK
  BY TableAssumption DEF Init, TypeOK, tnconnection, Socket, Slot
<1>2. SlotsSpent
  BY TableAssumption DEF Init, SlotsSpent, Slot
<1>3. DataAccounted
  BY DEF Init, DataAccounted, RetrieveConnectionInformation
<1> QED
  BY <1>1, <1>2, <1>3 DEF Inv

\* The k-th Store takes slot k.
LEMMA StopsAtNext ==
  ASSUME TypeOK, SlotsSpent, NEW i \in Slot, StopsAt(i)
  PROVE  i = stores + 1
<1>1. i \in Nat /\ stores \in Nat /\ i >= 1 /\ i > stores
  BY TableAssumption DEF TypeOK, SlotsSpent, StopsAt, Slot
<1>2. ASSUME i # 1 PROVE i - 1 <= stores
  <2>1. i - 1 \in Slot /\ i - 1 < i
    BY <1>1, <1>2, TableAssumption DEF Slot
  <2> QED
    BY <2>1 DEF SlotsSpent, StopsAt
<1> QED
  BY <1>1, <1>2

LEMMA InvStore ==
  ASSUME Inv, NEW d \in Fresh \cup {NULL}, StoreConnectionInformation(d)
  PROVE  Inv'
<1>1. PICK i \in Slot, send \in {"open", "failed"}, recv \in {"open", "failed"} :
        /\ StopsAt(i)
        /\ connections' = [connections EXCEPT ![i] =
             [connectiondata |-> d, sendsocket |-> send, recvsocket |-> recv, active |-> TRUE]]
        /\ held' = held \cup {i}
  BY DEF StoreConnectionInformation
<1>2. i = stores + 1
  BY <1>1, StopsAtNext DEF Inv
<1>3. d \in Data \cup {NULL}
  BY DEF Fresh
<1>4. /\ connections'[i] = [connectiondata |-> d, sendsocket |-> send,
                            recvsocket |-> recv, active |-> TRUE]
      /\ \A j \in Slot : j # i => connections'[j] = connections[j]
  BY <1>1 DEF Inv, TypeOK
<1>5. state' = state /\ freed' = freed \ {d} /\ stores' = stores + 1 /\ state = "runs"
  BY DEF StoreConnectionInformation
<1>6. TypeOK'
  <2>1. connections' \in [Slot -> tnconnection]
    BY <1>1, <1>3 DEF Inv, TypeOK, tnconnection, Socket
  <2>2. held' \subseteq {j \in Slot : connections'[j].active}
    BY <1>1, <1>4 DEF Inv, TypeOK
  <2>3. stores' \in 0..(MaxConn - 1)
    BY <1>2, <1>5, TableAssumption DEF Inv, TypeOK, Slot
  <2> QED
    BY <2>1, <2>2, <2>3, <1>5 DEF Inv, TypeOK
<1>7. SlotsSpent'
  <2>1. ASSUME NEW j \in Slot PROVE connections'[j].active <=> j <= stores'
    <3>1. CASE j = i
      BY <3>1, <1>2, <1>4, <1>5 DEF Slot
    <3>2. CASE j # i
      <4>1. connections[j].active <=> j <= stores
        BY DEF Inv, SlotsSpent
      <4>2. j \in Nat /\ stores \in Nat
        BY TableAssumption DEF Inv, TypeOK, Slot
      <4> QED
        BY <3>2, <1>2, <1>4, <1>5, <4>1, <4>2
    <3> QED
      BY <3>1, <3>2
  <2> QED
    BY <2>1, <1>5 DEF SlotsSpent
<1>8. /\ \A j \in Slot : j # i => RetrieveConnectionInformation(j)' = RetrieveConnectionInformation(j)
      /\ RetrieveConnectionInformation(i)' = d
  BY <1>4 DEF RetrieveConnectionInformation
<1>9. /\ d # NULL => \A j \in held : RetrieveConnectionInformation(j) # d
      /\ i \notin held /\ held \subseteq Slot
  BY <1>1 DEF Fresh, StopsAt, Inv, TypeOK
<1>10. ASSUME NEW j \in Slot, RetrieveConnectionInformation(j)' # NULL
       PROVE  RetrieveConnectionInformation(j)' \in freed' <=>
                \A k \in held' : RetrieveConnectionInformation(k)' # RetrieveConnectionInformation(j)'
  <2>1. CASE RetrieveConnectionInformation(j)' = d
    \* The new connection holds it; before, nobody did.
    BY <2>1, <1>1, <1>5, <1>8
  <2>2. CASE RetrieveConnectionInformation(j)' # d
    <3>1. j # i /\ RetrieveConnectionInformation(j)' = RetrieveConnectionInformation(j)
      BY <2>2, <1>8
    <3>2. RetrieveConnectionInformation(j)' \in freed' <=> RetrieveConnectionInformation(j) \in freed
      BY <2>2, <3>1, <1>5
    <3>3. (\A k \in held' : RetrieveConnectionInformation(k)' # RetrieveConnectionInformation(j)') <=>
          (\A k \in held : RetrieveConnectionInformation(k) # RetrieveConnectionInformation(j))
      BY <2>2, <3>1, <1>1, <1>8, <1>9
    <3> QED
      BY <1>10, <3>1, <3>2, <3>3 DEF Inv, DataAccounted
  <2> QED
    BY <2>1, <2>2
<1>11. ASSUME NEW j \in held', NEW k \in held', j # k, RetrieveConnectionInformation(j)' # NULL
       PROVE  RetrieveConnectionInformation(j)' # RetrieveConnectionInformation(k)'
  <2>1. CASE j = i
    BY <2>1, <1>11, <1>1, <1>8, <1>9
  <2>2. CASE k = i
    BY <2>2, <1>11, <1>1, <1>8, <1>9
  <2>3. CASE j # i /\ k # i
    BY <2>3, <1>11, <1>1, <1>8, <1>9 DEF Inv, DataAccounted
  <2> QED
    BY <2>1, <2>2, <2>3
<1>12. DataAccounted'
  BY <1>10, <1>11 DEF DataAccounted
<1> QED
  BY <1>6, <1>7, <1>12 DEF Inv

LEMMA InvRemove ==
  ASSUME Inv, NEW i \in held, RemoveStoredConnectionInformation(i)
  PROVE  Inv'
<1>1. i \in Slot /\ connections[i].active
  BY DEF Inv, TypeOK
<1>2. connections[i] \in tnconnection
  BY <1>1 DEF Inv, TypeOK
<1>3. connections' = connections
  <2>1. [connections[i] EXCEPT !.active = TRUE] = connections[i]
    BY <1>1, <1>2 DEF tnconnection
  <2>2. connections' = [connections EXCEPT ![i] = [connections[i] EXCEPT !.active = TRUE]]
    BY DEF RemoveStoredConnectionInformation
  <2> QED
    BY <2>1, <2>2, <1>1 DEF Inv, TypeOK
<1>4. /\ freed' = freed \cup ({RetrieveConnectionInformation(i)} \ {NULL})
      /\ held' = held \ {i}
      /\ UNCHANGED <<state, stores>>
  BY DEF RemoveStoredConnectionInformation
<1>5. TypeOK'
  <2>1. freed' \subseteq Data
    BY <1>2, <1>4 DEF Inv, TypeOK, tnconnection, RetrieveConnectionInformation
  <2> QED
    BY <2>1, <1>3, <1>4 DEF Inv, TypeOK
<1>6. SlotsSpent'
  BY <1>3, <1>4 DEF Inv, SlotsSpent
<1>7. \A j \in Slot : RetrieveConnectionInformation(j)' = RetrieveConnectionInformation(j)
  BY <1>3 DEF RetrieveConnectionInformation
<1>8. DataAccounted'
  <2> DEFINE data(j) == RetrieveConnectionInformation(j)
  <2>1. /\ \A j \in Slot : data(j) # NULL => (data(j) \in freed <=> \A k \in held : data(k) # data(j))
        /\ \A j, k \in held : j # k /\ data(j) # NULL => data(j) # data(k)
    BY DEF Inv, DataAccounted
  <2>2. \A j \in Slot : data(j)' = data(j)
    BY <1>7
  <2>3. held \subseteq Slot /\ freed' = freed \cup ({data(i)} \ {NULL}) /\ held' = held \ {i}
    BY <1>4 DEF Inv, TypeOK
  <2> HIDE DEF data
  <2>4. \A j \in Slot : data(j) # NULL =>
          (data(j) \in freed' <=> \A k \in held' : data(k) # data(j))
    BY <1>1, <2>1, <2>3
  <2>5. \A j \in Slot : data(j)' # NULL =>
          (data(j)' \in freed' <=> \A k \in held' : data(k)' # data(j)')
    BY <2>2, <2>3, <2>4
  <2>6. \A j, k \in held' : j # k /\ data(j)' # NULL => data(j)' # data(k)'
    BY <2>1, <2>2, <2>3
  <2> QED
    BY <2>5, <2>6 DEF DataAccounted, data
<1> QED
  BY <1>5, <1>6, <1>8 DEF Inv

\* The steps that end the table's life change nothing else.
LEMMA InvEnd ==
  ASSUME Inv, StoreOverruns \/ \E i \in held : PutPacket(i)
  PROVE  Inv'
<1>1. /\ UNCHANGED <<connections, held, freed, stores>>
      /\ state' \in {"overrun", "ended"}
  BY DEF StoreOverruns, PutPacket
<1>2. state' = "overrun" => stores = MaxConn - 1
  <2>1. ASSUME StoreOverruns PROVE stores = MaxConn - 1
    <3>1. MaxConn - 1 \in Slot
      BY TableAssumption DEF Slot
    <3>2. MaxConn - 1 <= stores /\ stores \in 0..(MaxConn - 1)
      BY <2>1, <3>1 DEF Inv, TypeOK, SlotsSpent, StoreOverruns
    <3> QED
      BY <3>2, TableAssumption
  <2> QED
    BY <2>1 DEF PutPacket
<1> QED
  BY <1>1, <1>2 DEF Inv, TypeOK, SlotsSpent, DataAccounted, RetrieveConnectionInformation

LEMMA InvNext == Inv /\ [Next]_vars => Inv'
<1> SUFFICES ASSUME Inv, [Next]_vars PROVE Inv'
  OBVIOUS
<1>1. ASSUME NEW d \in Fresh \cup {NULL}, StoreConnectionInformation(d) PROVE Inv'
  BY <1>1, InvStore
<1>2. CASE StoreOverruns
  BY <1>2, InvEnd
<1>3. ASSUME NEW i \in held, RemoveStoredConnectionInformation(i) PROVE Inv'
  BY <1>3, InvRemove
<1>4. ASSUME NEW i \in held, PutPacket(i) PROVE Inv'
  BY <1>4, InvEnd
<1>5. CASE UNCHANGED vars
  BY <1>5 DEF Inv, vars, TypeOK, SlotsSpent, DataAccounted, RetrieveConnectionInformation
<1> QED
  BY <1>1, <1>2, <1>3, <1>4, <1>5 DEF Next

THEOREM InvAlways == Spec => []Inv
  BY InvInit, InvNext, PTL DEF Spec

\* Types: callers hold slots that are taken.
THEOREM TypeCorrect == Spec => []TypeOK
<1>1. Inv => TypeOK
  BY DEF Inv
<1> QED
  BY <1>1, InvAlways, PTL

\* Store takes each slot once, and looks past the array when all are spent.
THEOREM SlotsAreSpent == Spec => []SlotsSpent
<1>1. Inv => SlotsSpent
  BY DEF Inv
<1> QED
  BY <1>1, InvAlways, PTL

\* Data is freed when the one connection that holds it is removed, and
\* stays so until it is allocated again, although old identifiers may lead
\* to it.
THEOREM DataIsAccounted == Spec => []DataAccounted
<1>1. Inv => DataAccounted
  BY DEF Inv
<1> QED
  BY <1>1, InvAlways, PTL

-----------------------------------------------------------------------------
(* Refinement of the map.                                                  *)

MapNow == [i \in held |-> RetrieveConnectionInformation(i)]

LEMMA MapInit == Init => Map!Init
  BY DEF Init, Map!Init

LEMMA StoreMaps ==
  ASSUME Inv, NEW d \in Fresh \cup {NULL}, StoreConnectionInformation(d)
  PROVE  Map!Next
<1>1. PICK i \in Slot, send \in {"open", "failed"}, recv \in {"open", "failed"} :
        /\ StopsAt(i)
        /\ connections' = [connections EXCEPT ![i] =
             [connectiondata |-> d, sendsocket |-> send, recvsocket |-> recv, active |-> TRUE]]
        /\ held' = held \cup {i}
  BY DEF StoreConnectionInformation
<1>2. i \notin held /\ i \in Nat \ {0}
  BY <1>1, TableAssumption DEF Inv, TypeOK, StopsAt, Slot
<1>3. held \subseteq Slot
  BY DEF Inv, TypeOK
<1>4. MapNow' = [j \in held \cup {i} |-> IF j = i THEN d ELSE MapNow[j]]
  <2>1. ASSUME NEW j \in held \cup {i}
        PROVE  RetrieveConnectionInformation(j)' = IF j = i THEN d ELSE MapNow[j]
    BY <1>1, <1>3 DEF RetrieveConnectionInformation, MapNow, Inv, TypeOK
  <2> QED
    BY <2>1, <1>1 DEF MapNow
<1>5. DOMAIN MapNow = held /\ DOMAIN MapNow' = held'
  BY DEF MapNow
<1>6. d \in Data \cup {NULL} /\ state = "runs" /\ state' = state
  BY DEF Fresh, StoreConnectionInformation
<1>7. Map!Store(i, d)
  BY <1>2, <1>4, <1>5, <1>6 DEF Map!Store, MapNow
<1>8. i \in DOMAIN MapNow' \ DOMAIN MapNow
  BY <1>1, <1>2, <1>5
<1> QED
  BY <1>6, <1>7, <1>8 DEF Map!Next, MapNow

LEMMA RemoveMaps ==
  ASSUME Inv, NEW i \in held, RemoveStoredConnectionInformation(i)
  PROVE  Map!Next
<1>1. held' = held \ {i} /\ held \subseteq Slot
  BY DEF RemoveStoredConnectionInformation, Inv, TypeOK
<1>2. MapNow' = [j \in held \ {i} |-> MapNow[j]]
  <2>1. ASSUME NEW j \in held \ {i}
        PROVE  RetrieveConnectionInformation(j)' = MapNow[j]
    BY <1>1 DEF RemoveStoredConnectionInformation, RetrieveConnectionInformation, MapNow, Inv, TypeOK
  <2> QED
    BY <2>1, <1>1 DEF MapNow
<1>3. DOMAIN MapNow = held
  BY DEF MapNow
<1>4. state = "runs" /\ state' = state
  BY DEF RemoveStoredConnectionInformation
<1>5. Map!Remove(i)
  BY <1>2, <1>3, <1>4 DEF Map!Remove, MapNow
<1> QED
  BY <1>3, <1>5 DEF Map!Next, MapNow

LEMMA EndMaps ==
  ASSUME StoreOverruns \/ \E i \in held : PutPacket(i)
  PROVE  Map!Next
<1>1. UNCHANGED <<connections, held>> /\ state = "runs" /\ state' # "runs"
  BY DEF StoreOverruns, PutPacket
<1>2. UNCHANGED MapNow
  BY <1>1 DEF MapNow, RetrieveConnectionInformation
<1>3. Map!Break
  BY <1>1, <1>2 DEF Map!Break, MapNow
<1> QED
  BY <1>3 DEF Map!Next

\* The table implements a map from identifiers to data.
THEOREM TableImplementsMap == Spec => ImplementsMap
<1>1. Inv /\ [Next]_vars => [Map!Next]_<<MapNow, state # "runs">>
  <2> SUFFICES ASSUME Inv, [Next]_vars PROVE [Map!Next]_<<MapNow, state # "runs">>
    OBVIOUS
  <2>1. ASSUME NEW d \in Fresh \cup {NULL}, StoreConnectionInformation(d) PROVE Map!Next
    BY <2>1, StoreMaps
  <2>2. ASSUME NEW i \in held, RemoveStoredConnectionInformation(i) PROVE Map!Next
    BY <2>2, RemoveMaps
  <2>3. CASE StoreOverruns \/ \E i \in held : PutPacket(i)
    BY <2>3, EndMaps
  <2>4. CASE UNCHANGED vars
    BY <2>4 DEF vars, MapNow, RetrieveConnectionInformation
  <2> QED
    BY <2>1, <2>2, <2>3, <2>4 DEF Next
<1>2. Inv /\ [Next]_vars =>
        [Map!Next]_<<[i \in held |-> RetrieveConnectionInformation(i)], state # "runs">>
  BY <1>1 DEF MapNow
<1> QED
  BY <1>2, MapInit, InvAlways, PTL DEF Spec, ImplementsMap, Map!Spec
=============================================================================
