------------------------------- MODULE IdMap -------------------------------
(***************************************************************************)
(* What the connection table promises its callers ("Returns a connection   *)
(* ID", generictunel.c:51): a map from identifiers to data.  A connection  *)
(* that is stored gets an identifier no other one has at the time, keeps   *)
(* it and its data until it is removed, and disturbs no other.  The table  *)
(* may break down at any time, and then promises nothing any more.         *)
(***************************************************************************)
EXTENDS Naturals

CONSTANT Value      (* what is stored                                      *)

VARIABLES map,      (* from the identifiers in use to what is stored there *)
          broken    (* whether the table has broken down                   *)

Init == map = [i \in {} |-> 0] /\ broken = FALSE

Store(i, d) ==
  /\ ~broken
  /\ i \in Nat \ {0} /\ i \notin DOMAIN map
  /\ map' = [j \in DOMAIN map \cup {i} |-> IF j = i THEN d ELSE map[j]]
  /\ UNCHANGED broken

Remove(i) ==
  /\ ~broken
  /\ i \in DOMAIN map
  /\ map' = [j \in DOMAIN map \ {i} |-> map[j]]
  /\ UNCHANGED broken

Break == ~broken /\ broken' = TRUE /\ UNCHANGED map

Next == \/ \E i \in DOMAIN map' \ DOMAIN map, d \in Value : Store(i, d)
        \/ \E i \in DOMAIN map : Remove(i)
        \/ Break

Spec == Init /\ [][Next]_<<map, broken>>
=============================================================================
