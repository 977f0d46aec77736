----------------------------- MODULE ZoneStore ------------------------------
(***************************************************************************)
(* What callers of the zone manager can rely on, without threads, copies   *)
(* or a disk: the zones start as a tree and change one domain at a time,   *)
(* in the way of ZoneChange.                                               *)
(***************************************************************************)
EXTENDS ZoneChange

VARIABLE store   \* [Name -> ZoneData \cup {NoZone}]

Init == Closed(store)

Next == Change(store, store')

Spec == Init /\ [][Next]_store
=============================================================================
