----------------------------- MODULE ZoneChange -----------------------------
(***************************************************************************)
(* One change of the zones as a caller sees it, as a relation between the  *)
(* zones before (s) and after (t), both [Name -> ZoneData \cup {NoZone}].  *)
(* A change writes one zone, making blank zones for missing names above    *)
(* it, or removes one zone with everything below it; nothing else is       *)
(* touched but the serial of one Soa above it, which moves unless the zone *)
(* has an authoritative Soa of its own.  This is what the code keeps to;   *)
(* ZoneMgr.h:61 asks for more of a delete, the serial of the Soa above     *)
(* even then, which DeleteAsPromised (run delete_named) finds violated.    *)
(***************************************************************************)
EXTENDS ZoneTree

Closed(s) == \A n \in Name : Has(s, n) /\ Parent(n) # Root => Has(s, Parent(n))

\* The nodes and child vectors are those of a tree: a node has its parent, and a
\* vector lists the children of its node once each.
WellFormed(t) ==
    /\ Closed(t.zone)
    /\ \A p \in Name \cup {Root} :
        /\ IsInjective(t.children[p])
        /\ Range(t.children[p]) = {n \in Name : Has(t.zone, n) /\ Parent(n) = p}

AllExclusive(s) == \A n \in Name : Has(s, n) => Exclusive(s[n])

\* The zone m, not the one that is changed, has a new serial.
SerialMoved(s, t, n, m) ==
    /\ IsPrefix(m, n)
    /\ Has(s, m)
    /\ s[m].soa # NoSoa
    /\ s[m].authorative
    /\ t[m] = Bumped(s[m])

\* At most one serial moves among the zones other than n.
OneSerial(s, t, n) ==
    \A m, k \in Name \ {n} :
        t[m] # s[m] /\ t[k] # s[k] /\ Has(s, m) /\ Has(s, k)
            /\ ~IsPrefix(n, m) /\ ~IsPrefix(n, k) => m = k

Written(s, t, n) ==
    /\ Has(t, n)
    /\ Exclusive(t[n])
    /\ \E m \in Authorities(t, n) : m = n \/ SerialMoved(s, t, n, m)
    /\ \A m \in Name \ {n} :
        \/ t[m] = s[m]
        \/ IsPrefix(m, n) /\ s[m] = NoZone /\ t[m] = Blank
        \/ SerialMoved(s, t, n, m)
    /\ OneSerial(s, t, n)

\* The serial that moves is that of the zone's own Soa, which goes with it, if it has one.
Removed(s, t, n) ==
    /\ Has(s, n)
    /\ Parent(n) # Root
    /\ \E m \in Authorities(s, n) : m = n \/ SerialMoved(s, t, n, m)
    /\ \A m \in Name :
        IF IsPrefix(n, m) THEN t[m] = NoZone
        ELSE t[m] = s[m] \/ SerialMoved(s, t, n, m)
    /\ OneSerial(s, t, n)

\* The store may go from s to t in one change.
Change(s, t) ==
    /\ Closed(t)
    /\ \E n \in Name : Written(s, t, n) \/ Removed(s, t, n)
=============================================================================
