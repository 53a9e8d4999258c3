---------------------------- MODULE ResourceQuota ----------------------------
(***************************************************************************)
(* What the cluster's locks promise, without a table: for each resource    *)
(* the namespaces that hold it.  A step changes what one namespace holds,  *)
(* any number of resources at once; it gives up what it likes and takes a  *)
(* resource only while fewer others hold it than its capacity.             *)
(***************************************************************************)
EXTENDS Naturals, FiniteSets

CONSTANTS Namespaces, Resources

VARIABLES holders, capacity

Init ==
    /\ holders = [r \in Resources |-> {}]
    /\ capacity \in [Resources -> Nat \ {0}]

Kept(r) == holders'[r] = holders[r]
GivenUp(r, ns) == holders'[r] = holders[r] \ {ns}
Taken(r, ns) ==
    /\ Cardinality(holders[r] \ {ns}) < capacity[r]
    /\ holders'[r] = holders[r] \cup {ns}

Change(ns) ==
    /\ \A r \in Resources : Kept(r) \/ GivenUp(r, ns) \/ Taken(r, ns)
    /\ capacity' = capacity

Next == \E ns \in Namespaces : Change(ns)

Spec == Init /\ [][Next]_<<holders, capacity>>
=============================================================================
