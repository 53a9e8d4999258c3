---------------------------- MODULE ClusterLock ----------------------------
(***************************************************************************)
(* The conductor's table of cluster resource locks: the JSON column        *)
(* server_configurations.cluster_resources of the active row, as the RPCs  *)
(* LockClusterResources and FreeClusterResources rewrite it.  Each of the  *)
(* two does its read, its decision and its write in one transaction that   *)
(* holds the row FOR UPDATE, so each is one action here.                   *)
(*                                                                         *)
(* The order of the entries only chooses which holder's name a refusal     *)
(* mentions and `acquired_at` is only shown to admins, so the list of      *)
(* locks is a set of entries.                                              *)
(***************************************************************************)
EXTENDS Naturals, FiniteSets

CONSTANTS
    Namespaces,     \* the namespace_id's of the cluster's servers
    Resources       \* the values of the enum ClusterResource

VARIABLES
    locks,          \* conductor_state.locks
    limits          \* conductor_state.limits: a limit for some of the resources

lockVars == <<locks, limits>>

Entry == [ns : Namespaces, resources : (SUBSET Resources) \ {{}}]

LimitsOK ==
    /\ DOMAIN limits \subseteq Resources
    /\ limits \in [DOMAIN limits -> Nat]

-----------------------------------------------------------------------------
\* The limit of a resource: 1 unless the limits mention it.
EffectiveLimit(r) == IF r \in DOMAIN limits THEN limits[r] ELSE 1

\* The entries of one namespace that a request for R touches.
OwnEntries(ns, R) ==
    {e \in locks : e.ns = ns /\ e.resources \cap R # {}}

\* Mistake: a namespace's own entries count against it.
AllHolders(ns, r) == {e \in locks : r \in e.resources}

\* The entries by which other namespaces hold r.
OtherHolders(ns, r) ==
    {e \in locks : e.ns # ns /\ r \in e.resources}

\* Mistake: one too many.
AboveLimit(ns, r) ==
    /\ OtherHolders(ns, r) # {}
    /\ Cardinality(OtherHolders(ns, r)) > EffectiveLimit(r)

\* A request is refused as a whole when one resource is at its limit.  The
\* refusal names a holder, so a limit of 0 refuses only while there is one.
AtLimit(ns, r) ==
    /\ OtherHolders(ns, r) # {}
    /\ Cardinality(OtherHolders(ns, r)) >= EffectiveLimit(r)

Grantable(ns, R) == \A r \in R : ~AtLimit(ns, r)

\* A grant replaces every entry of the namespace that overlaps the request,
\* whole, by one entry with exactly the requested resources.
Granted(ns, R) ==
    (locks \ OwnEntries(ns, R)) \cup {[ns |-> ns, resources |-> R]}

Freed(ns, R) == locks \ OwnEntries(ns, R)

-----------------------------------------------------------------------------
LockInit ==
    /\ locks = {}
    /\ LimitsOK

LockClusterResources(ns, R) ==
    /\ Grantable(ns, R)
    /\ locks' = Granted(ns, R)
    /\ UNCHANGED limits

FreeClusterResources(ns, R) ==
    /\ locks' = Freed(ns, R)
    /\ UNCHANGED limits

LockNext ==
    \E ns \in Namespaces, R \in (SUBSET Resources) \ {{}} :
        \/ LockClusterResources(ns, R)
        \/ FreeClusterResources(ns, R)

LockSpec == LockInit /\ [][LockNext]_lockVars

-----------------------------------------------------------------------------
LockTypeOK ==
    /\ locks \subseteq Entry
    /\ IsFiniteSet(locks)
    /\ LimitsOK

\* A namespace holds a resource by at most one entry: a grant folds away the
\* entries it overlaps (lock_cluster_resources.rs, the `retain` before the
\* `push`), so counting entries is counting namespaces.
OneEntryPerResource ==
    \A e, f \in locks :
        e.ns = f.ns /\ e.resources \cap f.resources # {} => e = f

HoldersOf(r) == {ns \in Namespaces : \E e \in locks : e.ns = ns /\ r \in e.resources}

\* What the limits mean in effect: never fewer than one holder.
Capacity(r) == IF EffectiveLimit(r) = 0 THEN 1 ELSE EffectiveLimit(r)

EntriesWith(r) == {e \in locks : r \in e.resources}

\* The table never lists more entries for a resource than its limit allows.
\* That is what AtLimit, which counts the other namespaces' entries, keeps.
EntriesWithinLimit == \A r \in Resources : Cardinality(EntriesWith(r)) <= Capacity(r)

\* No resource is ever held by more namespaces than its limit allows, through
\* any sequence of grants, re-grants and frees of overlapping sets
\* (LockClusterResources' limit check counts only the other namespaces'
\* entries and must still keep the total).
LimitRespected == \A r \in Resources : Cardinality(HoldersOf(r)) <= Capacity(r)

\* A namespace that asks again for what it holds is granted it, whatever the
\* others hold by then: "an idempotent re-lock, e.g. a retried call after a
\* dropped response" (lock_cluster_resources.rs:50-51).  Otherwise a lost
\* answer, or a run that died, would shut its own server out.
RelockIsGranted == \A e \in locks : Grantable(e.ns, e.resources)

\* The table implements a quota per resource: however requests for overlapping
\* sets are granted, folded into each other and freed, every one of them gives
\* one namespace only resources that were below their limit.
Quota == INSTANCE ResourceQuota WITH
    holders <- [r \in Resources |-> HoldersOf(r)],
    capacity <- [r \in Resources |-> Capacity(r)]
KeepsQuota == Quota!Spec
=============================================================================
