-------------------------- MODULE ClusterLockProofs --------------------------
(***************************************************************************)
(* That the conductor's table respects the limits, for any namespaces,     *)
(* resources and limits.                                                   *)
(*                                                                         *)
(* The inductive invariant counts entries, not namespaces: a grant for R   *)
(* leaves, for each r of R, the new entry and those of other namespaces,   *)
(* of which AtLimit has seen fewer than the limit; for other resources it  *)
(* adds nothing.  Namespaces are then counted by a surjection from the     *)
(* entries, and a re-lock is granted because the others' entries are all   *)
(* entries but the holder's own.                                           *)
(***************************************************************************)
EXTENDS ClusterLock, FunctionTheorems, FiniteSetTheorems, TLAPS

LockInv == LockTypeOK /\ OneEntryPerResource /\ EntriesWithinLimit

-----------------------------------------------------------------------------
\* A capacity is at least one, and at least the limit.
LEMMA CapacityType ==
    ASSUME LimitsOK, NEW r \in Resources
    PROVE  /\ EffectiveLimit(r) \in Nat
           /\ Capacity(r) \in Nat
           /\ Capacity(r) >= 1
           /\ Capacity(r) >= EffectiveLimit(r)
           /\ EffectiveLimit(r) >= 1 => Capacity(r) = EffectiveLimit(r)
<1>1. EffectiveLimit(r) \in Nat
    BY DEF EffectiveLimit, LimitsOK
<1> QED
    BY <1>1 DEF Capacity

\* A part of the table is finite, and counts no more than what it is part of.
LEMMA PartOfTable ==
    ASSUME LockTypeOK, NEW S, NEW T, S \subseteq T, T \subseteq locks
    PROVE  /\ IsFiniteSet(S) /\ IsFiniteSet(T)
           /\ Cardinality(S) \in Nat /\ Cardinality(T) \in Nat
           /\ Cardinality(S) <= Cardinality(T)
<1>1. IsFiniteSet(T)
    BY FS_Subset DEF LockTypeOK
<1>2. IsFiniteSet(S) /\ Cardinality(S) <= Cardinality(T)
    BY <1>1, FS_Subset
<1> QED
    BY <1>1, <1>2, FS_CardinalityType

\* Where a request is not at the limit there is room for one entry more.
LEMMA RoomForOne ==
    ASSUME LockTypeOK, NEW ns, NEW r \in Resources, ~AtLimit(ns, r)
    PROVE  Cardinality(OtherHolders(ns, r)) + 1 <= Capacity(r)
<1>0. /\ OtherHolders(ns, r) \subseteq locks
      /\ LimitsOK
    BY DEF OtherHolders, LockTypeOK
<1>1. Cardinality(OtherHolders(ns, r)) \in Nat
    BY <1>0, PartOfTable
<1>2. CASE OtherHolders(ns, r) = {}
    BY <1>0, <1>2, CapacityType, FS_EmptySet
<1>3. CASE OtherHolders(ns, r) # {}
    <2>1. ~(Cardinality(OtherHolders(ns, r)) >= EffectiveLimit(r))
        BY <1>3 DEF AtLimit
    <2> QED
        BY <1>0, <1>1, <2>1, CapacityType
<1> QED
    BY <1>2, <1>3

-----------------------------------------------------------------------------
LEMMA InitLockInv == LockInit => LockInv
<1> SUFFICES ASSUME LockInit PROVE LockInv
    OBVIOUS
<1>1. locks = {} /\ LimitsOK
    BY DEF LockInit
<1>2. LockTypeOK
    BY <1>1, FS_EmptySet DEF LockTypeOK
<1>3. OneEntryPerResource
    BY <1>1 DEF OneEntryPerResource
<1>4. EntriesWithinLimit
    <2> SUFFICES ASSUME NEW r \in Resources
                 PROVE  Cardinality(EntriesWith(r)) <= Capacity(r)
        BY DEF EntriesWithinLimit
    <2>1. EntriesWith(r) = {}
        BY <1>1 DEF EntriesWith
    <2> QED
        BY <1>1, <2>1, CapacityType, FS_EmptySet
<1> QED
    BY <1>2, <1>3, <1>4 DEF LockInv

LEMMA LockKeepsLockInv ==
    ASSUME LockInv, NEW ns \in Namespaces, NEW R \in (SUBSET Resources) \ {{}},
           LockClusterResources(ns, R)
    PROVE  LockInv'
<1> DEFINE new == [ns |-> ns, resources |-> R]
           kept == locks \ OwnEntries(ns, R)
<1>1. /\ Grantable(ns, R)
      /\ locks' = kept \cup {new}
      /\ limits' = limits
    BY DEF LockClusterResources, Granted
<1>2. kept \subseteq locks
    OBVIOUS
<1>3. LockTypeOK'
    <2>1. new \in Entry
        BY DEF Entry
    <2>2. IsFiniteSet(kept)
        BY <1>2, PartOfTable DEF LockInv
    <2>3. IsFiniteSet(kept \cup {new})
        BY <2>2, FS_AddElement
    <2>4. locks' \subseteq Entry
        BY <1>1, <2>1 DEF LockInv, LockTypeOK
    <2>5. LimitsOK'
        BY <1>1 DEF LockInv, LockTypeOK, LimitsOK
    <2> QED
        BY <1>1, <2>3, <2>4, <2>5 DEF LockTypeOK
<1>4. OneEntryPerResource'
    <2>1. \A e \in kept : e.ns = ns => e.resources \cap R = {}
        BY DEF OwnEntries
    <2>2. \A e, f \in kept : e.ns = f.ns /\ e.resources \cap f.resources # {} => e = f
        BY DEF LockInv, OneEntryPerResource
    <2>3. new.ns = ns /\ new.resources = R
        OBVIOUS
    <2> HIDE DEF new, kept
    <2> QED
        BY <1>1, <2>1, <2>2, <2>3 DEF OneEntryPerResource
<1>5. EntriesWithinLimit'
    <2> SUFFICES ASSUME NEW r \in Resources
                 PROVE  Cardinality(EntriesWith(r)') <= Capacity(r)
        BY <1>1 DEF EntriesWithinLimit, Capacity, EffectiveLimit
    <2>1. CASE r \in R
        <3> DEFINE others == OtherHolders(ns, r)
        <3>1. EntriesWith(r)' \subseteq others \cup {new}
            BY <1>1, <2>1 DEF EntriesWith, OtherHolders, OwnEntries
        <3>2. IsFiniteSet(others) /\ Cardinality(others) \in Nat
            BY PartOfTable DEF LockInv, OtherHolders
        <3>3. /\ IsFiniteSet(others \cup {new})
              /\ Cardinality(others \cup {new}) <= Cardinality(others) + 1
            <4> HIDE DEF new, others
            <4>1. /\ IsFiniteSet(others \cup {new})
                  /\ Cardinality(others \cup {new}) =
                        IF new \in others THEN Cardinality(others)
                                         ELSE Cardinality(others) + 1
                BY <3>2, FS_AddElement, Zenon
            <4> QED
                BY <3>2, <4>1
        <3>4. /\ Cardinality(EntriesWith(r)') <= Cardinality(others \cup {new})
              /\ Cardinality(EntriesWith(r)') \in Nat
            BY <3>1, <3>3, FS_Subset, FS_CardinalityType
        <3>5. Cardinality(others) + 1 <= Capacity(r)
            BY <1>1, <2>1, RoomForOne DEF LockInv, Grantable
        <3>6. Cardinality(others \cup {new}) \in Nat /\ Capacity(r) \in Nat
            BY <3>3, FS_CardinalityType, CapacityType DEF LockInv, LockTypeOK
        <3> HIDE DEF new, others
        <3> QED
            BY <3>2, <3>3, <3>4, <3>5, <3>6
    <2>2. CASE r \notin R
        <3>1. EntriesWith(r)' \subseteq EntriesWith(r) /\ EntriesWith(r) \subseteq locks
            BY <1>1, <2>2 DEF EntriesWith
        <3>2. /\ Cardinality(EntriesWith(r)') \in Nat
              /\ Cardinality(EntriesWith(r)) \in Nat
              /\ Cardinality(EntriesWith(r)') <= Cardinality(EntriesWith(r))
            BY <3>1, PartOfTable DEF LockInv
        <3>3. Cardinality(EntriesWith(r)) <= Capacity(r) /\ Capacity(r) \in Nat
            BY CapacityType DEF LockInv, LockTypeOK, EntriesWithinLimit
        <3> QED
            BY <3>2, <3>3
    <2> QED
        BY <2>1, <2>2
<1> QED
    BY <1>3, <1>4, <1>5 DEF LockInv

LEMMA FreeKeepsLockInv ==
    ASSUME LockInv, NEW ns \in Namespaces, NEW R \in (SUBSET Resources) \ {{}},
           FreeClusterResources(ns, R)
    PROVE  LockInv'
<1>1. locks' \subseteq locks /\ limits' = limits
    BY DEF FreeClusterResources, Freed
<1>2. LockTypeOK'
    <2>1. IsFiniteSet(locks')
        BY <1>1, PartOfTable DEF LockInv
    <2> QED
        BY <1>1, <2>1 DEF LockInv, LockTypeOK, LimitsOK
<1>3. OneEntryPerResource'
    BY <1>1 DEF LockInv, OneEntryPerResource
<1>4. EntriesWithinLimit'
    <2> SUFFICES ASSUME NEW r \in Resources
                 PROVE  Cardinality(EntriesWith(r)') <= Capacity(r)
        BY <1>1 DEF EntriesWithinLimit, Capacity, EffectiveLimit
    <2>1. EntriesWith(r)' \subseteq EntriesWith(r) /\ EntriesWith(r) \subseteq locks
        BY <1>1 DEF EntriesWith
    <2>2. /\ Cardinality(EntriesWith(r)') \in Nat
          /\ Cardinality(EntriesWith(r)) \in Nat
          /\ Cardinality(EntriesWith(r)') <= Cardinality(EntriesWith(r))
        BY <2>1, PartOfTable DEF LockInv
    <2>3. Cardinality(EntriesWith(r)) <= Capacity(r) /\ Capacity(r) \in Nat
        BY CapacityType DEF LockInv, LockTypeOK, EntriesWithinLimit
    <2> QED
        BY <2>2, <2>3
<1> QED
    BY <1>2, <1>3, <1>4 DEF LockInv

\* The table stays well formed through every Lock and Free: one entry for what
\* a namespace holds of a resource, and no more entries than the limit.
THEOREM LockInvariant == LockSpec => []LockInv
<1>1. LockInit => LockInv
    BY InitLockInv
<1>2. LockInv /\ [LockNext]_lockVars => LockInv'
    <2> SUFFICES ASSUME LockInv, [LockNext]_lockVars PROVE LockInv'
        OBVIOUS
    <2>1. ASSUME NEW ns \in Namespaces, NEW R \in (SUBSET Resources) \ {{}},
                 LockClusterResources(ns, R)
          PROVE  LockInv'
        BY <2>1, LockKeepsLockInv
    <2>2. ASSUME NEW ns \in Namespaces, NEW R \in (SUBSET Resources) \ {{}},
                 FreeClusterResources(ns, R)
          PROVE  LockInv'
        BY <2>2, FreeKeepsLockInv
    <2>3. CASE UNCHANGED lockVars
        BY <2>3 DEF lockVars, LockInv, LockTypeOK, LimitsOK, OneEntryPerResource,
                    EntriesWithinLimit, EntriesWith, Capacity, EffectiveLimit
    <2> QED
        BY <2>1, <2>2, <2>3 DEF LockNext
<1> QED
    BY <1>1, <1>2, PTL DEF LockSpec

\* A namespace never holds a resource by two entries, so that counting entries
\* counts namespaces (the `retain` of lock_cluster_resources.rs).
THEOREM EntriesStayApart == LockSpec => []OneEntryPerResource
BY LockInvariant, PTL DEF LockInv

-----------------------------------------------------------------------------
\* The namespaces that hold a resource are no more than its entries.
LEMMA HoldersAreEntries ==
    ASSUME LockTypeOK, NEW r \in Resources
    PROVE  /\ IsFiniteSet(HoldersOf(r))
           /\ Cardinality(HoldersOf(r)) \in Nat
           /\ Cardinality(HoldersOf(r)) <= Cardinality(EntriesWith(r))
<1> DEFINE f == [e \in EntriesWith(r) |-> e.ns]
<1>1. IsFiniteSet(EntriesWith(r))
    BY PartOfTable DEF EntriesWith
<1>2. f \in Surjection(EntriesWith(r), HoldersOf(r))
    <2>1. \A e \in EntriesWith(r) : f[e] \in HoldersOf(r)
        BY DEF EntriesWith, HoldersOf, LockTypeOK, Entry
    <2>2. \A ns \in HoldersOf(r) : \E e \in EntriesWith(r) : f[e] = ns
        BY DEF EntriesWith, HoldersOf
    <2>3. f \in [EntriesWith(r) -> HoldersOf(r)]
        BY <2>1
    <2> HIDE DEF f
    <2> QED
        BY <2>2, <2>3, Fun_IsSurj
<1> HIDE DEF f
<1>3. /\ IsFiniteSet(HoldersOf(r))
      /\ Cardinality(HoldersOf(r)) <= Cardinality(EntriesWith(r))
    BY <1>1, <1>2, FS_Surjection
<1> QED
    BY <1>3, FS_CardinalityType

\* However Locks and Frees of overlapping sets follow each other, a resource
\* is never held by more namespaces than its limit (lock_cluster_resources.rs).
THEOREM LimitIsRespected == LockSpec => []LimitRespected
<1>1. LockInv => LimitRespected
    <2> SUFFICES ASSUME LockInv, NEW r \in Resources
                 PROVE  Cardinality(HoldersOf(r)) <= Capacity(r)
        BY DEF LimitRespected
    <2>1. /\ Cardinality(HoldersOf(r)) \in Nat
          /\ Cardinality(HoldersOf(r)) <= Cardinality(EntriesWith(r))
        BY HoldersAreEntries DEF LockInv
    <2>2. Cardinality(EntriesWith(r)) \in Nat
        BY PartOfTable DEF LockInv, EntriesWith
    <2>3. Cardinality(EntriesWith(r)) <= Capacity(r) /\ Capacity(r) \in Nat
        BY CapacityType DEF LockInv, LockTypeOK, EntriesWithinLimit
    <2> QED
        BY <2>1, <2>2, <2>3
<1> QED
    BY <1>1, LockInvariant, PTL

\* A namespace is always granted again what it holds, so a retried Lock whose
\* answer was lost succeeds (lock_cluster_resources.rs:50-51).
THEOREM RelockSucceeds == LockSpec => []RelockIsGranted
<1>1. LockInv => RelockIsGranted
    <2> SUFFICES ASSUME LockInv, NEW e \in locks, NEW r \in e.resources,
                        AtLimit(e.ns, r)
                 PROVE  FALSE
        BY DEF RelockIsGranted, Grantable
    <2> DEFINE others == OtherHolders(e.ns, r)
    <2>1. r \in Resources /\ LimitsOK
        BY DEF LockInv, LockTypeOK, Entry
    <2>2. /\ EntriesWith(r) \subseteq locks /\ e \in EntriesWith(r)
          /\ others \subseteq EntriesWith(r) \ {e}
        BY DEF EntriesWith, OtherHolders
    <2>3. IsFiniteSet(EntriesWith(r)) /\ Cardinality(EntriesWith(r)) \in Nat
        BY <2>2, PartOfTable DEF LockInv
    <2>4. /\ IsFiniteSet(EntriesWith(r) \ {e})
          /\ Cardinality(EntriesWith(r) \ {e}) = Cardinality(EntriesWith(r)) - 1
        BY <2>2, <2>3, FS_RemoveElement
    <2>5. /\ IsFiniteSet(others) /\ Cardinality(others) \in Nat
          /\ Cardinality(others) <= Cardinality(EntriesWith(r)) - 1
        BY <2>2, <2>4, FS_Subset, FS_CardinalityType
    <2>6. Cardinality(EntriesWith(r)) <= Capacity(r)
        BY <2>1 DEF LockInv, EntriesWithinLimit
    <2>7. Cardinality(others) # 0 /\ Cardinality(others) >= EffectiveLimit(r)
        BY <2>5, FS_EmptySet DEF AtLimit
    <2> HIDE DEF others
    <2> QED
        BY <2>1, <2>3, <2>5, <2>6, <2>7, CapacityType DEF Capacity
<1> QED
    BY <1>1, LockInvariant, PTL

-----------------------------------------------------------------------------
\* The other namespaces that hold a resource are no more than their entries.
LEMMA OthersAreEntries ==
    ASSUME LockTypeOK, NEW ns, NEW r \in Resources
    PROVE  Cardinality(HoldersOf(r) \ {ns}) <= Cardinality(OtherHolders(ns, r))
<1> DEFINE f == [e \in OtherHolders(ns, r) |-> e.ns]
           others == HoldersOf(r) \ {ns}
<1>1. IsFiniteSet(OtherHolders(ns, r))
    BY PartOfTable DEF OtherHolders
<1>2. f \in Surjection(OtherHolders(ns, r), others)
    <2>1. \A e \in OtherHolders(ns, r) : f[e] \in others
        BY DEF OtherHolders, HoldersOf, LockTypeOK, Entry
    <2>2. \A x \in others : \E e \in OtherHolders(ns, r) : f[e] = x
        BY DEF OtherHolders, HoldersOf
    <2>3. f \in [OtherHolders(ns, r) -> others]
        BY <2>1
    <2> HIDE DEF f, others
    <2> QED
        BY <2>2, <2>3, Fun_IsSurj
<1> HIDE DEF f
<1> QED
    BY <1>1, <1>2, FS_Surjection

\* What is granted was below its limit.
LEMMA GrantTakes ==
    ASSUME LockInv, NEW ns \in Namespaces, NEW R \in (SUBSET Resources) \ {{}},
           LockClusterResources(ns, R), NEW r \in R
    PROVE  /\ HoldersOf(r)' = HoldersOf(r) \cup {ns}
           /\ Cardinality(HoldersOf(r) \ {ns}) < Capacity(r)
<1>1. locks' = (locks \ OwnEntries(ns, R)) \cup {[ns |-> ns, resources |-> R]}
    BY DEF LockClusterResources, Granted
<1>2. HoldersOf(r)' = HoldersOf(r) \cup {ns}
    <2>1. [ns |-> ns, resources |-> R] \in locks' /\ r \in R
        BY <1>1
    <2>2. ns \in HoldersOf(r)'
        BY <2>1 DEF HoldersOf
    <2>3. \A x \in Namespaces \ {ns} : x \in HoldersOf(r)' <=> x \in HoldersOf(r)
        BY <1>1 DEF HoldersOf, OwnEntries
    <2>4. HoldersOf(r) \subseteq Namespaces /\ HoldersOf(r)' \subseteq Namespaces
        BY DEF HoldersOf
    <2> QED
        BY <2>2, <2>3, <2>4
<1>3. Cardinality(OtherHolders(ns, r)) + 1 <= Capacity(r)
    BY RoomForOne DEF LockInv, LockClusterResources, Grantable
<1>4. Cardinality(HoldersOf(r) \ {ns}) <= Cardinality(OtherHolders(ns, r))
    BY OthersAreEntries DEF LockInv
<1>5. Cardinality(OtherHolders(ns, r)) \in Nat
    BY PartOfTable DEF LockInv, OtherHolders
<1>6. Cardinality(HoldersOf(r) \ {ns}) \in Nat
    BY HoldersAreEntries, FS_Subset, FS_CardinalityType DEF LockInv
<1>7. Capacity(r) \in Nat
    BY CapacityType DEF LockInv, LockTypeOK
<1> QED
    BY <1>2, <1>3, <1>4, <1>5, <1>6, <1>7

\* What is not granted is kept or, with an entry that is folded away, given up.
LEMMA EntriesGoWhole ==
    ASSUME LockInv, NEW ns \in Namespaces, NEW R \in (SUBSET Resources) \ {{}},
           NEW r \in Resources,
           \/ FreeClusterResources(ns, R)
           \/ LockClusterResources(ns, R) /\ r \notin R
    PROVE  HoldersOf(r)' = HoldersOf(r) \/ HoldersOf(r)' = HoldersOf(r) \ {ns}
<1>1. {e \in locks' : r \in e.resources} = {e \in locks \ OwnEntries(ns, R) : r \in e.resources}
    BY DEF FreeClusterResources, LockClusterResources, Freed, Granted
<1>2. HoldersOf(r)' = {x \in Namespaces : \E e \in locks \ OwnEntries(ns, R) :
                                            e.ns = x /\ r \in e.resources}
    BY <1>1 DEF HoldersOf
<1>3. \A x \in Namespaces \ {ns} : x \in HoldersOf(r)' <=> x \in HoldersOf(r)
    BY <1>2 DEF HoldersOf, OwnEntries
<1>4. HoldersOf(r)' \subseteq HoldersOf(r)
    BY <1>2 DEF HoldersOf
<1>5. HoldersOf(r) \subseteq Namespaces
    BY DEF HoldersOf
<1> QED
    BY <1>3, <1>4, <1>5

LEMMA SameCardinality == ASSUME NEW S PROVE Quota!Cardinality(S) = Cardinality(S)
BY DEF Quota!Cardinality, Cardinality

\* The table of locks implements the quota, for any namespaces and limits.
THEOREM LockImplementsQuota == LockSpec => KeepsQuota
<1>1. LockInit => Quota!Init
    <2> SUFFICES ASSUME LockInit PROVE Quota!Init
        OBVIOUS
    <2>1. \A r \in Resources : HoldersOf(r) = {}
        BY DEF LockInit, HoldersOf
    <2>2. \A r \in Resources : Capacity(r) \in Nat \ {0}
        BY CapacityType DEF LockInit
    <2> QED
        BY <2>1, <2>2 DEF Quota!Init
<1>2. LockInv /\ [LockNext]_lockVars =>
          [Quota!Next]_<<[r \in Resources |-> HoldersOf(r)], [r \in Resources |-> Capacity(r)]>>
    <2> SUFFICES ASSUME LockInv, [LockNext]_lockVars
        PROVE [Quota!Next]_<<[r \in Resources |-> HoldersOf(r)], [r \in Resources |-> Capacity(r)]>>
        OBVIOUS
    <2>1. ASSUME NEW ns \in Namespaces, NEW R \in (SUBSET Resources) \ {{}},
                 \/ LockClusterResources(ns, R)
                 \/ FreeClusterResources(ns, R)
          PROVE  Quota!Next
        <3>1. limits' = limits
            BY <2>1 DEF LockClusterResources, FreeClusterResources
        <3>2. [r \in Resources |-> Capacity(r)]' = [r \in Resources |-> Capacity(r)]
            BY <3>1 DEF Capacity, EffectiveLimit
        <3>3. ASSUME NEW r \in Resources
              PROVE  \/ HoldersOf(r)' = HoldersOf(r)
                     \/ HoldersOf(r)' = HoldersOf(r) \ {ns}
                     \/ /\ Cardinality(HoldersOf(r) \ {ns}) < Capacity(r)
                        /\ HoldersOf(r)' = HoldersOf(r) \cup {ns}
            <4>1. CASE r \in R /\ LockClusterResources(ns, R)
                BY <4>1, GrantTakes
            <4>2. CASE FreeClusterResources(ns, R) \/ (LockClusterResources(ns, R) /\ r \notin R)
                BY <4>2, EntriesGoWhole
            <4> QED
                BY <2>1, <4>1, <4>2
        <3> QED
            BY <3>2, <3>3, SameCardinality DEF Quota!Next, Quota!Change, Quota!Kept, Quota!GivenUp, Quota!Taken
    <2>2. CASE UNCHANGED lockVars
        BY <2>2 DEF lockVars, HoldersOf, Capacity, EffectiveLimit
    <2> QED
        BY <2>1, <2>2 DEF LockNext
<1> QED
    BY <1>1, <1>2, LockInvariant, PTL DEF LockSpec, KeepsQuota, Quota!Spec
=============================================================================
