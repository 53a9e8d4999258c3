-------------------------- MODULE ClusterJobsProofs --------------------------
(***************************************************************************)
(* That the jobs use the table as it is meant to be used, and that the     *)
(* lock therefore does what it is for, for any jobs, resources and limits, *)
(* and any number of failed calls, late requests and crashes.              *)
(*                                                                         *)
(* Every step of a job is a Lock, a Free or nothing to the table, so the   *)
(* jobs implement LockSpec and its invariants hold.  A step of one job     *)
(* leaves the entries of every other alone: those of another namespace     *)
(* have another ns, and in one namespace jobs want disjoint resources.     *)
(***************************************************************************)
EXTENDS ClusterJobs, ClusterLockProofs

-----------------------------------------------------------------------------
\* What job j does to the table with its request keeps the entry of job i.
LEMMA OthersKeepTheirEntry ==
    ASSUME NEW i \in Jobs, NEW j \in Jobs, i # j,
           wanted[i] \in WantsOf(i), wanted[j] \in WantsOf(j), EntryOf(i) \in locks
    PROVE  /\ EntryOf(i) \in Granted(NsOf(j), wanted[j])
           /\ EntryOf(i) \in Freed(NsOf(j), wanted[j])
<1>1. EntryOf(i) \notin OwnEntries(NsOf(j), wanted[j])
    BY JobsAssumption DEF EntryOf, OwnEntries
<1> QED
    BY <1>1 DEF Granted, Freed

\* A grant leaves the job that asks with its entry.
LEMMA GrantGivesEntry ==
    ASSUME NEW j \in Jobs
    PROVE  EntryOf(j) \in Granted(NsOf(j), wanted[j])
BY DEF EntryOf, Granted

\* What a step does to the table: nothing, or a request of its job.
TableStep(j) ==
    \/ UNCHANGED lockVars
    \/ LockClusterResources(NsOf(j), wanted[j])
    \/ FreeClusterResources(NsOf(j), wanted[j])

LEMMA JobStepIsTableStep ==
    ASSUME JobsInv, NEW j \in Jobs, JobStep(j)
    PROVE  /\ TableStep(j)
           /\ ~UNCHANGED lockVars => wanted[j] \in WantsOf(j)
<1>1. CASE StartRun(j)
    BY <1>1 DEF StartRun, TableStep, lockVars
<1>2. CASE AskGranted(j)
    BY <1>2 DEF AskGranted, TableStep, JobsInv, RunsAreInOrder
<1>3. CASE AskRefused(j)
    BY <1>3 DEF AskRefused, TableStep, lockVars
<1>4. CASE AskFails(j)
    BY <1>4 DEF AskFails, TableStep, lockVars, LockClusterResources, JobsInv, RunsAreInOrder
<1>5. CASE FinishWork(j)
    BY <1>5 DEF FinishWork, TableStep, lockVars
<1>6. CASE Free(j)
    BY <1>6 DEF Free, TableStep, JobsInv, RunsAreInOrder
<1>7. CASE FreeFails(j)
    BY <1>7 DEF FreeFails, TableStep, lockVars
<1>8. CASE Crash(j)
    BY <1>8 DEF Crash, TableStep, lockVars
<1>9. CASE LateLock(j)
    BY <1>9 DEF LateLock, TableStep, lockVars, LockClusterResources, JobsInv, RunsAreInOrder
<1>10. CASE LateFree(j)
    BY <1>10 DEF LateFree, TableStep, JobsInv, RunsAreInOrder
<1> QED
    BY <1>1, <1>2, <1>3, <1>4, <1>5, <1>6, <1>7, <1>8, <1>9, <1>10 DEF JobStep

-----------------------------------------------------------------------------
LEMMA InitJobsInv == JobsInit => JobsInv
BY JobsAssumption DEF JobsInit, JobsInv, JobsTypeOK, RunsAreInOrder, UsesResources

LEMMA JobStepKeepsType ==
    ASSUME JobsInv, NEW j \in Jobs, JobStep(j)
    PROVE  JobsTypeOK'
<1> USE JobsAssumption DEF JobsInv, JobsTypeOK
<1>1. CASE StartRun(j)
    BY <1>1 DEF StartRun
<1>2. CASE AskGranted(j)
    BY <1>2 DEF AskGranted
<1>3. CASE AskRefused(j)
    BY <1>3 DEF AskRefused
<1>4. CASE AskFails(j)
    BY <1>4 DEF AskFails, Fault
<1>5. CASE FinishWork(j)
    BY <1>5 DEF FinishWork
<1>6. CASE Free(j)
    BY <1>6 DEF Free
<1>7. CASE FreeFails(j)
    BY <1>7 DEF FreeFails, Fault
<1>8. CASE Crash(j)
    BY <1>8 DEF Crash, Fault
<1>9. CASE LateLock(j)
    BY <1>9 DEF LateLock
<1>10. CASE LateFree(j)
    BY <1>10 DEF LateFree
<1> QED
    BY <1>1, <1>2, <1>3, <1>4, <1>5, <1>6, <1>7, <1>8, <1>9, <1>10 DEF JobStep

\* A job's own step keeps its own run in order.
LEMMA OwnStepInOrder ==
    ASSUME JobsInv, NEW j \in Jobs, JobStep(j)
    PROVE  /\ pc'[j] # "idle" \/ lateLocks'[j] > 0 \/ lateFree'[j] => wanted'[j] \in WantsOf(j)
           /\ lateFree'[j] => pc'[j] = "idle"
           /\ pc'[j] \in {"working", "freeing"} => EntryOf(j)' \in locks'
<1> USE JobsAssumption DEF JobsInv, JobsTypeOK, RunsAreInOrder, UsesResources
<1>1. CASE StartRun(j)
    BY <1>1 DEF StartRun
<1>2. CASE AskGranted(j)
    BY <1>2, GrantGivesEntry DEF AskGranted, LockClusterResources, EntryOf
<1>3. CASE AskRefused(j)
    BY <1>3 DEF AskRefused
<1>4. CASE AskFails(j)
    BY <1>4 DEF AskFails
<1>5. CASE FinishWork(j)
    BY <1>5 DEF FinishWork, EntryOf
<1>6. CASE Free(j)
    BY <1>6 DEF Free
<1>7. CASE FreeFails(j)
    BY <1>7 DEF FreeFails
<1>8. CASE Crash(j)
    BY <1>8 DEF Crash
<1>9. CASE LateLock(j)
    BY <1>9, GrantGivesEntry DEF LateLock, EntryOf
<1>10. CASE LateFree(j)
    BY <1>10 DEF LateFree
<1> QED
    BY <1>1, <1>2, <1>3, <1>4, <1>5, <1>6, <1>7, <1>8, <1>9, <1>10 DEF JobStep

\* A step of job j changes nothing else about another job.
LEMMA OtherJobsUntouched ==
    ASSUME JobsInv, NEW j \in Jobs, NEW i \in Jobs, i # j, JobStep(j)
    PROVE  /\ pc'[i] = pc[i] /\ wanted'[i] = wanted[i]
           /\ lateLocks'[i] = lateLocks[i] /\ lateFree'[i] = lateFree[i]
BY DEF JobsInv, JobsTypeOK, JobStep, StartRun, AskGranted, AskRefused, AskFails,
       FinishWork, Free, FreeFails, Crash, LateLock, LateFree

LEMMA JobStepKeepsOrder ==
    ASSUME JobsInv, NEW j \in Jobs, JobStep(j)
    PROVE  RunsAreInOrder'
<1> SUFFICES ASSUME NEW i \in Jobs
             PROVE  /\ pc'[i] # "idle" \/ lateLocks'[i] > 0 \/ lateFree'[i]
                        => wanted'[i] \in WantsOf(i)
                    /\ lateFree'[i] => pc'[i] = "idle"
                    /\ pc'[i] \in {"working", "freeing"} => EntryOf(i)' \in locks'
    BY DEF RunsAreInOrder, UsesResources
<1>1. CASE i = j
    BY <1>1, OwnStepInOrder
<1>2. CASE i # j
    <2>1. /\ pc'[i] = pc[i] /\ wanted'[i] = wanted[i]
          /\ lateLocks'[i] = lateLocks[i] /\ lateFree'[i] = lateFree[i]
        BY <1>2, OtherJobsUntouched
    <2>2. ASSUME pc[i] \in {"working", "freeing"}
          PROVE  EntryOf(i) \in locks'
        <3>1. EntryOf(i) \in locks /\ wanted[i] \in WantsOf(i)
            BY <2>2 DEF JobsInv, RunsAreInOrder, UsesResources
        <3>2. CASE UNCHANGED lockVars
            BY <3>1, <3>2 DEF lockVars
        <3>3. CASE ~UNCHANGED lockVars
            BY <1>2, <3>1, <3>3, JobStepIsTableStep, OthersKeepTheirEntry
               DEF TableStep, LockClusterResources, FreeClusterResources
        <3> QED
            BY <3>2, <3>3
    <2>3. EntryOf(i)' = EntryOf(i)
        BY <2>1 DEF EntryOf
    <2> QED
        BY <2>1, <2>2, <2>3 DEF JobsInv, RunsAreInOrder
<1> QED
    BY <1>1, <1>2

\* A run at work has its entry, and a Free still to come finds its loop asleep,
\* after any lost, late or repeated call and any crash.
THEOREM JobsInvariant == JobsSpec => []JobsInv
<1>1. JobsInv /\ [JobsNext]_vars => JobsInv'
    <2> SUFFICES ASSUME JobsInv, [JobsNext]_vars PROVE JobsInv'
        OBVIOUS
    <2>1. ASSUME NEW j \in Jobs, JobStep(j) PROVE JobsInv'
        BY <2>1, JobStepKeepsType, JobStepKeepsOrder DEF JobsInv
    <2>2. CASE UNCHANGED vars
        BY <2>2 DEF vars, JobsInv, JobsTypeOK, RunsAreInOrder, UsesResources, EntryOf
    <2> QED
        BY <2>1, <2>2 DEF JobsNext
<1> QED
    BY <1>1, InitJobsInv, PTL DEF JobsSpec

-----------------------------------------------------------------------------
\* The jobs, with their lost and late calls, use the table only by its two
\* operations, each as one step: they implement the table's specification.
THEOREM JobsImplementLock == JobsSpec => LockSpec
<1>1. JobsInit => LockInit
    BY DEF JobsInit
<1>2. JobsInv /\ [JobsNext]_vars => [LockNext]_lockVars
    <2> SUFFICES ASSUME JobsInv, [JobsNext]_vars PROVE [LockNext]_lockVars
        OBVIOUS
    <2>1. CASE UNCHANGED vars
        BY <2>1 DEF vars, lockVars
    <2>2. ASSUME NEW j \in Jobs, JobStep(j) PROVE [LockNext]_lockVars
        <3>1. CASE UNCHANGED lockVars
            BY <3>1
        <3>2. CASE ~UNCHANGED lockVars
            <4>1. NsOf(j) \in Namespaces /\ wanted[j] \in (SUBSET Resources) \ {{}}
                BY <2>2, <3>2, JobStepIsTableStep, JobsAssumption
            <4> QED
                BY <2>2, <3>2, <4>1, JobStepIsTableStep DEF TableStep, LockNext
        <3> QED
            BY <3>1, <3>2
    <2> QED
        BY <2>1, <2>2 DEF JobsNext
<1> QED
    BY <1>1, <1>2, JobsInvariant, PTL DEF JobsSpec, LockSpec

\* A run that works has its lock in the table, through every lost answer, late
\* request and crash of any job (logic/cluster_lock.rs).
THEOREM LocksInUseAreKept == JobsSpec => []WorkersHoldTheirLocks
<1>1. JobsInv => WorkersHoldTheirLocks
    <2> SUFFICES ASSUME JobsInv, NEW j \in Jobs, UsesResources(j)
                 PROVE  \E e \in locks : e.ns = NsOf(j) /\ wanted[j] \subseteq e.resources
        BY DEF WorkersHoldTheirLocks
    <2>1. EntryOf(j) \in locks
        BY DEF JobsInv, RunsAreInOrder
    <2> WITNESS EntryOf(j) \in locks
    <2> QED
        BY DEF EntryOf
<1> QED
    BY <1>1, JobsInvariant, PTL

\* What the lock is for: never more servers at work with a resource than its
\* limit (convert_media_sizes.rs:54-57).
THEOREM WorkersAreLimited == JobsSpec => []WorkerLimit
<1>1. JobsSpec => []LockInv /\ []LimitRespected
    BY JobsImplementLock, LockInvariant, LimitIsRespected, PTL
<1>2. JobsInv /\ LockInv /\ LimitRespected => WorkerLimit
    <2> SUFFICES ASSUME JobsInv, LockInv, LimitRespected, NEW r \in Resources
                 PROVE  Cardinality(WorkingOn(r)) <= Capacity(r)
        BY DEF WorkerLimit
    <2>1. WorkingOn(r) \subseteq HoldersOf(r)
        <3> SUFFICES ASSUME NEW j \in Jobs, UsesResources(j), r \in wanted[j]
                     PROVE  NsOf(j) \in HoldersOf(r)
            BY DEF WorkingOn
        <3>1. EntryOf(j) \in locks
            BY DEF JobsInv, RunsAreInOrder
        <3>2. EntryOf(j).ns = NsOf(j) /\ r \in EntryOf(j).resources
            BY DEF EntryOf
        <3> QED
            BY <3>1, <3>2, JobsAssumption DEF HoldersOf
    <2>2. IsFiniteSet(HoldersOf(r)) /\ Cardinality(HoldersOf(r)) \in Nat
        BY HoldersAreEntries DEF LockInv
    <2>3. /\ Cardinality(WorkingOn(r)) \in Nat
          /\ Cardinality(WorkingOn(r)) <= Cardinality(HoldersOf(r))
        BY <2>1, <2>2, FS_Subset, FS_CardinalityType
    <2>4. Cardinality(HoldersOf(r)) <= Capacity(r) /\ Capacity(r) \in Nat
        BY CapacityType DEF LimitRespected, LockInv, LockTypeOK
    <2> QED
        BY <2>2, <2>3, <2>4
<1> QED
    BY <1>1, <1>2, JobsInvariant, PTL

\* Through the lost, late and repeated calls of the jobs the table still gives
\* each server only what was below its limit.
THEOREM JobsKeepTheQuota == JobsSpec => KeepsQuota
BY JobsImplementLock, LockImplementsQuota
=============================================================================
