---------------------------- MODULE ClusterJobs ----------------------------
(***************************************************************************)
(* The background jobs of a cluster's servers, which ask the conductor for *)
(* the resources a run needs, work, and free them: logic/cluster_lock.rs   *)
(* as bin/convert_media_sizes.rs and the LazyBrowser of                    *)
(* bin/generate_link_preview_images.rs use it, over the table of           *)
(* ClusterLock.                                                            *)
(*                                                                         *)
(* The calls are gRPC over a network with a 10 second timeout.  A request  *)
(* may fail without reaching the conductor, its answer may be lost after   *)
(* the conductor acted, or the client may give up on it while the          *)
(* conductor has still to act (a "late" request).  A run may also die at   *)
(* any point, leaving its lock in the table.                               *)
(***************************************************************************)
EXTENDS ClusterLock

CONSTANTS
    Jobs,           \* the job loops of all the servers, one process each
    NsOf(_),        \* the server (namespace) a job loop belongs to
    WantsOf(_),     \* the sets of resources a run of the job may ask for
    MaxFaults,      \* bound: failed calls and crashes in a behaviour
    MaxLate         \* bound: late Lock requests of one run

ASSUME JobsAssumption ==
    /\ \A j \in Jobs :
        /\ NsOf(j) \in Namespaces
        /\ WantsOf(j) \subseteq (SUBSET Resources) \ {{}}
    \* convert_media_sizes only asks for FFMPEG and IMAGEMAGICK, the link
    \* preview generator only for BROWSER, and each is a single loop
    /\ \A i, j \in Jobs : i # j /\ NsOf(i) = NsOf(j) =>
        \A R \in WantsOf(i), S \in WantsOf(j) : R \cap S = {}
    /\ MaxFaults \in Nat
    /\ MaxLate \in Nat

VARIABLES
    pc,             \* "idle", "asking", "working" or "freeing", for each job
    wanted,         \* wanted_resources of its current or last run
    lateLocks,      \* its Lock requests it gave up on and not yet handled
    lateFree,       \* whether its Free request is such a request
    faults          \* calls failed and runs crashed so far

jobVars == <<pc, wanted, lateLocks, lateFree, faults>>
vars == <<locks, limits, pc, wanted, lateLocks, lateFree, faults>>

JobsInit ==
    /\ LockInit
    /\ pc = [j \in Jobs |-> "idle"]
    /\ wanted = [j \in Jobs |-> {}]
    /\ lateLocks = [j \in Jobs |-> 0]
    /\ lateFree = [j \in Jobs |-> FALSE]
    /\ faults = 0

-----------------------------------------------------------------------------
Fault ==
    /\ faults < MaxFaults
    /\ faults' = faults + 1

\* Mistake: a run does not wait for the last Free of the previous one.
StartRunAtOnce(j) ==
    /\ pc[j] = "idle"
    /\ lateLocks[j] = 0
    /\ \E R \in WantsOf(j) : wanted' = [wanted EXCEPT ![j] = R]
    /\ pc' = [pc EXCEPT ![j] = "asking"]
    /\ UNCHANGED <<locks, limits, lateLocks, lateFree, faults>>

\* A run finds work and asks for what it needs.  The loops sleep 2 and 10
\* minutes between runs, so a request of the previous run, which timed out
\* after 10 seconds, has been handled by then.
StartRun(j) ==
    /\ pc[j] = "idle"
    /\ lateLocks[j] = 0
    /\ ~lateFree[j]
    /\ \E R \in WantsOf(j) : wanted' = [wanted EXCEPT ![j] = R]
    /\ pc' = [pc EXCEPT ![j] = "asking"]
    /\ UNCHANGED <<locks, limits, lateLocks, lateFree, faults>>

\* try_lock_cluster_resources: the conductor grants and the job hears of it.
AskGranted(j) ==
    /\ pc[j] = "asking"
    /\ LockClusterResources(NsOf(j), wanted[j])
    /\ pc' = [pc EXCEPT ![j] = "working"]
    /\ UNCHANGED <<wanted, lateLocks, lateFree, faults>>

\* Still refused at the deadline of LOCK_MAX_WAIT: the run is skipped.  A
\* refusal before the deadline leaves everything as it is and is polled again.
AskRefused(j) ==
    /\ pc[j] = "asking"
    /\ ~Grantable(NsOf(j), wanted[j])
    /\ pc' = [pc EXCEPT ![j] = "idle"]
    /\ UNCHANGED <<locks, limits, wanted, lateLocks, lateFree, faults>>

\* Mistake: when the conductor cannot be reached the run goes ahead.
AskFailsOpen(j) ==
    /\ pc[j] = "asking"
    /\ Fault
    /\ pc' = [pc EXCEPT ![j] = "working"]
    /\ UNCHANGED <<locks, limits, wanted, lateLocks, lateFree>>

\* The call fails: the conductor never sees it, or acts and the answer is
\* lost, or has yet to act.  The job polls again or, at the deadline, skips
\* the run without freeing anything.
AskFails(j) ==
    /\ pc[j] = "asking"
    /\ Fault
    /\ \/ /\ locks' = locks
          /\ lateLocks' = lateLocks
       \/ /\ Grantable(NsOf(j), wanted[j])
          /\ locks' = Granted(NsOf(j), wanted[j])
          /\ lateLocks' = lateLocks
       \/ /\ lateLocks[j] < MaxLate
          /\ lateLocks' = [lateLocks EXCEPT ![j] = @ + 1]
          /\ locks' = locks
    /\ \E next \in {"asking", "idle"} : pc' = [pc EXCEPT ![j] = next]
    /\ UNCHANGED <<limits, wanted, lateFree>>

FinishWork(j) ==
    /\ pc[j] = "working"
    /\ pc' = [pc EXCEPT ![j] = "freeing"]
    /\ UNCHANGED <<locks, limits, wanted, lateLocks, lateFree, faults>>

\* release_cluster_lock
Free(j) ==
    /\ pc[j] = "freeing"
    /\ FreeClusterResources(NsOf(j), wanted[j])
    /\ pc' = [pc EXCEPT ![j] = "idle"]
    /\ UNCHANGED <<wanted, lateLocks, lateFree, faults>>

\* It is called once: on a failure the lock stays, unless the conductor has
\* received the request and is yet to act on it.
FreeFails(j) ==
    /\ pc[j] = "freeing"
    /\ Fault
    /\ \E late \in BOOLEAN : lateFree' = [lateFree EXCEPT ![j] = late]
    /\ pc' = [pc EXCEPT ![j] = "idle"]
    /\ UNCHANGED <<locks, limits, wanted, lateLocks>>

\* The process dies (a panic, an OOM kill, a deploy); nothing is freed.
Crash(j) ==
    /\ pc[j] # "idle"
    /\ Fault
    /\ pc' = [pc EXCEPT ![j] = "idle"]
    /\ UNCHANGED <<locks, limits, wanted, lateLocks, lateFree>>

\* The conductor handles a request nobody waits for.
LateLock(j) ==
    /\ lateLocks[j] > 0
    /\ lateLocks' = [lateLocks EXCEPT ![j] = @ - 1]
    /\ locks' = IF Grantable(NsOf(j), wanted[j])
                THEN Granted(NsOf(j), wanted[j]) ELSE locks
    /\ UNCHANGED <<limits, pc, wanted, lateFree, faults>>

LateFree(j) ==
    /\ lateFree[j]
    /\ lateFree' = [lateFree EXCEPT ![j] = FALSE]
    /\ FreeClusterResources(NsOf(j), wanted[j])
    /\ UNCHANGED <<pc, wanted, lateLocks, faults>>

JobStep(j) ==
    \/ StartRun(j)
    \/ AskGranted(j)
    \/ AskRefused(j)
    \/ AskFails(j)
    \/ FinishWork(j)
    \/ Free(j)
    \/ FreeFails(j)
    \/ Crash(j)
    \/ LateLock(j)
    \/ LateFree(j)

JobsNext == \E j \in Jobs : JobStep(j)

JobsSpec == JobsInit /\ [][JobsNext]_vars

\* A run that has started goes on: conversions and page captures are bounded
\* by timeouts, and the polling loop keeps asking.  The conductor handles what
\* it received.  Whether there is new work is up to the users.
JobsFairness ==
    \A j \in Jobs :
        /\ WF_vars(AskGranted(j) \/ AskRefused(j))
        /\ WF_vars(FinishWork(j))
        /\ WF_vars(Free(j))
        /\ WF_vars(LateLock(j))
        /\ WF_vars(LateFree(j))

-----------------------------------------------------------------------------
JobsTypeOK ==
    /\ pc \in [Jobs -> {"idle", "asking", "working", "freeing"}]
    /\ wanted \in [Jobs -> SUBSET Resources]
    /\ lateLocks \in [Jobs -> 0..MaxLate]
    /\ lateFree \in [Jobs -> BOOLEAN]
    /\ faults \in 0..MaxFaults

UsesResources(j) == pc[j] \in {"working", "freeing"}

EntryOf(j) == [ns |-> NsOf(j), resources |-> wanted[j]]

\* Why a lock in use is never lost: the table has exactly the run's entry, and
\* a Free still to be handled belongs to a job that is idle, because a loop
\* sleeps longer than a request lives (background_jobs.sh).
RunsAreInOrder ==
    \A j \in Jobs :
        /\ pc[j] # "idle" \/ lateLocks[j] > 0 \/ lateFree[j] => wanted[j] \in WantsOf(j)
        /\ lateFree[j] => pc[j] = "idle"
        /\ UsesResources(j) => EntryOf(j) \in locks

\* The invariant of the jobs, inductive with that of the table.
JobsInv == JobsTypeOK /\ RunsAreInOrder

\* While a run works, the table says so: no lost answer, retry, late Lock or
\* crashed earlier run of any job makes the conductor forget a lock in use.
WorkersHoldTheirLocks ==
    \A j \in Jobs : UsesResources(j) =>
        \E e \in locks : e.ns = NsOf(j) /\ wanted[j] \subseteq e.resources

WorkingOn(r) == {NsOf(j) : j \in {i \in Jobs : UsesResources(i) /\ r \in wanted[i]}}

\* What the lock is for: never more servers run a browser, ffmpeg or
\* ImageMagick at once than the limit of that resource
\* (convert_media_sizes.rs:54-57).
WorkerLimit ==
    \A r \in Resources : Cardinality(WorkingOn(r)) <= Capacity(r)

\* The job asks for a set of resources with r in it, all held by its server.
Reasks(j, r) ==
    /\ pc[j] = "asking"
    /\ r \in wanted[j]
    /\ \A q \in wanted[j] : NsOf(j) \in HoldersOf(q)

\* A lock left behind (by a crash, a lost Free, a Lock handled late) stays only
\* if from some point on no run of its server asks for that resource again, or
\* each asks for it together with one the server does not hold: a run that
\* asks for what is left is granted it and frees it.  Nobody has to clear the
\* lock by hand for that (free_all_cluster_resources.rs:10-14 and
\* cluster_lock.rs:57-59 know of no other way).
LeakedLockHeals ==
    \A j \in Jobs : \A r \in UNION WantsOf(j) :
        NsOf(j) \in HoldersOf(r) ~> \/ NsOf(j) \notin HoldersOf(r)
                                   \/ []~Reasks(j, r)
=============================================================================
