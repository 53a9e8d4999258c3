------------------------- MODULE ServerConfiguration -------------------------
(***************************************************************************)
(* The table server_configurations and the calls that write it.  A save    *)
(* (ConfigureServer, ConfigureCustomCSS) deactivates every row and inserts *)
(* a new active one, in a transaction that first reads the active row FOR  *)
(* UPDATE; LockClusterResources and FreeClusterResources change the active *)
(* row in place, in such a transaction too.                                *)
(*                                                                         *)
(* The database is Postgres at READ COMMITTED.  A statement sees the rows  *)
(* that were committed when it started (its snapshot).  To lock or update  *)
(* a row it waits for the transaction that holds the row, then looks at    *)
(* the row again: one that no longer satisfies its WHERE is skipped, and   *)
(* rows inserted since the snapshot stay invisible.                        *)
(*                                                                         *)
(* Of the columns two are kept: the custom CSS, and the cluster lock of    *)
(* one resource of limit 1.                                                *)
(***************************************************************************)
EXTENDS Naturals, Sequences, FiniteSets

CONSTANTS
    Writers,        \* server threads that run the calls, on any replica
    NoWriter,
    Css,            \* stylesheets an admin may save
    NoCss,          \* no custom CSS at all
    Holders,        \* namespaces that may hold the cluster lock
    Nobody,
    Calls,          \* the calls that are made: a subset of AllCalls
    MaxRows         \* bound: versions saved in a behaviour

AllCalls == {"ConfigureServer", "ConfigureCustomCSS",
             "LockClusterResources", "FreeClusterResources"}

ASSUME ConfigurationAssumption ==
    /\ NoWriter \notin Writers
    /\ NoCss \notin Css
    /\ Nobody \notin Holders
    /\ Calls \subseteq AllCalls
    /\ MaxRows \in Nat \ {0}

VARIABLES
    rows,           \* the committed rows, in the order of their ids
    owner,          \* the transaction that holds each row, or NoWriter
    call,           \* what each writer does, see Idle
    savedCss,       \* history: the CSS of the last ConfigureCustomCSS
    granted         \* history: holders told they have the lock, not freed since

vars == <<rows, owner, call, savedCss, granted>>

Row == [active : BOOLEAN, css : Css \cup {NoCss}, lock : Holders \cup {Nobody}]

DefaultRow == [active |-> TRUE, css |-> NoCss, lock |-> Nobody]

\* A writer's transaction: the call it runs and how far it is, the rows its
\* current statement has in view, and the row it is going to insert (for an
\* in-place call, the holder it acts for is in its lock column).
Idle == [name |-> "none", pc |-> "idle", view |-> {}, draft |-> DefaultRow]

ActiveRows == {i \in DOMAIN rows : rows[i].active}

Init ==
    /\ rows = <<DefaultRow>>
    /\ owner = [i \in 1..MaxRows |-> NoWriter]
    /\ call = [w \in Writers |-> Idle]
    /\ savedCss = NoCss
    /\ granted = {}

-----------------------------------------------------------------------------
history == <<savedCss, granted>>

Begin(w, name, draft) ==
    /\ name \in Calls
    /\ call[w] = Idle
    /\ call' = [call EXCEPT ![w] =
            [name |-> name, pc |-> "select", view |-> {}, draft |-> draft]]
    /\ UNCHANGED <<rows, owner, history>>

\* configure_server reads the cluster resources of the active row before its
\* transaction begins, whether the caller may edit them or not: what it
\* inserts has the locks it found then.
ConfigureServer(w) ==
    \E i \in ActiveRows :
        Begin(w, "ConfigureServer", [DefaultRow EXCEPT !.lock = rows[i].lock])

ConfigureCustomCSS(w) ==
    \E css \in Css :
        Begin(w, "ConfigureCustomCSS", [DefaultRow EXCEPT !.css = css])

LockClusterResources(w) ==
    \E h \in Holders :
        Begin(w, "LockClusterResources", [DefaultRow EXCEPT !.lock = h])

FreeClusterResources(w) ==
    \E h \in Holders :
        Begin(w, "FreeClusterResources", [DefaultRow EXCEPT !.lock = h])

-----------------------------------------------------------------------------
Saves == {"ConfigureServer", "ConfigureCustomCSS"}

At(w, pc) == call[w].pc = pc

\* SELECT ... WHERE active FOR UPDATE starts: its snapshot is taken.
SelectActive(w) ==
    /\ At(w, "select")
    /\ call' = [call EXCEPT ![w].pc = "lock", ![w].view = ActiveRows]
    /\ UNCHANGED <<rows, owner, history>>

\* A row in view that is free again but no longer active is passed over.
SkipRow(w) ==
    /\ At(w, "lock")
    /\ \E i \in call[w].view :
        /\ owner[i] = NoWriter
        /\ ~rows[i].active
        /\ call' = [call EXCEPT ![w].view = @ \ {i}]
    /\ UNCHANGED <<rows, owner, history>>

\* Mistake: a row is taken as it was when the statement started.
StaleRowFor(w, i) == At(w, "lock") /\ owner[i] = NoWriter

RowFor(w, i) ==
    /\ At(w, "lock")
    /\ owner[i] = NoWriter
    /\ rows[i].active

\* What a save will insert, from the row it locked: ConfigureServer carries
\* the CSS forward, ConfigureCustomCSS everything else.
Carried(name, draft, row) ==
    IF name = "ConfigureServer"
    THEN [draft EXCEPT !.css = row.css]
    ELSE [row EXCEPT !.css = draft.css]

\* Mistake: the row is only read, not FOR UPDATE.
ReadRow(w) ==
    /\ call[w].name \in Saves
    /\ \E i \in call[w].view :
        /\ RowFor(w, i)
        /\ call' = [call EXCEPT ![w].pc = "deactivate",
                ![w].draft = Carried(call[w].name, @, rows[i])]
    /\ UNCHANGED <<rows, owner, history>>

LockRow(w) ==
    /\ call[w].name \in Saves
    /\ \E i \in call[w].view :
        /\ RowFor(w, i)
        /\ owner' = [owner EXCEPT ![i] = w]
        /\ call' = [call EXCEPT ![w].pc = "deactivate",
                ![w].draft = Carried(call[w].name, @, rows[i])]
    /\ UNCHANGED <<rows, history>>

\* The in-place calls: the row is locked, changed and released by the commit.
GrantLock(w) ==
    /\ call[w].name = "LockClusterResources"
    /\ \E i \in call[w].view :
        /\ RowFor(w, i)
        /\ LET h == call[w].draft.lock IN
            IF rows[i].lock \in {Nobody, h}
            THEN /\ rows' = [rows EXCEPT ![i].lock = h]
                 /\ granted' = granted \cup {h}
            ELSE UNCHANGED <<rows, granted>>
    /\ call' = [call EXCEPT ![w] = Idle]
    /\ UNCHANGED <<owner, savedCss>>

FreeLock(w) ==
    /\ call[w].name = "FreeClusterResources"
    /\ \E i \in call[w].view :
        /\ RowFor(w, i)
        /\ LET h == call[w].draft.lock IN
            /\ rows' = IF rows[i].lock = h
                       THEN [rows EXCEPT ![i].lock = Nobody] ELSE rows
            /\ granted' = granted \ {h}
    /\ call' = [call EXCEPT ![w] = Idle]
    /\ UNCHANGED <<owner, savedCss>>

\* No row is left in view: configure_server takes that for "nothing to carry"
\* (`.optional()?.unwrap_or_default()`), the others fail with NotFound.
NoRow(w) ==
    /\ At(w, "lock")
    /\ call[w].view = {}
    /\ call' = [call EXCEPT ![w] =
            IF @.name = "ConfigureServer"
            THEN [@ EXCEPT !.pc = "deactivate"]
            ELSE Idle]
    /\ UNCHANGED <<rows, owner, history>>

\* Mistake: the UPDATE is committed on its own.
DeactivateNow(w) ==
    /\ At(w, "deactivate")
    /\ \A i \in DOMAIN rows : owner[i] \in {NoWriter, w}
    /\ rows' = [i \in DOMAIN rows |-> [rows[i] EXCEPT !.active = FALSE]]
    /\ call' = [call EXCEPT ![w].pc = "commit", ![w].view = DOMAIN rows]
    /\ UNCHANGED <<owner, history>>

\* UPDATE server_configurations SET active = false starts.
Deactivate(w) ==
    /\ At(w, "deactivate")
    /\ call' = [call EXCEPT ![w].pc = "commit", ![w].view = DOMAIN rows]
    /\ UNCHANGED <<rows, owner, history>>

\* It has got every row it saw, the new row is inserted and all is committed.
Commit(w) ==
    /\ At(w, "commit")
    /\ Len(rows) < MaxRows
    /\ \A i \in call[w].view : owner[i] \in {NoWriter, w}
    /\ rows' = Append([i \in DOMAIN rows |->
                          IF i \in call[w].view
                          THEN [rows[i] EXCEPT !.active = FALSE] ELSE rows[i]],
                      call[w].draft)
    /\ owner' = [i \in DOMAIN owner |-> IF owner[i] = w THEN NoWriter ELSE owner[i]]
    /\ savedCss' = IF call[w].name = "ConfigureCustomCSS"
                   THEN call[w].draft.css ELSE savedCss
    /\ call' = [call EXCEPT ![w] = Idle]
    /\ UNCHANGED granted

\* The connection is lost or the process dies: the transaction rolls back.
Rollback(w) ==
    /\ call[w] # Idle
    /\ owner' = [i \in DOMAIN owner |-> IF owner[i] = w THEN NoWriter ELSE owner[i]]
    /\ call' = [call EXCEPT ![w] = Idle]
    /\ UNCHANGED <<rows, history>>

Step(w) ==
    \/ ConfigureServer(w)
    \/ ConfigureCustomCSS(w)
    \/ LockClusterResources(w)
    \/ FreeClusterResources(w)
    \/ SelectActive(w)
    \/ SkipRow(w)
    \/ LockRow(w)
    \/ GrantLock(w)
    \/ FreeLock(w)
    \/ NoRow(w)
    \/ Deactivate(w)
    \/ Commit(w)
    \/ Rollback(w)

Next == \E w \in Writers : Step(w)

Spec == Init /\ [][Next]_vars

-----------------------------------------------------------------------------
Transaction ==
    [name : AllCalls \cup {"none"},
     pc : {"idle", "select", "lock", "deactivate", "commit"},
     view : SUBSET (1..MaxRows), draft : Row]

TypeOK ==
    /\ rows \in Seq(Row) /\ Len(rows) \in 1..MaxRows
    /\ owner \in [1..MaxRows -> Writers \cup {NoWriter}]
    /\ call \in [Writers -> Transaction]
    /\ savedCss \in Css \cup {NoCss}
    /\ granted \subseteq Holders

\* However saves overlap, and wherever one dies, the server has a
\* configuration: a save deactivates and inserts in one transaction
\* (configure_server.rs:379-398).
AlwaysConfigured == ActiveRows # {}

\* There is one current version: nobody's `filter(active.eq(true)).first()`
\* has a choice.
OneActiveRow == \A i, j \in ActiveRows : i = j

\* An old version stays as it was, and old: the in-place writers look at the
\* row again once they have it (SELECT ... FOR UPDATE, not a plain read).
OldVersionsAreFrozen ==
    [][\A i \in DOMAIN rows : ~rows[i].active => rows'[i] = rows[i]]_vars

\* The stylesheet in force is the last one saved with ConfigureCustomCSS: a
\* save racing it "is either fully before it (and carried forward) or waits
\* for it -- never lost" (configure_server.rs:373-378).
CustomCssNeverLost == \A i \in ActiveRows : rows[i].css = savedCss

\* The recorded holder is the one, and the only one, that was told it holds the
\* lock: "mutations are only made by FreeClusterResource and
\* LockClusterResource, not ConfigureServer" (server_configuration.proto:230).
RecordedHolderIsGranted ==
    \A i \in ActiveRows :
        granted = IF rows[i].lock = Nobody THEN {} ELSE {rows[i].lock}

\* What the lock column of the version in force is as a table of ClusterLock, for one
\* resource of limit 1.
OneResource == "resource"

RecordedLocks ==
    {[ns |-> rows[i].lock, resources |-> {OneResource}] :
        i \in {k \in ActiveRows : rows[k].lock # Nobody}}

\* The conductor's calls take effect at once, in one order, although each is a wait, a
\* re-check and a write among other transactions, and saves copy the column from
\* version to version: no step but GrantLock and FreeLock changes the locks, and each
\* does what LockClusterResources and FreeClusterResources do to the locks there are
\* (lock_cluster_resources.rs:34-100).
AtomicTable == INSTANCE ClusterLock WITH
    Namespaces <- Holders,
    Resources <- {OneResource},
    locks <- RecordedLocks,
    limits <- [r \in {OneResource} |-> 1]
CallsAreAtomic == AtomicTable!LockSpec
=============================================================================
