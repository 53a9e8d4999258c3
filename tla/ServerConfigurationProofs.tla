---------------------- MODULE ServerConfigurationProofs ----------------------
(***************************************************************************)
(* Proofs about the server's configuration, for any number of threads,     *)
(* stylesheets, lock holders and versions.  With all the calls: there is   *)
(* always an active version and old versions stay as they are.  Without    *)
(* ConfigureServer: whoever is about to save holds the one active row, so  *)
(* nothing that is saved, granted or freed is lost.                        *)
(***************************************************************************)
EXTENDS ServerConfiguration, SequenceTheorems, TLAPS

-----------------------------------------------------------------------------
\* What a transaction is going to write: an active row, or the lock of a
\* holder.
DraftOK(t) ==
    /\ t.draft.active
    /\ t.name = "LockClusterResources" => t.draft.lock \in Holders

DraftsOK == \A w \in Writers : DraftOK(call[w])

\* A statement has committed rows in view, and rows are never deleted.
ViewsOK == \A w \in Writers : call[w].view \subseteq DOMAIN rows

ConfiguredInv == TypeOK /\ DraftsOK /\ ViewsOK /\ AlwaysConfigured

LEMMA InitType == Init => TypeOK
<1> SUFFICES ASSUME Init PROVE TypeOK
    OBVIOUS
<1>1. DefaultRow \in Row
    BY DEF DefaultRow, Row
<1> QED
    BY <1>1, ConfigurationAssumption DEF Init, TypeOK, Idle, Transaction

\* What the row locked by a save becomes is a row, and active.
LEMMA CarriedType ==
    ASSUME NEW name, NEW draft \in Row, NEW row \in Row, draft.active, row.active
    PROVE  /\ Carried(name, draft, row) \in Row
           /\ Carried(name, draft, row).active
<1>1. [draft EXCEPT !.css = row.css] \in Row /\ [draft EXCEPT !.css = row.css].active
    BY DEF Row
<1>2. [row EXCEPT !.css = draft.css] \in Row /\ [row EXCEPT !.css = draft.css].active
    BY DEF Row
<1> QED
    BY <1>1, <1>2 DEF Carried

\* Transactions change one at a time.
LEMMA CallUpdate ==
    ASSUME TypeOK, DraftsOK, NEW w \in Writers,
           NEW t \in Transaction, DraftOK(t), call' = [call EXCEPT ![w] = t]
    PROVE  /\ call' \in [Writers -> Transaction]
           /\ DraftsOK'
           /\ call'[w] = t
           /\ \A v \in Writers \ {w} : call'[v] = call[v]
BY DEF TypeOK, DraftsOK

LEMMA IdleType == Idle \in Transaction /\ DraftOK(Idle)
<1>1. DefaultRow \in Row /\ DefaultRow.active
    BY DEF DefaultRow, Row
<1> QED
    BY <1>1 DEF Idle, Transaction, DraftOK

\* A call begins with a draft that is active and well-typed.
LEMMA BeginKeepsType ==
    ASSUME TypeOK, DraftsOK, NEW w \in Writers, NEW name, NEW draft \in Row,
           draft.active, name = "LockClusterResources" => draft.lock \in Holders,
           Begin(w, name, draft)
    PROVE  TypeOK' /\ DraftsOK'
<1> DEFINE t == [name |-> name, pc |-> "select", view |-> {}, draft |-> draft]
<1>1. t \in Transaction /\ DraftOK(t)
    BY ConfigurationAssumption DEF Begin, Transaction, DraftOK
<1>2. call' = [call EXCEPT ![w] = t] /\ UNCHANGED <<rows, owner, history>>
    BY DEF Begin
<1> HIDE DEF t
<1> QED
    BY <1>1, <1>2, CallUpdate DEF TypeOK, history

LEMMA BeginnersKeepType ==
    ASSUME TypeOK, DraftsOK, NEW w \in Writers,
           \/ ConfigureServer(w)
           \/ ConfigureCustomCSS(w)
           \/ LockClusterResources(w)
           \/ FreeClusterResources(w)
    PROVE  TypeOK' /\ DraftsOK'
<1>0. \A i \in DOMAIN rows : rows[i].lock \in Holders \cup {Nobody}
    <2>1. \A i \in DOMAIN rows : rows[i] \in Row
        BY DEF TypeOK
    <2> QED
        BY <2>1 DEF Row
<1>1. CASE ConfigureServer(w)
    <2>1. PICK i \in ActiveRows :
            Begin(w, "ConfigureServer", [DefaultRow EXCEPT !.lock = rows[i].lock])
        BY <1>1 DEF ConfigureServer
    <2>2. /\ [DefaultRow EXCEPT !.lock = rows[i].lock] \in Row
          /\ [DefaultRow EXCEPT !.lock = rows[i].lock].active
        BY <1>0 DEF ActiveRows, Row, DefaultRow
    <2> QED
        BY <2>1, <2>2, BeginKeepsType
<1>2. CASE ConfigureCustomCSS(w)
    <2>1. PICK css \in Css :
            Begin(w, "ConfigureCustomCSS", [DefaultRow EXCEPT !.css = css])
        BY <1>2 DEF ConfigureCustomCSS
    <2>2. [DefaultRow EXCEPT !.css = css] \in Row /\ [DefaultRow EXCEPT !.css = css].active
        BY DEF Row, DefaultRow
    <2> QED
        BY <2>1, <2>2, BeginKeepsType
<1>3. CASE LockClusterResources(w) \/ FreeClusterResources(w)
    <2>1. PICK h \in Holders, name \in {"LockClusterResources", "FreeClusterResources"} :
            Begin(w, name, [DefaultRow EXCEPT !.lock = h])
        BY <1>3 DEF LockClusterResources, FreeClusterResources
    <2>2. /\ [DefaultRow EXCEPT !.lock = h] \in Row
          /\ [DefaultRow EXCEPT !.lock = h].active
          /\ [DefaultRow EXCEPT !.lock = h].lock = h
        BY DEF Row, DefaultRow
    <2> QED
        BY <2>1, <2>2, BeginKeepsType
<1> QED
    BY <1>1, <1>2, <1>3

\* One row of the table is changed.
LEMMA RowUpdate ==
    ASSUME TypeOK, NEW i \in DOMAIN rows, NEW r \in Row
    PROVE  /\ [rows EXCEPT ![i] = r] \in Seq(Row)
           /\ Len([rows EXCEPT ![i] = r]) = Len(rows)
BY DEF TypeOK

LEMMA RowsType ==
    ASSUME TypeOK
    PROVE  /\ DOMAIN rows = 1..Len(rows)
           /\ DOMAIN rows \subseteq 1..MaxRows
           /\ \A i \in DOMAIN rows : rows[i] \in Row
BY ConfigurationAssumption DEF TypeOK

\* A transaction that ends as it should or is rolled back releases its rows.
LEMMA ReleaseType ==
    ASSUME TypeOK, NEW w \in Writers
    PROVE  [i \in DOMAIN owner |-> IF owner[i] = w THEN NoWriter ELSE owner[i]]
               \in [1..MaxRows -> Writers \cup {NoWriter}]
BY DEF TypeOK

\* The steps of a save that only move the transaction on.
LEMMA SelectKeepsType ==
    ASSUME TypeOK, DraftsOK, ViewsOK, NEW w \in Writers,
           SelectActive(w) \/ SkipRow(w) \/ LockRow(w) \/ NoRow(w) \/ Deactivate(w)
    PROVE  TypeOK' /\ DraftsOK'
<1>0. call[w] \in Transaction /\ DraftOK(call[w])
    BY DEF TypeOK, DraftsOK
<1>1. CASE SelectActive(w)
    <2> DEFINE t == [call[w] EXCEPT !.pc = "lock", !.view = ActiveRows]
    <2>1. t \in Transaction /\ DraftOK(t)
        BY <1>0, RowsType DEF Transaction, DraftOK, ActiveRows
    <2>2. call' = [call EXCEPT ![w] = t] /\ UNCHANGED <<rows, owner, history>>
        BY <1>1 DEF SelectActive
    <2> HIDE DEF t
    <2> QED
        BY <2>1, <2>2, CallUpdate DEF TypeOK, history
<1>2. CASE SkipRow(w)
    <2>1. PICK i \in call[w].view : call' = [call EXCEPT ![w].view = @ \ {i}]
        BY <1>2 DEF SkipRow
    <2> DEFINE t == [call[w] EXCEPT !.view = @ \ {i}]
    <2>2. t \in Transaction /\ DraftOK(t)
        BY <1>0 DEF Transaction, DraftOK
    <2>3. call' = [call EXCEPT ![w] = t] /\ UNCHANGED <<rows, owner, history>>
        BY <1>2, <2>1 DEF SkipRow
    <2> HIDE DEF t
    <2> QED
        BY <2>2, <2>3, CallUpdate DEF TypeOK, history
<1>3. CASE LockRow(w)
    <2>1. PICK i \in call[w].view :
            /\ RowFor(w, i)
            /\ owner' = [owner EXCEPT ![i] = w]
            /\ call' = [call EXCEPT ![w].pc = "deactivate",
                    ![w].draft = Carried(call[w].name, @, rows[i])]
        BY <1>3 DEF LockRow
    <2> DEFINE t == [call[w] EXCEPT !.pc = "deactivate",
                          !.draft = Carried(call[w].name, @, rows[i])]
    <2>2. Carried(call[w].name, call[w].draft, rows[i]) \in Row
          /\ Carried(call[w].name, call[w].draft, rows[i]).active
        BY <1>0, <2>1, RowsType, CarriedType DEF RowFor, Transaction, DraftOK, ViewsOK
    <2>3. t \in Transaction /\ DraftOK(t)
        BY <1>0, <1>3, <2>2 DEF Transaction, DraftOK, LockRow, Saves
    <2>4. call' = [call EXCEPT ![w] = t] /\ UNCHANGED <<rows, history>>
        BY <1>3, <2>1 DEF LockRow
    <2>5. owner' \in [1..MaxRows -> Writers \cup {NoWriter}]
        BY <2>1 DEF TypeOK
    <2> HIDE DEF t
    <2> QED
        BY <2>3, <2>4, <2>5, CallUpdate DEF TypeOK, history
<1>4. CASE NoRow(w)
    <2> DEFINE t == IF call[w].name = "ConfigureServer"
                    THEN [call[w] EXCEPT !.pc = "deactivate"] ELSE Idle
    <2>1. t \in Transaction /\ DraftOK(t)
        BY <1>0, IdleType DEF Transaction, DraftOK
    <2>2. call' = [call EXCEPT ![w] = t] /\ UNCHANGED <<rows, owner, history>>
        BY <1>4 DEF NoRow
    <2> HIDE DEF t
    <2> QED
        BY <2>1, <2>2, CallUpdate DEF TypeOK, history
<1>5. CASE Deactivate(w)
    <2> DEFINE t == [call[w] EXCEPT !.pc = "commit", !.view = DOMAIN rows]
    <2>1. t \in Transaction /\ DraftOK(t)
        BY <1>0, RowsType DEF Transaction, DraftOK
    <2>2. call' = [call EXCEPT ![w] = t] /\ UNCHANGED <<rows, owner, history>>
        BY <1>5 DEF Deactivate
    <2> HIDE DEF t
    <2> QED
        BY <2>1, <2>2, CallUpdate DEF TypeOK, history
<1> QED
    BY <1>1, <1>2, <1>3, <1>4, <1>5

\* The steps that end a call: in place, by the commit of a save, or dead.
LEMMA EndKeepsType ==
    ASSUME TypeOK, DraftsOK, ViewsOK, NEW w \in Writers,
           GrantLock(w) \/ FreeLock(w) \/ Commit(w) \/ Rollback(w)
    PROVE  TypeOK' /\ DraftsOK'
<1>0. /\ call[w] \in Transaction
      /\ DraftOK(call[w])
      /\ call[w].view \subseteq DOMAIN rows
      /\ Len(rows) \in 1..MaxRows
    BY DEF TypeOK, DraftsOK, ViewsOK
<1>1. call' = [call EXCEPT ![w] = Idle]
    BY DEF GrantLock, FreeLock, Commit, Rollback
<1>2. call' \in [Writers -> Transaction] /\ DraftsOK'
    BY <1>1, CallUpdate, IdleType
<1>3. CASE GrantLock(w)
    <2>1. PICK i \in call[w].view :
            LET h == call[w].draft.lock IN
            IF rows[i].lock \in {Nobody, h}
            THEN /\ rows' = [rows EXCEPT ![i].lock = h]
                 /\ granted' = granted \cup {h}
            ELSE UNCHANGED <<rows, granted>>
        BY <1>3 DEF GrantLock
    <2> DEFINE r == [rows[i] EXCEPT !.lock = call[w].draft.lock]
    <2>2. call[w].draft.lock \in Holders
        BY <1>0, <1>3 DEF GrantLock, DraftOK
    <2>3. i \in DOMAIN rows /\ r \in Row
        BY <1>0, <2>2, RowsType DEF Row
    <2>4. \/ rows' = [rows EXCEPT ![i] = r] /\ granted' \subseteq Holders
          \/ UNCHANGED <<rows, granted>>
        BY <2>1, <2>2 DEF TypeOK
    <2>5. UNCHANGED <<owner, savedCss>>
        BY <1>3 DEF GrantLock
    <2> HIDE DEF r
    <2>6. rows' \in Seq(Row) /\ Len(rows') = Len(rows) /\ granted' \subseteq Holders
        BY <2>3, <2>4, RowUpdate DEF TypeOK
    <2> QED
        BY <1>0, <1>2, <2>5, <2>6 DEF TypeOK
<1>4. CASE FreeLock(w)
    <2>1. PICK i \in call[w].view :
            /\ rows' = IF rows[i].lock = call[w].draft.lock
                       THEN [rows EXCEPT ![i].lock = Nobody] ELSE rows
            /\ granted' = granted \ {call[w].draft.lock}
        BY <1>4 DEF FreeLock
    <2> DEFINE r == [rows[i] EXCEPT !.lock = Nobody]
    <2>2. i \in DOMAIN rows /\ r \in Row
        BY <1>0, RowsType DEF Row
    <2>3. rows' = [rows EXCEPT ![i] = r] \/ rows' = rows
        BY <2>1
    <2>4. UNCHANGED <<owner, savedCss>> /\ granted' \subseteq Holders
        BY <1>4, <2>1 DEF FreeLock, TypeOK
    <2> HIDE DEF r
    <2>5. rows' \in Seq(Row) /\ Len(rows') = Len(rows)
        BY <2>2, <2>3, RowUpdate DEF TypeOK
    <2> QED
        BY <1>0, <1>2, <2>4, <2>5 DEF TypeOK
<1>5. CASE Commit(w)
    <2> DEFINE old == [i \in DOMAIN rows |->
                          IF i \in call[w].view
                          THEN [rows[i] EXCEPT !.active = FALSE] ELSE rows[i]]
    <2>1. \A i \in DOMAIN rows : old[i] \in Row
        BY RowsType DEF Row
    <2>2. old \in Seq(Row) /\ Len(old) = Len(rows)
        <3>1. Len(rows) \in Nat /\ DOMAIN rows = 1..Len(rows)
            BY <1>0, RowsType
        <3> HIDE DEF old
        <3>2. old = [i \in 1..Len(rows) |-> old[i]]
            BY <3>1 DEF old
        <3> QED
            BY <2>1, <3>1, <3>2, SeqDef, LenProperties
    <2>3. call[w].draft \in Row
        BY <1>0 DEF Transaction
    <2>4. rows' = Append(old, call[w].draft) /\ Len(rows) < MaxRows
        BY <1>5 DEF Commit
    <2> HIDE DEF old
    <2>5. rows' \in Seq(Row) /\ Len(rows') = Len(rows) + 1
        BY <2>2, <2>3, <2>4, AppendProperties
    <2>6. owner' \in [1..MaxRows -> Writers \cup {NoWriter}]
        BY <1>5, ReleaseType DEF Commit
    <2>7. savedCss' \in Css \cup {NoCss} /\ UNCHANGED granted
        BY <1>5, <2>3 DEF Commit, TypeOK, Row
    <2> QED
        BY <1>0, <1>2, <2>4, <2>5, <2>6, <2>7, ConfigurationAssumption DEF TypeOK
<1>6. CASE Rollback(w)
    <2>1. owner' \in [1..MaxRows -> Writers \cup {NoWriter}]
        BY <1>6, ReleaseType DEF Rollback
    <2> QED
        BY <1>2, <1>6, <2>1 DEF Rollback, TypeOK, history
<1> QED
    BY <1>3, <1>4, <1>5, <1>6

LEMMA StepKeepsType ==
    ASSUME TypeOK, DraftsOK, ViewsOK, NEW w \in Writers, Step(w)
    PROVE  TypeOK' /\ DraftsOK'
BY BeginnersKeepType, SelectKeepsType, EndKeepsType DEF Step

-----------------------------------------------------------------------------
\* An in-place call changes only the lock of the active row it holds.
LEMMA InPlaceRows ==
    ASSUME TypeOK, ViewsOK, NEW w \in Writers, GrantLock(w) \/ FreeLock(w)
    PROVE  /\ DOMAIN rows' = DOMAIN rows
           /\ \A i \in DOMAIN rows : rows'[i].active = rows[i].active
           /\ \A i \in DOMAIN rows : ~rows[i].active => rows'[i] = rows[i]
<1>1. PICK i \in call[w].view, h \in {Nobody, call[w].draft.lock} :
        /\ RowFor(w, i)
        /\ rows' = [rows EXCEPT ![i].lock = h] \/ rows' = rows
    BY DEF GrantLock, FreeLock
<1>2. i \in DOMAIN rows /\ rows[i].active /\ rows[i] \in Row
    BY <1>1, RowsType DEF ViewsOK, RowFor
<1> DEFINE r == [rows[i] EXCEPT !.lock = h]
<1>3. r.active = rows[i].active
    BY <1>2 DEF Row
<1>4. rows' = [rows EXCEPT ![i] = r] \/ rows' = rows
    BY <1>1
<1> HIDE DEF r
<1>5. rows = [j \in DOMAIN rows |-> rows[j]]
    BY RowsType DEF TypeOK
<1>6. /\ DOMAIN rows' = DOMAIN rows
      /\ \A j \in DOMAIN rows : rows'[j] = IF j = i /\ rows' # rows THEN r ELSE rows[j]
    BY <1>2, <1>4, <1>5
<1> QED
    BY <1>2, <1>3, <1>6

\* The commit of a save: what it saw is deactivated, its draft is the new row.
LEMMA CommitRows ==
    ASSUME TypeOK, NEW w \in Writers, Commit(w)
    PROVE  /\ Len(rows') = Len(rows) + 1
           /\ DOMAIN rows' = DOMAIN rows \cup {Len(rows) + 1}
           /\ Len(rows) + 1 \notin DOMAIN rows
           /\ rows'[Len(rows) + 1] = call[w].draft
           /\ \A i \in DOMAIN rows :
                rows'[i] = IF i \in call[w].view
                           THEN [rows[i] EXCEPT !.active = FALSE] ELSE rows[i]
<1> DEFINE old == [i \in DOMAIN rows |->
                      IF i \in call[w].view
                      THEN [rows[i] EXCEPT !.active = FALSE] ELSE rows[i]]
<1>1. \A i \in DOMAIN rows : old[i] \in Row
    BY RowsType DEF Row
<1>2. Len(rows) \in Nat /\ DOMAIN rows = 1..Len(rows)
    BY RowsType DEF TypeOK
<1>3. call[w].draft \in Row
    BY DEF TypeOK, Transaction
<1>4. rows' = Append(old, call[w].draft)
    BY DEF Commit
<1>5. \A i \in DOMAIN rows :
        old[i] = IF i \in call[w].view
                 THEN [rows[i] EXCEPT !.active = FALSE] ELSE rows[i]
    OBVIOUS
<1>6. old = [i \in 1..Len(rows) |-> old[i]]
    BY <1>2
<1> HIDE DEF old
<1>7. old \in Seq(Row) /\ Len(old) = Len(rows)
    BY <1>1, <1>2, <1>6, SeqDef, LenProperties
<1>8. /\ rows' \in Seq(Row)
      /\ Len(rows') = Len(rows) + 1
      /\ \A i \in 1..Len(rows) : rows'[i] = old[i]
      /\ rows'[Len(rows) + 1] = call[w].draft
    BY <1>3, <1>4, <1>7, AppendProperties
<1>9. DOMAIN rows' = 1..(Len(rows) + 1)
    BY <1>8, LenProperties
<1>10. DOMAIN rows' = DOMAIN rows \cup {Len(rows) + 1} /\ Len(rows) + 1 \notin DOMAIN rows
    BY <1>2, <1>9
<1>11. \A i \in DOMAIN rows : rows'[i] = old[i]
    BY <1>2, <1>8
<1> QED
    BY <1>5, <1>8, <1>10, <1>11

\* No other step writes the table.
LEMMA OtherRows ==
    ASSUME NEW w \in Writers, Step(w), ~GrantLock(w), ~FreeLock(w), ~Commit(w)
    PROVE  rows' = rows
BY DEF Step, ConfigureServer, ConfigureCustomCSS, LockClusterResources,
       FreeClusterResources, Begin, SelectActive, SkipRow, LockRow, NoRow,
       Deactivate, Rollback

\* What is in a writer's view are committed rows.
LEMMA StepViews ==
    ASSUME TypeOK, ViewsOK, NEW w \in Writers, Step(w)
    PROVE  /\ call'[w].view \subseteq DOMAIN rows
           /\ \A v \in Writers \ {w} : call'[v] = call[v]
<1>0. call \in [Writers -> Transaction] /\ call[w].view \subseteq DOMAIN rows
    BY DEF TypeOK, ViewsOK
<1>1. \A t : call' = [call EXCEPT ![w] = t] =>
                /\ call'[w] = t
                /\ \A v \in Writers \ {w} : call'[v] = call[v]
    BY <1>0
<1>2. PICK t : call' = [call EXCEPT ![w] = t] /\ t.view \subseteq DOMAIN rows
    <2>0. call[w] \in Transaction
        BY <1>0
    <2>1. CASE \E name, draft : Begin(w, name, draft)
        <3>1. PICK name, draft : Begin(w, name, draft)
            BY <2>1
        <3> DEFINE u == [name |-> name, pc |-> "select", view |-> {}, draft |-> draft]
        <3>2. u.view \subseteq DOMAIN rows /\ call' = [call EXCEPT ![w] = u]
            BY <3>1 DEF Begin
        <3> HIDE DEF u
        <3> QED
            BY <3>2
    <2>2. CASE SelectActive(w)
        <3> DEFINE u == [call[w] EXCEPT !.pc = "lock", !.view = ActiveRows]
        <3>1. u.view \subseteq DOMAIN rows
            BY <2>0 DEF Transaction, ActiveRows
        <3>2. call' = [call EXCEPT ![w] = u]
            BY <2>2 DEF SelectActive
        <3> HIDE DEF u
        <3> QED
            BY <3>1, <3>2
    <2>3. CASE SkipRow(w)
        <3>1. PICK i \in call[w].view : call' = [call EXCEPT ![w].view = @ \ {i}]
            BY <2>3 DEF SkipRow
        <3> DEFINE u == [call[w] EXCEPT !.view = @ \ {i}]
        <3>2. u.view \subseteq DOMAIN rows
            BY <1>0, <2>0 DEF Transaction
        <3>3. call' = [call EXCEPT ![w] = u]
            BY <3>1
        <3> HIDE DEF u
        <3> QED
            BY <3>2, <3>3
    <2>4. CASE LockRow(w)
        <3>1. PICK i \in call[w].view :
                call' = [call EXCEPT ![w].pc = "deactivate",
                            ![w].draft = Carried(call[w].name, @, rows[i])]
            BY <2>4 DEF LockRow
        <3> DEFINE u == [call[w] EXCEPT !.pc = "deactivate",
                            !.draft = Carried(call[w].name, @, rows[i])]
        <3>2. u.view \subseteq DOMAIN rows
            BY <1>0, <2>0 DEF Transaction
        <3>3. call' = [call EXCEPT ![w] = u]
            BY <3>1
        <3> HIDE DEF u
        <3> QED
            BY <3>2, <3>3
    <2>5. CASE NoRow(w)
        <3> DEFINE u == IF call[w].name = "ConfigureServer"
                        THEN [call[w] EXCEPT !.pc = "deactivate"] ELSE Idle
        <3>1. u.view \subseteq DOMAIN rows
            BY <1>0, <2>0 DEF Transaction, Idle
        <3>2. call' = [call EXCEPT ![w] = u]
            BY <2>5 DEF NoRow
        <3> HIDE DEF u
        <3> QED
            BY <3>1, <3>2
    <2>6. CASE Deactivate(w)
        <3> DEFINE u == [call[w] EXCEPT !.pc = "commit", !.view = DOMAIN rows]
        <3>1. u.view \subseteq DOMAIN rows
            BY <2>0 DEF Transaction
        <3>2. call' = [call EXCEPT ![w] = u]
            BY <2>6 DEF Deactivate
        <3> HIDE DEF u
        <3> QED
            BY <3>1, <3>2
    <2>7. CASE GrantLock(w) \/ FreeLock(w) \/ Commit(w) \/ Rollback(w)
        BY <2>7 DEF GrantLock, FreeLock, Commit, Rollback, Idle
    <2>8. \/ \E name, draft : Begin(w, name, draft)
          \/ SelectActive(w) \/ SkipRow(w) \/ LockRow(w) \/ NoRow(w) \/ Deactivate(w)
          \/ GrantLock(w) \/ FreeLock(w) \/ Commit(w) \/ Rollback(w)
        BY DEF Step, ConfigureServer, ConfigureCustomCSS, LockClusterResources,
               FreeClusterResources
    <2> QED
        BY <2>1, <2>2, <2>3, <2>4, <2>5, <2>6, <2>7, <2>8
<1> QED
    BY <1>1, <1>2

\* A step leaves committed rows where they are and old ones as they are, and
\* one of them, or the row it inserts, is active.
LEMMA StepRows ==
    ASSUME ConfiguredInv, NEW w \in Writers, Step(w)
    PROVE  /\ DOMAIN rows \subseteq DOMAIN rows'
           /\ \A i \in DOMAIN rows : ~rows[i].active => rows'[i] = rows[i]
           /\ AlwaysConfigured'
<1>1. CASE GrantLock(w) \/ FreeLock(w)
    BY <1>1, InPlaceRows DEF ConfiguredInv, AlwaysConfigured, ActiveRows
<1>2. CASE Commit(w)
    <2>1. call[w].draft.active
        BY DEF ConfiguredInv, DraftsOK, DraftOK
    <2>2. \A r \in Row : ~r.active => [r EXCEPT !.active = FALSE] = r
        BY DEF Row
    <2>3. \A i \in DOMAIN rows : rows[i] \in Row
        BY RowsType DEF ConfiguredInv
    <2> QED
        BY <1>2, <2>1, <2>2, <2>3, CommitRows
           DEF ConfiguredInv, AlwaysConfigured, ActiveRows
<1>3. CASE rows' = rows
    BY <1>3 DEF ConfiguredInv, AlwaysConfigured, ActiveRows
<1> QED
    BY <1>1, <1>2, <1>3, OtherRows

-----------------------------------------------------------------------------
LEMMA ConfiguredInvariantInit == Init => ConfiguredInv
<1> SUFFICES ASSUME Init PROVE ConfiguredInv
    OBVIOUS
<1>1. \A w \in Writers : call[w] = Idle
    BY DEF Init
<1>2. DraftsOK /\ ViewsOK
    BY <1>1, IdleType DEF DraftsOK, ViewsOK, Idle
<1>3. rows = <<DefaultRow>> /\ DefaultRow.active
    BY DEF Init, DefaultRow
<1>4. 1 \in ActiveRows
    BY <1>3 DEF ActiveRows
<1> QED
    BY <1>2, <1>4, InitType DEF ConfiguredInv, AlwaysConfigured

LEMMA ConfiguredInvariantStep == ConfiguredInv /\ [Next]_vars => ConfiguredInv'
<1> SUFFICES ASSUME ConfiguredInv, [Next]_vars PROVE ConfiguredInv'
    OBVIOUS
<1>1. CASE UNCHANGED vars
    BY <1>1 DEF ConfiguredInv, TypeOK, DraftsOK, ViewsOK, AlwaysConfigured,
                ActiveRows, vars
<1>2. ASSUME NEW w \in Writers, Step(w) PROVE ConfiguredInv'
    <2>1. TypeOK' /\ DraftsOK'
        BY <1>2, StepKeepsType DEF ConfiguredInv
    <2>2. AlwaysConfigured' /\ DOMAIN rows \subseteq DOMAIN rows'
        BY <1>2, StepRows
    <2>3. ViewsOK'
        BY <1>2, <2>2, StepViews DEF ConfiguredInv, ViewsOK
    <2> QED
        BY <2>1, <2>2, <2>3 DEF ConfiguredInv
<1> QED
    BY <1>1, <1>2 DEF Next

\* The invariant behind what follows: every draft is an active row, every view
\* is of rows that exist.
THEOREM ConfiguredInvariant == Spec => []ConfiguredInv
BY ConfiguredInvariantInit, ConfiguredInvariantStep, PTL DEF Spec

\* Rows, locks and transactions are well-typed whatever is saved: the columns a
\* save carries over come from a row, the others from its request.
THEOREM TypeCorrect == Spec => []TypeOK
<1>1. ConfiguredInv => TypeOK
    BY DEF ConfiguredInv
<1> QED
    BY <1>1, ConfiguredInvariant, PTL

\* However saves overlap, and whichever of them dies, the server has an active
\* configuration (configure_server.rs:379-398, the UPDATE and the INSERT in one
\* transaction).
THEOREM ServerIsAlwaysConfigured == Spec => []AlwaysConfigured
<1>1. ConfiguredInv => AlwaysConfigured
    BY DEF ConfiguredInv
<1> QED
    BY <1>1, ConfiguredInvariant, PTL

\* A deactivated version is never written again: an in-place call that waited
\* for a save skips the row the save deactivated.
THEOREM VersionsAreFrozen == Spec => OldVersionsAreFrozen
<1>1. ConfiguredInv /\ [Next]_vars =>
        [\A i \in DOMAIN rows : ~rows[i].active => rows'[i] = rows[i]]_vars
    BY StepRows DEF Next
<1> QED
    BY <1>1, ConfiguredInvariant, PTL DEF Spec, OldVersionsAreFrozen

-----------------------------------------------------------------------------
\* Without ConfigureServer.  A writer about to save is a ConfigureCustomCSS that
\* holds the active row and carries its lock; nobody has saved since it began.
Saving(w) == call[w].pc \in {"deactivate", "commit"}

HoldsCurrent(w) ==
    /\ call[w].name = "ConfigureCustomCSS"
    /\ \A i \in ActiveRows : owner[i] = w /\ rows[i].lock = call[w].draft.lock
    /\ call[w].pc = "commit" => call[w].view = DOMAIN rows

SaversHold == \A w \in Writers : Saving(w) => HoldsCurrent(w)

NoConfigureServer == \A w \in Writers : call[w].name # "ConfigureServer"

LockedInv ==
    /\ ConfiguredInv
    /\ NoConfigureServer
    /\ SaversHold
    /\ OneActiveRow
    /\ CustomCssNeverLost
    /\ RecordedHolderIsGranted

LockedParts ==
    NoConfigureServer /\ SaversHold /\ OneActiveRow /\ CustomCssNeverLost
    /\ RecordedHolderIsGranted

\* A step that leaves the table alone, and takes no row from a writer about to
\* save, only has to show that its own writer is all right.
LEMMA TableKept ==
    ASSUME LockedInv, NEW w \in Writers,
           UNCHANGED <<rows, savedCss, granted>>,
           \A v \in Writers \ {w} : call'[v] = call[v],
           \A v \in Writers \ {w} : \A i \in DOMAIN rows : owner[i] = v => owner'[i] = v,
           call'[w].name # "ConfigureServer",
           Saving(w)' => HoldsCurrent(w)'
    PROVE  LockedParts'
<1>1. ActiveRows' = ActiveRows /\ ActiveRows \subseteq DOMAIN rows
    BY DEF ActiveRows
<1>2. OneActiveRow' /\ CustomCssNeverLost' /\ RecordedHolderIsGranted'
    BY <1>1 DEF LockedInv, OneActiveRow, CustomCssNeverLost, RecordedHolderIsGranted
<1>3. NoConfigureServer'
    BY DEF LockedInv, NoConfigureServer
<1>4. ASSUME NEW v \in Writers \ {w}, Saving(v)' PROVE HoldsCurrent(v)'
    BY <1>1, <1>4 DEF LockedInv, SaversHold, HoldsCurrent, Saving
<1> QED
    BY <1>2, <1>3, <1>4 DEF LockedParts, SaversHold

\* Whoever takes the active row, nobody else is about to save.
LEMMA RowForIsAlone ==
    ASSUME LockedInv, NEW w \in Writers, NEW i \in call[w].view, RowFor(w, i)
    PROVE  /\ ActiveRows = {i}
           /\ i \in DOMAIN rows
           /\ \A v \in Writers : ~Saving(v)
<1>1. i \in ActiveRows
    BY DEF LockedInv, ConfiguredInv, ViewsOK, ActiveRows, RowFor
<1>2. ActiveRows = {i} /\ i \in DOMAIN rows
    BY <1>1 DEF LockedInv, OneActiveRow, ActiveRows
<1>3. \A v \in Writers : owner[i] # v
    BY ConfigurationAssumption DEF RowFor
<1> QED
    BY <1>1, <1>2, <1>3 DEF LockedInv, SaversHold, HoldsCurrent

LEMMA LockRowKeepsLocked ==
    ASSUME LockedInv, NEW w \in Writers, LockRow(w)
    PROVE  LockedParts'
<1>0. call \in [Writers -> Transaction] /\ owner \in [1..MaxRows -> Writers \cup {NoWriter}]
    BY DEF LockedInv, ConfiguredInv, TypeOK
<1>1. PICK i \in call[w].view :
        /\ RowFor(w, i)
        /\ owner' = [owner EXCEPT ![i] = w]
        /\ call' = [call EXCEPT ![w].pc = "deactivate",
                ![w].draft = Carried(call[w].name, @, rows[i])]
    BY DEF LockRow
<1>2. ActiveRows = {i} /\ i \in DOMAIN rows /\ owner[i] = NoWriter
    BY <1>1, RowForIsAlone DEF RowFor
<1>3. call[w].name = "ConfigureCustomCSS"
    BY DEF LockRow, Saves, LockedInv, NoConfigureServer
<1> DEFINE t == [call[w] EXCEPT !.pc = "deactivate",
                    !.draft = Carried(call[w].name, @, rows[i])]
<1>4. rows[i] \in Row /\ call[w] \in Transaction
    BY <1>0, <1>2, RowsType DEF LockedInv, ConfiguredInv
<1>5. Carried(call[w].name, call[w].draft, rows[i]).lock = rows[i].lock
    BY <1>3, <1>4 DEF Carried, Row
<1>6. /\ t.name = "ConfigureCustomCSS"
      /\ t.pc = "deactivate"
      /\ t.draft.lock = rows[i].lock
    BY <1>3, <1>4, <1>5 DEF Transaction
<1>7. call' = [call EXCEPT ![w] = t]
    BY <1>1
<1> HIDE DEF t
<1>8. call'[w] = t /\ \A v \in Writers \ {w} : call'[v] = call[v]
    BY <1>0, <1>7
<1>9. UNCHANGED <<rows, savedCss, granted>>
    BY DEF LockRow, history
<1>10. owner'[i] = w /\ \A j \in DOMAIN rows : j # i => owner'[j] = owner[j]
    <2>1. DOMAIN rows \subseteq 1..MaxRows
        BY RowsType DEF LockedInv, ConfiguredInv
    <2> QED
        BY <1>0, <1>1, <1>2, <2>1
<1>11. ActiveRows' = {i}
    BY <1>2, <1>9 DEF ActiveRows
<1>12. HoldsCurrent(w)'
    BY <1>6, <1>8, <1>9, <1>10, <1>11 DEF HoldsCurrent
<1>13. \A v \in Writers \ {w} : \A j \in DOMAIN rows : owner[j] = v => owner'[j] = v
    BY <1>2, <1>10, ConfigurationAssumption
<1> QED
    BY <1>6, <1>8, <1>9, <1>12, <1>13, TableKept

LEMMA MoveKeepsLocked ==
    ASSUME "ConfigureServer" \notin Calls, LockedInv, NEW w \in Writers,
           \/ \E name, draft : Begin(w, name, draft)
           \/ SelectActive(w) \/ SkipRow(w) \/ NoRow(w) \/ Deactivate(w)
    PROVE  LockedParts'
<1>0. call \in [Writers -> Transaction] /\ call[w] \in Transaction
    BY DEF LockedInv, ConfiguredInv, TypeOK
<1>1. call[w].name # "ConfigureServer"
    BY DEF LockedInv, NoConfigureServer
<1>2. \A t : call' = [call EXCEPT ![w] = t] =>
                call'[w] = t /\ \A v \in Writers \ {w} : call'[v] = call[v]
    BY <1>0
<1>3. UNCHANGED <<rows, owner, savedCss, granted>>
    BY DEF Begin, SelectActive, SkipRow, NoRow, Deactivate, history
<1>4. CASE \E name, draft : Begin(w, name, draft)
    <2>1. PICK name, draft : Begin(w, name, draft)
        BY <1>4
    <2> DEFINE t == [name |-> name, pc |-> "select", view |-> {}, draft |-> draft]
    <2>2. /\ call' = [call EXCEPT ![w] = t]
          /\ t.name # "ConfigureServer"
          /\ t.pc = "select"
        BY <2>1 DEF Begin
    <2> HIDE DEF t
    <2> QED
        BY <1>2, <1>3, <2>2, TableKept DEF Saving
<1>5. CASE SelectActive(w)
    <2> DEFINE t == [call[w] EXCEPT !.pc = "lock", !.view = ActiveRows]
    <2>1. call' = [call EXCEPT ![w] = t] /\ t.name = call[w].name /\ t.pc = "lock"
        BY <1>0, <1>5 DEF SelectActive, Transaction
    <2> HIDE DEF t
    <2> QED
        BY <1>1, <1>2, <1>3, <2>1, TableKept DEF Saving
<1>6. CASE SkipRow(w)
    <2>1. PICK i \in call[w].view : call' = [call EXCEPT ![w].view = @ \ {i}]
        BY <1>6 DEF SkipRow
    <2> DEFINE t == [call[w] EXCEPT !.view = @ \ {i}]
    <2>2. t.name = call[w].name /\ t.pc = "lock"
        BY <1>0, <1>6 DEF SkipRow, At, Transaction
    <2>3. call' = [call EXCEPT ![w] = t]
        BY <2>1
    <2> HIDE DEF t
    <2> QED
        BY <1>1, <1>2, <1>3, <2>2, <2>3, TableKept DEF Saving
<1>7. CASE NoRow(w)
    <2>1. call' = [call EXCEPT ![w] = Idle]
        BY <1>1, <1>7 DEF NoRow
    <2>2. Idle.name # "ConfigureServer" /\ Idle.pc = "idle"
        BY DEF Idle
    <2> QED
        BY <1>2, <1>3, <2>1, <2>2, TableKept DEF Saving
<1>8. CASE Deactivate(w)
    <2> DEFINE t == [call[w] EXCEPT !.pc = "commit", !.view = DOMAIN rows]
    <2>1. /\ call' = [call EXCEPT ![w] = t]
          /\ t.name = call[w].name
          /\ t.view = DOMAIN rows
          /\ t.draft = call[w].draft
        BY <1>0, <1>8 DEF Deactivate, Transaction
    <2> HIDE DEF t
    <2>2. HoldsCurrent(w)
        BY <1>8 DEF Deactivate, At, Saving, LockedInv, SaversHold
    <2>3. call'[w] = t
        BY <1>2, <2>1
    <2>4. HoldsCurrent(w)'
        BY <1>3, <2>1, <2>2, <2>3 DEF HoldsCurrent, ActiveRows
    <2> QED
        BY <1>1, <1>2, <1>3, <2>1, <2>4, TableKept
<1> QED
    BY <1>4, <1>5, <1>6, <1>7, <1>8

\* A call that ends leaves nobody about to save but those who were.
LEMMA EndedIsNotSaving ==
    ASSUME LockedInv, NEW w \in Writers, call' = [call EXCEPT ![w] = Idle]
    PROVE  /\ NoConfigureServer'
           /\ ~Saving(w)'
           /\ \A v \in Writers \ {w} : call'[v] = call[v]
<1>1. call'[w] = Idle /\ \A v \in Writers \ {w} : call'[v] = call[v]
    BY DEF LockedInv, ConfiguredInv, TypeOK
<1>2. Idle.name = "none" /\ Idle.pc = "idle"
    BY DEF Idle
<1> QED
    BY <1>1, <1>2 DEF LockedInv, NoConfigureServer, Saving

LEMMA RollbackKeepsLocked ==
    ASSUME LockedInv, NEW w \in Writers, Rollback(w)
    PROVE  LockedParts'
<1>1. /\ NoConfigureServer'
      /\ ~Saving(w)'
      /\ \A v \in Writers \ {w} : call'[v] = call[v]
    BY EndedIsNotSaving DEF Rollback
<1>2. UNCHANGED <<rows, savedCss, granted>>
    BY DEF Rollback, history
<1>3. \A v \in Writers \ {w} : \A i \in DOMAIN rows : owner[i] = v => owner'[i] = v
    BY RowsType DEF Rollback, LockedInv, ConfiguredInv, TypeOK
<1> QED
    BY <1>1, <1>2, <1>3, TableKept DEF NoConfigureServer

LEMMA InPlaceKeepsLocked ==
    ASSUME LockedInv, NEW w \in Writers, GrantLock(w) \/ FreeLock(w)
    PROVE  LockedParts'
<1> DEFINE h == call[w].draft.lock
<1>1. PICK i \in call[w].view :
        /\ RowFor(w, i)
        /\ \/ /\ GrantLock(w)
              /\ IF rows[i].lock \in {Nobody, h}
                 THEN /\ rows' = [rows EXCEPT ![i].lock = h]
                      /\ granted' = granted \cup {h}
                 ELSE UNCHANGED <<rows, granted>>
           \/ /\ FreeLock(w)
              /\ rows' = IF rows[i].lock = h
                         THEN [rows EXCEPT ![i].lock = Nobody] ELSE rows
              /\ granted' = granted \ {h}
    BY DEF GrantLock, FreeLock
<1>2. ActiveRows = {i} /\ i \in DOMAIN rows /\ \A v \in Writers : ~Saving(v)
    BY <1>1, RowForIsAlone
<1>3. ActiveRows' = {i}
    BY <1>2, InPlaceRows DEF LockedInv, ConfiguredInv, ActiveRows
<1>4. /\ NoConfigureServer'
      /\ ~Saving(w)'
      /\ \A v \in Writers \ {w} : call'[v] = call[v]
    BY EndedIsNotSaving DEF GrantLock, FreeLock
<1>5. SaversHold'
    BY <1>2, <1>4 DEF SaversHold, Saving
<1>6. rows[i] \in Row
    BY <1>2, RowsType DEF LockedInv, ConfiguredInv
<1>7. \A k : [rows EXCEPT ![i].lock = k][i].css = rows[i].css
             /\ [rows EXCEPT ![i].lock = k][i].lock = k
    <2> TAKE k
    <2> DEFINE r == [rows[i] EXCEPT !.lock = k]
    <2>1. r.css = rows[i].css /\ r.lock = k
        BY <1>6 DEF Row
    <2>2. [rows EXCEPT ![i].lock = k] = [rows EXCEPT ![i] = r]
        OBVIOUS
    <2>3. rows = [j \in DOMAIN rows |-> rows[j]]
        BY DEF LockedInv, ConfiguredInv, TypeOK
    <2> HIDE DEF r
    <2> QED
        BY <1>2, <2>1, <2>2, <2>3
<1>8. CustomCssNeverLost'
    <2>1. rows'[i].css = rows[i].css /\ rows[i].css = savedCss
        BY <1>1, <1>2, <1>7 DEF LockedInv, CustomCssNeverLost
    <2> QED
        BY <1>3, <2>1 DEF CustomCssNeverLost, GrantLock, FreeLock
<1>9. RecordedHolderIsGranted'
    <2>1. granted = IF rows[i].lock = Nobody THEN {} ELSE {rows[i].lock}
        BY <1>2 DEF LockedInv, RecordedHolderIsGranted
    <2>2. GrantLock(w) => h \in Holders
        BY DEF GrantLock, LockedInv, ConfiguredInv, DraftsOK, DraftOK
    <2>3. granted' = IF rows'[i].lock = Nobody THEN {} ELSE {rows'[i].lock}
        <3> HIDE DEF h
        <3>1. CASE GrantLock(w) /\ rows[i].lock \in {Nobody, h} /\ rows'[i].lock = h
                   /\ granted' = granted \cup {h}
            BY <2>1, <2>2, <3>1, ConfigurationAssumption
        <3>2. CASE rows' = rows /\ granted' = granted
            BY <2>1, <3>2
        <3>3. CASE rows[i].lock = h /\ rows'[i].lock = Nobody /\ granted' = granted \ {h}
            BY <2>1, <3>3
        <3>4. CASE rows[i].lock # h /\ rows' = rows /\ granted' = granted \ {h}
            BY <2>1, <3>4
        <3> QED
            BY <1>1, <1>7, <3>1, <3>2, <3>3, <3>4
    <2> QED
        BY <1>3, <2>3 DEF RecordedHolderIsGranted
<1>10. OneActiveRow'
    BY <1>3 DEF OneActiveRow
<1> QED
    BY <1>4, <1>5, <1>8, <1>9, <1>10 DEF LockedParts

LEMMA CommitKeepsLocked ==
    ASSUME LockedInv, NEW w \in Writers, Commit(w)
    PROVE  LockedParts'
<1> DEFINE n == Len(rows) + 1
<1>1. /\ DOMAIN rows' = DOMAIN rows \cup {n}
      /\ n \notin DOMAIN rows
      /\ rows'[n] = call[w].draft
      /\ \A i \in DOMAIN rows :
            rows'[i] = IF i \in call[w].view
                       THEN [rows[i] EXCEPT !.active = FALSE] ELSE rows[i]
    BY CommitRows DEF LockedInv, ConfiguredInv
<1> HIDE DEF n
<1>2. Saving(w) /\ HoldsCurrent(w) /\ call[w].view = DOMAIN rows
    BY DEF Commit, At, Saving, LockedInv, SaversHold, HoldsCurrent
<1>3. call[w].draft.active
    BY DEF LockedInv, ConfiguredInv, DraftsOK, DraftOK
<1>4. \A i \in DOMAIN rows : ~rows'[i].active
    <2>1. \A r \in Row : ~[r EXCEPT !.active = FALSE].active
        BY DEF Row
    <2> QED
        BY <1>1, <1>2, <2>1, RowsType DEF LockedInv, ConfiguredInv
<1>5. ActiveRows' = {n}
    BY <1>1, <1>3, <1>4 DEF ActiveRows
<1>6. \A v \in Writers \ {w} : ~Saving(v)
    <2>1. PICK i \in ActiveRows : owner[i] = w
        BY <1>2 DEF LockedInv, ConfiguredInv, AlwaysConfigured, HoldsCurrent
    <2> QED
        BY <2>1 DEF LockedInv, SaversHold, HoldsCurrent
<1>7. /\ NoConfigureServer'
      /\ ~Saving(w)'
      /\ \A v \in Writers \ {w} : call'[v] = call[v]
    BY EndedIsNotSaving DEF Commit
<1>8. SaversHold'
    BY <1>6, <1>7 DEF SaversHold, Saving
<1>9. OneActiveRow'
    BY <1>5 DEF OneActiveRow
<1>10. CustomCssNeverLost'
    <2>1. savedCss' = call[w].draft.css
        BY <1>2 DEF Commit, HoldsCurrent
    <2> QED
        BY <1>1, <1>5, <2>1 DEF CustomCssNeverLost
<1>11. RecordedHolderIsGranted'
    <2>1. PICK i \in ActiveRows : rows[i].lock = call[w].draft.lock
        BY <1>2 DEF LockedInv, ConfiguredInv, AlwaysConfigured, HoldsCurrent
    <2>2. granted' = granted
        BY DEF Commit
    <2> QED
        BY <1>1, <1>5, <2>1, <2>2 DEF LockedInv, RecordedHolderIsGranted
<1> QED
    BY <1>7, <1>8, <1>9, <1>10, <1>11 DEF LockedParts

-----------------------------------------------------------------------------
\* While ConfigureServer is not called, whoever is about to save holds the
\* active row, which is the only one and records what was saved and granted.
THEOREM LockedInvariant ==
    ASSUME "ConfigureServer" \notin Calls
    PROVE  Spec => []LockedInv
<1>1. Init => LockedInv
    <2> SUFFICES ASSUME Init PROVE LockedInv
        OBVIOUS
    <2>1. ConfiguredInv
        BY ConfiguredInvariantInit
    <2>2. Idle.name # "ConfigureServer" /\ Idle.pc = "idle"
        BY DEF Idle
    <2>3. NoConfigureServer /\ SaversHold
        BY <2>2 DEF Init, NoConfigureServer, SaversHold, Saving
    <2>4. /\ rows = <<DefaultRow>>
          /\ DefaultRow.css = NoCss
          /\ DefaultRow.lock = Nobody
        BY DEF Init, DefaultRow
    <2>5. \A i \in ActiveRows : i = 1 /\ rows[i] = DefaultRow
        BY <2>4 DEF ActiveRows
    <2>6. savedCss = NoCss /\ granted = {}
        BY DEF Init
    <2> QED
        BY <2>1, <2>3, <2>4, <2>5, <2>6
           DEF LockedInv, OneActiveRow, CustomCssNeverLost, RecordedHolderIsGranted
<1>2. LockedInv /\ [Next]_vars => LockedInv'
    <2> SUFFICES ASSUME LockedInv, [Next]_vars PROVE LockedInv'
        OBVIOUS
    <2>1. ConfiguredInv'
        BY ConfiguredInvariantStep DEF LockedInv
    <2>2. CASE UNCHANGED vars
        BY <2>1, <2>2
           DEF LockedInv, NoConfigureServer, SaversHold, Saving, HoldsCurrent,
               OneActiveRow, CustomCssNeverLost, RecordedHolderIsGranted,
               ActiveRows, vars
    <2>3. ASSUME NEW w \in Writers, Step(w) PROVE LockedParts'
        BY <2>3, MoveKeepsLocked, LockRowKeepsLocked, InPlaceKeepsLocked,
           CommitKeepsLocked, RollbackKeepsLocked
           DEF Step, ConfigureServer, ConfigureCustomCSS, LockClusterResources,
               FreeClusterResources
    <2> QED
        BY <2>1, <2>2, <2>3 DEF Next, LockedInv, LockedParts
<1> QED
    BY <1>1, <1>2, PTL DEF Spec

\* A stylesheet saved with ConfigureCustomCSS stays in force until the next one
\* is saved, whatever locks are taken and freed meanwhile: the save waits for
\* the active row and copies the rest of it (custom_css.rs:181-217).
THEOREM SavedCssStays ==
    ASSUME "ConfigureServer" \notin Calls
    PROVE  Spec => []CustomCssNeverLost
<1>1. LockedInv => CustomCssNeverLost
    BY DEF LockedInv
<1> QED
    BY <1>1, LockedInvariant, PTL

\* The lock column names the one namespace that was told it holds the cluster
\* lock, across saves of the stylesheet (custom_css.rs:205-217 copies the column).
THEOREM LockColumnIsRight ==
    ASSUME "ConfigureServer" \notin Calls
    PROVE  Spec => []RecordedHolderIsGranted
<1>1. LockedInv => RecordedHolderIsGranted
    BY DEF LockedInv
<1> QED
    BY <1>1, LockedInvariant, PTL

\* There is one active version (the deactivating UPDATE saw every row, and no
\* other save got in between).
THEOREM OneVersionIsActive ==
    ASSUME "ConfigureServer" \notin Calls
    PROVE  Spec => []OneActiveRow
<1>1. LockedInv => OneActiveRow
    BY DEF LockedInv
<1> QED
    BY <1>1, LockedInvariant, PTL

-----------------------------------------------------------------------------
\* The table that the lock column is: an entry for the one holder there may be.
EntryOf(h) == [ns |-> h, resources |-> {OneResource}]

LEMMA LocksAreGrants ==
    ASSUME LockedInv
    PROVE  /\ RecordedLocks = {EntryOf(h) : h \in granted}
           /\ \A g, h \in granted : g = h
           /\ granted \subseteq Holders
<1>1. PICK i \in ActiveRows : ActiveRows = {i}
    BY DEF LockedInv, ConfiguredInv, AlwaysConfigured, OneActiveRow
<1>2. granted = IF rows[i].lock = Nobody THEN {} ELSE {rows[i].lock}
    BY <1>1 DEF LockedInv, RecordedHolderIsGranted
<1>3. RecordedLocks = {EntryOf(rows[k].lock) : k \in {j \in ActiveRows : rows[j].lock # Nobody}}
    BY DEF RecordedLocks, EntryOf
<1>4. CASE rows[i].lock = Nobody
    BY <1>1, <1>2, <1>3, <1>4
<1>5. CASE rows[i].lock # Nobody
    <2>1. granted = {rows[i].lock} /\ RecordedLocks = {EntryOf(rows[i].lock)}
        BY <1>1, <1>2, <1>3, <1>5
    <2> QED
        BY <2>1 DEF LockedInv, ConfiguredInv, TypeOK
<1>6. granted \subseteq Holders /\ \A g, h \in granted : g = h
    BY <1>2 DEF LockedInv, ConfiguredInv, TypeOK
<1> QED
    BY <1>4, <1>5, <1>6

\* What a step does to the holders that were told they have the lock: a grant comes
\* only when nobody else has it, and nothing else but a free changes them.
LEMMA GrantsChange ==
    ASSUME LockedInv, [Next]_vars
    PROVE  \/ granted' = granted
           \/ \E h \in Holders : granted \subseteq {h} /\ granted' = granted \cup {h}
           \/ \E h \in granted : granted' = granted \ {h}
<1>1. ASSUME NEW w \in Writers, GrantLock(w), granted' # granted
      PROVE  \E h \in Holders : granted \subseteq {h} /\ granted' = granted \cup {h}
    <2> DEFINE h == call[w].draft.lock
    <2>1. PICK i \in call[w].view :
            RowFor(w, i) /\ rows[i].lock \in {Nobody, h} /\ granted' = granted \cup {h}
        BY <1>1 DEF GrantLock
    <2>2. i \in ActiveRows
        BY <2>1, RowForIsAlone
    <2>3. granted = IF rows[i].lock = Nobody THEN {} ELSE {rows[i].lock}
        BY <2>2 DEF LockedInv, RecordedHolderIsGranted
    <2>4. h \in Holders
        BY <1>1 DEF GrantLock, LockedInv, ConfiguredInv, DraftsOK, DraftOK
    <2> QED
        BY <2>1, <2>3, <2>4
<1>2. ASSUME NEW w \in Writers, FreeLock(w), granted' # granted
      PROVE  \E h \in granted : granted' = granted \ {h}
    BY <1>2 DEF FreeLock
<1>3. ASSUME NEW w \in Writers, Step(w), ~GrantLock(w), ~FreeLock(w)
      PROVE  granted' = granted
    BY <1>3 DEF Step, ConfigureServer, ConfigureCustomCSS, LockClusterResources,
        FreeClusterResources, Begin, SelectActive, SkipRow, LockRow, NoRow, Deactivate,
        Commit, Rollback, history
<1> QED
    BY <1>1, <1>2, <1>3 DEF Next, vars

\* The entries of one resource of limit 1: those of others bar a grant, one's own are
\* replaced by it.
LEMMA OneHolderTable ==
    ASSUME LockedInv, NEW h \in Holders
    PROVE  /\ AtomicTable!OwnEntries(h, {OneResource}) = {EntryOf(g) : g \in granted \cap {h}}
           /\ AtomicTable!OtherHolders(h, OneResource) = {EntryOf(g) : g \in granted \ {h}}
<1>1. RecordedLocks = {EntryOf(g) : g \in granted}
    BY LocksAreGrants
<1>2. \A g : EntryOf(g).ns = g /\ EntryOf(g).resources = {OneResource}
    BY DEF EntryOf
<1> QED
    BY <1>1, <1>2 DEF AtomicTable!OwnEntries, AtomicTable!OtherHolders

\* Locking and freeing through transactions on the versioned table, with saves in
\* between, is locking and freeing at once: the table of ClusterLock is implemented,
\* and what is proved of it holds of the column (lock_cluster_resources.rs:34-100,
\* custom_css.rs:205-217).
THEOREM CallsTakeEffectAtOnce ==
    ASSUME "ConfigureServer" \notin Calls
    PROVE  Spec => CallsAreAtomic
<1>1. Init => AtomicTable!LockInit
    <2> SUFFICES ASSUME Init PROVE AtomicTable!LockInit
        OBVIOUS
    <2>1. \A i \in ActiveRows : rows[i].lock = Nobody
        BY DEF Init, ActiveRows, DefaultRow
    <2>2. RecordedLocks = {}
        BY <2>1 DEF RecordedLocks
    <2> QED
        BY <2>2 DEF AtomicTable!LockInit, AtomicTable!LimitsOK
<1>2. LockedInv /\ LockedInv' /\ [Next]_vars =>
        [AtomicTable!LockNext]_<<RecordedLocks, [r \in {OneResource} |-> 1]>>
    <2> SUFFICES ASSUME LockedInv, LockedInv', [Next]_vars
        PROVE  AtomicTable!LockNext \/ RecordedLocks' = RecordedLocks
        OBVIOUS
    <2>1. /\ RecordedLocks = {EntryOf(h) : h \in granted}
          /\ granted \subseteq Holders
          /\ \A g, h \in granted : g = h
        BY LocksAreGrants
    <2>2. RecordedLocks' = {EntryOf(h) : h \in granted'}
        <3>1. (RecordedLocks = {EntryOf(h) : h \in granted})'
            BY LocksAreGrants, PTL
        <3> QED
            BY <3>1 DEF EntryOf
    <2>3. {OneResource} \in (SUBSET {OneResource}) \ {{}}
        OBVIOUS
    <2>4. ASSUME NEW h \in Holders, granted \subseteq {h}, granted' = granted \cup {h}
          PROVE  AtomicTable!LockClusterResources(h, {OneResource})
        <3>1. AtomicTable!OtherHolders(h, OneResource) = {}
            BY <2>4, OneHolderTable
        <3>2. RecordedLocks' =
                (RecordedLocks \ AtomicTable!OwnEntries(h, {OneResource})) \cup {EntryOf(h)}
            BY <2>1, <2>2, <2>4, OneHolderTable
        <3> QED
            BY <3>1, <3>2 DEF EntryOf, AtomicTable!LockClusterResources, AtomicTable!Grantable,
                AtomicTable!AtLimit, AtomicTable!Granted
    <2>5. ASSUME NEW h \in granted, granted' = granted \ {h}
          PROVE  AtomicTable!FreeClusterResources(h, {OneResource})
        <3>1. RecordedLocks' = RecordedLocks \ AtomicTable!OwnEntries(h, {OneResource})
            BY <2>1, <2>2, <2>5, OneHolderTable
        <3> QED
            BY <3>1 DEF AtomicTable!FreeClusterResources, AtomicTable!Freed
    <2>6. CASE granted' = granted
        BY <2>1, <2>2, <2>6
    <2> QED
        BY <2>1, <2>3, <2>4, <2>5, <2>6, GrantsChange DEF AtomicTable!LockNext
<1> QED
    BY <1>1, <1>2, LockedInvariant, PTL DEF Spec, CallsAreAtomic, AtomicTable!LockSpec,
        AtomicTable!lockVars
=============================================================================
