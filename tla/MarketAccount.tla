---------------------------- MODULE MarketAccount ----------------------------
(***************************************************************************)
(* The RPCs that change what was bought or is for sale:                    *)
(* CancelMarketSubscription, UpdateMarketProduct and                       *)
(* UpdateMarketSubscription.  Each reads a row and writes later.  The two  *)
(* updates write the whole row they read (diesel's AsChangeset), so they   *)
(* put back every column that changed in between, except that a column     *)
(* that was NULL when it was read is left alone.                           *)
(***************************************************************************)
EXTENDS MarketTables

CONSTANTS
    Cancelers,      \* server threads that run CancelMarketSubscription
    Editors,        \* server threads that run the two updates
    Caps,           \* values an admin sets available_count to
    MaxEdits        \* bound: updates begun in a behaviour

ASSUME AccountAssumption == Caps \subseteq Nat /\ MaxEdits \in Nat

VARIABLES
    cancel,         \* what each canceler does
    edit,           \* what each editor does, with the row it read
    edits           \* updates begun so far

account == <<cancel, edit, edits>>

IdleCancel == [pc |-> "idle", sub |-> 0]
IdleEdit == [pc |-> "idle", id |-> None, row |-> None, request |-> None]

-----------------------------------------------------------------------------
\* Mistake: a subscription is canceled again.
ReadForAnyCancel(c, i) ==
    /\ cancel[c] = IdleCancel
    /\ i \in DOMAIN subs
    /\ cancel' = [cancel EXCEPT ![c] = [pc |-> "cancel", sub |-> i]]
    /\ UNCHANGED <<market, edit, edits>>

\* The buyer, or an admin, cancels.  A subscription found canceled is left
\* alone.
ReadForCancel(c, i) ==
    /\ cancel[c] = IdleCancel
    /\ i \in DOMAIN subs
    /\ ~subs[i].canceled
    /\ cancel' = [cancel EXCEPT ![c] = [pc |-> "cancel", sub |-> i]]
    /\ UNCHANGED <<market, edit, edits>>

\* canceled_at is set whatever it has become since.
SetCanceled(c) ==
    /\ cancel[c].pc = "cancel"
    /\ subs' = [subs EXCEPT ![cancel[c].sub].canceled = TRUE]
    /\ cancel' = [cancel EXCEPT ![c].pc = "free"]
    /\ UNCHANGED <<now, product, purchases, payments, access, session, charged,
                   faults, edit, edits>>

\* Mistake: no GREATEST.
FreeSlotBelowZero(c) ==
    /\ cancel[c].pc = "free"
    /\ product' = [product EXCEPT ![subs[cancel[c].sub].product].sold = @ - 1]
    /\ cancel' = [cancel EXCEPT ![c] = IdleCancel]
    /\ UNCHANGED <<now, subs, purchases, payments, access, session, charged,
                   faults, edit, edits>>

\* GREATEST(sold_count - 1, 0), in SQL.
FreeSlot(c) ==
    LET p == subs[cancel[c].sub].product IN
    /\ cancel[c].pc = "free"
    /\ product' = [product EXCEPT ![p].sold = IF @ > 0 THEN @ - 1 ELSE 0]
    /\ cancel' = [cancel EXCEPT ![c] = IdleCancel]
    /\ UNCHANGED <<now, subs, purchases, payments, access, session, charged,
                   faults, edit, edits>>

\* The call stops after its first write: the slot stays taken.
FailCancel(c) ==
    /\ cancel[c] # IdleCancel
    /\ Fault
    /\ cancel' = [cancel EXCEPT ![c] = IdleCancel]
    /\ UNCHANGED <<now, tables, session, charged, edit, edits>>

-----------------------------------------------------------------------------
\* An admin gives a product new terms, capacity and listing.
ReadProduct(e, p) ==
    /\ edit[e] = IdleEdit
    /\ edits < MaxEdits
    /\ \E t \in Terms, cap \in Caps, delisted \in BOOLEAN :
        edit' = [edit EXCEPT ![e] =
            [pc |-> "product", id |-> p, row |-> product[p],
             request |-> [terms |-> t, cap |-> cap, delisted |-> delisted]]]
    /\ edits' = edits + 1
    /\ UNCHANGED <<market, cancel>>

\* sold is the count that was read.  A request to list the product leaves
\* delisted_at as it is: None is no change.
WriteProduct(e) ==
    LET p == edit[e].id
        request == edit[e].request
    IN
    /\ edit[e].pc = "product"
    /\ product' = [product EXCEPT ![p] =
            [terms |-> request.terms, cap |-> request.cap, sold |-> edit[e].row.sold,
             delisted |-> request.delisted \/ @.delisted]]
    /\ edit' = [edit EXCEPT ![e] = IdleEdit]
    /\ UNCHANGED <<now, subs, purchases, payments, access, session, charged,
                   faults, cancel, edits>>

\* An admin appends a note to a hosting order.  The notes of the request must
\* begin with those of the row that is read.
ReadSubscription(e, i) ==
    /\ edit[e] = IdleEdit
    /\ edits < MaxEdits
    /\ i \in DOMAIN subs
    /\ Type(i) = "RELLM_HOSTING"
    /\ edit' = [edit EXCEPT ![e] =
            [IdleEdit EXCEPT !.pc = "notes", !.id = i, !.row = subs[i],
                             !.request = Append(subs[i].notes, edits + 1)]]
    /\ edits' = edits + 1
    /\ UNCHANGED <<market, cancel>>

\* Mistake: a NULL that was read is written back (treat_none_as_null).
WriteWholeSubscription(e) ==
    /\ edit[e].pc = "notes"
    /\ subs' = [subs EXCEPT ![edit[e].id] =
            [edit[e].row EXCEPT !.notes = edit[e].request]]
    /\ edit' = [edit EXCEPT ![e] = IdleEdit]
    /\ UNCHANGED <<now, product, purchases, payments, access, session, charged,
                   faults, cancel, edits>>

\* renews_at goes back to what was read; canceled_at and
\* service_terminated_at cannot, being NULL or already set when read.
WriteSubscription(e) ==
    LET row == edit[e].row IN
    /\ edit[e].pc = "notes"
    /\ subs' = [subs EXCEPT ![edit[e].id] =
            [row EXCEPT !.notes = edit[e].request,
                        !.canceled = row.canceled \/ subs[edit[e].id].canceled,
                        !.terminated = row.terminated \/ subs[edit[e].id].terminated]]
    /\ edit' = [edit EXCEPT ![e] = IdleEdit]
    /\ UNCHANGED <<now, product, purchases, payments, access, session, charged,
                   faults, cancel, edits>>

AccountInit ==
    /\ cancel = [c \in Cancelers |-> IdleCancel]
    /\ edit = [e \in Editors |-> IdleEdit]
    /\ edits = 0

AccountNext ==
    \/ \E c \in Cancelers :
        \/ \E i \in DOMAIN subs : ReadForCancel(c, i)
        \/ SetCanceled(c)
        \/ FreeSlot(c)
        \/ FailCancel(c)
    \/ \E e \in Editors :
        \/ \E p \in Products : ReadProduct(e, p)
        \/ WriteProduct(e)
        \/ \E i \in DOMAIN subs : ReadSubscription(e, i)
        \/ WriteSubscription(e)
=============================================================================
