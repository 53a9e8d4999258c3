---------------------------- MODULE MarketRenewal ----------------------------
(***************************************************************************)
(* The hourly job renew_market_subscriptions: for each purchase type it    *)
(* renews the subscriptions that are due, charging the saved payment       *)
(* method, and then ends the entitlements of those whose cancellation has  *)
(* taken effect (logic/market/market_renewal.rs).                          *)
(*                                                                         *)
(* A pass works through the rows its query returned, however stale they    *)
(* have become.  There is one job pod; its loop starts the job again after *)
(* each run, whether it ended or died.                                     *)
(***************************************************************************)
EXTENDS MarketTables

VARIABLES
    job,            \* the job process
    batch           \* the rows of its current query still to be done: id -> row

renewal == <<job, batch>>

Asleep == [pc |-> "asleep", type |-> 0, id |-> 0, perms |-> {}, purchase |-> 0]

NoRows == <<>>

-----------------------------------------------------------------------------
At(pc) == job.pc = pc

GoTo(pc) == job' = [job EXCEPT !.pc = pc]

JobType == PurchaseTypes[job.type]

\* The row being worked on, as it was when the query ran.
Row == batch[job.id]

RowsWhere(Test(_)) == [i \in {k \in DOMAIN subs : Type(k) = JobType /\ Test(k)} |-> subs[i]]

\* Row i of the batch is done; the pass goes on.
Without(i) == [k \in DOMAIN batch \ {i} |-> batch[k]]

Tick ==
    /\ now < MaxTime
    /\ now' = now + 1
    /\ UNCHANGED <<tables, session, charged, faults, renewal>>

StartJob ==
    /\ At("asleep")
    /\ job' = [Asleep EXCEPT !.pc = "due", !.type = 1]
    /\ UNCHANGED <<market, batch>>

\* renew_subscriptions_of_type: the due rows; all are ended when Stripe is not
\* usable any more.
LoadDue ==
    /\ At("due")
    /\ batch' = RowsWhere(Due)
    /\ \E pc \in {"renew", "end all"} : GoTo(pc)
    /\ UNCHANGED market

\* A query fails: its pass is left out.
FailQuery ==
    /\ At("due") \/ At("lapsed")
    /\ Fault
    /\ GoTo(IF At("due") THEN "lapsed" ELSE "terminate")
    /\ UNCHANGED <<now, tables, session, charged, batch>>

\* The next row, in the order of renews_at; or the pass is over.
NextDue ==
    /\ \/ At("renew") \/ At("end all")
    /\ IF batch = NoRows
       THEN GoTo("lapsed")
       ELSE \E i \in DOMAIN batch :
            /\ \A k \in DOMAIN batch : batch[i].renews <= batch[k].renews
            /\ job' = [job EXCEPT !.id = i,
                          !.pc = IF At("renew") THEN "charge" ELSE "end, all"]
    /\ UNCHANGED <<market, batch>>

-----------------------------------------------------------------------------
\* The steps of renew_one.  An error in any of them ends the subscription.
Err ==
    /\ Fault
    /\ GoTo("end")
    /\ UNCHANGED <<now, tables, session, charged, batch>>

\* There is nothing to charge with, or Stripe declines.
Declined ==
    /\ At("charge")
    /\ GoTo("end")
    /\ UNCHANGED <<market, batch>>

Charge ==
    /\ At("charge")
    /\ Row.payable
    /\ charged' = [charged EXCEPT ![job.id] = @ + 1]
    /\ GoTo("purchase")
    /\ UNCHANGED <<now, tables, session, faults, batch>>

\* Stripe charges, but its answer does not arrive.
ChargeUnanswered ==
    /\ At("charge")
    /\ Row.payable
    /\ Fault
    /\ charged' = [charged EXCEPT ![job.id] = @ + 1]
    /\ GoTo("end")
    /\ UNCHANGED <<now, tables, session, batch>>

\* Mistake: the purchase is linked to the newest subscription.
RecordPurchaseOfNewest ==
    /\ At("purchase")
    /\ purchases' = Append(purchases,
            [sub |-> Len(subs), session |-> None, terms |-> Row.terms])
    /\ job' = [job EXCEPT !.pc = "payment", !.purchase = Len(purchases) + 1]
    /\ UNCHANGED <<now, product, subs, payments, access, session, charged, faults, batch>>

\* A renewal repeats what the subscription, not the product, says.
RecordPurchase ==
    /\ At("purchase")
    /\ purchases' = Append(purchases,
            [sub |-> job.id, session |-> None, terms |-> Row.terms])
    /\ job' = [job EXCEPT !.pc = "payment", !.purchase = Len(purchases) + 1]
    /\ UNCHANGED <<now, product, subs, payments, access, session, charged, faults, batch>>

RecordPayment ==
    /\ At("payment")
    /\ payments' = payments \cup {job.purchase}
    /\ GoTo("advance")
    /\ UNCHANGED <<now, product, subs, purchases, access, session, charged, faults, batch>>

\* Mistake: renews_at stays.
AdvanceNothing ==
    /\ At("advance")
    /\ GoTo("fulfil")
    /\ UNCHANGED <<market, batch>>

\* From the renews_at that was read, by the subscription's period.
AdvanceRenewal ==
    /\ At("advance")
    /\ subs' = [subs EXCEPT ![job.id].renews = Advance(Row.renews, Row.product)]
    /\ GoTo("fulfil")
    /\ UNCHANGED <<now, product, purchases, payments, access, session, charged, faults, batch>>

Done(pc) ==
    /\ GoTo(pc)
    /\ batch' = Without(job.id)

Refulfil ==
    /\ At("fulfil")
    /\ IF JobType = "PERMISSIONS_ACCESS"
       THEN /\ job' = [job EXCEPT !.pc = "grant", !.perms = access[Row.buyer].perms]
            /\ UNCHANGED <<access, batch>>
       ELSE /\ access' = GrantOutright(Row.buyer, JobType, Row.terms)
            /\ Done("renew")
    /\ UNCHANGED <<now, product, subs, purchases, payments, session, charged, faults>>

RegrantPermissions ==
    /\ At("grant")
    /\ access' = [access EXCEPT ![Row.buyer].perms = job.perms \cup PermissionsIn(Row.terms)]
    /\ Done("renew")
    /\ UNCHANGED <<now, product, subs, purchases, payments, session, charged, faults>>

FailRenewal ==
    /\ job.pc \in {"purchase", "payment", "advance", "fulfil", "grant"}
    /\ Err

\* Mistake: the row is written back as the query returned it.
EndStaleSubscription ==
    /\ job.pc \in {"end", "end, all"}
    /\ subs' = [subs EXCEPT ![job.id] = [Row EXCEPT !.canceled = TRUE]]
    /\ Done(IF At("end") THEN "renew" ELSE "end all")
    /\ UNCHANGED <<now, product, purchases, payments, access, session, charged, faults>>

\* end_subscription: canceled_at is set, sold_count stays.  If that fails the
\* error is logged and the row left as it is.
EndSubscription ==
    /\ job.pc \in {"end", "end, all"}
    /\ \/ /\ subs' = [subs EXCEPT ![job.id].canceled = TRUE]
          /\ faults' = faults
       \/ /\ Fault
          /\ subs' = subs
    /\ Done(IF At("end") THEN "renew" ELSE "end all")
    /\ UNCHANGED <<now, product, purchases, payments, access, session, charged>>

-----------------------------------------------------------------------------
\* terminate_subscriptions_of_type
LoadLapsed ==
    /\ At("lapsed")
    /\ batch' = RowsWhere(LAMBDA i : Lapsed(i) /\ ~subs[i].terminated)
    /\ GoTo("terminate")
    /\ UNCHANGED market

\* Mistake: the last of the types is left out.
NextLapsedButLast ==
    /\ At("terminate")
    /\ IF batch # NoRows
       THEN \E i \in DOMAIN batch : job' = [job EXCEPT !.id = i, !.pc = "revoke"]
       ELSE job' = IF job.type + 1 < Len(PurchaseTypes)
                   THEN [job EXCEPT !.pc = "due", !.type = @ + 1]
                   ELSE Asleep
    /\ UNCHANGED <<market, batch>>

NextLapsed ==
    /\ At("terminate")
    /\ IF batch # NoRows
       THEN \E i \in DOMAIN batch : job' = [job EXCEPT !.id = i, !.pc = "revoke"]
       ELSE job' = IF job.type < Len(PurchaseTypes)
                   THEN [job EXCEPT !.pc = "due", !.type = @ + 1]
                   ELSE Asleep
    /\ UNCHANGED <<market, batch>>

\* terminate_entitlement: storage falls back to the default, permissions are
\* read and written back without those of the subscription; nothing is taken
\* for the other types.
Revoke ==
    /\ At("revoke")
    /\ CASE JobType = "MEDIA_STORAGE" ->
              /\ access' = [access EXCEPT ![Row.buyer].storage = Default]
              /\ GoTo("stamp")
         [] JobType = "PERMISSIONS_ACCESS" ->
              /\ job' = [job EXCEPT !.pc = "take", !.perms = access[Row.buyer].perms]
              /\ access' = access
         [] OTHER ->
              /\ access' = access
              /\ GoTo("stamp")
    /\ UNCHANGED <<now, product, subs, purchases, payments, session, charged, faults, batch>>

TakePermissions ==
    /\ At("take")
    /\ access' = [access EXCEPT ![Row.buyer].perms = job.perms \ PermissionsIn(Row.terms)]
    /\ GoTo("stamp")
    /\ UNCHANGED <<now, product, subs, purchases, payments, session, charged, faults, batch>>

StampTerminated ==
    /\ At("stamp")
    /\ subs' = [subs EXCEPT ![job.id].terminated = TRUE]
    /\ Done("terminate")
    /\ UNCHANGED <<now, product, purchases, payments, access, session, charged, faults>>

\* Any of these fails: the row is left for the next run.
FailTermination ==
    /\ job.pc \in {"revoke", "take", "stamp"}
    /\ Fault
    /\ Done("terminate")
    /\ UNCHANGED <<now, tables, session, charged>>

\* The job dies, anywhere.
CrashJob ==
    /\ ~At("asleep")
    /\ Fault
    /\ job' = Asleep
    /\ batch' = NoRows
    /\ UNCHANGED <<now, tables, session, charged>>

JobStep ==
    \/ LoadDue
    \/ NextDue
    \/ Declined
    \/ Charge
    \/ RecordPurchase
    \/ RecordPayment
    \/ AdvanceRenewal
    \/ Refulfil
    \/ RegrantPermissions
    \/ EndSubscription
    \/ LoadLapsed
    \/ NextLapsed
    \/ Revoke
    \/ TakePermissions
    \/ StampTerminated

RenewalInit ==
    /\ job = Asleep
    /\ batch = NoRows

RenewalNext ==
    \/ Tick
    \/ StartJob
    \/ JobStep
    \/ FailQuery
    \/ ChargeUnanswered
    \/ FailRenewal
    \/ FailTermination
    \/ CrashJob
=============================================================================
