----------------------------- MODULE Marketplace -----------------------------
(***************************************************************************)
(* The Marketplace as a whole: purchases and webhooks, the buyers' and     *)
(* admins' RPCs, and the renewal job, over the shared tables; and what it  *)
(* should guarantee.                                                       *)
(***************************************************************************)
EXTENDS MarketCheckout, MarketAccount

VARIABLES job, batch

Renewal == INSTANCE MarketRenewal

renewal == <<job, batch>>
vars == <<market, checkout, account, renewal>>

CheckoutStep == CheckoutNext /\ UNCHANGED <<account, renewal>>
AccountStep == AccountNext /\ UNCHANGED <<checkout, renewal>>
RenewalStep == Renewal!RenewalNext /\ UNCHANGED <<checkout, account>>

Next == CheckoutStep \/ AccountStep \/ RenewalStep

ProcessesInit == CheckoutInit /\ AccountInit /\ Renewal!RenewalInit

\* A server that has sold nothing yet.  Users have no permissions of other
\* origin.
Init ==
    /\ ProcessesInit
    /\ now = 0
    /\ product \in [Products ->
            [terms : Terms, cap : Caps, sold : {0}, delisted : {FALSE}]]
    /\ subs = <<>>
    /\ purchases = <<>>
    /\ payments = {}
    /\ access = [u \in Users |-> [storage |-> Default, grant |-> None, perms |-> {}]]
    /\ charged = [i \in 1..MaxSubs |-> 0]
    /\ faults = 0

\* A handler thread runs to its end, and Stripe keeps delivering an event until
\* it has its 200.  Users, Stripe's decisions and the clock are free.
CheckoutFairness ==
    /\ \A h \in Hooks : WF_vars(HandlerStep(h) /\ UNCHANGED <<account, renewal>>)
    /\ \A s \in Sessions :
        WF_vars(/\ s \notin acked
                /\ \E h \in Hooks : Deliver(h, s)
                /\ UNCHANGED <<account, renewal>>)

\* background_jobs.sh starts the job again and again, and a run does its steps.
RenewalFairness ==
    WF_vars(/\ Renewal!StartJob \/ Renewal!JobStep
            /\ UNCHANGED <<checkout, account>>)

Spec == Init /\ [][Next]_vars
-----------------------------------------------------------------------------
HookState ==
    [pc : {"idle", "check", "product", "subscribe", "purchase", "payment", "count",
           "fulfil", "grant"},
     session : Sessions \cup {None}, terms : Terms \cup {None},
     sub : 0..MaxSubs, purchase : Nat, perms : SUBSET Permissions]

CancelState == [pc : {"idle", "cancel", "free"}, sub : 0..MaxSubs]

ProductEdit ==
    [pc : {"product"}, id : Products, row : ProductRow,
     request : [terms : Terms, cap : Nat, delisted : BOOLEAN]]
NotesEdit == [pc : {"notes"}, id : 1..MaxSubs, row : Subscription, request : Seq(Nat)]

JobState ==
    [pc : {"asleep", "due", "renew", "end all", "charge", "purchase", "payment",
           "advance", "fulfil", "grant", "end", "end, all", "lapsed", "terminate",
           "revoke", "take", "stamp"},
     type : 0..Len(PurchaseTypes), id : 0..MaxSubs,
     perms : SUBSET Permissions, purchase : Nat]

TypeOK ==
    /\ TablesTypeOK
    /\ hook \in [Hooks -> HookState]
    /\ acked \subseteq Sessions /\ extra \in 0..MaxExtra
    /\ cancel \in [Cancelers -> CancelState]
    /\ edit \in [Editors -> {IdleEdit} \cup ProductEdit \cup NotesEdit]
    /\ edits \in 0..MaxEdits
    /\ job \in JobState
    /\ batch \in [DOMAIN batch -> Subscription] /\ DOMAIN batch \subseteq DOMAIN subs

PurchasesOf(s) == {i \in DOMAIN purchases : purchases[i].session = s}

\* A paid session is recorded once, however often its event is delivered:
\* "Idempotent: a redelivered event is a no-op if a MarketPurchase already
\* exists" (docs/stripe_integration.md:114-115).
OnePurchasePerSession == \A s \in Sessions : Cardinality(PurchasesOf(s)) <= 1

\* What holds of it however deliveries overlap: the check and the insert are two
\* statements (stripe_webhook.rs:158-273), and each delivery that comes while
\* another of its event is handled may record the session once more, but no
\* more than that.
RepeatsComeFromOverlaps ==
    \A s \in Sessions : Cardinality(PurchasesOf(s)) <= 1 + extra

\* What Stripe knows of sessions, and the tables of subscriptions and purchases, are
\* the orders and subscriptions of a book, and whatever threads and the job do to
\* them is a step of the book: what is recorded is an order that was paid, for its
\* buyer and product, on a subscription of its own (stripe_webhook.rs:158-273).
OrdersOf(i) == {s \in Sessions : \E k \in PurchasesOf(s) : purchases[k].sub = i}

OrderOf(s) ==
    [status |-> session[s].status, buyer |-> session[s].buyer, product |-> session[s].product]

ServedBy(i) ==
    [buyer |-> subs[i].buyer, product |-> subs[i].product, orders |-> OrdersOf(i)]

Book == INSTANCE OrderBook
    WITH Buyers <- Users, Orders <- Sessions,
         order <- [s \in Sessions |-> OrderOf(s)],
         served <- [i \in DOMAIN subs |-> ServedBy(i)]

BooksOrders == Book!Spec

Unbought == {i \in DOMAIN subs : \A k \in DOMAIN purchases : purchases[k].sub # i}

\* A subscription without a purchase, which nobody bought and which will be
\* billed, comes from a delivery that failed between the two inserts
\* (stripe_webhook.rs:245-273), and each failure leaves one at most.
UnboughtComeFromFailures ==
    Cardinality(Unbought)
        <= Cardinality({h \in Hooks : hook[h].pc = "purchase"}) + faults

\* Stripe delivers until it is answered, so what a buyer paid for is recorded
\* in the end, through failures and crashes of deliveries.
PaidIsRecorded ==
    \A s \in Sessions : session[s].status = "paid" ~> PurchasesOf(s) # {}

HasEntitlement(u, type, terms) ==
    CASE type = "MEDIA_STORAGE"      -> access[u].storage # Default
      [] type = "AI_GRANTS"          -> access[u].grant # None
      [] type = "RELLM_HOSTING"      -> TRUE
      [] type = "PERMISSIONS_ACCESS" -> PermissionsIn(terms) \subseteq access[u].perms

\* Once Stripe has its 200 nobody will try again, so by then the buyer has what
\* was recorded: a purchase "already recorded against this Checkout Session
\* means it was already fulfilled" (stripe_webhook.rs:158-159), and fulfilment
\* "never removes anything the buyer already had" (market_fulfillment.rs:70-71).
AcknowledgedIsGranted ==
    \A i \in DOMAIN purchases :
        LET sub == purchases[i].sub IN
        purchases[i].session \in acked =>
            HasEntitlement(subs[sub].buyer, Type(sub), purchases[i].terms)

\* Permissions are read and written back in two statements; no two processes are
\* between the two for one user.
GrantsDontOverlap ==
    LET granting == {h \in Hooks : At(h, "grant")} IN
    /\ \A g, h \in granting : SessionOf(g).buyer = SessionOf(h).buyer => g = h
    /\ job.pc \in {"grant", "take"} =>
        \A h \in granting : SessionOf(h).buyer # batch[job.id].buyer

\* What was granted may be taken back for a canceled subscription.
MayBeTaken(u, type) ==
    \E i \in DOMAIN subs : subs[i].buyer = u /\ Type(i) = type /\ subs[i].canceled

Ungranted(s) ==
    \E k \in PurchasesOf(s) :
        LET sub == purchases[k].sub IN
        /\ ~MayBeTaken(subs[sub].buyer, Type(sub))
        /\ ~HasEntitlement(subs[sub].buyer, Type(sub), purchases[k].terms)

\* What holds of it: of the sessions Stripe has its 200 for, one for each failure
\* may be left ungranted, the one that was recorded when its delivery failed
\* (stripe_webhook.rs:290-292); neither another grant nor a renewal takes
\* anything from the buyer.
UngrantedComeFromFailures == Cardinality({s \in acked : Ungranted(s)}) <= faults

-----------------------------------------------------------------------------
BeingCounted(p) ==
    {h \in Hooks : /\ hook[h].pc \in {"purchase", "payment", "count"}
                   /\ SessionOf(h).product = p}

-----------------------------------------------------------------------------
RenewalsOf(i) == {k \in DOMAIN purchases : purchases[k].sub = i /\ purchases[k].session = None}

\* 1 while the job has subscription i at one of these steps.
Working(i, pcs) == IF job.id = i /\ job.pc \in pcs THEN 1 ELSE 0

\* Every off-session charge is recorded as a purchase, apart from failures, and
\* no purchase is recorded without one (market_renewal.rs:80-124).
ChargesAreRecorded ==
    \A i \in DOMAIN subs :
        LET recorded == Cardinality(RenewalsOf(i)) IN
        /\ recorded <= charged[i]
        /\ charged[i] <= recorded + Working(i, {"purchase"}) + faults

Recurring == {i \in DOMAIN subs : subs[i].renews # None}

\* The end of what has been paid for: the first period and those charged.
PaidThrough(i) == subs[i].created + (1 + charged[i]) * PeriodOf(subs[i].product)

\* No period is charged twice: what was paid for has moved renews_at, unless
\* the step is still to come or a failure prevented it.
NoDoubleCharge ==
    \A i \in Recurring :
        PaidThrough(i) <= subs[i].renews
            + PeriodOf(subs[i].product)
                * (Working(i, {"purchase", "payment", "advance"}) + faults)

\* No period is given away: renews_at moves only by what was charged.
NoFreePeriod == \A i \in Recurring : subs[i].renews <= PaidThrough(i)

\* A buyer who cancels, or whose card is declined, "keeps what they already
\* paid for" (market.proto:485-486), apart from failures.
ServedForWhatWasPaid ==
    \A i \in Recurring : subs[i].terminated =>
        PaidThrough(i) <= now + faults * PeriodOf(subs[i].product)

\* What the tables, and Stripe, say of a subscription is an account of the
\* ledger, and whatever the job, the handlers and the RPCs do to it, however
\* their statements interleave and fail, is a step of the ledger
\* (market_renewal.rs:30-230, cancel_market_subscription.rs:42).
AccountOf(i) ==
    [opened |-> subs[i].created, period |-> PeriodOf(subs[i].product),
     charges |-> charged[i], recorded |-> Cardinality(RenewalsOf(i)),
     renews |-> subs[i].renews,
     canceled |-> subs[i].canceled, ended |-> subs[i].terminated]

Ledger == INSTANCE SubscriptionLedger
    WITH Periods <- {PeriodOf(p) : p \in Products}, failures <- faults,
         ledger <- [i \in DOMAIN subs |-> AccountOf(i)]

KeepsLedger == Ledger!Spec

\* A renewal repeats what the subscription was created with, however the
\* product has been edited since (market_renewal.rs:110-111).
RenewalRepeatsTerms ==
    \A i \in DOMAIN subs, k \in DOMAIN purchases :
        purchases[k].sub = i => purchases[k].terms = subs[i].terms

\* Canceled and terminated are for good: writing back a whole row, read before,
\* must not undo them (update_market_subscription.rs:92-98).
CancellationSticks ==
    [][\A i \in DOMAIN subs :
        /\ subs[i].canceled => subs'[i].canceled
        /\ subs[i].terminated => subs'[i].terminated]_vars

Continues(notes, later) ==
    \E n \in 0..Len(later) : SubSeq(later, 1, n) = notes

\* The admin saves order i, having opened it before someone else saved it.
SavesOverAnother(e, i) ==
    /\ WriteSubscription(e)
    /\ edit[e].id = i
    /\ edit[e].row.notes # subs[i].notes

NotesGoOn(i) ==
    \/ Continues(subs[i].notes, subs'[i].notes)
    \/ \E e \in Editors :
        SavesOverAnother(e, i) /\ Continues(edit[e].row.notes, subs'[i].notes)

\* The conversation about a hosting order only grows, whatever the job and
\* cancellations write meanwhile, and a note is lost in one case only: of two
\* admins who had the order open at once, the second one's save goes on from
\* what she read (update_market_subscription.rs:60-98).  That it is
\* "append-only" (market.proto:599) is true of saves one after the other.
NotesLostOnlyToOverlaps == [][\A i \in DOMAIN subs : NotesGoOn(i)]_vars

\* The job catches up, through failed and killed runs: no subscription stays
\* due for ever, and no canceled one whose time is up stays in service (unless
\* a renewal under way gives it more time), since an unstamped row is "retried
\* next run" (market_renewal.rs:176-177).
NothingIsLeft ==
    \A i \in 1..MaxSubs :
        []<>~(/\ i \in DOMAIN subs
              /\ Due(i) \/ (Lapsed(i) /\ ~subs[i].terminated))
=============================================================================
