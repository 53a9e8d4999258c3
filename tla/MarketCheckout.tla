--------------------------- MODULE MarketCheckout ---------------------------
(***************************************************************************)
(* Buying a product: the RPC MakeMarketPurchase opens a Stripe Checkout    *)
(* Session and writes nothing; Stripe's webhook checkout.session.completed *)
(* records the purchase and grants it (web/stripe_webhook.rs).             *)
(*                                                                         *)
(* Stripe delivers the event until a delivery is answered with 200, and    *)
(* may deliver it again, also while another delivery is being handled by   *)
(* the other server replica.  A delivery that fails half-way, or whose     *)
(* server dies, leaves what it has written.                                *)
(***************************************************************************)
EXTENDS MarketTables

CONSTANTS
    Hooks,          \* server threads that handle deliveries
    MaxExtra        \* bound: deliveries while another of their event is handled

ASSUME CheckoutAssumption == IsFiniteSet(Hooks) /\ MaxExtra \in Nat

VARIABLES
    hook,           \* what each of the threads is doing
    acked,          \* sessions with a delivery answered with 200
    extra           \* deliveries so far that overlapped another of their event

checkout == <<hook, acked, extra>>

IdleHook == [pc |-> "idle", session |-> None, terms |-> None,
             sub |-> 0, purchase |-> 0, perms |-> {}]

-----------------------------------------------------------------------------
\* MakeMarketPurchase: only a product that is listed and not sold out.  The
\* session keeps the price it was opened at.
MakeMarketPurchase(u, p) ==
    /\ ~product[p].delisted
    /\ ~(product[p].cap > 0 /\ product[p].sold >= product[p].cap)
    /\ \E s \in Sessions :
        /\ session[s] = NoSession
        /\ session' = [session EXCEPT ![s] =
                [status |-> "open", buyer |-> u, product |-> p,
                 terms |-> product[p].terms]]
    /\ UNCHANGED <<now, tables, charged, faults, checkout>>

\* The buyer pays on Stripe's page, whenever she likes.
Pay(s) ==
    /\ session[s].status = "open"
    /\ session' = [session EXCEPT ![s].status = "paid"]
    /\ UNCHANGED <<now, tables, charged, faults, checkout>>

\* Stripe posts the event of a paid session, or posts it again, whatever became
\* of the deliveries before.
Deliver(h, s) ==
    /\ hook[h] = IdleHook
    /\ session[s].status = "paid"
    /\ IF \A g \in Hooks : hook[g].session # s
       THEN extra' = extra
       ELSE extra < MaxExtra /\ extra' = extra + 1
    /\ hook' = [hook EXCEPT ![h] = [IdleHook EXCEPT !.pc = "check", !.session = s]]
    /\ UNCHANGED <<market, acked>>

-----------------------------------------------------------------------------
At(h, pc) == hook[h].pc = pc
SessionOf(h) == session[hook[h].session]

\* The thread answers with 200, or goes on at pc.
Answer(h) ==
    /\ hook' = [hook EXCEPT ![h] = IdleHook]
    /\ acked' = acked \cup {hook[h].session}

GoTo(h, pc) ==
    /\ hook' = [hook EXCEPT ![h].pc = pc]
    /\ UNCHANGED acked

\* Mistake: no check.
GoOn(h) ==
    /\ At(h, "check")
    /\ GoTo(h, "product")
    /\ UNCHANGED <<market, extra>>

\* A purchase recorded for the session: nothing to do.
CheckProcessed(h) ==
    /\ At(h, "check")
    /\ IF \E i \in DOMAIN purchases : purchases[i].session = hook[h].session
       THEN Answer(h)
       ELSE GoTo(h, "product")
    /\ UNCHANGED <<market, extra>>

\* What is recorded is the product as it is now.
LoadProduct(h) ==
    /\ At(h, "product")
    /\ hook' = [hook EXCEPT ![h].pc = "subscribe",
                            ![h].terms = product[SessionOf(h).product].terms]
    /\ UNCHANGED <<market, acked, extra>>

\* The payment method is looked up at Stripe, and left out if that fails.
InsertSubscription(h) ==
    LET s == SessionOf(h) IN
    /\ At(h, "subscribe")
    /\ Len(subs) < MaxSubs
    /\ \E payable \in BOOLEAN :
        subs' = Append(subs,
            [buyer |-> s.buyer, product |-> s.product, terms |-> hook[h].terms,
             created |-> now,
             renews |-> IF PeriodOf(s.product) = 0 THEN None ELSE Advance(now, s.product),
             payable |-> payable, canceled |-> FALSE, terminated |-> FALSE,
             notes |-> <<>>])
    /\ hook' = [hook EXCEPT ![h].pc = "purchase", ![h].sub = Len(subs) + 1]
    /\ UNCHANGED <<now, product, purchases, payments, access, session, charged,
                   faults, acked, extra>>

\* Mistake: the purchase is linked to the newest subscription.
InsertPurchaseOfNewest(h) ==
    /\ At(h, "purchase")
    /\ purchases' = Append(purchases,
            [sub |-> Len(subs), session |-> hook[h].session, terms |-> hook[h].terms])
    /\ hook' = [hook EXCEPT ![h].pc = "payment", ![h].purchase = Len(purchases) + 1]
    /\ UNCHANGED <<now, product, subs, payments, access, session, charged, faults,
                   acked, extra>>

InsertPurchase(h) ==
    /\ At(h, "purchase")
    /\ purchases' = Append(purchases,
            [sub |-> hook[h].sub, session |-> hook[h].session, terms |-> hook[h].terms])
    /\ hook' = [hook EXCEPT ![h].pc = "payment", ![h].purchase = Len(purchases) + 1]
    /\ UNCHANGED <<now, product, subs, payments, access, session, charged, faults,
                   acked, extra>>

InsertPayment(h) ==
    /\ At(h, "payment")
    /\ payments' = payments \cup {hook[h].purchase}
    /\ GoTo(h, "count")
    /\ UNCHANGED <<now, product, subs, purchases, access, session, charged, faults, extra>>

\* sold_count + 1, in SQL; if it fails that is only logged.
CountSale(h) ==
    /\ At(h, "count")
    /\ \/ /\ product' = [product EXCEPT ![SessionOf(h).product].sold = @ + 1]
          /\ faults' = faults
       \/ /\ Fault
          /\ product' = product
    /\ GoTo(h, "fulfil")
    /\ UNCHANGED <<now, subs, purchases, payments, access, session, charged, extra>>

\* fulfill_purchase: one UPDATE, or a read of the user's permissions that
\* GrantPermissions writes back with the new ones.
Fulfil(h) ==
    LET type == TypeOf(SessionOf(h).product) IN
    /\ At(h, "fulfil")
    /\ IF type = "PERMISSIONS_ACCESS"
       THEN /\ hook' = [hook EXCEPT ![h].pc = "grant",
                                    ![h].perms = access[SessionOf(h).buyer].perms]
            /\ UNCHANGED <<access, acked>>
       ELSE /\ access' = GrantOutright(SessionOf(h).buyer, type, hook[h].terms)
            /\ Answer(h)
    /\ UNCHANGED <<now, product, subs, purchases, payments, session, charged, faults, extra>>

\* Mistake: the new permissions replace those the buyer has.
GrantOnly(h) ==
    /\ At(h, "grant")
    /\ access' = [access EXCEPT ![SessionOf(h).buyer].perms = PermissionsIn(hook[h].terms)]
    /\ Answer(h)
    /\ UNCHANGED <<now, product, subs, purchases, payments, session, charged, faults, extra>>

GrantPermissions(h) ==
    /\ At(h, "grant")
    /\ access' = [access EXCEPT ![SessionOf(h).buyer].perms =
                        hook[h].perms \cup PermissionsIn(hook[h].terms)]
    /\ Answer(h)
    /\ UNCHANGED <<now, product, subs, purchases, payments, session, charged, faults, extra>>

\* Mistake: an error is answered with 200.
SwallowFailure(h) ==
    /\ hook[h] # IdleHook
    /\ Fault
    /\ Answer(h)
    /\ UNCHANGED <<now, tables, session, charged, extra>>

\* A statement fails (500), or the server dies: Stripe will deliver again.
FailDelivery(h) ==
    /\ hook[h] # IdleHook
    /\ Fault
    /\ hook' = [hook EXCEPT ![h] = IdleHook]
    /\ UNCHANGED <<now, tables, session, charged, acked, extra>>

HandlerStep(h) ==
    \/ CheckProcessed(h)
    \/ LoadProduct(h)
    \/ InsertSubscription(h)
    \/ InsertPurchase(h)
    \/ InsertPayment(h)
    \/ CountSale(h)
    \/ Fulfil(h)
    \/ GrantPermissions(h)

CheckoutInit ==
    /\ session = [s \in Sessions |-> NoSession]
    /\ hook = [h \in Hooks |-> IdleHook]
    /\ acked = {}
    /\ extra = 0

CheckoutNext ==
    \/ \E u \in Users, p \in Products : MakeMarketPurchase(u, p)
    \/ \E s \in Sessions : Pay(s)
    \/ \E h \in Hooks, s \in Sessions : Deliver(h, s)
    \/ \E h \in Hooks : HandlerStep(h) \/ FailDelivery(h)
=============================================================================
