---------------------------- MODULE MarketTables ----------------------------
(***************************************************************************)
(* The database tables behind the Marketplace, the clock, and what Stripe  *)
(* knows: the state that the handlers and jobs of MarketCheckout,          *)
(* MarketAccount and MarketRenewal share.  Every action of those modules   *)
(* is one SQL statement or one call of Stripe: none of the code runs in a  *)
(* transaction, so other handlers come between any two statements.         *)
(*                                                                         *)
(* A price, its currency and the details of what is sold change together   *)
(* when an admin edits a product; together they are the product's "terms". *)
(***************************************************************************)
EXTENDS Naturals, Sequences, FiniteSets

CONSTANTS
    Users,
    Products,
    TypeOf(_),          \* market_products.product_type, immutable
    PeriodOf(_),        \* market_products.period in ticks, 0 when indefinite
    Terms,              \* amount, currency and details
    PermissionsIn(_),   \* the permissions that terms of a permissions product list
    Default,            \* the storage allocation of the server's configuration
    None,               \* no terms, session, time or user
    Sessions,           \* Stripe Checkout Sessions
    MaxSubs,            \* bound: subscriptions
    MaxTime,            \* bound: the clock
    MaxFaults           \* bound: statements and calls that fail, crashes

\* ALL_PURCHASE_TYPES, in the order the renewal job takes them.
PurchaseTypes == <<"MEDIA_STORAGE", "AI_GRANTS", "RELLM_HOSTING", "PERMISSIONS_ACCESS">>

Permissions == UNION {PermissionsIn(t) : t \in Terms}

ASSUME MarketAssumption ==
    /\ \A p \in Products :
        /\ TypeOf(p) \in {PurchaseTypes[i] : i \in DOMAIN PurchaseTypes}
        /\ PeriodOf(p) \in Nat
    /\ None \notin Terms \cup Sessions \cup Users \cup {Default}
    /\ None \notin Nat
    /\ Default \notin Terms
    /\ MaxSubs \in Nat /\ MaxTime \in Nat /\ MaxFaults \in Nat

VARIABLES
    now,            \* NOW() of the database and SystemTime::now() of the servers
    product,        \* market_products
    subs,           \* market_subscriptions, by id
    purchases,      \* market_purchases, by id
    payments,       \* the purchases that have a row in market_payments
    access,         \* users: storage limit, permissions and AI grant
    session,        \* Stripe: the Checkout Sessions
    charged,        \* Stripe: off-session charges made for a subscription
    faults          \* failures so far

tables == <<product, subs, purchases, payments, access>>
market == <<now, product, subs, purchases, payments, access, session, charged, faults>>

ProductRow == [terms : Terms, cap : Nat, sold : Nat, delisted : BOOLEAN]

Subscription ==
    [buyer : Users, product : Products, terms : Terms,
     created : 0..MaxTime,          \* created_at
     renews : Nat \cup {None},      \* renews_at
     payable : BOOLEAN,             \* a Stripe customer and payment method on file
     canceled : BOOLEAN,            \* canceled_at is set
     terminated : BOOLEAN,          \* service_terminated_at is set
     notes : Seq(Nat)]              \* fulfillment_notes of a hosting order

Purchase == [sub : 1..MaxSubs, session : Sessions \cup {None}, terms : Terms]

NoSession == [status |-> "new", buyer |-> None, product |-> None, terms |-> None]

-----------------------------------------------------------------------------
Type(i) == TypeOf(subs[i].product)

Fault ==
    /\ faults < MaxFaults
    /\ faults' = faults + 1

\* advance_by_period
Advance(t, p) == t + PeriodOf(p)

\* fulfill_purchase for the types that set the entitlement outright, in one
\* UPDATE or upsert.  Hosting is set up by hand; permissions are read and
\* written back by the callers.
GrantOutright(u, type, terms) ==
    CASE type = "MEDIA_STORAGE" -> [access EXCEPT ![u].storage = terms]
      [] type = "AI_GRANTS"     -> [access EXCEPT ![u].grant = terms]
      [] type = "RELLM_HOSTING" -> access

\* Mistake: a cancellation takes effect at once.
LapsedAtOnce(i) == subs[i].canceled

\* A canceled subscription lapses when it would have been renewed.
Lapsed(i) == subs[i].canceled /\ (subs[i].renews = None \/ subs[i].renews <= now)

\* Mistake: a canceled subscription is renewed.
DueThoughCanceled(i) == subs[i].renews # None /\ subs[i].renews <= now

Due(i) == ~subs[i].canceled /\ subs[i].renews # None /\ subs[i].renews <= now

\* The subscriptions whose slot of the product should be taken.
LiveSubs(p) == {i \in DOMAIN subs : subs[i].product = p /\ ~subs[i].canceled}

-----------------------------------------------------------------------------
TablesTypeOK ==
    /\ now \in 0..MaxTime
    /\ product \in [Products -> ProductRow]
    /\ subs \in Seq(Subscription) /\ Len(subs) <= MaxSubs
    /\ purchases \in Seq(Purchase)
    /\ payments \subseteq DOMAIN purchases
    /\ access \in [Users ->
            [storage : Terms \cup {Default}, grant : Terms \cup {None},
             perms : SUBSET Permissions]]
    /\ session \in [Sessions ->
            [status : {"new", "open", "paid"}, buyer : Users \cup {None},
             product : Products \cup {None}, terms : Terms \cup {None}]]
    /\ charged \in [1..MaxSubs -> Nat]
    /\ faults \in 0..MaxFaults
=============================================================================
