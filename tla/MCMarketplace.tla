---------------------------- MODULE MCMarketplace ----------------------------
(***************************************************************************)
(* Small instances of the Marketplace.  A run leaves out the components    *)
(* its question is not about by taking a specification with only the other *)
(* components' steps, and starts either from an empty server or from one   *)
(* where s1 and s2 have been bought, recorded and granted.                 *)
(***************************************************************************)
EXTENDS Marketplace

CONSTANTS
    u1, u2,
    storage, grants, hosting,           \* products of these types
    perms, events,                      \* and two of permissions
    t1, t2,                             \* terms
    post, event,                        \* permissions
    s1, s2,
    SoldFirst                           \* what s1 was sold

MCTypeOf(p) ==
    CASE p = storage -> "MEDIA_STORAGE"
      [] p = grants  -> "AI_GRANTS"
      [] p = hosting -> "RELLM_HOSTING"
      [] p \in {perms, events} -> "PERMISSIONS_ACCESS"

\* Hosting is sold for two ticks, events for good, the others for one tick.
MCPeriodOf(p) ==
    CASE p = hosting -> 2
      [] p = events  -> 0
      [] OTHER       -> 1

MCPermissionsIn(t) == IF t = t1 THEN {post} ELSE {event}

-----------------------------------------------------------------------------
\* s1 was sold a product, s2 the same one or another, each for t1 at time 0;
\* s2 perhaps without a payment method on file.
SoldTo(u, p, payable) ==
    [buyer |-> u, product |-> p, terms |-> t1, created |-> 0,
     renews |-> IF PeriodOf(p) = 0 THEN None ELSE PeriodOf(p),
     payable |-> payable, canceled |-> FALSE, terminated |-> FALSE, notes |-> <<>>]

Access(u) ==
    [storage |-> IF \E i \in DOMAIN subs : subs[i].buyer = u /\ Type(i) = "MEDIA_STORAGE"
                 THEN t1 ELSE Default,
     grant |-> IF \E i \in DOMAIN subs : subs[i].buyer = u /\ Type(i) = "AI_GRANTS"
               THEN t1 ELSE None,
     perms |-> IF \E i \in DOMAIN subs : subs[i].buyer = u /\ Type(i) = "PERMISSIONS_ACCESS"
               THEN PermissionsIn(t1) ELSE {}]

Paid(p) == [status |-> "paid", buyer |-> u1, product |-> p, terms |-> t1]

\* Another session is new, or has been paid for and its event is to come.
SoldInit ==
    /\ now = 0
    /\ subs \in {<<SoldTo(u1, SoldFirst, TRUE), SoldTo(u1, p, payable)>> :
                    p \in Products, payable \in BOOLEAN}
    /\ purchases = <<[sub |-> 1, session |-> s1, terms |-> t1],
                     [sub |-> 2, session |-> s2, terms |-> t1]>>
    /\ payments = {1, 2}
    /\ product \in [Products ->
            [terms : {t1}, cap : Caps, sold : 0..2, delisted : {FALSE}]]
    /\ \A p \in Products :
        product[p].sold = Cardinality({i \in {1, 2} : subs[i].product = p})
    /\ access = [u \in Users |-> Access(u)]
    /\ \E other \in {NoSession, Paid(SoldFirst)} :
        session = [s \in Sessions |->
            CASE s = s1 -> Paid(SoldFirst)
              [] s = s2 -> Paid(subs[2].product)
              [] OTHER  -> other]
    /\ hook = [h \in Hooks |-> IdleHook]
    /\ acked = {s1, s2}
    /\ extra = 0
    /\ charged = [i \in 1..MaxSubs |-> 0]
    /\ faults = 0
    /\ AccountInit
    /\ Renewal!RenewalInit

-----------------------------------------------------------------------------
\* Each of the two products of permissions lists one of its own.
ListedInit ==
    /\ Init
    /\ \A p \in Products : product[p].terms = IF p = events THEN t2 ELSE t1

\* Permissions are not written back by two threads at once: a thread that is to
\* read those of a user waits for the one that has read them and will go on.
CheckoutSpec ==
    ListedInit /\ [][CheckoutStep /\ GrantsDontOverlap']_vars /\ CheckoutFairness

RenewalSpec == SoldInit /\ [][RenewalStep \/ AccountStep]_vars

FairRenewalSpec == RenewalSpec /\ RenewalFairness
=============================================================================
