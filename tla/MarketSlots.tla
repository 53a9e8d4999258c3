----------------------------- MODULE MarketSlots -----------------------------
(***************************************************************************)
(* What becomes of the slots of a product with a limited number: the       *)
(* Marketplace, with an account of the two interleavings in which the code *)
(* forgets one that is taken.  The variables of this module only watch;    *)
(* every behaviour of the Marketplace is one of it.                        *)
(***************************************************************************)
EXTENDS Marketplace

VARIABLES
    crossed,        \* sales counted since the editor opened the product
    forgotten       \* slots given away by those interleavings so far

slots == <<crossed, forgotten>>

\* The subscription is being canceled by another call as well, which found it
\* live too, and each of the two frees its slot (cancel_market_subscription.rs:
\* 36-63).
FreesAgain(c) ==
    /\ FreeSlot(c)
    /\ \E d \in Cancelers \ {c} :
        cancel[d].pc # "idle" /\ cancel[d].sub = cancel[c].sub

Opened(e, p) == edit[e].pc = "product" /\ edit[e].id = p

\* A sale of the product is counted while the editor has it open.
Crosses(e) ==
    /\ \E h \in Hooks : CountSale(h)
    /\ \E p \in Products : Opened(e, p) /\ product'[p].sold > product[p].sold

\* The editor's row takes those sales back (update_market_product.rs:53).
TakesBack(e) == crossed[e] > 0 /\ WriteProduct(e)

Watch ==
    /\ crossed' = [e \in Editors |->
            IF edit'[e].pc # "product" THEN 0
            ELSE IF Crosses(e) THEN crossed[e] + 1 ELSE crossed[e]]
    /\ \/ /\ \E c \in Cancelers : FreesAgain(c)
          /\ forgotten' = forgotten + 1
       \/ \E e \in Editors : TakesBack(e) /\ forgotten' = forgotten + crossed[e]
       \/ /\ \A c \in Cancelers : ~FreesAgain(c)
          /\ \A e \in Editors : ~TakesBack(e)
          /\ forgotten' = forgotten

SlotsInit ==
    /\ crossed = [e \in Editors |-> 0]
    /\ forgotten = 0

SlotsSpec == Init /\ SlotsInit /\ [][Next /\ Watch]_<<vars, slots>>

-----------------------------------------------------------------------------
SlotsTypeOK == crossed \in [Editors -> Nat] /\ forgotten \in Nat

\* sold_count never forgets a subscription that takes a slot, except through a
\* failure that kept it from being counted and through the two interleavings
\* above, each of which loses no more than its own: increments and decrements
\* are done in SQL, a subscription found canceled does not free its slot again
\* ("a double-cancel can't double-decrement", cancel_market_subscription.rs:
\* 50-52, is true of calls one after the other), and no edit, renewal or
\* termination takes a count back otherwise.
SoldCoversLiveSubs ==
    \A p \in Products :
        Cardinality(LiveSubs(p))
            <= product[p].sold + Cardinality(BeingCounted(p)) + faults + forgotten
=============================================================================
