--------------------------- MODULE MCMarketEdits ---------------------------
(***************************************************************************)
(* Two admins and two buyers' calls at once, in either of two settings: a  *)
(* third subscription, paid for at s3, is recorded while they edit its     *)
(* product and cancel, and something may fail; or the job runs, renewing   *)
(* the first subscription and ending the second, while they write notes    *)
(* and cancel.                                                             *)
(***************************************************************************)
EXTENDS MCMarketplace, MarketSlots, TLC

CONSTANTS s3, c1, c2, e1, e2

Selling == session[s3] # NoSession

SellingNext ==
    /\ CheckoutStep \/ AccountStep
    /\ \A h \in Hooks : hook'[h].session \in {s3, None}
    /\ \A e \in Editors : edit'[e].pc # "notes"

BillingNext ==
    /\ RenewalStep \/ AccountStep
    /\ \A e \in Editors : edit'[e].pc # "product"
    /\ faults' = 0

MCEditsNext ==
    /\ IF Selling THEN SellingNext ELSE BillingNext
    /\ Watch

MCEditsInit == SoldInit /\ SlotsInit /\ ~subs[2].payable

MCEditsSpec == MCEditsInit /\ [][MCEditsNext]_<<vars, slots>>

MCSymmetry == Permutations({c1, c2}) \cup Permutations({e1, e2})
=============================================================================
