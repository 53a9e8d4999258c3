--------------------------- MODULE MCFederatedPages ---------------------------
(* Two servers, of which home has two accounts and guest none.  The page is opened at
   home; guest may be pinned. *)
EXTENDS FederatedPages
CONSTANTS home, guest, a1, a2
MCHostOf(a) == home
Opened ==
    /\ Init
    /\ current = home /\ accounts = Accounts
    /\ pins[home] \in {NoPin, Pin(TRUE, a1)}
    /\ pins[guest] \in {NoPin, Pin(TRUE, None)}
MCSpec == Opened /\ [][Next]_vars /\ WF_vars(SystemStep)
=============================================================================
