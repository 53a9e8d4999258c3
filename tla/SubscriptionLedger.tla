------------------------- MODULE SubscriptionLedger -------------------------
(***************************************************************************)
(* What is promised of the money of subscriptions, said without tables,    *)
(* jobs and threads: an account for each subscription, on which one thing  *)
(* happens at a time.  It is charged when the period it has is over, once  *)
(* for a period unless something failed; what is charged is recorded once  *)
(* at most; it is extended by what was charged, period by period; and it   *)
(* ends when it is canceled and what was paid for is over.  After the end  *)
(* nothing is charged, recorded or extended any more.                      *)
(***************************************************************************)
EXTENDS Naturals, Sequences

CONSTANTS
    Periods,        \* how long what was bought may run, 0 for ever
    None

VARIABLES
    now,
    failures,       \* failures so far, of anything
    ledger          \* the accounts, in the order they were opened

Account(start, period) ==
    [opened |-> start, period |-> period, charges |-> 0, recorded |-> 0,
     renews |-> IF period = 0 THEN None ELSE start + period,
     canceled |-> FALSE, ended |-> FALSE]

\* The end of the first period and of those charged.
PaidUntil(a) == a.opened + (1 + a.charges) * a.period

IsOver(a) == a.renews = None \/ a.renews <= now

-----------------------------------------------------------------------------
Init == \A i \in DOMAIN ledger : ledger[i] = Account(ledger[i].opened, ledger[i].period)

Passes == now' = now + 1 /\ UNCHANGED <<failures, ledger>>

Fails == failures' = failures + 1 /\ UNCHANGED <<now, ledger>>

Open ==
    /\ \E period \in Periods : ledger' = Append(ledger, Account(now, period))
    /\ UNCHANGED <<now, failures>>

\* Account i becomes a; what changes it may fail right after.
Becomes(i, a) ==
    /\ ledger' = [ledger EXCEPT ![i] = a]
    /\ failures' \in {failures, failures + 1}
    /\ now' = now

\* A charge finds nothing paid for that is still to come, but for failures.
Charge(i) ==
    LET a == ledger[i] IN
    /\ ~a.ended /\ a.renews # None /\ IsOver(a)
    /\ PaidUntil(a) <= a.renews + a.period * failures
    /\ Becomes(i, [a EXCEPT !.charges = @ + 1])

Record(i) ==
    LET a == ledger[i] IN
    /\ ~a.ended /\ a.recorded < a.charges
    /\ Becomes(i, [a EXCEPT !.recorded = @ + 1])

Extend(i) ==
    LET a == ledger[i] IN
    /\ ~a.ended /\ a.renews # None /\ a.renews + a.period <= PaidUntil(a)
    /\ Becomes(i, [a EXCEPT !.renews = @ + a.period])

Cancel(i) == Becomes(i, [ledger[i] EXCEPT !.canceled = TRUE])

\* What was charged has been served, but for failures.
End(i) ==
    LET a == ledger[i] IN
    /\ a.canceled /\ IsOver(a)
    /\ a.renews # None => PaidUntil(a) <= now + a.period * failures
    /\ Becomes(i, [a EXCEPT !.ended = TRUE])

Next ==
    \/ Passes \/ Fails \/ Open
    \/ \E i \in DOMAIN ledger : Charge(i) \/ Record(i) \/ Extend(i) \/ Cancel(i) \/ End(i)

Spec == Init /\ [][Next]_<<now, failures, ledger>>
=============================================================================
