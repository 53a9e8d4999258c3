------------------------------ MODULE OrderBook ------------------------------
(***************************************************************************)
(* What is promised of orders, said without threads, events and failures:  *)
(* a user orders a product and pays; while a paid order is not booked,     *)
(* subscriptions of its buyer to its product may be opened; and it is      *)
(* booked, once, on one of those that has no order yet.                    *)
(***************************************************************************)
EXTENDS Sequences

CONSTANTS
    Buyers,
    Products,
    Orders,
    None

VARIABLES
    order,          \* the status, buyer and product of each order
    served          \* the subscriptions, each with the orders booked on it

New == [status |-> "new", buyer |-> None, product |-> None]

Subscribed(s, orders) ==
    [buyer |-> order[s].buyer, product |-> order[s].product, orders |-> orders]

ToBeBooked(s) ==
    /\ order[s].status = "paid"
    /\ \A i \in DOMAIN served : s \notin served[i].orders

-----------------------------------------------------------------------------
Init ==
    /\ order = [s \in Orders |-> New]
    /\ served = <<>>

Place(s) ==
    /\ order[s] = New
    /\ \E u \in Buyers, p \in Products :
        order' = [order EXCEPT ![s] = [status |-> "open", buyer |-> u, product |-> p]]
    /\ UNCHANGED served

Pay(s) ==
    /\ order[s].status = "open"
    /\ order' = [order EXCEPT ![s].status = "paid"]
    /\ UNCHANGED served

Subscribe(s) ==
    /\ ToBeBooked(s)
    /\ served' = Append(served, Subscribed(s, {}))
    /\ UNCHANGED order

Book(s, i) ==
    /\ ToBeBooked(s)
    /\ served[i] = Subscribed(s, {})
    /\ served' = [served EXCEPT ![i] = Subscribed(s, {s})]
    /\ UNCHANGED order

Next ==
    \E s \in Orders :
        \/ Place(s) \/ Pay(s) \/ Subscribe(s)
        \/ \E i \in DOMAIN served : Book(s, i)

Spec == Init /\ [][Next]_<<order, served>>
=============================================================================
