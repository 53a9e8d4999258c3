-------------------------- MODULE MarketplaceProofs --------------------------
(***************************************************************************)
(* What holds of the whole Marketplace, however its handlers, RPCs and the *)
(* renewal job interleave, for any numbers of users, products, sessions,   *)
(* threads, failures and edits.                                            *)
(*                                                                         *)
(* Everything rests on rows being added and never moved: a subscription    *)
(* keeps its buyer, product, terms and time of creation, a purchase is     *)
(* never changed, and a paid session stays as it is (Keeps).  What a       *)
(* process remembers between two statements - an id, a row, a session -    *)
(* therefore stays true of the tables, whatever the others do meanwhile.   *)
(***************************************************************************)
EXTENDS Marketplace, FiniteSetTheorems, SequenceTheorems, TLAPS

\* Two rows of one subscription, read at different times.
Same(r, s) ==
    /\ r.buyer = s.buyer /\ r.product = s.product
    /\ r.terms = s.terms /\ r.created = s.created

SubsKeep ==
    /\ DOMAIN subs \subseteq DOMAIN subs'
    /\ \A i \in DOMAIN subs : Same(subs'[i], subs[i])
PurchasesKeep ==
    /\ DOMAIN purchases \subseteq DOMAIN purchases'
    /\ \A k \in DOMAIN purchases : purchases'[k] = purchases[k]
SessionsKeep == \A s \in Sessions : session[s].status = "paid" => session'[s] = session[s]
Keeps == SubsKeep /\ PurchasesKeep /\ SessionsKeep

-----------------------------------------------------------------------------
(* The inductive invariant: types, and what each process remembers. *)
SessionsOK ==
    \A s \in Sessions :
        \/ session[s] = NoSession
        \/ /\ session[s].status \in {"open", "paid"} /\ session[s].buyer \in Users
           /\ session[s].product \in Products /\ session[s].terms \in Terms

PurchasesOK == \A k \in DOMAIN purchases : purchases[k].sub \in DOMAIN subs

HookOK(h) ==
    LET k == hook[h] IN
    /\ k.pc = "idle" => k = IdleHook
    /\ k.pc # "idle" => k.session \in Sessions /\ session[k.session].status = "paid"
    /\ k.pc \in {"subscribe", "purchase", "payment", "count", "fulfil", "grant"} => k.terms \in Terms
    /\ k.pc \in {"purchase", "payment", "count", "fulfil", "grant"} =>
        /\ k.sub \in DOMAIN subs
        /\ subs[k.sub].product = session[k.session].product /\ subs[k.sub].terms = k.terms
    /\ k.pc = "payment" => k.purchase \in DOMAIN purchases

CancelOK(c) == cancel[c].pc # "idle" => cancel[c].sub \in DOMAIN subs

EditOK(e) ==
    edit[e].pc = "notes" => edit[e].id \in DOMAIN subs /\ Same(edit[e].row, subs[edit[e].id])

\* The steps at which the job has a row in hand, and those of a pass over due rows.
AtRow == {"charge", "purchase", "payment", "advance", "fulfil", "grant", "end", "end, all",
          "revoke", "take", "stamp"}
OverDue == {"renew", "end all", "charge", "purchase", "payment", "advance", "fulfil",
            "grant", "end", "end, all"}

JobOK ==
    /\ job.pc \in {"asleep", "due", "lapsed"} => DOMAIN batch = {}
    /\ job.pc # "asleep" => job.type \in DOMAIN PurchaseTypes
    /\ job.pc \in AtRow => job.id \in DOMAIN batch
    /\ job.pc = "payment" => job.purchase \in DOMAIN purchases
    /\ \A i \in DOMAIN batch : Same(batch[i], subs[i])
    /\ job.pc \in OverDue => \A i \in DOMAIN batch : batch[i].renews \in Nat

MarketInv ==
    /\ TypeOK
    /\ SessionsOK
    /\ PurchasesOK
    /\ \A h \in Hooks : HookOK(h)
    /\ \A c \in Cancelers : CancelOK(c)
    /\ \A e \in Editors : EditOK(e)
    /\ JobOK

-----------------------------------------------------------------------------
(* What a process remembers stays true while the tables keep their rows. *)
LEMMA TypedTables ==
    ASSUME TypeOK
    PROVE  /\ DOMAIN subs = 1..Len(subs) /\ Len(subs) \in 0..MaxSubs
           /\ \A i \in DOMAIN subs : subs[i] \in Subscription
           /\ DOMAIN purchases = 1..Len(purchases) /\ Len(purchases) \in Nat
           /\ \A k \in DOMAIN purchases : purchases[k] \in Purchase
           /\ MaxSubs \in Nat /\ MaxTime \in Nat /\ MaxFaults \in Nat
  BY MarketAssumption DEF TypeOK, TablesTypeOK

LEMMA SubIds ==
    ASSUME MarketInv, NEW i \in DOMAIN subs
    PROVE  i \in 1..Len(subs) /\ i \in 0..MaxSubs /\ i \in 1..MaxSubs
  <1>1. TypeOK
    BY DEF MarketInv
  <1> QED
    BY <1>1, TypedTables

LEMMA HookStays ==
    ASSUME Keeps, NEW h, HookOK(h), hook'[h] = hook[h]
    PROVE  HookOK(h)'
  BY DEF Keeps, SubsKeep, PurchasesKeep, SessionsKeep, HookOK, Same

LEMMA CancelStays ==
    ASSUME Keeps, NEW c, CancelOK(c), cancel'[c] = cancel[c]
    PROVE  CancelOK(c)'
  BY DEF Keeps, SubsKeep, CancelOK

LEMMA EditStays ==
    ASSUME Keeps, NEW e, EditOK(e), edit'[e] = edit[e]
    PROVE  EditOK(e)'
  BY DEF Keeps, SubsKeep, EditOK, Same

LEMMA JobStays ==
    ASSUME Keeps, JobOK, DOMAIN batch \subseteq DOMAIN subs, UNCHANGED renewal
    PROVE  JobOK'
  BY DEF Keeps, SubsKeep, PurchasesKeep, JobOK, Same, renewal

(* A step that leaves the tables of subscriptions, purchases and sessions alone. *)
LEMMA UntouchedKeeps ==
    ASSUME UNCHANGED <<subs, purchases, session>>
    PROVE  Keeps
  BY DEF Keeps, SubsKeep, PurchasesKeep, SessionsKeep, Same

(* A step that changes one subscription, but not what it was bought as. *)
LEMMA OneSubChanged ==
    ASSUME MarketInv, NEW i \in DOMAIN subs, NEW r \in Subscription,
           subs' = [subs EXCEPT ![i] = r], Same(r, subs[i]),
           UNCHANGED <<purchases, session>>
    PROVE  /\ Keeps
           /\ subs' \in Seq(Subscription) /\ Len(subs') = Len(subs)
           /\ DOMAIN subs' = DOMAIN subs
           /\ \A k \in DOMAIN subs : subs'[k] = IF k = i THEN r ELSE subs[k]
  <1>1. subs \in Seq(Subscription) /\ DOMAIN subs = 1..Len(subs) /\ Len(subs) \in Nat
    BY TypedTables DEF MarketInv, TypeOK, TablesTypeOK
  <1>2. subs' \in Seq(Subscription) /\ Len(subs') = Len(subs)
    BY <1>1, ExceptSeq
  <1>3. DOMAIN subs' = DOMAIN subs
    BY <1>1, <1>2
  <1>4. \A k \in DOMAIN subs : subs'[k] = IF k = i THEN r ELSE subs[k]
    BY <1>1
  <1> QED
    BY <1>2, <1>3, <1>4 DEF Keeps, SubsKeep, PurchasesKeep, SessionsKeep, Same

(* Purchases and subscriptions are added at the end. *)
LEMMA PurchaseAdded ==
    ASSUME MarketInv, NEW r \in Purchase, purchases' = Append(purchases, r),
           UNCHANGED <<subs, session>>
    PROVE  /\ Keeps
           /\ purchases' \in Seq(Purchase)
           /\ DOMAIN purchases' = DOMAIN purchases \cup {Len(purchases) + 1}
           /\ Len(purchases) + 1 \notin DOMAIN purchases
           /\ purchases'[Len(purchases) + 1] = r
  <1>1. purchases \in Seq(Purchase)
    BY DEF MarketInv, TypeOK, TablesTypeOK
  <1>2. /\ purchases' \in Seq(Purchase) /\ Len(purchases') = Len(purchases) + 1
        /\ \A k \in 1..Len(purchases) : purchases'[k] = purchases[k]
        /\ purchases'[Len(purchases) + 1] = r
    BY <1>1, AppendProperties
  <1>3. DOMAIN purchases = 1..Len(purchases) /\ DOMAIN purchases' = 1..(Len(purchases) + 1)
        /\ Len(purchases) \in Nat
    BY <1>1, <1>2
  <1>4. DOMAIN purchases' = DOMAIN purchases \cup {Len(purchases) + 1}
    BY <1>3
  <1> QED
    BY <1>2, <1>3, <1>4 DEF Keeps, SubsKeep, PurchasesKeep, SessionsKeep, Same

LEMMA SubscriptionAdded ==
    ASSUME MarketInv, NEW r \in Subscription, subs' = Append(subs, r),
           UNCHANGED <<purchases, session>>
    PROVE  /\ Keeps
           /\ subs' \in Seq(Subscription) /\ Len(subs') = Len(subs) + 1
           /\ DOMAIN subs' = DOMAIN subs \cup {Len(subs) + 1}
           /\ Len(subs) + 1 \notin DOMAIN subs
           /\ subs'[Len(subs) + 1] = r
           /\ \A i \in DOMAIN subs : subs'[i] = subs[i]
  <1>1. subs \in Seq(Subscription)
    BY DEF MarketInv, TypeOK, TablesTypeOK
  <1>2. /\ subs' \in Seq(Subscription) /\ Len(subs') = Len(subs) + 1
        /\ \A k \in 1..Len(subs) : subs'[k] = subs[k]
        /\ subs'[Len(subs) + 1] = r
    BY <1>1, AppendProperties
  <1>3. DOMAIN subs = 1..Len(subs) /\ DOMAIN subs' = 1..(Len(subs) + 1) /\ Len(subs) \in Nat
    BY <1>1, <1>2
  <1>4. DOMAIN subs' = DOMAIN subs \cup {Len(subs) + 1}
    BY <1>3
  <1> QED
    BY <1>2, <1>3, <1>4 DEF Keeps, SubsKeep, PurchasesKeep, SessionsKeep, Same

-----------------------------------------------------------------------------
(* Steps of one component.  Those of the others keep what they remember. *)
LEMMA CheckoutFrame ==
    ASSUME MarketInv, Keeps, UNCHANGED <<account, renewal>>, TablesTypeOK',
           SessionsOK', PurchasesOK',
           hook' \in [Hooks -> HookState], \A h \in Hooks : HookOK(h)',
           acked' \subseteq Sessions, extra' \in 0..MaxExtra
    PROVE  MarketInv'
  <1>1. TypeOK'
    BY DEF MarketInv, TypeOK, account, renewal, Keeps, SubsKeep
  <1>2. \A c \in Cancelers : CancelOK(c)'
    BY CancelStays DEF MarketInv, account
  <1>3. \A e \in Editors : EditOK(e)'
    BY EditStays DEF MarketInv, account
  <1>4. JobOK'
    BY JobStays DEF MarketInv, TypeOK
  <1> QED
    BY <1>1, <1>2, <1>3, <1>4 DEF MarketInv

LEMMA AccountFrame ==
    ASSUME MarketInv, Keeps, UNCHANGED <<checkout, renewal>>, TablesTypeOK',
           UNCHANGED <<session, purchases>>,
           cancel' \in [Cancelers -> CancelState], \A c \in Cancelers : CancelOK(c)',
           edit' \in [Editors -> {IdleEdit} \cup ProductEdit \cup NotesEdit],
           \A e \in Editors : EditOK(e)',
           edits' \in 0..MaxEdits
    PROVE  MarketInv'
  <1>1. TypeOK'
    BY DEF MarketInv, TypeOK, checkout, renewal, Keeps, SubsKeep
  <1>2. SessionsOK' /\ PurchasesOK'
    BY DEF MarketInv, SessionsOK, PurchasesOK, Keeps, SubsKeep
  <1>3. \A h \in Hooks : HookOK(h)'
    BY HookStays DEF MarketInv, checkout
  <1>4. JobOK'
    BY JobStays DEF MarketInv, TypeOK
  <1> QED
    BY <1>1, <1>2, <1>3, <1>4 DEF MarketInv

LEMMA RenewalFrame ==
    ASSUME MarketInv, Keeps, UNCHANGED <<checkout, account>>, TablesTypeOK',
           session' = session, PurchasesOK', JobOK',
           job' \in JobState, batch' \in [DOMAIN batch' -> Subscription],
           DOMAIN batch' \subseteq DOMAIN subs'
    PROVE  MarketInv'
  <1>1. TypeOK'
    BY DEF MarketInv, TypeOK, checkout, account
  <1>2. SessionsOK'
    BY DEF MarketInv, SessionsOK
  <1>3. \A h \in Hooks : HookOK(h)'
    BY HookStays DEF MarketInv, checkout
  <1>4. \A c \in Cancelers : CancelOK(c)'
    BY CancelStays DEF MarketInv, account
  <1>5. \A e \in Editors : EditOK(e)'
    BY EditStays DEF MarketInv, account
  <1> QED
    BY <1>1, <1>2, <1>3, <1>4, <1>5 DEF MarketInv

-----------------------------------------------------------------------------
(* Buying and the webhook.  Each step keeps the rows and changes one thread. *)
LEMMA OneHookChanged ==
    ASSUME MarketInv, Keeps, NEW h \in Hooks, NEW k \in HookState,
           hook' = [hook EXCEPT ![h] = k], HookOK(h)'
    PROVE  hook' \in [Hooks -> HookState] /\ \A g \in Hooks : HookOK(g)'
  <1>1. hook \in [Hooks -> HookState]
    BY DEF MarketInv, TypeOK
  <1>2. \A g \in Hooks : g # h => hook'[g] = hook[g]
    BY <1>1
  <1> QED
    BY <1>1, <1>2, HookStays DEF MarketInv

LEMMA IdleHookTyped == IdleHook \in HookState
  <1>1. MaxSubs \in Nat
    BY MarketAssumption
  <1> QED
    BY <1>1 DEF IdleHook, HookState

LEMMA HookTyped ==
    ASSUME MarketInv, NEW h \in Hooks
    PROVE  /\ hook[h] \in HookState /\ HookOK(h)
           /\ hook[h].pc # "idle" => SessionOf(h).buyer \in Users /\ SessionOf(h).product \in Products
  <1>1. hook[h] \in HookState /\ HookOK(h)
    BY DEF MarketInv, TypeOK
  <1> QED
    BY <1>1 DEF MarketInv, SessionsOK, HookOK, SessionOf, NoSession

LEMMA SessionStepsKeep ==
    ASSUME MarketInv, UNCHANGED <<account, renewal>>,
           \/ \E u \in Users, p \in Products : MakeMarketPurchase(u, p)
           \/ \E s \in Sessions : Pay(s)
    PROVE  MarketInv'
  <1>1. session \in [Sessions -> [status : {"new", "open", "paid"}, buyer : Users \cup {None},
                                   product : Products \cup {None}, terms : Terms \cup {None}]]
    BY DEF MarketInv, TypeOK, TablesTypeOK
  <1>2. /\ SessionsKeep /\ SessionsOK' /\ UNCHANGED <<now, tables, charged, faults, checkout>>
        /\ session' \in [Sessions -> [status : {"new", "open", "paid"}, buyer : Users \cup {None},
                                       product : Products \cup {None}, terms : Terms \cup {None}]]
    <2>1. CASE \E u \in Users, p \in Products : MakeMarketPurchase(u, p)
      <3>1. PICK u \in Users, p \in Products, s \in Sessions :
                /\ session[s] = NoSession
                /\ session' = [session EXCEPT ![s] =
                        [status |-> "open", buyer |-> u, product |-> p, terms |-> product[p].terms]]
                /\ UNCHANGED <<now, tables, charged, faults, checkout>>
        BY <2>1 DEF MakeMarketPurchase
      <3>2. product[p].terms \in Terms
        BY DEF MarketInv, TypeOK, TablesTypeOK, ProductRow
      <3> QED
        BY <1>1, <3>1, <3>2 DEF MarketInv, SessionsKeep, SessionsOK, NoSession
    <2>2. CASE \E s \in Sessions : Pay(s)
      <3>1. PICK s \in Sessions : Pay(s)
        BY <2>2
      <3> QED
        BY <1>1, <3>1 DEF MarketInv, SessionsKeep, SessionsOK, NoSession, Pay
    <2> QED
      BY <2>1, <2>2
  <1>3. Keeps
    BY <1>2 DEF Keeps, SubsKeep, PurchasesKeep, Same, tables
  <1>4. \A h \in Hooks : HookOK(h)'
    BY <1>2, <1>3, HookStays DEF MarketInv, checkout
  <1>5. TablesTypeOK' /\ PurchasesOK'
    BY <1>2 DEF MarketInv, TypeOK, TablesTypeOK, PurchasesOK, tables
  <1>6. hook' \in [Hooks -> HookState] /\ acked' \subseteq Sessions /\ extra' \in 0..MaxExtra
    BY <1>2 DEF MarketInv, TypeOK, checkout
  <1> QED
    BY <1>2, <1>3, <1>4, <1>5, <1>6, CheckoutFrame

(* A thread's step that writes no table but those of the entitlements. *)
LEMMA HookStepKeeps ==
    ASSUME MarketInv, UNCHANGED <<account, renewal>>, NEW h \in Hooks, NEW k \in HookState,
           hook' = [hook EXCEPT ![h] = k], HookOK(h)', Keeps,
           UNCHANGED session, TablesTypeOK', PurchasesOK',
           \/ acked' = acked
           \/ acked' = acked \cup {hook[h].session} /\ hook[h].pc # "idle",
           extra' \in 0..MaxExtra
    PROVE  MarketInv'
  <1>1. hook' \in [Hooks -> HookState] /\ \A g \in Hooks : HookOK(g)'
    BY OneHookChanged
  <1>2. acked' \subseteq Sessions
    BY HookTyped DEF MarketInv, TypeOK, HookOK
  <1>3. SessionsOK'
    BY DEF MarketInv, SessionsOK
  <1> QED
    BY <1>1, <1>2, <1>3, CheckoutFrame

LEMMA QuietHookStepKeeps ==
    ASSUME MarketInv, UNCHANGED <<account, renewal>>, NEW h \in Hooks, NEW k \in HookState,
           hook' = [hook EXCEPT ![h] = k], HookOK(h)',
           UNCHANGED <<subs, purchases, session>>, TablesTypeOK',
           \/ acked' = acked
           \/ acked' = acked \cup {hook[h].session} /\ hook[h].pc # "idle",
           extra' \in 0..MaxExtra
    PROVE  MarketInv'
  <1>1. Keeps
    BY UntouchedKeeps
  <1>2. PurchasesOK'
    BY DEF MarketInv, PurchasesOK
  <1> QED
    BY <1>1, <1>2, HookStepKeeps

LEMMA DeliverKeeps ==
    ASSUME MarketInv, UNCHANGED <<account, renewal>>, NEW h \in Hooks, NEW s \in Sessions,
           Deliver(h, s)
    PROVE  MarketInv'
  <1> DEFINE k == [IdleHook EXCEPT !.pc = "check", !.session = s]
  <1>1. hook' = [hook EXCEPT ![h] = k] /\ UNCHANGED <<market, acked>>
    BY DEF Deliver
  <1>2. k \in HookState /\ k.pc = "check" /\ k.session = s
    <2>1. k.pc = "check" /\ k.session = s
      BY DEF IdleHook
    <2> QED
      BY <2>1, IdleHookTyped DEF HookState
  <1>3. hook'[h] = k
    BY <1>1 DEF MarketInv, TypeOK
  <1>4. HookOK(h)'
    BY <1>1, <1>2, <1>3 DEF HookOK, Deliver, market
  <1>5. extra' \in 0..MaxExtra
    BY CheckoutAssumption DEF Deliver, MarketInv, TypeOK
  <1>6. TablesTypeOK'
    BY <1>1 DEF MarketInv, TypeOK, TablesTypeOK, market
  <1> QED
    BY <1>1, <1>2, <1>4, <1>5, <1>6, QuietHookStepKeeps DEF market

LEMMA CheckProcessedKeeps ==
    ASSUME MarketInv, UNCHANGED <<account, renewal>>, NEW h \in Hooks, CheckProcessed(h)
    PROVE  MarketInv'
  <1>0. hook[h].pc = "check" /\ UNCHANGED <<market, extra>>
    BY DEF CheckProcessed, At
  <1>1. TablesTypeOK' /\ extra' \in 0..MaxExtra
    BY <1>0 DEF MarketInv, TypeOK, TablesTypeOK, market
  <1>2. CASE Answer(h)
    <2>1. hook' = [hook EXCEPT ![h] = IdleHook] /\ hook'[h] = IdleHook
      BY <1>2 DEF Answer, MarketInv, TypeOK
    <2>2. HookOK(h)'
      BY <2>1 DEF HookOK, IdleHook
    <2> QED
      BY <1>0, <1>1, <1>2, <2>1, <2>2, IdleHookTyped, QuietHookStepKeeps DEF Answer, market
  <1>3. CASE GoTo(h, "product")
    <2> DEFINE k == [hook[h] EXCEPT !.pc = "product"]
    <2>1. hook' = [hook EXCEPT ![h] = k] /\ hook'[h] = k
      BY <1>3 DEF GoTo, MarketInv, TypeOK
    <2>2. k \in HookState
      BY HookTyped DEF HookState
    <2>3. HookOK(h)'
      BY <1>0, <2>1, <2>2, HookTyped DEF HookOK, market, HookState
    <2> QED
      BY <1>0, <1>1, <1>3, <2>1, <2>2, <2>3, QuietHookStepKeeps DEF GoTo, market
  <1> QED
    BY <1>2, <1>3 DEF CheckProcessed

LEMMA LoadProductKeeps ==
    ASSUME MarketInv, UNCHANGED <<account, renewal>>, NEW h \in Hooks, LoadProduct(h)
    PROVE  MarketInv'
  <1> DEFINE k == [hook[h] EXCEPT !.pc = "subscribe",
                                  !.terms = product[SessionOf(h).product].terms]
  <1>1. hook[h].pc = "product" /\ UNCHANGED <<market, acked, extra>>
    BY DEF LoadProduct, At
  <1>2. hook' = [hook EXCEPT ![h] = k] /\ hook'[h] = k
    BY DEF LoadProduct, MarketInv, TypeOK
  <1>3. product[SessionOf(h).product].terms \in Terms
    BY <1>1, HookTyped DEF MarketInv, TypeOK, TablesTypeOK, ProductRow
  <1>4. k \in HookState /\ k.pc = "subscribe" /\ k.terms \in Terms /\ k.session = hook[h].session
    BY <1>3, HookTyped DEF HookState
  <1>5. HookOK(h)'
    BY <1>1, <1>2, <1>4, HookTyped DEF HookOK, market
  <1>6. TablesTypeOK' /\ extra' \in 0..MaxExtra
    BY <1>1 DEF MarketInv, TypeOK, TablesTypeOK, market
  <1> QED
    BY <1>1, <1>2, <1>4, <1>5, <1>6, QuietHookStepKeeps DEF market

LEMMA InsertSubscriptionKeeps ==
    ASSUME MarketInv, UNCHANGED <<account, renewal>>, NEW h \in Hooks, InsertSubscription(h)
    PROVE  MarketInv' /\ Keeps
  <1> DEFINE s == SessionOf(h)
             k == [hook[h] EXCEPT !.pc = "purchase", !.sub = Len(subs) + 1]
             row(payable) ==
                [buyer |-> s.buyer, product |-> s.product, terms |-> hook[h].terms,
                 created |-> now,
                 renews |-> IF PeriodOf(s.product) = 0 THEN None ELSE Advance(now, s.product),
                 payable |-> payable, canceled |-> FALSE, terminated |-> FALSE,
                 notes |-> <<>>]
  <1>1. PICK payable \in BOOLEAN : subs' = Append(subs, row(payable))
    BY DEF InsertSubscription
  <1>2. /\ hook[h].pc = "subscribe" /\ Len(subs) < MaxSubs
        /\ hook' = [hook EXCEPT ![h] = k] /\ hook'[h] = k
        /\ UNCHANGED <<now, product, purchases, payments, access, session, charged, faults,
                       acked, extra>>
    BY DEF InsertSubscription, At, MarketInv, TypeOK
  <1>3. s.buyer \in Users /\ s.product \in Products /\ hook[h].terms \in Terms
    BY <1>2, HookTyped DEF HookOK
  <1>4. now \in 0..MaxTime /\ MaxTime \in Nat /\ PeriodOf(s.product) \in Nat
    BY <1>3, MarketAssumption DEF MarketInv, TypeOK, TablesTypeOK
  <1>5. row(payable) \in Subscription
    <2>1. Advance(now, s.product) \in Nat
      BY <1>4 DEF Advance
    <2>2. << >> \in Seq(Nat)
      OBVIOUS
    <2> QED
      BY <1>3, <1>4, <2>1, <2>2 DEF Subscription
  <1>6. /\ Keeps /\ subs' \in Seq(Subscription) /\ Len(subs') = Len(subs) + 1
        /\ Len(subs) + 1 \in DOMAIN subs' /\ subs'[Len(subs) + 1] = row(payable)
        /\ DOMAIN subs \subseteq DOMAIN subs'
    BY <1>1, <1>2, <1>5, SubscriptionAdded
  <1>7. Len(subs) \in Nat /\ MaxSubs \in Nat
    BY TypedTables DEF MarketInv
  <1>8. k \in HookState
    <2>1. Len(subs) + 1 \in 0..MaxSubs
      BY <1>2, <1>7
    <2> QED
      BY <2>1, HookTyped DEF HookState
  <1>9. HookOK(h)'
    <2>1. k.pc = "purchase" /\ k.session = hook[h].session /\ k.terms = hook[h].terms
          /\ k.sub = Len(subs) + 1
      BY HookTyped DEF HookState
    <2>2. row(payable).product = s.product /\ row(payable).terms = hook[h].terms
      OBVIOUS
    <2> HIDE DEF row
    <2> QED
      BY <1>2, <1>3, <1>6, <2>1, <2>2, HookTyped DEF HookOK, SessionOf
  <1>10. TablesTypeOK' /\ PurchasesOK' /\ extra' \in 0..MaxExtra
    BY <1>2, <1>6, <1>7 DEF MarketInv, TypeOK, TablesTypeOK, PurchasesOK
  <1> QED
    BY <1>2, <1>6, <1>8, <1>9, <1>10, HookStepKeeps

LEMMA InsertPurchaseKeeps ==
    ASSUME MarketInv, UNCHANGED <<account, renewal>>, NEW h \in Hooks, InsertPurchase(h)
    PROVE  MarketInv' /\ Keeps
  <1> DEFINE k == [hook[h] EXCEPT !.pc = "payment", !.purchase = Len(purchases) + 1]
             row == [sub |-> hook[h].sub, session |-> hook[h].session,
                     terms |-> hook[h].terms]
  <1>1. /\ hook[h].pc = "purchase" /\ purchases' = Append(purchases, row)
        /\ hook' = [hook EXCEPT ![h] = k] /\ hook'[h] = k
        /\ UNCHANGED <<now, product, subs, payments, access, session, charged, faults,
                       acked, extra>>
    BY DEF InsertPurchase, At, MarketInv, TypeOK
  <1>2. hook[h].sub \in DOMAIN subs /\ hook[h].terms \in Terms /\ hook[h].session \in Sessions
    BY <1>1, HookTyped DEF HookOK
  <1>3. row \in Purchase
    BY <1>2, TypedTables DEF MarketInv, Purchase
  <1>4. /\ Keeps /\ purchases' \in Seq(Purchase)
        /\ DOMAIN purchases' = DOMAIN purchases \cup {Len(purchases) + 1}
        /\ purchases'[Len(purchases) + 1] = row
    BY <1>1, <1>3, PurchaseAdded
  <1>5. k \in HookState
    <2>1. Len(purchases) + 1 \in Nat
      BY TypedTables DEF MarketInv
    <2> QED
      BY <2>1, HookTyped DEF HookState
  <1>6. HookOK(h)'
    <2>1. k.pc = "payment" /\ k.purchase = Len(purchases) + 1 /\ k.session = hook[h].session
          /\ k.sub = hook[h].sub /\ k.terms = hook[h].terms
      BY HookTyped DEF HookState
    <2> HIDE DEF k
    <2> QED
      BY <1>1, <1>2, <1>4, <2>1, HookTyped DEF HookOK
  <1>7. TablesTypeOK' /\ extra' \in 0..MaxExtra
    BY <1>1, <1>4 DEF MarketInv, TypeOK, TablesTypeOK
  <1>8. PurchasesOK'
    <2>1. \A i \in DOMAIN purchases : purchases'[i] = purchases[i]
      BY <1>4 DEF Keeps, PurchasesKeep
    <2> QED
      BY <1>1, <1>2, <1>4, <2>1 DEF MarketInv, PurchasesOK
  <1> QED
    BY <1>1, <1>4, <1>5, <1>6, <1>7, <1>8, HookStepKeeps

(* The thread goes on at another step with the session, the subscription, the terms and *)
(* the purchase it has. *)
LEMMA HookMovesOn ==
    ASSUME MarketInv, UNCHANGED <<account, renewal>>, NEW h \in Hooks,
           UNCHANGED <<now, subs, purchases, session, charged, acked, extra>>,
           TablesTypeOK', NEW pc \in {"count", "fulfil", "grant"},
           hook[h].pc \in {"payment", "count", "fulfil"},
           NEW perms \in SUBSET Permissions,
           hook' = [hook EXCEPT ![h] = [hook[h] EXCEPT !.pc = pc, !.perms = perms]]
    PROVE  MarketInv'
  <1> DEFINE k == [hook[h] EXCEPT !.pc = pc, !.perms = perms]
  <1>1. /\ k \in HookState /\ k.pc = pc /\ k.session = hook[h].session
        /\ k.sub = hook[h].sub /\ k.terms = hook[h].terms
    BY HookTyped DEF HookState
  <1>2. hook'[h] = k
    BY DEF MarketInv, TypeOK
  <1>3. HookOK(h)'
    <2> HIDE DEF k
    <2> QED
      BY <1>1, <1>2, HookTyped DEF HookOK
  <1>4. extra' \in 0..MaxExtra
    BY DEF MarketInv, TypeOK
  <1> QED
    BY <1>1, <1>3, <1>4, QuietHookStepKeeps

(* The thread is done, and the event answered or not. *)
LEMMA HookEnds ==
    ASSUME MarketInv, UNCHANGED <<account, renewal>>, NEW h \in Hooks,
           UNCHANGED <<now, subs, purchases, session, charged, extra>>,
           TablesTypeOK', hook[h].pc # "idle",
           acked' = acked \/ acked' = acked \cup {hook[h].session},
           hook' = [hook EXCEPT ![h] = IdleHook]
    PROVE  MarketInv'
  <1>1. HookOK(h)'
    <2>1. hook'[h] = IdleHook
      BY DEF MarketInv, TypeOK
    <2> QED
      BY <2>1 DEF HookOK, IdleHook
  <1>2. extra' \in 0..MaxExtra
    BY DEF MarketInv, TypeOK
  <1> QED
    BY <1>1, <1>2, IdleHookTyped, QuietHookStepKeeps

LEMMA InsertPaymentKeeps ==
    ASSUME MarketInv, UNCHANGED <<account, renewal>>, NEW h \in Hooks, InsertPayment(h)
    PROVE  MarketInv'
  <1>1. hook[h].pc = "payment" /\ hook[h].purchase \in DOMAIN purchases
    BY HookTyped DEF InsertPayment, At, HookOK
  <1>2. TablesTypeOK'
    BY <1>1 DEF InsertPayment, MarketInv, TypeOK, TablesTypeOK
  <1>3. /\ hook[h].perms \in SUBSET Permissions
        /\ hook' = [hook EXCEPT ![h] = [hook[h] EXCEPT !.pc = "count", !.perms = hook[h].perms]]
    BY HookTyped DEF InsertPayment, GoTo, HookState
  <1> QED
    BY <1>1, <1>2, <1>3, HookMovesOn DEF InsertPayment, GoTo

LEMMA CountSaleKeeps ==
    ASSUME MarketInv, UNCHANGED <<account, renewal>>, NEW h \in Hooks, CountSale(h)
    PROVE  MarketInv'
  <1>1. hook[h].pc = "count" /\ SessionOf(h).product \in Products
    BY HookTyped DEF CountSale, At
  <1>2. product' \in [Products -> ProductRow]
    <2>1. product \in [Products -> ProductRow]
      BY DEF MarketInv, TypeOK, TablesTypeOK
    <2>2. \A r \in ProductRow : [r EXCEPT !.sold = @ + 1] \in ProductRow
      BY DEF ProductRow
    <2> QED
      BY <1>1, <2>1, <2>2 DEF CountSale
  <1>3. faults' \in 0..MaxFaults
    BY MarketAssumption DEF CountSale, Fault, MarketInv, TypeOK, TablesTypeOK
  <1>4. TablesTypeOK'
    BY <1>2, <1>3 DEF CountSale, MarketInv, TypeOK, TablesTypeOK
  <1>5. /\ hook[h].perms \in SUBSET Permissions
        /\ hook' = [hook EXCEPT ![h] = [hook[h] EXCEPT !.pc = "fulfil", !.perms = hook[h].perms]]
    BY HookTyped DEF CountSale, GoTo, HookState
  <1> QED
    BY <1>1, <1>4, <1>5, HookMovesOn DEF CountSale, GoTo

(* fulfill_purchase gives the buyer what the terms say, for whichever type. *)
LEMMA OutrightTyped ==
    ASSUME TablesTypeOK, NEW u \in Users, NEW t \in Terms,
           NEW type \in {"MEDIA_STORAGE", "AI_GRANTS", "RELLM_HOSTING"}
    PROVE  GrantOutright(u, type, t) \in [Users ->
                [storage : Terms \cup {Default}, grant : Terms \cup {None},
                 perms : SUBSET Permissions]]
  BY DEF TablesTypeOK, GrantOutright

LEMMA PermsTyped ==
    ASSUME TablesTypeOK, NEW u \in Users, NEW P \in SUBSET Permissions
    PROVE  [access EXCEPT ![u].perms = P] \in [Users ->
                [storage : Terms \cup {Default}, grant : Terms \cup {None},
                 perms : SUBSET Permissions]]
  BY DEF TablesTypeOK

LEMMA Types ==
    /\ DOMAIN PurchaseTypes = 1..4 /\ Len(PurchaseTypes) = 4
    /\ \A i \in 1..4 : PurchaseTypes[i] \in
            {"MEDIA_STORAGE", "AI_GRANTS", "RELLM_HOSTING", "PERMISSIONS_ACCESS"}
    /\ \A p \in Products : TypeOf(p) \in
            {"MEDIA_STORAGE", "AI_GRANTS", "RELLM_HOSTING", "PERMISSIONS_ACCESS"}
    /\ \A t \in Terms : PermissionsIn(t) \subseteq Permissions
  <1>1. /\ DOMAIN PurchaseTypes = 1..4 /\ Len(PurchaseTypes) = 4
        /\ \A i \in 1..4 : PurchaseTypes[i] \in
            {"MEDIA_STORAGE", "AI_GRANTS", "RELLM_HOSTING", "PERMISSIONS_ACCESS"}
    BY DEF PurchaseTypes
  <1>2. \A p \in Products : \E i \in DOMAIN PurchaseTypes : TypeOf(p) = PurchaseTypes[i]
    BY MarketAssumption
  <1> QED
    BY <1>1, <1>2 DEF Permissions

LEMMA FulfilKeeps ==
    ASSUME MarketInv, UNCHANGED <<account, renewal>>, NEW h \in Hooks, Fulfil(h)
    PROVE  MarketInv'
  <1>1. /\ hook[h].pc = "fulfil" /\ hook[h].terms \in Terms
        /\ SessionOf(h).product \in Products /\ SessionOf(h).buyer \in Users
    BY HookTyped DEF Fulfil, At, HookOK
  <1>2. CASE TypeOf(SessionOf(h).product) = "PERMISSIONS_ACCESS"
    <2>1. access[SessionOf(h).buyer].perms \in SUBSET Permissions
      BY <1>1 DEF MarketInv, TypeOK, TablesTypeOK
    <2>2. hook' = [hook EXCEPT ![h] = [hook[h] EXCEPT !.pc = "grant",
                                        !.perms = access[SessionOf(h).buyer].perms]]
          /\ UNCHANGED <<market, acked, extra>>
      BY <1>2 DEF Fulfil, market
    <2>3. TablesTypeOK'
      BY <2>2 DEF MarketInv, TypeOK, TablesTypeOK, market
    <2> QED
      BY <1>1, <2>1, <2>2, <2>3, HookMovesOn DEF market
  <1>3. CASE TypeOf(SessionOf(h).product) # "PERMISSIONS_ACCESS"
    <2>1. TypeOf(SessionOf(h).product) \in {"MEDIA_STORAGE", "AI_GRANTS", "RELLM_HOSTING"}
      BY <1>1, <1>3, Types
    <2>2. access' = GrantOutright(SessionOf(h).buyer, TypeOf(SessionOf(h).product), hook[h].terms)
          /\ Answer(h)
          /\ UNCHANGED <<now, product, subs, purchases, payments, session, charged, faults, extra>>
      BY <1>3 DEF Fulfil
    <2>3. TablesTypeOK
      BY DEF MarketInv, TypeOK
    <2>4. TablesTypeOK'
      BY <1>1, <2>1, <2>2, <2>3, OutrightTyped DEF TablesTypeOK
    <2> QED
      BY <1>1, <2>2, <2>4, HookEnds DEF Answer
  <1> QED
    BY <1>2, <1>3

LEMMA GrantPermissionsKeeps ==
    ASSUME MarketInv, UNCHANGED <<account, renewal>>, NEW h \in Hooks, GrantPermissions(h)
    PROVE  MarketInv'
  <1>1. /\ hook[h].pc = "grant" /\ hook[h].terms \in Terms /\ SessionOf(h).buyer \in Users
        /\ hook[h].perms \in SUBSET Permissions
    BY HookTyped DEF GrantPermissions, At, HookOK, HookState
  <1>2. hook[h].perms \cup PermissionsIn(hook[h].terms) \in SUBSET Permissions
    BY <1>1, Types
  <1>3. TablesTypeOK
    BY DEF MarketInv, TypeOK
  <1>4. TablesTypeOK'
    BY <1>1, <1>2, <1>3, PermsTyped DEF GrantPermissions, TablesTypeOK
  <1> QED
    BY <1>1, <1>4, HookEnds DEF GrantPermissions, Answer

(* A failure changes no table. *)
LEMMA FaultTyped ==
    ASSUME MarketInv, Fault, UNCHANGED <<now, tables, session, charged>>
    PROVE  TablesTypeOK' /\ faults \in Nat /\ faults' = faults + 1
  BY MarketAssumption DEF MarketInv, TypeOK, TablesTypeOK, tables, Fault

LEMMA FailDeliveryKeeps ==
    ASSUME MarketInv, UNCHANGED <<account, renewal>>, NEW h \in Hooks, FailDelivery(h)
    PROVE  MarketInv'
  <1>1. hook[h].pc # "idle"
    BY HookTyped DEF FailDelivery, HookOK
  <1>2. TablesTypeOK'
    BY FaultTyped DEF FailDelivery
  <1> QED
    BY <1>1, <1>2, HookEnds DEF FailDelivery, tables

LEMMA CheckoutKeeps ==
    ASSUME MarketInv, CheckoutStep
    PROVE  MarketInv'
  <1>1. UNCHANGED <<account, renewal>>
    BY DEF CheckoutStep
  <1>2. CASE \/ \E u \in Users, p \in Products : MakeMarketPurchase(u, p)
             \/ \E s \in Sessions : Pay(s)
    BY <1>1, <1>2, SessionStepsKeep
  <1>3. CASE \E h \in Hooks, s \in Sessions : Deliver(h, s)
    BY <1>1, <1>3, DeliverKeeps
  <1>4. ASSUME NEW h \in Hooks, HandlerStep(h) \/ FailDelivery(h)
        PROVE  MarketInv'
    BY <1>1, <1>4, CheckProcessedKeeps, LoadProductKeeps, InsertSubscriptionKeeps,
       InsertPurchaseKeeps, InsertPaymentKeeps, CountSaleKeeps, FulfilKeeps,
       GrantPermissionsKeeps, FailDeliveryKeeps DEF HandlerStep
  <1> QED
    BY <1>2, <1>3, <1>4 DEF CheckoutStep, CheckoutNext

-----------------------------------------------------------------------------
(* The RPCs.  Those that write a subscription write one row, and only what may change. *)
LEMMA AccountTyped ==
    ASSUME MarketInv
    PROVE  /\ cancel \in [Cancelers -> CancelState]
           /\ edit \in [Editors -> {IdleEdit} \cup ProductEdit \cup NotesEdit]
           /\ edits \in 0..MaxEdits
           /\ \A c \in Cancelers : CancelOK(c)
           /\ \A e \in Editors : EditOK(e)
           /\ \A e \in Editors : edit[e].pc = "notes" => edit[e] \in NotesEdit
           /\ \A e \in Editors : edit[e].pc = "product" => edit[e] \in ProductEdit
  BY DEF MarketInv, TypeOK, IdleEdit, ProductEdit, NotesEdit

(* One canceler's step. *)
LEMMA CancelStepKeeps ==
    ASSUME MarketInv, Keeps, UNCHANGED <<checkout, renewal>>, TablesTypeOK',
           UNCHANGED <<session, purchases>>, NEW c \in Cancelers, NEW k \in CancelState,
           cancel' = [cancel EXCEPT ![c] = k], k.pc # "idle" => k.sub \in DOMAIN subs,
           UNCHANGED <<edit, edits>>
    PROVE  MarketInv'
  <1>1. cancel' \in [Cancelers -> CancelState] /\ cancel'[c] = k
        /\ \A d \in Cancelers : d # c => cancel'[d] = cancel[d]
    BY AccountTyped
  <1>2. \A d \in Cancelers : CancelOK(d)'
    <2>1. CancelOK(c)'
      BY <1>1 DEF CancelOK, Keeps, SubsKeep
    <2> QED
      BY <1>1, <2>1, CancelStays, AccountTyped
  <1>3. \A e \in Editors : EditOK(e)'
    BY EditStays, AccountTyped
  <1> QED
    BY <1>1, <1>2, <1>3, AccountTyped, AccountFrame

(* One editor's step. *)
LEMMA EditStepKeeps ==
    ASSUME MarketInv, Keeps, UNCHANGED <<checkout, renewal>>, TablesTypeOK',
           UNCHANGED <<session, purchases>>, NEW e \in Editors,
           NEW k \in {IdleEdit} \cup ProductEdit \cup NotesEdit,
           edit' = [edit EXCEPT ![e] = k],
           k.pc = "notes" => k.id \in DOMAIN subs' /\ Same(k.row, subs'[k.id]),
           UNCHANGED cancel, edits' \in 0..MaxEdits
    PROVE  MarketInv'
  <1>1. edit' \in [Editors -> {IdleEdit} \cup ProductEdit \cup NotesEdit] /\ edit'[e] = k
        /\ \A d \in Editors : d # e => edit'[d] = edit[d]
    BY AccountTyped
  <1>2. \A d \in Editors : EditOK(d)'
    <2>1. EditOK(e)'
      BY <1>1 DEF EditOK
    <2> QED
      BY <1>1, <2>1, EditStays, AccountTyped
  <1>3. \A c \in Cancelers : CancelOK(c)'
    BY CancelStays, AccountTyped
  <1> QED
    BY <1>1, <1>2, <1>3, AccountTyped, AccountFrame

LEMMA IdleCancelTyped == IdleCancel \in CancelState /\ IdleCancel.pc = "idle"
  BY MarketAssumption DEF IdleCancel, CancelState

LEMMA ReadForCancelKeeps ==
    ASSUME MarketInv, UNCHANGED <<checkout, renewal>>, NEW c \in Cancelers,
           NEW i \in DOMAIN subs, ReadForCancel(c, i)
    PROVE  MarketInv'
  <1> DEFINE k == [pc |-> "cancel", sub |-> i]
  <1>1. k \in CancelState
    BY TypedTables DEF CancelState, MarketInv
  <1>2. TablesTypeOK' /\ Keeps
    BY UntouchedKeeps DEF ReadForCancel, market, MarketInv, TypeOK, TablesTypeOK
  <1> QED
    BY <1>1, <1>2, CancelStepKeeps DEF ReadForCancel, market

(* A step that writes one subscription and no other table. *)
LEMMA SubWritten ==
    ASSUME MarketInv, NEW i \in DOMAIN subs, NEW r \in Subscription,
           subs' = [subs EXCEPT ![i] = r], Same(r, subs[i]),
           UNCHANGED <<now, product, purchases, payments, access, session, charged>>,
           faults' \in 0..MaxFaults
    PROVE  TablesTypeOK' /\ Keeps
  <1>1. Keeps /\ subs' \in Seq(Subscription) /\ Len(subs') = Len(subs)
    BY OneSubChanged
  <1> QED
    BY <1>1 DEF MarketInv, TypeOK, TablesTypeOK

LEMMA SetCanceledKeeps ==
    ASSUME MarketInv, UNCHANGED <<checkout, renewal>>, NEW c \in Cancelers, SetCanceled(c)
    PROVE  MarketInv' /\ Keeps
  <1> DEFINE i == cancel[c].sub
             r == [subs[i] EXCEPT !.canceled = TRUE]
             k == [cancel[c] EXCEPT !.pc = "free"]
  <1>1. i \in DOMAIN subs
    BY AccountTyped DEF SetCanceled, CancelOK
  <1>2. r \in Subscription /\ Same(r, subs[i])
    <2>1. subs[i] \in Subscription
      BY <1>1, TypedTables DEF MarketInv
    <2> QED
      BY <2>1 DEF Subscription, Same
  <1>3. k \in CancelState /\ k.sub = i
    BY AccountTyped DEF CancelState
  <1>4. subs' = [subs EXCEPT ![i] = r] /\ cancel' = [cancel EXCEPT ![c] = k]
    BY DEF SetCanceled
  <1>5. faults' \in 0..MaxFaults
    BY DEF SetCanceled, MarketInv, TypeOK, TablesTypeOK
  <1>6. TablesTypeOK' /\ Keeps
    BY <1>1, <1>2, <1>4, <1>5, SubWritten DEF SetCanceled
  <1> QED
    BY <1>1, <1>3, <1>4, <1>6, CancelStepKeeps DEF SetCanceled

LEMMA FreeSlotKeeps ==
    ASSUME MarketInv, UNCHANGED <<checkout, renewal>>, NEW c \in Cancelers, FreeSlot(c)
    PROVE  MarketInv'
  <1> DEFINE p == subs[cancel[c].sub].product
  <1>1. p \in Products
    <2>1. cancel[c].sub \in DOMAIN subs
      BY AccountTyped DEF FreeSlot, CancelOK
    <2> QED
      BY <2>1, TypedTables DEF MarketInv, Subscription
  <1>2. product' \in [Products -> ProductRow]
    <2>1. product \in [Products -> ProductRow]
      BY DEF MarketInv, TypeOK, TablesTypeOK
    <2>2. \A r \in ProductRow : [r EXCEPT !.sold = IF @ > 0 THEN @ - 1 ELSE 0] \in ProductRow
      BY DEF ProductRow
    <2> QED
      BY <1>1, <2>1, <2>2 DEF FreeSlot
  <1>3. TablesTypeOK' /\ Keeps
    BY <1>2, UntouchedKeeps DEF FreeSlot, MarketInv, TypeOK, TablesTypeOK
  <1> QED
    BY <1>3, IdleCancelTyped, CancelStepKeeps DEF FreeSlot

LEMMA FailCancelKeeps ==
    ASSUME MarketInv, UNCHANGED <<checkout, renewal>>, NEW c \in Cancelers, FailCancel(c)
    PROVE  MarketInv'
  <1>1. TablesTypeOK' /\ Keeps
    BY FaultTyped, UntouchedKeeps DEF FailCancel, tables
  <1> QED
    BY <1>1, IdleCancelTyped, CancelStepKeeps DEF FailCancel, tables

LEMMA ReadProductKeeps ==
    ASSUME MarketInv, UNCHANGED <<checkout, renewal>>, NEW e \in Editors, NEW p \in Products,
           ReadProduct(e, p)
    PROVE  MarketInv'
  <1>1. PICK t \in Terms, cap \in Caps, delisted \in BOOLEAN :
            edit' = [edit EXCEPT ![e] =
                [pc |-> "product", id |-> p, row |-> product[p],
                 request |-> [terms |-> t, cap |-> cap, delisted |-> delisted]]]
    BY DEF ReadProduct
  <1> DEFINE k == [pc |-> "product", id |-> p, row |-> product[p],
                   request |-> [terms |-> t, cap |-> cap, delisted |-> delisted]]
  <1>2. k \in ProductEdit
    <2>1. product[p] \in ProductRow
      BY DEF MarketInv, TypeOK, TablesTypeOK
    <2>2. cap \in Nat
      BY AccountAssumption
    <2> QED
      BY <2>1, <2>2 DEF ProductEdit
  <1>3. TablesTypeOK' /\ Keeps
    BY UntouchedKeeps DEF ReadProduct, market, MarketInv, TypeOK, TablesTypeOK
  <1>4. edits' \in 0..MaxEdits
    BY AccountAssumption, AccountTyped DEF ReadProduct
  <1> QED
    BY <1>1, <1>2, <1>3, <1>4, EditStepKeeps DEF ReadProduct, market

LEMMA WriteProductKeeps ==
    ASSUME MarketInv, UNCHANGED <<checkout, renewal>>, NEW e \in Editors, WriteProduct(e)
    PROVE  MarketInv'
  <1> DEFINE k == edit[e]
  <1>1. k \in ProductEdit
    BY AccountTyped DEF WriteProduct
  <1>2. product' \in [Products -> ProductRow]
    <2>1. product \in [Products -> ProductRow]
      BY DEF MarketInv, TypeOK, TablesTypeOK
    <2>2. /\ k.id \in Products /\ k.request.terms \in Terms /\ k.request.cap \in Nat
          /\ k.row.sold \in Nat /\ k.request.delisted \in BOOLEAN
      BY <1>1 DEF ProductEdit, ProductRow
    <2>3. product[k.id].delisted \in BOOLEAN
      BY <2>1, <2>2 DEF ProductRow
    <2>4. [terms |-> k.request.terms, cap |-> k.request.cap, sold |-> k.row.sold,
           delisted |-> k.request.delisted \/ product[k.id].delisted] \in ProductRow
      BY <2>2, <2>3 DEF ProductRow
    <2> QED
      BY <2>1, <2>4 DEF WriteProduct
  <1>3. TablesTypeOK' /\ Keeps
    BY <1>2, UntouchedKeeps DEF WriteProduct, MarketInv, TypeOK, TablesTypeOK
  <1>4. IdleEdit.pc = "idle"
    BY DEF IdleEdit
  <1> QED
    BY <1>3, <1>4, AccountTyped, EditStepKeeps DEF WriteProduct

\* The edit that ReadSubscription leaves behind, named so that the record it is can be cited.
NotesEditFrom(i, row, request) ==
    [IdleEdit EXCEPT !.pc = "notes", !.id = i, !.row = row, !.request = request]

LEMMA NotesEditIs ==
    ASSUME NEW i, NEW row, NEW request, NEW k, k = NotesEditFrom(i, row, request)
    PROVE  k = [pc |-> "notes", id |-> i, row |-> row, request |-> request]
  BY Zenon DEF NotesEditFrom, IdleEdit

LEMMA ReadSubscriptionKeeps ==
    ASSUME MarketInv, UNCHANGED <<checkout, renewal>>, NEW e \in Editors,
           NEW i \in DOMAIN subs, ReadSubscription(e, i)
    PROVE  MarketInv'
  <1> DEFINE notes == Append(subs[i].notes, edits + 1)
             k == [IdleEdit EXCEPT !.pc = "notes", !.id = i, !.row = subs[i], !.request = notes]
  <1>1. k \in NotesEdit /\ k.id = i /\ k.row = subs[i]
    <2>1. k = [pc |-> "notes", id |-> i, row |-> subs[i], request |-> notes]
      <3>1. k = NotesEditFrom(i, subs[i], notes)
        BY Zenon DEF NotesEditFrom
      <3> HIDE DEF k, notes
      <3> QED
        BY <3>1, NotesEditIs
    <2>2. subs[i] \in Subscription /\ i \in 1..MaxSubs /\ edits + 1 \in Nat
      BY TypedTables, AccountTyped, AccountAssumption DEF MarketInv
    <2>3. Append(subs[i].notes, edits + 1) \in Seq(Nat)
      BY <2>2, AppendProperties DEF Subscription
    <2> QED
      BY <2>1, <2>2, <2>3 DEF NotesEdit
  <1>2. TablesTypeOK' /\ Keeps
    BY UntouchedKeeps DEF ReadSubscription, market, MarketInv, TypeOK, TablesTypeOK
  <1>3. edits' \in 0..MaxEdits
    BY AccountAssumption, AccountTyped DEF ReadSubscription
  <1>4. edit' = [edit EXCEPT ![e] = k] /\ UNCHANGED <<market, cancel>>
    BY DEF ReadSubscription
  <1>5. k.pc = "notes" => k.id \in DOMAIN subs' /\ Same(k.row, subs'[k.id])
    BY <1>1, <1>4 DEF market, Same
  <1> HIDE DEF k
  <1> QED
    BY <1>1, <1>2, <1>3, <1>4, <1>5, EditStepKeeps DEF market

LEMMA WriteSubscriptionKeeps ==
    ASSUME MarketInv, UNCHANGED <<checkout, renewal>>, NEW e \in Editors, WriteSubscription(e)
    PROVE  MarketInv' /\ Keeps
  <1> DEFINE i == edit[e].id
             row == edit[e].row
             r == [row EXCEPT !.notes = edit[e].request,
                              !.canceled = row.canceled \/ subs[i].canceled,
                              !.terminated = row.terminated \/ subs[i].terminated]
  <1>1. edit[e] \in NotesEdit /\ i \in DOMAIN subs /\ Same(row, subs[i])
    BY AccountTyped DEF WriteSubscription, EditOK
  <1>2. subs[i] \in Subscription /\ row \in Subscription /\ edit[e].request \in Seq(Nat)
    BY <1>1, TypedTables DEF MarketInv, NotesEdit
  <1>3. r \in Subscription /\ Same(r, subs[i])
    BY <1>1, <1>2 DEF Subscription, Same
  <1>4. subs' = [subs EXCEPT ![i] = r] /\ edit' = [edit EXCEPT ![e] = IdleEdit]
        /\ UNCHANGED <<now, product, purchases, payments, access, session, charged,
                       faults, cancel, edits>>
    BY DEF WriteSubscription
  <1>5. faults' \in 0..MaxFaults
    BY <1>4 DEF MarketInv, TypeOK, TablesTypeOK
  <1>6. TablesTypeOK' /\ Keeps
    <2> HIDE DEF r
    <2> QED
      BY <1>1, <1>3, <1>4, <1>5, SubWritten
  <1>7. IdleEdit.pc = "idle"
    BY DEF IdleEdit
  <1> QED
    BY <1>4, <1>6, <1>7, AccountTyped, EditStepKeeps

LEMMA AccountKeeps ==
    ASSUME MarketInv, AccountStep
    PROVE  MarketInv'
  <1>1. UNCHANGED <<checkout, renewal>>
    BY DEF AccountStep
  <1>2. ASSUME NEW c \in Cancelers,
               \/ \E i \in DOMAIN subs : ReadForCancel(c, i)
               \/ SetCanceled(c) \/ FreeSlot(c) \/ FailCancel(c)
        PROVE  MarketInv'
    BY <1>1, <1>2, ReadForCancelKeeps, SetCanceledKeeps, FreeSlotKeeps, FailCancelKeeps
  <1>3. ASSUME NEW e \in Editors,
               \/ \E p \in Products : ReadProduct(e, p)
               \/ WriteProduct(e)
               \/ \E i \in DOMAIN subs : ReadSubscription(e, i)
               \/ WriteSubscription(e)
        PROVE  MarketInv'
    BY <1>1, <1>3, ReadProductKeeps, WriteProductKeeps, ReadSubscriptionKeeps,
       WriteSubscriptionKeeps
  <1> QED
    BY <1>2, <1>3 DEF AccountStep, AccountNext

-----------------------------------------------------------------------------
(* The renewal job.  Its steps keep the rows, change the job and make the batch smaller. *)
LEMMA JobTyped ==
    ASSUME MarketInv
    PROVE  /\ job \in JobState /\ JobOK
           /\ batch \in [DOMAIN batch -> Subscription] /\ DOMAIN batch \subseteq DOMAIN subs
           /\ job.pc \in AtRow =>
                /\ job.id \in DOMAIN batch /\ job.id \in DOMAIN subs
                /\ batch[job.id] \in Subscription /\ subs[job.id] \in Subscription
                /\ Same(batch[job.id], subs[job.id])
                /\ batch[job.id].terms \in Terms /\ batch[job.id].buyer \in Users
                /\ batch[job.id].product \in Products
  <1>1. /\ job \in JobState /\ JobOK
        /\ batch \in [DOMAIN batch -> Subscription] /\ DOMAIN batch \subseteq DOMAIN subs
    BY DEF MarketInv, TypeOK
  <1> QED
    BY <1>1, TypedTables DEF MarketInv, JobOK, Subscription

LEMMA JobChanged ==
    ASSUME MarketInv, UNCHANGED <<checkout, account, session>>, Keeps,
           TablesTypeOK', PurchasesOK',
           NEW k \in JobState, job' = k,
           DOMAIN batch' \subseteq DOMAIN batch,
           batch' \in [DOMAIN batch' -> Subscription],
           \A i \in DOMAIN batch' : batch'[i] = batch[i],
           k.pc \in {"asleep", "due", "lapsed"} => DOMAIN batch' = {},
           k.pc # "asleep" => k.type \in DOMAIN PurchaseTypes,
           k.pc \in AtRow => k.id \in DOMAIN batch',
           k.pc = "payment" => k.purchase \in DOMAIN purchases',
           k.pc \in OverDue => job.pc \in OverDue
    PROVE  MarketInv'
  <1>1. JobOK'
    BY JobTyped DEF JobOK, Keeps, SubsKeep, Same
  <1>2. DOMAIN batch' \subseteq DOMAIN subs'
    BY JobTyped DEF Keeps, SubsKeep
  <1> QED
    BY <1>1, <1>2, RenewalFrame

(* The job goes on with the row it has, at another step. *)
LEMMA JobGoesOn ==
    ASSUME MarketInv, UNCHANGED <<checkout, account, session>>, Keeps,
           TablesTypeOK', PurchasesOK', batch' = batch,
           NEW pc, Renewal!GoTo(pc), job.pc \in AtRow,
           pc \in {"purchase", "advance", "fulfil", "grant", "end", "take", "stamp"},
           pc \in OverDue => job.pc \in OverDue
    PROVE  MarketInv'
  <1> DEFINE k == [job EXCEPT !.pc = pc]
  <1>1. /\ job' = k /\ k \in JobState /\ k.pc = pc /\ k.id = job.id /\ k.type = job.type
    BY JobTyped DEF Renewal!GoTo, JobState
  <1>2. job.type \in DOMAIN PurchaseTypes /\ job.id \in DOMAIN batch
    BY JobTyped DEF JobOK, AtRow
  <1> HIDE DEF k
  <1> QED
    BY <1>1, <1>2, JobTyped, JobChanged

(* The job is done with a row. *)
LEMMA JobDone ==
    ASSUME MarketInv, UNCHANGED <<checkout, account, session>>, Keeps,
           TablesTypeOK', PurchasesOK', job.pc \in AtRow,
           NEW pc \in {"renew", "end all", "terminate"}, Renewal!Done(pc),
           pc \in OverDue => job.pc \in OverDue
    PROVE  MarketInv'
  <1> DEFINE k == [job EXCEPT !.pc = pc]
  <1>1. /\ job' = k /\ k \in JobState /\ k.pc = pc /\ k.type = job.type
    BY JobTyped DEF Renewal!Done, Renewal!GoTo, JobState
  <1>2. job.type \in DOMAIN PurchaseTypes
    BY JobTyped DEF JobOK, AtRow
  <1>3. /\ DOMAIN batch' \subseteq DOMAIN batch /\ batch' \in [DOMAIN batch' -> Subscription]
        /\ \A i \in DOMAIN batch' : batch'[i] = batch[i]
    BY JobTyped DEF Renewal!Done, Renewal!Without
  <1>4. pc \notin AtRow /\ pc \notin {"asleep", "due", "lapsed", "payment"}
    BY DEF AtRow
  <1> HIDE DEF k
  <1> QED
    BY <1>1, <1>2, <1>3, <1>4, JobChanged

(* A step that leaves the tables alone. *)
LEMMA QuietJobStep ==
    ASSUME MarketInv, UNCHANGED <<now, tables, session, charged>>, faults' \in 0..MaxFaults
    PROVE  Keeps /\ TablesTypeOK' /\ PurchasesOK'
  BY UntouchedKeeps DEF tables, MarketInv, TypeOK, TablesTypeOK, PurchasesOK

LEMMA FaultsTyped ==
    ASSUME MarketInv, Renewal!Fault \/ Fault \/ faults' = faults
    PROVE  faults' \in 0..MaxFaults
  BY MarketAssumption DEF Renewal!Fault, Fault, MarketInv, TypeOK, TablesTypeOK

LEMMA NoRowsTyped == DOMAIN Renewal!NoRows = {} /\ Renewal!NoRows \in [{} -> Subscription]
  BY DEF Renewal!NoRows

LEMMA AsleepTyped == Renewal!Asleep \in JobState /\ Renewal!Asleep.pc = "asleep"
  BY MarketAssumption DEF Renewal!Asleep, JobState

LEMMA TickKeeps ==
    ASSUME MarketInv, UNCHANGED <<checkout, account>>, Renewal!Tick
    PROVE  MarketInv'
  <1>1. UNCHANGED <<tables, session, charged, faults, job, batch>>
    BY DEF Renewal!Tick, Renewal!tables, Renewal!renewal, tables
  <1>2. now' \in 0..MaxTime
    BY MarketAssumption DEF Renewal!Tick, MarketInv, TypeOK, TablesTypeOK
  <1>3. TablesTypeOK' /\ PurchasesOK' /\ Keeps
    BY <1>1, <1>2, UntouchedKeeps DEF tables, MarketInv, TypeOK, TablesTypeOK, PurchasesOK
  <1>4. JobOK'
    BY <1>1, <1>3, JobTyped, JobStays DEF renewal
  <1> QED
    BY <1>1, <1>3, <1>4, JobTyped, RenewalFrame DEF tables

LEMMA StartedJobIs ==
    ASSUME NEW k, k = [Renewal!Asleep EXCEPT !.pc = "due", !.type = 1]
    PROVE  k = [pc |-> "due", type |-> 1, id |-> 0, perms |-> {}, purchase |-> 0]
  BY Zenon DEF Renewal!Asleep

LEMMA StartJobKeeps ==
    ASSUME MarketInv, UNCHANGED <<checkout, account>>, Renewal!StartJob
    PROVE  MarketInv'
  <1>1. UNCHANGED <<now, tables, session, charged, faults, batch>> /\ job.pc = "asleep"
    BY DEF Renewal!StartJob, Renewal!market, Renewal!tables, Renewal!At, tables
  <1>2. Keeps /\ TablesTypeOK' /\ PurchasesOK'
    BY <1>1, FaultsTyped, QuietJobStep
  <1> DEFINE k == [Renewal!Asleep EXCEPT !.pc = "due", !.type = 1]
  <1>3. k \in JobState /\ k.pc = "due" /\ k.type = 1
    <2>1. k = [pc |-> "due", type |-> 1, id |-> 0, perms |-> {}, purchase |-> 0]
      BY Zenon, StartedJobIs
    <2>2. MaxSubs \in Nat
      BY MarketAssumption
    <2> HIDE DEF k
    <2> QED
      BY <2>1, <2>2, Types DEF JobState
  <1>4. job' = k /\ DOMAIN batch = {}
    BY <1>1, JobTyped DEF Renewal!StartJob, JobOK
  <1>5. k.pc \notin AtRow /\ k.pc \notin OverDue /\ k.pc # "payment"
    BY <1>3 DEF AtRow, OverDue
  <1>6. k.type \in DOMAIN PurchaseTypes
    BY <1>3, Types
  <1> HIDE DEF k
  <1> QED
    BY <1>1, <1>2, <1>3, <1>4, <1>5, <1>6, JobTyped, JobChanged

(* A query returns rows as they are. *)
LEMMA LoadKeeps ==
    ASSUME MarketInv, UNCHANGED <<checkout, account, market>>, job.pc \in {"due", "lapsed"},
           NEW I \in SUBSET DOMAIN subs, batch' = [i \in I |-> subs[i]],
           NEW pc \in {"renew", "end all", "terminate"}, Renewal!GoTo(pc),
           pc \in OverDue => \A i \in I : subs[i].renews \in Nat
    PROVE  MarketInv'
  <1> DEFINE k == [job EXCEPT !.pc = pc]
  <1>1. /\ job' = k /\ k \in JobState /\ k.pc = pc /\ k.type = job.type
    BY JobTyped DEF Renewal!GoTo, JobState
  <1>2. job.type \in DOMAIN PurchaseTypes
    BY JobTyped DEF JobOK
  <1>3. /\ DOMAIN batch' = I /\ I \subseteq DOMAIN subs
        /\ \A i \in I : batch'[i] = subs[i]
        /\ batch' \in [DOMAIN batch' -> Subscription]
    BY TypedTables DEF MarketInv
  <1>4. UNCHANGED <<now, tables, session, charged, faults>>
    BY DEF market, tables
  <1>5. Keeps /\ TablesTypeOK' /\ PurchasesOK'
    BY <1>4, FaultsTyped, QuietJobStep
  <1>6. pc \notin AtRow /\ pc \notin {"asleep", "due", "lapsed", "payment"}
    BY DEF AtRow
  <1>7. JobOK'
    <2> HIDE DEF k
    <2> QED
      BY <1>1, <1>2, <1>3, <1>4, <1>6 DEF JobOK, Same, tables
  <1> QED
    BY <1>1, <1>3, <1>4, <1>5, <1>7, RenewalFrame DEF tables

LEMMA LoadDueKeeps ==
    ASSUME MarketInv, UNCHANGED <<checkout, account>>, Renewal!LoadDue
    PROVE  MarketInv'
  <1> DEFINE I == {i \in DOMAIN subs : Renewal!Type(i) = Renewal!JobType /\ Renewal!Due(i)}
  <1>1. PICK pc \in {"renew", "end all"} : Renewal!GoTo(pc)
    BY DEF Renewal!LoadDue
  <1>2. batch' = [i \in I |-> subs[i]] /\ UNCHANGED market /\ job.pc = "due"
    BY DEF Renewal!LoadDue, Renewal!RowsWhere, Renewal!market, Renewal!At, market
  <1>3. \A i \in I : subs[i].renews \in Nat
    BY TypedTables DEF Renewal!Due, MarketInv, Subscription
  <1> HIDE DEF I
  <1>4. I \in SUBSET DOMAIN subs
    BY DEF I
  <1> QED
    BY <1>1, <1>2, <1>3, <1>4, LoadKeeps

LEMMA LoadLapsedKeeps ==
    ASSUME MarketInv, UNCHANGED <<checkout, account>>, Renewal!LoadLapsed
    PROVE  MarketInv'
  <1> DEFINE I == {i \in DOMAIN subs :
                    Renewal!Type(i) = Renewal!JobType /\ Renewal!Lapsed(i) /\ ~subs[i].terminated}
  <1>1. batch' = [i \in I |-> subs[i]] /\ UNCHANGED market /\ job.pc = "lapsed"
        /\ Renewal!GoTo("terminate")
    BY DEF Renewal!LoadLapsed, Renewal!RowsWhere, Renewal!market, Renewal!At, market
  <1>2. I \in SUBSET DOMAIN subs
    OBVIOUS
  <1>3. "terminate" \notin OverDue
    BY DEF OverDue
  <1> HIDE DEF I
  <1> QED
    BY <1>1, <1>2, <1>3, LoadKeeps

LEMMA FailQueryKeeps ==
    ASSUME MarketInv, UNCHANGED <<checkout, account>>, Renewal!FailQuery
    PROVE  MarketInv'
  <1> DEFINE pc == IF job.pc = "due" THEN "lapsed" ELSE "terminate"
             k == [job EXCEPT !.pc = pc]
  <1>1. /\ job.pc \in {"due", "lapsed"} /\ Renewal!Fault
        /\ UNCHANGED <<now, tables, session, charged, batch>> /\ Renewal!GoTo(pc)
    BY DEF Renewal!FailQuery, Renewal!At, Renewal!tables, tables
  <1>2. job' = k /\ k \in JobState /\ k.pc = pc /\ k.type = job.type
    BY <1>1, JobTyped DEF Renewal!GoTo, JobState
  <1>3. job.type \in DOMAIN PurchaseTypes /\ DOMAIN batch = {}
    BY <1>1, JobTyped DEF JobOK
  <1>4. Keeps /\ TablesTypeOK' /\ PurchasesOK'
    BY <1>1, FaultsTyped, QuietJobStep
  <1>5. pc \notin AtRow /\ pc \notin OverDue /\ pc # "payment"
    BY DEF AtRow, OverDue
  <1> HIDE DEF k, pc
  <1> QED
    BY <1>1, <1>2, <1>3, <1>4, <1>5, JobTyped, JobChanged

(* The job takes the next row of its pass. *)
LEMMA RowTaken ==
    ASSUME MarketInv, UNCHANGED <<checkout, account, market, batch>>,
           NEW i \in DOMAIN batch, NEW pc \in {"charge", "end, all", "revoke"},
           job.pc \in {"renew", "end all", "terminate"},
           pc \in OverDue => job.pc \in OverDue,
           job' = [job EXCEPT !.id = i, !.pc = pc]
    PROVE  MarketInv'
  <1> DEFINE k == [job EXCEPT !.id = i, !.pc = pc]
  <1>1. i \in 0..MaxSubs
    BY JobTyped, SubIds
  <1>2. k \in JobState /\ k.pc = pc /\ k.type = job.type /\ k.id = i
    BY <1>1, JobTyped DEF JobState
  <1>3. job.type \in DOMAIN PurchaseTypes
    BY JobTyped DEF JobOK
  <1>4. UNCHANGED <<now, tables, session, charged, faults>>
    BY DEF market, tables
  <1>5. Keeps /\ TablesTypeOK' /\ PurchasesOK'
    BY <1>4, FaultsTyped, QuietJobStep
  <1>6. job' = k
    OBVIOUS
  <1> HIDE DEF k
  <1> QED
    BY <1>2, <1>3, <1>4, <1>5, <1>6, JobTyped, JobChanged

(* A pass is over. *)
LEMMA PassOver ==
    ASSUME MarketInv, UNCHANGED <<checkout, account, market, batch>>,
           batch = Renewal!NoRows, NEW k \in JobState, job' = k,
           k.pc \in {"asleep", "due", "lapsed"},
           k.pc # "asleep" => k.type \in DOMAIN PurchaseTypes
    PROVE  MarketInv'
  <1>1. UNCHANGED <<now, tables, session, charged, faults>>
    BY DEF market, tables
  <1>2. Keeps /\ TablesTypeOK' /\ PurchasesOK'
    BY <1>1, FaultsTyped, QuietJobStep
  <1>3. k.pc \notin AtRow /\ k.pc \notin OverDue /\ k.pc # "payment"
    BY DEF AtRow, OverDue
  <1> QED
    BY <1>1, <1>2, <1>3, JobTyped, NoRowsTyped, JobChanged

LEMMA NextDueKeeps ==
    ASSUME MarketInv, UNCHANGED <<checkout, account>>, Renewal!NextDue
    PROVE  MarketInv'
  <1>1. UNCHANGED <<market, batch>> /\ job.pc \in {"renew", "end all"}
    BY DEF Renewal!NextDue, Renewal!At, Renewal!market, market
  <1>2. CASE batch = Renewal!NoRows
    <2>1. [job EXCEPT !.pc = "lapsed"] \in JobState /\ job.type \in DOMAIN PurchaseTypes
      BY <1>1, JobTyped DEF JobOK, JobState
    <2>2. job' = [job EXCEPT !.pc = "lapsed"]
      BY <1>2 DEF Renewal!NextDue, Renewal!GoTo
    <2>3. job'.pc = "lapsed" /\ job'.type = job.type
      BY <2>2, JobTyped DEF JobState
    <2> QED
      BY <1>1, <1>2, <2>1, <2>2, <2>3, PassOver
  <1>3. CASE batch # Renewal!NoRows
    <2>1. PICK i \in DOMAIN batch :
              job' = [job EXCEPT !.id = i, !.pc = IF job.pc = "renew" THEN "charge" ELSE "end, all"]
      BY <1>3 DEF Renewal!NextDue, Renewal!At
    <2> DEFINE pc == IF job.pc = "renew" THEN "charge" ELSE "end, all"
    <2>2. pc \in {"charge", "end, all"} /\ job.pc \in OverDue
      BY <1>1 DEF OverDue
    <2> HIDE DEF pc
    <2>3. job' = [job EXCEPT !.id = i, !.pc = pc]
      BY <2>1 DEF pc
    <2> QED
      BY <1>1, <2>2, <2>3, RowTaken
  <1> QED
    BY <1>2, <1>3

LEMMA NextLapsedKeeps ==
    ASSUME MarketInv, UNCHANGED <<checkout, account>>, Renewal!NextLapsed
    PROVE  MarketInv'
  <1>1. UNCHANGED <<market, batch>> /\ job.pc = "terminate"
    BY DEF Renewal!NextLapsed, Renewal!At, Renewal!market, market
  <1>2. job.type \in 1..4 /\ Len(PurchaseTypes) = 4 /\ DOMAIN PurchaseTypes = 1..4
    BY <1>1, JobTyped, Types DEF JobOK
  <1>3. CASE batch # Renewal!NoRows
    <2>1. PICK i \in DOMAIN batch : job' = [job EXCEPT !.id = i, !.pc = "revoke"]
      BY <1>3 DEF Renewal!NextLapsed
    <2>2. "revoke" \notin OverDue
      BY DEF OverDue
    <2> QED
      BY <1>1, <2>1, <2>2, RowTaken
  <1>4. CASE batch = Renewal!NoRows /\ job.type < Len(PurchaseTypes)
    <2> DEFINE k == [job EXCEPT !.pc = "due", !.type = @ + 1]
    <2>1. job' = k
      BY <1>4 DEF Renewal!NextLapsed, Renewal!PurchaseTypes, PurchaseTypes
    <2>2. k \in JobState /\ k.pc = "due" /\ k.type \in DOMAIN PurchaseTypes
      <3>1. job.type + 1 \in 0..Len(PurchaseTypes) /\ job.type + 1 \in DOMAIN PurchaseTypes
        BY <1>2, <1>4
      <3> QED
        BY <3>1, JobTyped DEF JobState
    <2> QED
      BY <1>1, <1>4, <2>1, <2>2, PassOver
  <1>5. CASE batch = Renewal!NoRows /\ ~(job.type < Len(PurchaseTypes))
    <2>1. job' = Renewal!Asleep
      BY <1>5 DEF Renewal!NextLapsed, Renewal!PurchaseTypes, PurchaseTypes
    <2> QED
      BY <1>1, <1>5, <2>1, AsleepTyped, PassOver
  <1> QED
    BY <1>3, <1>4, <1>5

LEMMA DeclinedKeeps ==
    ASSUME MarketInv, UNCHANGED <<checkout, account>>, Renewal!Declined
    PROVE  MarketInv'
  <1>1. UNCHANGED <<now, tables, session, charged, faults, batch>> /\ job.pc = "charge"
        /\ Renewal!GoTo("end")
    BY DEF Renewal!Declined, Renewal!market, Renewal!tables, Renewal!At, tables
  <1>2. Keeps /\ TablesTypeOK' /\ PurchasesOK'
    BY <1>1, FaultsTyped, QuietJobStep
  <1>3. job.pc \in AtRow /\ job.pc \in OverDue
    BY <1>1 DEF AtRow, OverDue
  <1> QED
    BY <1>1, <1>2, <1>3, JobGoesOn

(* Charging, answered or not. *)
LEMMA ChargedTyped ==
    ASSUME MarketInv, job.pc \in AtRow, charged' = [charged EXCEPT ![job.id] = @ + 1],
           UNCHANGED <<now, tables, session>>, faults' \in 0..MaxFaults
    PROVE  Keeps /\ TablesTypeOK' /\ PurchasesOK'
  <1>1. job.id \in 1..MaxSubs
    BY JobTyped, SubIds
  <1>2. charged' \in [1..MaxSubs -> Nat]
    BY <1>1 DEF MarketInv, TypeOK, TablesTypeOK
  <1> QED
    BY <1>2, UntouchedKeeps DEF tables, MarketInv, TypeOK, TablesTypeOK, PurchasesOK

LEMMA ChargeKeeps ==
    ASSUME MarketInv, UNCHANGED <<checkout, account>>,
           Renewal!Charge \/ Renewal!ChargeUnanswered
    PROVE  MarketInv'
  <1>1. /\ UNCHANGED <<now, tables, session, batch>> /\ job.pc = "charge"
        /\ charged' = [charged EXCEPT ![job.id] = @ + 1]
        /\ Renewal!Fault \/ faults' = faults
        /\ Renewal!GoTo("purchase") \/ Renewal!GoTo("end")
    BY DEF Renewal!Charge, Renewal!ChargeUnanswered, Renewal!tables, Renewal!At, tables
  <1>2. job.pc \in AtRow /\ job.pc \in OverDue
    BY <1>1 DEF AtRow, OverDue
  <1>3. Keeps /\ TablesTypeOK' /\ PurchasesOK'
    BY <1>1, <1>2, FaultsTyped, ChargedTyped
  <1> QED
    BY <1>1, <1>2, <1>3, JobGoesOn

LEMMA RecordPurchaseKeeps ==
    ASSUME MarketInv, UNCHANGED <<checkout, account>>, Renewal!RecordPurchase
    PROVE  MarketInv' /\ Keeps
  <1> DEFINE row == [sub |-> job.id, session |-> None, terms |-> batch[job.id].terms]
             k == [job EXCEPT !.pc = "payment", !.purchase = Len(purchases) + 1]
  <1>1. /\ job.pc = "purchase" /\ purchases' = Append(purchases, row) /\ job' = k
        /\ UNCHANGED <<now, product, subs, payments, access, session, charged, faults, batch>>
    BY DEF Renewal!RecordPurchase, Renewal!At, Renewal!Row
  <1>2. job.pc \in AtRow /\ job.pc \in OverDue
    BY <1>1 DEF AtRow, OverDue
  <1>3. row \in Purchase /\ row.sub \in DOMAIN subs
    <2>1. job.id \in 1..MaxSubs /\ job.id \in DOMAIN subs /\ batch[job.id].terms \in Terms
      BY <1>2, JobTyped, SubIds
    <2> QED
      BY <2>1 DEF Purchase
  <1> HIDE DEF row
  <1>4. /\ Keeps /\ purchases' \in Seq(Purchase)
        /\ DOMAIN purchases' = DOMAIN purchases \cup {Len(purchases) + 1}
        /\ purchases'[Len(purchases) + 1] = row
        /\ \A i \in DOMAIN purchases : purchases'[i] = purchases[i]
    BY <1>1, <1>3, PurchaseAdded DEF Keeps, PurchasesKeep
  <1>5. TablesTypeOK' /\ PurchasesOK'
    BY <1>1, <1>3, <1>4 DEF MarketInv, TypeOK, TablesTypeOK, PurchasesOK
  <1>6. k \in JobState /\ k.pc = "payment" /\ k.id = job.id /\ k.type = job.type
        /\ k.purchase = Len(purchases) + 1
    <2>1. Len(purchases) + 1 \in Nat
      BY TypedTables DEF MarketInv
    <2> QED
      BY <2>1, JobTyped DEF JobState
  <1>7. job.type \in DOMAIN PurchaseTypes /\ job.id \in DOMAIN batch
    BY <1>1, <1>2, JobTyped DEF JobOK
  <1> HIDE DEF k
  <1> QED
    BY <1>1, <1>2, <1>4, <1>5, <1>6, <1>7, JobTyped, JobChanged

LEMMA RecordPaymentKeeps ==
    ASSUME MarketInv, UNCHANGED <<checkout, account>>, Renewal!RecordPayment
    PROVE  MarketInv'
  <1>1. /\ job.pc = "payment" /\ payments' = payments \cup {job.purchase}
        /\ Renewal!GoTo("advance")
        /\ UNCHANGED <<now, product, subs, purchases, access, session, charged, faults, batch>>
    BY DEF Renewal!RecordPayment, Renewal!At
  <1>2. job.pc \in AtRow /\ job.pc \in OverDue
    BY <1>1 DEF AtRow, OverDue
  <1>3. job.purchase \in DOMAIN purchases
    BY <1>1, JobTyped DEF JobOK
  <1>4. TablesTypeOK' /\ PurchasesOK' /\ Keeps
    BY <1>1, <1>3, UntouchedKeeps DEF MarketInv, TypeOK, TablesTypeOK, PurchasesOK
  <1> QED
    BY <1>1, <1>2, <1>4, JobGoesOn

(* The job writes a column of the subscription it has in hand. *)
LEMMA AdvanceRenewalKeeps ==
    ASSUME MarketInv, UNCHANGED <<checkout, account>>, Renewal!AdvanceRenewal
    PROVE  MarketInv' /\ Keeps
  <1> DEFINE r == [subs[job.id] EXCEPT
                        !.renews = Advance(batch[job.id].renews, batch[job.id].product)]
  <1>1. /\ job.pc = "advance" /\ subs' = [subs EXCEPT ![job.id] = r]
        /\ Renewal!GoTo("fulfil")
        /\ UNCHANGED <<now, product, purchases, payments, access, session, charged, faults, batch>>
    BY DEF Renewal!AdvanceRenewal, Renewal!At, Renewal!Row, Renewal!Advance, Advance
  <1>2. job.pc \in AtRow /\ job.pc \in OverDue
    BY <1>1 DEF AtRow, OverDue
  <1>3. batch[job.id].renews \in Nat /\ PeriodOf(batch[job.id].product) \in Nat
    BY <1>2, JobTyped, MarketAssumption DEF JobOK
  <1>4. r \in Subscription /\ Same(r, subs[job.id]) /\ job.id \in DOMAIN subs
    <2>1. Advance(batch[job.id].renews, batch[job.id].product) \in Nat
      BY <1>3 DEF Advance
    <2>2. \A s \in Subscription, n \in Nat :
            [s EXCEPT !.renews = n] \in Subscription /\ Same([s EXCEPT !.renews = n], s)
      BY DEF Subscription, Same
    <2> QED
      BY <1>2, <2>1, <2>2, JobTyped
  <1>5. faults' \in 0..MaxFaults
    BY <1>1, FaultsTyped
  <1> HIDE DEF r
  <1>6. TablesTypeOK' /\ Keeps
    BY <1>1, <1>4, <1>5, SubWritten
  <1>7. PurchasesOK'
    BY <1>1, <1>6 DEF MarketInv, PurchasesOK, Keeps, SubsKeep
  <1> QED
    BY <1>1, <1>2, <1>6, <1>7, JobGoesOn

LEMMA EndSubscriptionKeeps ==
    ASSUME MarketInv, UNCHANGED <<checkout, account>>, Renewal!EndSubscription
    PROVE  MarketInv' /\ Keeps
  <1> DEFINE r == [subs[job.id] EXCEPT !.canceled = TRUE]
             pc == IF job.pc = "end" THEN "renew" ELSE "end all"
  <1>1. /\ job.pc \in {"end", "end, all"} /\ Renewal!Done(pc)
        /\ \/ subs' = [subs EXCEPT ![job.id] = r] /\ faults' = faults
           \/ subs' = subs /\ Renewal!Fault
        /\ UNCHANGED <<now, product, purchases, payments, access, session, charged>>
    BY DEF Renewal!EndSubscription, Renewal!At
  <1>2. job.pc \in AtRow /\ job.pc \in OverDue
    BY <1>1 DEF AtRow, OverDue
  <1>3. r \in Subscription /\ Same(r, subs[job.id]) /\ job.id \in DOMAIN subs
    BY <1>2, JobTyped DEF Subscription, Same
  <1>4. faults' \in 0..MaxFaults
    BY <1>1, FaultsTyped
  <1> HIDE DEF r
  <1>5. TablesTypeOK' /\ Keeps
    <2>1. CASE subs' = [subs EXCEPT ![job.id] = r]
      BY <1>1, <1>3, <1>4, <2>1, SubWritten
    <2>2. CASE subs' = subs
      BY <1>1, <1>4, <2>2, QuietJobStep DEF tables
    <2> QED
      BY <1>1, <2>1, <2>2
  <1>6. PurchasesOK'
    BY <1>1, <1>5 DEF MarketInv, PurchasesOK, Keeps, SubsKeep
  <1> HIDE DEF pc
  <1>7. pc \in {"renew", "end all", "terminate"}
    BY DEF pc
  <1> QED
    BY <1>1, <1>2, <1>5, <1>6, <1>7, JobDone

LEMMA StampTerminatedKeeps ==
    ASSUME MarketInv, UNCHANGED <<checkout, account>>, Renewal!StampTerminated
    PROVE  MarketInv' /\ Keeps
  <1> DEFINE r == [subs[job.id] EXCEPT !.terminated = TRUE]
  <1>1. /\ job.pc = "stamp" /\ Renewal!Done("terminate")
        /\ subs' = [subs EXCEPT ![job.id] = r]
        /\ UNCHANGED <<now, product, purchases, payments, access, session, charged, faults>>
    BY DEF Renewal!StampTerminated, Renewal!At
  <1>2. job.pc \in AtRow /\ "terminate" \notin OverDue
    BY <1>1 DEF AtRow, OverDue
  <1>3. r \in Subscription /\ Same(r, subs[job.id]) /\ job.id \in DOMAIN subs
    BY <1>2, JobTyped DEF Subscription, Same
  <1>4. faults' \in 0..MaxFaults
    BY <1>1, FaultsTyped
  <1> HIDE DEF r
  <1>5. TablesTypeOK' /\ Keeps
    BY <1>1, <1>3, <1>4, SubWritten
  <1>6. PurchasesOK'
    BY <1>1, <1>5 DEF MarketInv, PurchasesOK, Keeps, SubsKeep
  <1> QED
    BY <1>1, <1>2, <1>5, <1>6, JobDone

(* A step that writes entitlements only. *)
LEMMA AccessWritten ==
    ASSUME MarketInv, UNCHANGED <<now, product, subs, purchases, payments, session, charged, faults>>,
           access' \in [Users ->
                [storage : Terms \cup {Default}, grant : Terms \cup {None},
                 perms : SUBSET Permissions]]
    PROVE  Keeps /\ TablesTypeOK' /\ PurchasesOK'
  BY UntouchedKeeps DEF MarketInv, TypeOK, TablesTypeOK, PurchasesOK

(* The job reads the buyer's permissions, to write them back in its next step. *)
LEMMA PermissionsRead ==
    ASSUME MarketInv, UNCHANGED <<checkout, account, session>>, Keeps,
           TablesTypeOK', PurchasesOK', batch' = batch, job.pc \in {"fulfil", "revoke"},
           NEW pc \in {"grant", "take"}, pc = "grant" => job.pc = "fulfil",
           NEW P \in SUBSET Permissions,
           job' = [job EXCEPT !.pc = pc, !.perms = P]
    PROVE  MarketInv'
  <1> DEFINE k == [job EXCEPT !.pc = pc, !.perms = P]
  <1>1. k \in JobState /\ k.pc = pc /\ k.id = job.id /\ k.type = job.type
    BY JobTyped DEF JobState
  <1>2. job.type \in DOMAIN PurchaseTypes /\ job.id \in DOMAIN batch
    BY JobTyped DEF JobOK, AtRow
  <1>3. pc \in OverDue => job.pc \in OverDue
    BY DEF OverDue
  <1>4. job' = k
    OBVIOUS
  <1> HIDE DEF k
  <1> QED
    BY <1>1, <1>2, <1>3, <1>4, JobTyped, JobChanged

LEMMA RefulfilKeeps ==
    ASSUME MarketInv, UNCHANGED <<checkout, account>>, Renewal!Refulfil
    PROVE  MarketInv'
  <1>1. /\ job.pc = "fulfil" /\ job.pc \in AtRow /\ job.pc \in OverDue
        /\ UNCHANGED <<now, product, subs, purchases, payments, session, charged, faults>>
    BY DEF Renewal!Refulfil, Renewal!At, AtRow, OverDue
  <1>2. TablesTypeOK /\ access \in [Users ->
                [storage : Terms \cup {Default}, grant : Terms \cup {None},
                 perms : SUBSET Permissions]]
    BY DEF MarketInv, TypeOK, TablesTypeOK
  <1>3. batch[job.id].buyer \in Users /\ batch[job.id].terms \in Terms
    BY <1>1, JobTyped
  <1>4. CASE Renewal!JobType = "PERMISSIONS_ACCESS"
    <2>1. /\ job' = [job EXCEPT !.pc = "grant", !.perms = access[batch[job.id].buyer].perms]
          /\ access' = access /\ batch' = batch
      BY <1>4 DEF Renewal!Refulfil, Renewal!Row
    <2>2. access[batch[job.id].buyer].perms \in SUBSET Permissions
      BY <1>2, <1>3
    <2>3. Keeps /\ TablesTypeOK' /\ PurchasesOK'
      BY <1>1, <1>2, <2>1, AccessWritten
    <2> QED
      BY <1>1, <2>1, <2>2, <2>3, PermissionsRead
  <1>5. CASE Renewal!JobType # "PERMISSIONS_ACCESS"
    <2>1. /\ access' = GrantOutright(batch[job.id].buyer, Renewal!JobType, batch[job.id].terms)
          /\ Renewal!Done("renew")
      BY <1>5 DEF Renewal!Refulfil, Renewal!Row, Renewal!GrantOutright, GrantOutright
    <2>2. Renewal!JobType \in {"MEDIA_STORAGE", "AI_GRANTS", "RELLM_HOSTING"}
      <3>1. job.type \in DOMAIN PurchaseTypes
        BY <1>1, JobTyped DEF JobOK
      <3> QED
        BY <1>5, <3>1, Types DEF Renewal!JobType, Renewal!PurchaseTypes, PurchaseTypes
    <2>3. Keeps /\ TablesTypeOK' /\ PurchasesOK'
      BY <1>1, <1>2, <1>3, <2>1, <2>2, OutrightTyped, AccessWritten
    <2> QED
      BY <1>1, <2>1, <2>3, JobDone
  <1> QED
    BY <1>4, <1>5

LEMMA RegrantPermissionsKeeps ==
    ASSUME MarketInv, UNCHANGED <<checkout, account>>, Renewal!RegrantPermissions
    PROVE  MarketInv'
  <1> DEFINE P == job.perms \cup PermissionsIn(batch[job.id].terms)
  <1>1. /\ job.pc \in AtRow /\ job.pc \in OverDue /\ Renewal!Done("renew")
        /\ access' = [access EXCEPT ![batch[job.id].buyer].perms = P]
        /\ UNCHANGED <<now, product, subs, purchases, payments, session, charged, faults>>
    BY DEF Renewal!RegrantPermissions, Renewal!At, Renewal!Row, AtRow, OverDue
  <1>2. P \in SUBSET Permissions /\ batch[job.id].buyer \in Users
    BY <1>1, JobTyped, Types DEF JobState
  <1>3. TablesTypeOK
    BY DEF MarketInv, TypeOK
  <1> HIDE DEF P
  <1>4. Keeps /\ TablesTypeOK' /\ PurchasesOK'
    BY <1>1, <1>2, <1>3, PermsTyped, AccessWritten
  <1> QED
    BY <1>1, <1>4, JobDone

LEMMA TakePermissionsKeeps ==
    ASSUME MarketInv, UNCHANGED <<checkout, account>>, Renewal!TakePermissions
    PROVE  MarketInv'
  <1> DEFINE P == job.perms \ PermissionsIn(batch[job.id].terms)
  <1>1. /\ job.pc \in AtRow /\ Renewal!GoTo("stamp") /\ batch' = batch
        /\ access' = [access EXCEPT ![batch[job.id].buyer].perms = P]
        /\ UNCHANGED <<now, product, subs, purchases, payments, session, charged, faults>>
        /\ "stamp" \notin OverDue
    BY DEF Renewal!TakePermissions, Renewal!At, Renewal!Row, AtRow, OverDue
  <1>2. P \in SUBSET Permissions /\ batch[job.id].buyer \in Users
    BY <1>1, JobTyped DEF JobState
  <1>3. TablesTypeOK
    BY DEF MarketInv, TypeOK
  <1> HIDE DEF P
  <1>4. Keeps /\ TablesTypeOK' /\ PurchasesOK'
    BY <1>1, <1>2, <1>3, PermsTyped, AccessWritten
  <1> QED
    BY <1>1, <1>4, JobGoesOn

LEMMA RevokeKeeps ==
    ASSUME MarketInv, UNCHANGED <<checkout, account>>, Renewal!Revoke
    PROVE  MarketInv'
  <1>1. /\ job.pc = "revoke" /\ job.pc \in AtRow /\ "stamp" \notin OverDue
        /\ UNCHANGED <<now, product, subs, purchases, payments, session, charged, faults, batch>>
    BY DEF Renewal!Revoke, Renewal!At, AtRow, OverDue
  <1>2. access \in [Users -> [storage : Terms \cup {Default}, grant : Terms \cup {None},
                              perms : SUBSET Permissions]]
    BY DEF MarketInv, TypeOK, TablesTypeOK
  <1>3. batch[job.id].buyer \in Users
    BY <1>1, JobTyped
  <1>4. CASE access' = [access EXCEPT ![batch[job.id].buyer].storage = Default]
             /\ Renewal!GoTo("stamp")
    <2>1. Keeps /\ TablesTypeOK' /\ PurchasesOK'
      BY <1>1, <1>2, <1>3, <1>4, AccessWritten
    <2> QED
      BY <1>1, <1>4, <2>1, JobGoesOn
  <1>5. CASE access' = access /\ Renewal!GoTo("stamp")
    <2>1. Keeps /\ TablesTypeOK' /\ PurchasesOK'
      BY <1>1, <1>2, <1>5, AccessWritten
    <2> QED
      BY <1>1, <1>5, <2>1, JobGoesOn
  <1>6. CASE access' = access
             /\ job' = [job EXCEPT !.pc = "take", !.perms = access[batch[job.id].buyer].perms]
    <2>1. Keeps /\ TablesTypeOK' /\ PurchasesOK'
      BY <1>1, <1>2, <1>6, AccessWritten
    <2>2. access[batch[job.id].buyer].perms \in SUBSET Permissions
      BY <1>2, <1>3
    <2> QED
      BY <1>1, <1>6, <2>1, <2>2, PermissionsRead
  <1> QED
    BY <1>4, <1>5, <1>6 DEF Renewal!Revoke, Renewal!Row

(* An error anywhere in renew_one, or in a termination; and the death of the job. *)
LEMMA FailedJobKeeps ==
    ASSUME MarketInv, UNCHANGED <<checkout, account>>,
           Renewal!FailRenewal \/ Renewal!FailTermination \/ Renewal!CrashJob
    PROVE  MarketInv'
  <1>1. UNCHANGED <<now, tables, session, charged>> /\ Renewal!Fault
    BY DEF Renewal!FailRenewal, Renewal!Err, Renewal!FailTermination, Renewal!CrashJob,
           Renewal!tables, tables
  <1>2. Keeps /\ TablesTypeOK' /\ PurchasesOK'
    BY <1>1, FaultsTyped, QuietJobStep
  <1>3. CASE Renewal!FailRenewal
    <2>1. job.pc \in AtRow /\ job.pc \in OverDue /\ batch' = batch /\ Renewal!GoTo("end")
      BY <1>3 DEF Renewal!FailRenewal, Renewal!Err, AtRow, OverDue
    <2> QED
      BY <1>1, <1>2, <2>1, JobGoesOn
  <1>4. CASE Renewal!FailTermination
    <2>1. job.pc \in AtRow /\ Renewal!Done("terminate") /\ "terminate" \notin OverDue
      BY <1>4 DEF Renewal!FailTermination, AtRow, OverDue
    <2> QED
      BY <1>1, <1>2, <2>1, JobDone
  <1>5. CASE Renewal!CrashJob
    <2>1. job' = Renewal!Asleep /\ batch' = Renewal!NoRows
      BY <1>5 DEF Renewal!CrashJob
    <2>2. "asleep" \notin AtRow /\ "asleep" \notin OverDue
      BY DEF AtRow, OverDue
    <2> QED
      BY <1>1, <1>2, <2>1, <2>2, AsleepTyped, NoRowsTyped, JobChanged
  <1> QED
    BY <1>3, <1>4, <1>5

LEMMA RenewalKeeps ==
    ASSUME MarketInv, RenewalStep
    PROVE  MarketInv'
  <1>1. UNCHANGED <<checkout, account>> /\ Renewal!RenewalNext
    BY DEF RenewalStep
  <1> QED
    BY <1>1, TickKeeps, StartJobKeeps, LoadDueKeeps, FailQueryKeeps, NextDueKeeps,
       DeclinedKeeps, ChargeKeeps, RecordPurchaseKeeps, RecordPaymentKeeps,
       AdvanceRenewalKeeps, RefulfilKeeps, RegrantPermissionsKeeps, EndSubscriptionKeeps,
       LoadLapsedKeeps, NextLapsedKeeps, RevokeKeeps, TakePermissionsKeeps,
       StampTerminatedKeeps, FailedJobKeeps DEF Renewal!RenewalNext, Renewal!JobStep

-----------------------------------------------------------------------------
LEMMA NewProducts ==
    [terms : Terms, cap : Caps, sold : {0}, delisted : {FALSE}] \subseteq ProductRow
  <1>1. ASSUME NEW C \in SUBSET Nat, NEW S \in SUBSET Nat, NEW D \in SUBSET BOOLEAN
        PROVE  [terms : Terms, cap : C, sold : S, delisted : D] \subseteq ProductRow
    BY Zenon DEF ProductRow
  <1>2. Caps \in SUBSET Nat /\ {0} \in SUBSET Nat /\ {FALSE} \in SUBSET BOOLEAN
    BY AccountAssumption
  <1> QED
    BY <1>1, <1>2

LEMMA InitMarket == Init => MarketInv
  <1> SUFFICES ASSUME Init
               PROVE  MarketInv
    OBVIOUS
  <1> USE DEF Init, ProcessesInit, CheckoutInit, AccountInit, Renewal!RenewalInit
  <1>1. DOMAIN subs = {} /\ DOMAIN purchases = {} /\ DOMAIN batch = {} /\ Len(subs) = 0
        /\ subs \in Seq(Subscription) /\ purchases \in Seq(Purchase)
    BY NoRowsTyped
  <1>2. product \in [Products -> ProductRow]
    <2>1. product \in [Products ->
                [terms : Terms, cap : Caps, sold : {0}, delisted : {FALSE}]]
      OBVIOUS
    <2> QED
      BY <2>1, NewProducts
  <1>3. TablesTypeOK
    BY <1>1, <1>2, MarketAssumption DEF TablesTypeOK, NoSession
  <1>4. job \in JobState /\ job.pc = "asleep"
    BY AsleepTyped
  <1>5. TypeOK
    BY <1>1, <1>3, <1>4, IdleHookTyped, IdleCancelTyped, NoRowsTyped, CheckoutAssumption,
       AccountAssumption DEF TypeOK
  <1>6. SessionsOK /\ PurchasesOK
    BY <1>1 DEF SessionsOK, PurchasesOK
  <1>7. \A h \in Hooks : HookOK(h)
    BY DEF HookOK, IdleHook
  <1>8. \A c \in Cancelers : CancelOK(c)
    BY DEF CancelOK, IdleCancel
  <1>9. \A e \in Editors : EditOK(e)
    BY DEF EditOK, IdleEdit
  <1>10. JobOK
    BY <1>1, <1>4 DEF JobOK, AtRow, OverDue
  <1> QED
    BY <1>5, <1>6, <1>7, <1>8, <1>9, <1>10 DEF MarketInv

LEMMA StutterMarket ==
    ASSUME MarketInv, UNCHANGED vars
    PROVE  MarketInv'
  <1>1. Keeps
    BY UntouchedKeeps DEF vars, market
  <1>2. TablesTypeOK' /\ PurchasesOK'
    BY DEF vars, market, MarketInv, TypeOK, TablesTypeOK, PurchasesOK
  <1>3. JobOK'
    BY <1>1, JobTyped, JobStays DEF vars
  <1> QED
    BY <1>1, <1>2, <1>3, JobTyped, RenewalFrame DEF vars, market, renewal

LEMMA MarketInductive == MarketInv /\ [Next]_vars => MarketInv'
  BY CheckoutKeeps, AccountKeeps, RenewalKeeps, StutterMarket DEF Next

(* Whatever interleaves, every variable keeps its type and every process's *)
(* memory of a row, a session or an id stays true of the tables it was     *)
(* read from: nothing is moved or deleted between two statements of a      *)
(* handler (stripe_webhook.rs:245-300, market_renewal.rs:80-190).          *)
THEOREM MemoryStaysTrue == Spec => []MarketInv
  <1>1. Init => MarketInv
    BY InitMarket
  <1>2. MarketInv /\ [Next]_vars => MarketInv'
    BY MarketInductive
  <1> QED
    BY <1>1, <1>2, PTL DEF Spec

-----------------------------------------------------------------------------
(* Who writes what.  The tables of subscriptions and of purchases, and what Stripe has *)
(* charged, are written by the steps named here and by no other. *)
SubsWriters ==
    \/ \E h \in Hooks : InsertSubscription(h)
    \/ \E c \in Cancelers : SetCanceled(c)
    \/ \E e \in Editors : WriteSubscription(e)
    \/ Renewal!AdvanceRenewal
    \/ Renewal!EndSubscription
    \/ Renewal!StampTerminated

PurchaseWriters == (\E h \in Hooks : InsertPurchase(h)) \/ Renewal!RecordPurchase

LEMMA CheckoutWriters ==
    ASSUME CheckoutStep
    PROVE  /\ UNCHANGED <<now, charged, account, renewal>>
           /\ subs' = subs \/ \E h \in Hooks : InsertSubscription(h)
           /\ purchases' = purchases \/ \E h \in Hooks : InsertPurchase(h)
           /\ \/ UNCHANGED <<subs, purchases>>
              \/ \E h \in Hooks : InsertSubscription(h) \/ InsertPurchase(h)
  <1>1. UNCHANGED <<account, renewal>>
    BY DEF CheckoutStep
  <1>2. ASSUME \/ \E u \in Users, p \in Products : MakeMarketPurchase(u, p)
               \/ \E s \in Sessions : Pay(s)
               \/ \E h \in Hooks, s \in Sessions : Deliver(h, s)
        PROVE  UNCHANGED <<now, charged, subs, purchases>>
    BY <1>2 DEF MakeMarketPurchase, Pay, Deliver, market, tables
  <1>3. ASSUME NEW h \in Hooks,
               CheckProcessed(h) \/ LoadProduct(h) \/ InsertPayment(h) \/ CountSale(h)
                \/ Fulfil(h) \/ GrantPermissions(h) \/ FailDelivery(h)
        PROVE  UNCHANGED <<now, charged, subs, purchases>>
    BY <1>3 DEF CheckProcessed, LoadProduct, InsertPayment, CountSale, Fulfil,
                GrantPermissions, FailDelivery, market, tables
  <1>4. ASSUME NEW h \in Hooks, InsertSubscription(h) \/ InsertPurchase(h)
        PROVE  /\ UNCHANGED <<now, charged>>
               /\ subs' = subs \/ InsertSubscription(h)
               /\ purchases' = purchases \/ InsertPurchase(h)
    BY <1>4 DEF InsertSubscription, InsertPurchase
  <1> QED
    BY <1>1, <1>2, <1>3, <1>4 DEF CheckoutStep, CheckoutNext, HandlerStep

LEMMA AccountWriters ==
    ASSUME AccountStep
    PROVE  /\ UNCHANGED <<now, charged, purchases, session, checkout, renewal>>
           /\ faults' = faults \/ \E c \in Cancelers : FailCancel(c)
           /\ \/ subs' = subs
              \/ \E c \in Cancelers : SetCanceled(c)
              \/ \E e \in Editors : WriteSubscription(e)
  <1>1. UNCHANGED <<checkout, renewal>>
    BY DEF AccountStep
  <1>2. ASSUME NEW c \in Cancelers, \E i \in DOMAIN subs : ReadForCancel(c, i)
        PROVE  UNCHANGED <<now, charged, faults, purchases, session, subs>>
    BY <1>2 DEF ReadForCancel, market
  <1>3. ASSUME NEW c \in Cancelers, SetCanceled(c) \/ FreeSlot(c)
        PROVE  UNCHANGED <<now, charged, faults, purchases, session>>
               /\ (subs' = subs \/ SetCanceled(c))
    BY <1>3 DEF SetCanceled, FreeSlot
  <1>4. ASSUME NEW c \in Cancelers, FailCancel(c)
        PROVE  UNCHANGED <<now, charged, purchases, session, subs>>
    BY <1>4 DEF FailCancel, tables
  <1>5. ASSUME NEW e \in Editors,
               \/ \E p \in Products : ReadProduct(e, p)
               \/ \E i \in DOMAIN subs : ReadSubscription(e, i)
               \/ WriteProduct(e)
        PROVE  UNCHANGED <<now, charged, faults, purchases, session, subs>>
    BY <1>5 DEF ReadProduct, ReadSubscription, WriteProduct, market
  <1>6. ASSUME NEW e \in Editors, WriteSubscription(e)
        PROVE  UNCHANGED <<now, charged, faults, purchases, session>>
    BY <1>6 DEF WriteSubscription
  <1> QED
    BY <1>1, <1>2, <1>3, <1>4, <1>5, <1>6 DEF AccountStep, AccountNext

LEMMA RenewalWriters ==
    ASSUME RenewalStep
    PROVE  /\ UNCHANGED <<session, checkout, account>>
           /\ \/ subs' = subs
              \/ Renewal!AdvanceRenewal \/ Renewal!EndSubscription \/ Renewal!StampTerminated
           /\ purchases' = purchases \/ Renewal!RecordPurchase
           /\ charged' = charged \/ Renewal!Charge \/ Renewal!ChargeUnanswered
           /\ now' = now \/ Renewal!Tick
  <1> USE DEF Renewal!market, Renewal!tables
  <1>1. UNCHANGED <<checkout, account>>
    BY DEF RenewalStep
  <1>2. ASSUME Renewal!Tick \/ Renewal!Charge \/ Renewal!ChargeUnanswered
        PROVE  /\ UNCHANGED <<session, subs, purchases>>
               /\ now' = now \/ Renewal!Tick
               /\ charged' = charged \/ Renewal!Charge \/ Renewal!ChargeUnanswered
    BY <1>2 DEF Renewal!Tick, Renewal!Charge, Renewal!ChargeUnanswered
  <1>3. ASSUME \/ Renewal!StartJob \/ Renewal!LoadDue \/ Renewal!NextDue \/ Renewal!Declined
               \/ Renewal!LoadLapsed \/ Renewal!NextLapsed \/ Renewal!RecordPayment
               \/ Renewal!Refulfil \/ Renewal!RegrantPermissions \/ Renewal!Revoke
               \/ Renewal!TakePermissions
        PROVE  UNCHANGED <<session, subs, purchases, charged, now>>
    BY <1>3 DEF Renewal!StartJob, Renewal!LoadDue, Renewal!NextDue, Renewal!Declined,
                Renewal!LoadLapsed, Renewal!NextLapsed, Renewal!RecordPayment,
                Renewal!Refulfil, Renewal!RegrantPermissions, Renewal!Revoke,
                Renewal!TakePermissions
  <1>4. ASSUME \/ Renewal!FailQuery \/ Renewal!FailRenewal \/ Renewal!FailTermination
               \/ Renewal!CrashJob
        PROVE  UNCHANGED <<session, subs, purchases, charged, now>>
    BY <1>4 DEF Renewal!FailQuery, Renewal!FailRenewal, Renewal!Err, Renewal!FailTermination,
                Renewal!CrashJob
  <1>5. ASSUME Renewal!RecordPurchase
        PROVE  UNCHANGED <<session, subs, charged, now>>
    BY <1>5 DEF Renewal!RecordPurchase
  <1>6. ASSUME \/ Renewal!AdvanceRenewal \/ Renewal!EndSubscription \/ Renewal!StampTerminated
        PROVE  UNCHANGED <<session, purchases, charged, now>>
    BY <1>6 DEF Renewal!AdvanceRenewal, Renewal!EndSubscription, Renewal!StampTerminated
  <1> QED
    BY <1>1, <1>2, <1>3, <1>4, <1>5, <1>6 DEF RenewalStep, Renewal!RenewalNext, Renewal!JobStep

LEMMA Writers ==
    ASSUME Next
    PROVE  /\ subs' = subs \/ SubsWriters
           /\ purchases' = purchases \/ PurchaseWriters
           /\ UNCHANGED <<subs, purchases>> \/ SubsWriters \/ PurchaseWriters
           /\ charged' = charged \/ Renewal!Charge \/ Renewal!ChargeUnanswered
           /\ now' = now \/ Renewal!Tick
  BY CheckoutWriters, AccountWriters, RenewalWriters DEF Next, SubsWriters, PurchaseWriters

LEMMA SessionsAreKept ==
    ASSUME MarketInv, Next
    PROVE  SessionsKeep
  <1>1. session \in [Sessions -> [status : {"new", "open", "paid"}, buyer : Users \cup {None},
                                   product : Products \cup {None}, terms : Terms \cup {None}]]
    BY DEF MarketInv, TypeOK, TablesTypeOK
  <1>2. CASE CheckoutStep
    <2>1. ASSUME NEW u \in Users, NEW p \in Products, MakeMarketPurchase(u, p)
          PROVE  SessionsKeep
      BY <1>1, <2>1 DEF MakeMarketPurchase, SessionsKeep, NoSession
    <2>2. ASSUME NEW s \in Sessions, Pay(s)
          PROVE  SessionsKeep
      BY <1>1, <2>2 DEF Pay, SessionsKeep
    <2>3. ASSUME NEW h \in Hooks, \/ \E s \in Sessions : Deliver(h, s)
                                  \/ HandlerStep(h) \/ FailDelivery(h)
          PROVE  UNCHANGED session
      BY <2>3 DEF Deliver, HandlerStep, FailDelivery, CheckProcessed, LoadProduct,
                  InsertSubscription, InsertPurchase, InsertPayment, CountSale, Fulfil,
                  GrantPermissions, market
    <2> QED
      BY <1>2, <2>1, <2>2, <2>3 DEF CheckoutStep, CheckoutNext, SessionsKeep
  <1>3. CASE AccountStep \/ RenewalStep
    BY <1>3, AccountWriters, RenewalWriters DEF SessionsKeep
  <1> QED
    BY <1>2, <1>3 DEF Next

LEMMA RowsAreKept ==
    ASSUME MarketInv, Next
    PROVE  Keeps
  <1>1. ASSUME NEW h \in Hooks, InsertSubscription(h) \/ InsertPurchase(h), CheckoutStep
        PROVE  Keeps
    BY <1>1, InsertSubscriptionKeeps, InsertPurchaseKeeps DEF CheckoutStep
  <1>2. CASE CheckoutStep
    <2>1. CASE UNCHANGED <<subs, purchases>>
      BY <2>1, SessionsAreKept DEF Keeps, SubsKeep, PurchasesKeep, Same
    <2> QED
      BY <1>1, <1>2, <2>1, CheckoutWriters
  <1>3. CASE AccountStep
    <2>1. CASE subs' = subs
      BY <1>3, <2>1, AccountWriters, UntouchedKeeps
    <2>2. CASE \E c \in Cancelers : SetCanceled(c)
      BY <1>3, <2>2, SetCanceledKeeps DEF AccountStep
    <2>3. CASE \E e \in Editors : WriteSubscription(e)
      BY <1>3, <2>3, WriteSubscriptionKeeps DEF AccountStep
    <2> QED
      BY <1>3, <2>1, <2>2, <2>3, AccountWriters
  <1>4. CASE RenewalStep
    <2>1. CASE UNCHANGED <<subs, purchases>>
      BY <1>4, <2>1, RenewalWriters, UntouchedKeeps
    <2>2. CASE Renewal!RecordPurchase
      BY <1>4, <2>2, RecordPurchaseKeeps DEF RenewalStep
    <2>3. CASE Renewal!AdvanceRenewal
      BY <1>4, <2>3, AdvanceRenewalKeeps DEF RenewalStep
    <2>4. CASE Renewal!EndSubscription
      BY <1>4, <2>4, EndSubscriptionKeeps DEF RenewalStep
    <2>5. CASE Renewal!StampTerminated
      BY <1>4, <2>5, StampTerminatedKeeps DEF RenewalStep
    <2> QED
      BY <1>4, <2>1, <2>2, <2>3, <2>4, <2>5, RenewalWriters
  <1> QED
    BY <1>2, <1>3, <1>4 DEF Next

(* A purchase is added with the terms its subscription has, by a thread for its session *)
(* or by the job for none. *)
LEMMA AddedPurchase ==
    ASSUME MarketInv, Next, purchases' # purchases
    PROVE  /\ DOMAIN purchases' = DOMAIN purchases \cup {Len(purchases) + 1}
           /\ Len(purchases) + 1 \notin DOMAIN purchases
           /\ UNCHANGED <<subs, session, charged, faults, now>>
           /\ LET r == purchases'[Len(purchases) + 1] IN
              /\ r.sub \in DOMAIN subs /\ r.terms = subs[r.sub].terms
              /\ \/ \E h \in Hooks :
                        /\ InsertPurchase(h) /\ r.session = hook[h].session
                        /\ r.session \in Sessions /\ r.sub = hook[h].sub
                 \/ Renewal!RecordPurchase /\ r.session = None /\ r.sub = job.id
  <1>1. ASSUME NEW h \in Hooks, InsertPurchase(h)
        PROVE  /\ purchases' = Append(purchases, [sub |-> hook[h].sub,
                        session |-> hook[h].session, terms |-> hook[h].terms])
               /\ UNCHANGED <<subs, session, charged, faults, now>>
               /\ hook[h].sub \in DOMAIN subs /\ hook[h].terms = subs[hook[h].sub].terms
               /\ hook[h].session \in Sessions
               /\ hook[h].terms \in Terms
    BY <1>1, HookTyped DEF InsertPurchase, At, HookOK
  <1>2. ASSUME Renewal!RecordPurchase
        PROVE  /\ purchases' = Append(purchases, [sub |-> job.id, session |-> None,
                        terms |-> batch[job.id].terms])
               /\ UNCHANGED <<subs, session, charged, faults, now>>
               /\ job.id \in DOMAIN subs /\ batch[job.id].terms = subs[job.id].terms
               /\ batch[job.id].terms \in Terms
    BY <1>2, JobTyped DEF Renewal!RecordPurchase, Renewal!At, Renewal!Row, AtRow, Same
  <1>3. CASE \E h \in Hooks : InsertPurchase(h)
    <2>1. PICK h \in Hooks : InsertPurchase(h)
      BY <1>3
    <2> DEFINE row == [sub |-> hook[h].sub, session |-> hook[h].session,
                       terms |-> hook[h].terms]
    <2>2. row \in Purchase
      BY <1>1, <2>1, SubIds DEF Purchase
    <2>3. row.sub = hook[h].sub /\ row.session = hook[h].session /\ row.terms = hook[h].terms
      OBVIOUS
    <2> HIDE DEF row
    <2>4. /\ DOMAIN purchases' = DOMAIN purchases \cup {Len(purchases) + 1}
          /\ Len(purchases) + 1 \notin DOMAIN purchases
          /\ purchases'[Len(purchases) + 1] = row
      BY <1>1, <2>1, <2>2, PurchaseAdded DEF row
    <2> QED
      BY <1>1, <2>1, <2>3, <2>4
  <1>4. CASE Renewal!RecordPurchase
    <2> DEFINE row == [sub |-> job.id, session |-> None, terms |-> batch[job.id].terms]
    <2>1. row \in Purchase
      BY <1>2, <1>4, SubIds DEF Purchase
    <2>2. row.sub = job.id /\ row.session = None /\ row.terms = batch[job.id].terms
      OBVIOUS
    <2> HIDE DEF row
    <2>3. /\ DOMAIN purchases' = DOMAIN purchases \cup {Len(purchases) + 1}
          /\ Len(purchases) + 1 \notin DOMAIN purchases
          /\ purchases'[Len(purchases) + 1] = row
      BY <1>2, <1>4, <2>1, PurchaseAdded DEF row
    <2> QED
      BY <1>2, <1>4, <2>2, <2>3
  <1> QED
    BY <1>3, <1>4, Writers DEF PurchaseWriters

-----------------------------------------------------------------------------
LEMMA TermsRepeated ==
    ASSUME MarketInv, RenewalRepeatsTerms, [Next]_vars
    PROVE  RenewalRepeatsTerms'
  <1>1. CASE UNCHANGED vars
    BY <1>1 DEF vars, market, RenewalRepeatsTerms
  <1>2. CASE Next /\ purchases' = purchases
    BY <1>2, RowsAreKept DEF MarketInv, PurchasesOK, Keeps, SubsKeep, Same, RenewalRepeatsTerms
  <1>3. CASE Next /\ purchases' # purchases
    <2>1. \A k \in DOMAIN purchases : purchases'[k] = purchases[k]
      BY <1>3, RowsAreKept DEF Keeps, PurchasesKeep
    <2> QED
      BY <1>3, <2>1, AddedPurchase DEF RenewalRepeatsTerms
  <1> QED
    BY <1>1, <1>2, <1>3

(* Every purchase of a subscription, the first and each renewal, has the   *)
(* terms the subscription was created with: the job takes them from its    *)
(* row, however stale, and no writer of subscriptions changes them         *)
(* (market_renewal.rs:110-111).                                            *)
THEOREM RenewalsRepeatTerms == Spec => []RenewalRepeatsTerms
  <1>1. Init => RenewalRepeatsTerms
    BY DEF Init, RenewalRepeatsTerms
  <1>2. MarketInv /\ RenewalRepeatsTerms /\ [Next]_vars => RenewalRepeatsTerms'
    BY TermsRepeated
  <1> QED
    BY <1>1, <1>2, MemoryStaysTrue, PTL DEF Spec

-----------------------------------------------------------------------------
(* No step puts a canceled or terminated subscription back. *)
LEMMA SubscriptionEndsForGood ==
    ASSUME MarketInv, Next, NEW i \in DOMAIN subs
    PROVE  /\ subs[i].canceled => subs'[i].canceled
           /\ subs[i].terminated => subs'[i].terminated
  <1>1. CASE subs' = subs
    BY <1>1
  <1>2. subs \in Seq(Subscription) /\ subs[i] \in Subscription
    BY TypedTables DEF MarketInv, TypeOK, TablesTypeOK
  <1>3. ASSUME NEW h \in Hooks, InsertSubscription(h)
        PROVE  subs'[i] = subs[i]
    BY <1>2, <1>3 DEF InsertSubscription
  <1>4. ASSUME NEW c \in Cancelers, SetCanceled(c)
        PROVE  /\ subs[i].canceled => subs'[i].canceled
               /\ subs[i].terminated => subs'[i].terminated
    BY <1>2, <1>4 DEF SetCanceled, Subscription
  <1>5. ASSUME NEW e \in Editors, WriteSubscription(e)
        PROVE  /\ subs[i].canceled => subs'[i].canceled
               /\ subs[i].terminated => subs'[i].terminated
    <2>1. edit[e] \in NotesEdit
      BY <1>5, AccountTyped DEF WriteSubscription
    <2>2. edit[e].row \in Subscription
      BY <2>1 DEF NotesEdit
    <2> QED
      BY <1>2, <1>5, <2>2 DEF WriteSubscription, Subscription
  <1>6. CASE Renewal!AdvanceRenewal
    <2> DEFINE t == Renewal!Advance(Renewal!Row.renews, Renewal!Row.product)
    <2>1. subs' = [subs EXCEPT ![job.id].renews = t]
      BY <1>6 DEF Renewal!AdvanceRenewal
    <2> HIDE DEF t
    <2> QED
      BY <1>2, <2>1 DEF Subscription
  <1>7. CASE Renewal!EndSubscription
    <2>1. PICK j : j = job.id
      OBVIOUS
    <2>2. subs' = subs \/ subs' = [subs EXCEPT ![j].canceled = TRUE]
      BY <1>7, <2>1 DEF Renewal!EndSubscription
    <2>3. subs'[i] = subs[i] \/ subs'[i] = [subs[i] EXCEPT !.canceled = TRUE]
      BY <1>2, <2>2
    <2> QED
      BY <1>2, <2>3 DEF Subscription
  <1>8. CASE Renewal!StampTerminated
    <2>1. subs' = [subs EXCEPT ![job.id].terminated = TRUE]
      BY <1>8 DEF Renewal!StampTerminated
    <2> QED
      BY <1>2, <2>1 DEF Subscription
  <1> QED
    BY <1>1, <1>3, <1>4, <1>5, <1>6, <1>7, <1>8, Writers DEF SubsWriters

(* A cancellation, and the end of service, are for good: not even an      *)
(* editor that writes back a whole row read before the cancellation, or    *)
(* the job with its old rows, undoes them                                  *)
(* (update_market_subscription.rs:92-98).                                  *)
THEOREM CancellationsStick == Spec => CancellationSticks
  <1>1. ASSUME MarketInv, [Next]_vars
        PROVE  [\A i \in DOMAIN subs :
                    /\ subs[i].canceled => subs'[i].canceled
                    /\ subs[i].terminated => subs'[i].terminated]_vars
    BY <1>1, SubscriptionEndsForGood
  <1> QED
    BY <1>1, MemoryStaysTrue, PTL DEF Spec, CancellationSticks

-----------------------------------------------------------------------------
(* What an editor saves is the conversation she has read and one note. *)
NotesCarryOn ==
    \A e \in Editors : edit[e].pc = "notes" =>
        \E n \in Nat : edit[e].request = Append(edit[e].row.notes, n)

(* Only an editor writes the notes of a subscription. *)
LEMMA NotesWriters ==
    ASSUME MarketInv, Next, NEW i \in DOMAIN subs
    PROVE  \/ subs'[i].notes = subs[i].notes
           \/ \E e \in Editors : WriteSubscription(e) /\ edit[e].id = i
  <1>1. CASE subs' = subs
    BY <1>1
  <1>2. subs \in Seq(Subscription) /\ subs[i] \in Subscription
    BY TypedTables DEF MarketInv, TypeOK, TablesTypeOK
  <1>3. ASSUME NEW h \in Hooks, InsertSubscription(h)
        PROVE  subs'[i] = subs[i]
    BY <1>2, <1>3 DEF InsertSubscription
  <1>4. ASSUME NEW c \in Cancelers, SetCanceled(c)
        PROVE  subs'[i].notes = subs[i].notes
    BY <1>2, <1>4 DEF SetCanceled, Subscription
  <1>5. ASSUME NEW e \in Editors, WriteSubscription(e), edit[e].id # i
        PROVE  subs'[i].notes = subs[i].notes
    BY <1>2, <1>5 DEF WriteSubscription
  <1>6. CASE Renewal!AdvanceRenewal
    <2> DEFINE t == Renewal!Advance(Renewal!Row.renews, Renewal!Row.product)
    <2>1. subs' = [subs EXCEPT ![job.id].renews = t]
      BY <1>6 DEF Renewal!AdvanceRenewal
    <2> HIDE DEF t
    <2> QED
      BY <1>2, <2>1 DEF Subscription
  <1>7. CASE Renewal!EndSubscription
    <2>1. subs' = subs \/ subs' = [subs EXCEPT ![job.id].canceled = TRUE]
      BY <1>7 DEF Renewal!EndSubscription
    <2>2. subs'[i] = subs[i] \/ subs'[i] = [subs[i] EXCEPT !.canceled = TRUE]
      BY <1>2, <2>1
    <2> QED
      BY <1>2, <2>2 DEF Subscription
  <1>8. CASE Renewal!StampTerminated
    <2>1. subs' = [subs EXCEPT ![job.id].terminated = TRUE]
      BY <1>8 DEF Renewal!StampTerminated
    <2>2. subs'[i] = subs[i] \/ subs'[i] = [subs[i] EXCEPT !.terminated = TRUE]
      BY <1>2, <2>1
    <2> QED
      BY <1>2, <2>2 DEF Subscription
  <1> QED
    BY <1>1, <1>3, <1>4, <1>5, <1>6, <1>7, <1>8, Writers DEF SubsWriters

(* An editor has a row in hand since before the step, or reads it in it. *)
LEMMA NotesRead ==
    ASSUME MarketInv, Next, NEW e \in Editors, edit'[e].pc = "notes"
    PROVE  \/ edit'[e] = edit[e] /\ ~WriteSubscription(e)
           \/ \E n \in Nat : edit'[e].request = Append(edit'[e].row.notes, n)
  <1>1. edit \in [Editors -> {IdleEdit} \cup ProductEdit \cup NotesEdit] /\ edits \in Nat
    BY AccountTyped
  <1>2. ASSUME WriteSubscription(e)
        PROVE  FALSE
    BY <1>1, <1>2 DEF WriteSubscription, IdleEdit
  <1>3. ASSUME NEW d \in Editors, NEW i \in DOMAIN subs, ReadSubscription(d, i), d = e
        PROVE  \E n \in Nat : edit'[e].request = Append(edit'[e].row.notes, n)
    <2>1. PICK k :
            /\ k = [IdleEdit EXCEPT !.pc = "notes", !.id = i, !.row = subs[i],
                                    !.request = Append(subs[i].notes, edits + 1)]
            /\ edit'[e] = k /\ subs' = subs
      BY <1>1, <1>3 DEF ReadSubscription, market
    <2>3. k.id = i /\ k.row = subs[i] /\ k.request = Append(subs[i].notes, edits + 1)
      BY <2>1 DEF IdleEdit
    <2>4. edits + 1 \in Nat
      BY <1>1
    <2> QED
      BY <2>1, <2>3, <2>4
  <1>4. ASSUME NEW d \in Editors, d # e,
               \/ \E i \in DOMAIN subs : ReadSubscription(d, i)
               \/ \E p \in Products : ReadProduct(d, p)
               \/ WriteProduct(d) \/ WriteSubscription(d)
        PROVE  edit'[e] = edit[e]
    BY <1>1, <1>4 DEF ReadSubscription, ReadProduct, WriteProduct, WriteSubscription
  <1>5. ASSUME WriteProduct(e) \/ \E p \in Products : ReadProduct(e, p)
        PROVE  FALSE
    BY <1>1, <1>5 DEF ReadProduct, WriteProduct, IdleEdit
  <1>6. ASSUME NEW c \in Cancelers,
               \/ \E i \in DOMAIN subs : ReadForCancel(c, i)
               \/ SetCanceled(c) \/ FreeSlot(c) \/ FailCancel(c)
        PROVE  edit'[e] = edit[e]
    BY <1>6 DEF ReadForCancel, SetCanceled, FreeSlot, FailCancel
  <1>7. CASE CheckoutStep \/ RenewalStep
    BY <1>2, <1>7 DEF CheckoutStep, RenewalStep, account
  <1>8. CASE AccountStep
    BY <1>2, <1>3, <1>4, <1>5, <1>6, <1>8 DEF AccountStep, AccountNext
  <1> QED
    BY <1>7, <1>8 DEF Next

LEMMA NotesStillCarryOn ==
    ASSUME MarketInv, NotesCarryOn, [Next]_vars
    PROVE  NotesCarryOn'
  <1>1. CASE UNCHANGED vars
    BY <1>1 DEF vars, account, NotesCarryOn
  <1>2. ASSUME Next, NEW e \in Editors, edit'[e].pc = "notes"
        PROVE  \E n \in Nat : edit'[e].request = Append(edit'[e].row.notes, n)
    BY <1>2, NotesRead DEF NotesCarryOn
  <1> QED
    BY <1>1, <1>2 DEF NotesCarryOn

LEMMA PrefixOfAppend ==
    ASSUME NEW s \in Seq(Nat), NEW n \in Nat
    PROVE  /\ Len(s) \in 0..Len(Append(s, n)) /\ SubSeq(Append(s, n), 1, Len(s)) = s
           /\ Len(s) \in 0..Len(s) /\ SubSeq(s, 1, Len(s)) = s
  <1>1. Len(s) \in Nat /\ Append(s, n) \in Seq(Nat) /\ Len(Append(s, n)) = Len(s) + 1
        /\ \A i \in 1..Len(s) : Append(s, n)[i] = s[i]
    BY AppendProperties, LenProperties
  <1>2. \A i \in 1..Len(s) : Append(s, n)[i] \in Nat
    BY <1>1, ElementOfSeq
  <1>3. /\ SubSeq(Append(s, n), 1, Len(s)) \in Seq(Nat)
        /\ Len(SubSeq(Append(s, n), 1, Len(s))) = Len(s)
        /\ \A i \in 1..Len(s) : SubSeq(Append(s, n), 1, Len(s))[i] = s[i]
    <2>1. /\ SubSeq(Append(s, n), 1, Len(s)) \in Seq(Nat)
          /\ Len(SubSeq(Append(s, n), 1, Len(s))) =
                IF 1 <= Len(s) THEN Len(s) - 1 + 1 ELSE 0
          /\ \A i \in 1..(Len(s) - 1 + 1) :
                SubSeq(Append(s, n), 1, Len(s))[i] = Append(s, n)[1 + i - 1]
      BY <1>1, <1>2, SubSeqProperties
    <2> QED
      BY <1>1, <2>1
  <1>4. SubSeq(Append(s, n), 1, Len(s)) = s
    BY <1>3, SeqEqual
  <1>5. SubSeq(s, 1, Len(s)) = s
    BY SubSeqFull
  <1> QED
    BY <1>1, <1>4, <1>5

LEMMA NotesKeepGoingOn ==
    ASSUME MarketInv, NotesCarryOn, Next, NEW i \in DOMAIN subs
    PROVE  NotesGoOn(i)
  <1>1. subs[i].notes \in Seq(Nat)
    BY TypedTables DEF MarketInv, Subscription
  <1>2. CASE subs'[i].notes = subs[i].notes
    BY <1>1, <1>2, PrefixOfAppend DEF Continues, NotesGoOn
  <1>3. ASSUME NEW e \in Editors, WriteSubscription(e), edit[e].id = i
        PROVE  Continues(edit[e].row.notes, subs'[i].notes)
    <2>1. edit[e].pc = "notes" /\ subs' = [subs EXCEPT ![i] =
            [edit[e].row EXCEPT !.notes = edit[e].request,
                    !.canceled = edit[e].row.canceled \/ subs[i].canceled,
                    !.terminated = edit[e].row.terminated \/ subs[i].terminated]]
      BY <1>3 DEF WriteSubscription
    <2>2. edit[e].row \in Subscription
      BY <2>1, AccountTyped DEF NotesEdit
    <2>3. subs'[i].notes = edit[e].request /\ edit[e].row.notes \in Seq(Nat)
      BY <2>1, <2>2 DEF Subscription
    <2>4. PICK n \in Nat : edit[e].request = Append(edit[e].row.notes, n)
      BY <2>1 DEF NotesCarryOn
    <2> DEFINE s == edit[e].row.notes
    <2>5. s \in Seq(Nat) /\ subs'[i].notes = Append(s, n)
      BY <2>3, <2>4
    <2> HIDE DEF s
    <2>6. Continues(s, subs'[i].notes)
      BY <2>5, PrefixOfAppend DEF Continues
    <2> QED
      BY <2>6 DEF s
  <1> QED
    BY <1>2, <1>3, NotesWriters DEF SavesOverAnother, NotesGoOn

(* However the renewal job, cancellations and admins write the rows they   *)
(* have read, a hosting order's notes are only appended to, except that a  *)
(* save drops those added since its admin opened the order: the notes she  *)
(* read are all still there (update_market_subscription.rs:60-98,          *)
(* market.proto:599).                                                      *)
THEOREM NotesOnlyGrow == Spec => NotesLostOnlyToOverlaps
  <1>1. Init => NotesCarryOn
    BY DEF Init, ProcessesInit, AccountInit, IdleEdit, NotesCarryOn
  <1>2. MarketInv /\ NotesCarryOn /\ [Next]_vars => NotesCarryOn'
    BY NotesStillCarryOn
  <1>3. ASSUME MarketInv, NotesCarryOn, [Next]_vars
        PROVE  [\A i \in DOMAIN subs : NotesGoOn(i)]_vars
    BY <1>3, NotesKeepGoingOn
  <1> QED
    BY <1>1, <1>2, <1>3, MemoryStaysTrue, PTL DEF Spec, NotesLostOnlyToOverlaps

-----------------------------------------------------------------------------
(* Stripe's deliveries of one event come one after the other. *)
DeliveriesDontOverlap ==
    \A g, h \in Hooks :
        hook[g].session = hook[h].session /\ hook[g].session # None => g = h

\* The steps between the check that no purchase is recorded and the recording.
Buying == {"product", "subscribe", "purchase"}

(* A thread that has passed the check is right to go on, and no session has two purchases. *)
RecordedOnce ==
    /\ \A h \in Hooks : hook[h].pc \in Buying =>
            \A k \in DOMAIN purchases : purchases[k].session # hook[h].session
    /\ \A j, k \in DOMAIN purchases :
            purchases[j].session = purchases[k].session /\ purchases[j].session \in Sessions
                => j = k

LEMMA NoneIsNoSession == None \notin Sessions
  BY MarketAssumption

(* How a thread comes to be, or stays, between the check and the recording. *)
LEMMA BuyingThreads ==
    ASSUME MarketInv, Next, NEW h \in Hooks, hook'[h].pc \in Buying
    PROVE  /\ hook'[h].session = hook[h].session
           /\ hook[h].pc # "idle"
           /\ ~InsertPurchase(h)
           /\ \/ hook[h].pc \in Buying
              \/ /\ \A k \in DOMAIN purchases : purchases[k].session # hook[h].session
                 /\ purchases' = purchases
  <1>1. hook \in [Hooks -> HookState] /\ HookOK(h)
    BY HookTyped DEF MarketInv, TypeOK
  <1> USE DEF Buying
  <1>2. CASE UNCHANGED hook
    <2>1. InsertPurchase(h) => hook'[h].pc = "payment" /\ hook[h].pc = "purchase"
      BY <1>1 DEF InsertPurchase, At, HookState
    <2> QED
      BY <1>2, <2>1
  <1>3. ASSUME NEW s \in Sessions, Deliver(h, s)
        PROVE  FALSE
    BY <1>1, <1>3 DEF Deliver, IdleHook
  <1>4. CASE CheckProcessed(h)
    <2>1. hook[h].pc = "check" /\ purchases' = purchases
      BY <1>4 DEF CheckProcessed, At, market
    <2>2. ~Answer(h)
      BY <1>1 DEF Answer, IdleHook
    <2>3. /\ \A k \in DOMAIN purchases : purchases[k].session # hook[h].session
          /\ GoTo(h, "product")
      BY <1>4, <2>2 DEF CheckProcessed
    <2>4. hook'[h].session = hook[h].session
      BY <1>1, <2>3 DEF GoTo, HookState
    <2> QED
      BY <2>1, <2>3, <2>4 DEF InsertPurchase, At
  <1>5. CASE LoadProduct(h) \/ InsertSubscription(h)
    <2>1. hook[h].pc \in {"product", "subscribe"}
      BY <1>5 DEF LoadProduct, InsertSubscription, At
    <2>2. hook'[h].session = hook[h].session
      BY <1>1, <1>5 DEF LoadProduct, InsertSubscription, HookState
    <2> QED
      BY <2>1, <2>2 DEF InsertPurchase, At
  <1>6. CASE InsertPurchase(h) \/ InsertPayment(h) \/ CountSale(h)
    <2>1. hook'[h].pc \in {"payment", "count", "fulfil"}
      BY <1>1, <1>6 DEF InsertPurchase, InsertPayment, CountSale, GoTo, HookState
    <2> QED
      BY <2>1
  <1>7. CASE Fulfil(h) \/ GrantPermissions(h) \/ FailDelivery(h)
    <2>1. hook'[h].pc \in {"grant", "idle"}
      BY <1>1, <1>7 DEF Fulfil, GrantPermissions, FailDelivery, Answer, IdleHook, HookState
    <2> QED
      BY <2>1
  <1>8. ASSUME NEW g \in Hooks, g # h,
               \/ \E s \in Sessions : Deliver(g, s)
               \/ HandlerStep(g) \/ FailDelivery(g)
        PROVE  hook'[h] = hook[h]
    BY <1>1, <1>8 DEF Deliver, HandlerStep, FailDelivery, CheckProcessed, LoadProduct,
                      InsertSubscription, InsertPurchase, InsertPayment, CountSale, Fulfil,
                      GrantPermissions, Answer, GoTo
  <1>9. ASSUME NEW g \in Hooks, g # h,
               \/ \E s \in Sessions : Deliver(g, s)
               \/ HandlerStep(g) \/ FailDelivery(g),
               InsertPurchase(h)
        PROVE  FALSE
    BY <1>1, <1>8, <1>9 DEF InsertPurchase, At
  <1>10. CASE CheckoutStep
    <2>1. CASE \/ \E u \in Users, p \in Products : MakeMarketPurchase(u, p)
               \/ \E s \in Sessions : Pay(s)
      BY <1>2, <2>1 DEF MakeMarketPurchase, Pay, checkout
    <2> QED
      BY <1>3, <1>4, <1>5, <1>6, <1>7, <1>8, <1>9, <1>10, <2>1
         DEF CheckoutStep, CheckoutNext, HandlerStep
  <1>11. CASE AccountStep \/ RenewalStep
    BY <1>2, <1>11, AccountWriters, RenewalWriters DEF checkout
  <1> QED
    BY <1>10, <1>11 DEF Next

LEMMA RecordingOnce ==
    ASSUME MarketInv, RecordedOnce, DeliveriesDontOverlap, [Next]_vars
    PROVE  RecordedOnce'
  <1>1. CASE UNCHANGED vars
    BY <1>1 DEF vars, market, checkout, RecordedOnce
  <1>2. CASE Next /\ purchases' = purchases
    BY <1>2, BuyingThreads DEF RecordedOnce
  <1>3. CASE Next /\ purchases' # purchases
    <2> DEFINE n == Len(purchases) + 1
    <2>1. /\ DOMAIN purchases' = DOMAIN purchases \cup {n} /\ n \notin DOMAIN purchases
          /\ \/ \E h \in Hooks : /\ InsertPurchase(h) /\ purchases'[n].session = hook[h].session
                                 /\ purchases'[n].session \in Sessions
             \/ purchases'[n].session = None
      BY <1>3, AddedPurchase
    <2>2. \A k \in DOMAIN purchases : purchases'[k] = purchases[k]
      BY <1>3, RowsAreKept DEF Keeps, PurchasesKeep
    <2> HIDE DEF n
    <2>3. ASSUME NEW h \in Hooks, hook'[h].pc \in Buying, NEW k \in DOMAIN purchases'
          PROVE  purchases'[k].session # hook'[h].session
      <3>1. /\ hook'[h].session = hook[h].session /\ ~InsertPurchase(h)
            /\ hook[h].pc \in Buying /\ hook[h].pc # "idle"
        BY <1>3, <2>3, BuyingThreads
      <3>2. hook[h].session \in Sessions
        BY <3>1, HookTyped DEF HookOK
      <3> QED
        BY <2>1, <2>2, <2>3, <3>1, <3>2, NoneIsNoSession DEF RecordedOnce, DeliveriesDontOverlap
    <2>4. ASSUME NEW k \in DOMAIN purchases, purchases'[n].session \in Sessions
          PROVE  purchases[k].session # purchases'[n].session
      <3>1. PICK h \in Hooks : InsertPurchase(h) /\ purchases'[n].session = hook[h].session
        BY <2>1, <2>4, NoneIsNoSession
      <3>2. hook[h].pc \in Buying
        BY <3>1 DEF InsertPurchase, At, Buying
      <3> QED
        BY <3>1, <3>2 DEF RecordedOnce
    <2> QED
      BY <2>1, <2>2, <2>3, <2>4 DEF RecordedOnce
  <1> QED
    BY <1>1, <1>2, <1>3

LEMMA OnceIsOne == RecordedOnce => OnePurchasePerSession
  <1> SUFFICES ASSUME RecordedOnce, NEW s \in Sessions
               PROVE  Cardinality(PurchasesOf(s)) <= 1
    BY DEF OnePurchasePerSession
  <1>1. CASE PurchasesOf(s) = {}
    BY <1>1, FS_EmptySet
  <1>2. ASSUME NEW k \in PurchasesOf(s)
        PROVE  Cardinality(PurchasesOf(s)) = 1
    <2>1. PurchasesOf(s) = {k}
      BY <1>2 DEF PurchasesOf, RecordedOnce
    <2> QED
      BY <2>1, FS_Singleton
  <1> QED
    BY <1>1, <1>2

(* A session is recorded once however often its event is delivered and     *)
(* however deliveries fail, while deliveries of one event do not overlap:  *)
(* the check and the insert are two statements (stripe_webhook.rs:158-273) *)
(* that a delivery handled at the same time by the other replica would     *)
(* come between.                                                           *)
THEOREM SessionsAreRecordedOnce ==
    Spec /\ []DeliveriesDontOverlap => []OnePurchasePerSession
  <1>1. Init => RecordedOnce
    <2>1. ASSUME Init
          PROVE  purchases = <<>> /\ \A h \in Hooks : hook[h].pc \notin Buying
      BY <2>1 DEF Init, ProcessesInit, CheckoutInit, IdleHook, Buying
    <2> QED
      BY <2>1 DEF RecordedOnce
  <1>2. MarketInv /\ DeliveriesDontOverlap /\ RecordedOnce /\ [Next]_vars => RecordedOnce'
    BY RecordingOnce
  <1>3. RecordedOnce => OnePurchasePerSession
    BY OnceIsOne
  <1> QED
    BY <1>1, <1>2, <1>3, MemoryStaysTrue, PTL DEF Spec

-----------------------------------------------------------------------------
(* The threads that have a delivery of the session, and those of them that *)
(* found no purchase and have yet to record one.                           *)
ThreadsOf(s) == {h \in Hooks : hook[h].session = s}

BuyersOf(s) == {h \in ThreadsOf(s) : hook[h].pc \in Buying}

RepeatsCounted ==
    \A s \in Sessions :
        /\ Cardinality(ThreadsOf(s)) <= 1 + extra
        /\ Cardinality(PurchasesOf(s)) + Cardinality(BuyersOf(s)) <= 1 + extra

LEMMA SetsOfThreads ==
    ASSUME MarketInv, NEW s \in Sessions
    PROVE  /\ IsFiniteSet(ThreadsOf(s)) /\ IsFiniteSet(BuyersOf(s))
           /\ IsFiniteSet(PurchasesOf(s)) /\ extra \in Nat
           /\ Cardinality(BuyersOf(s)) <= Cardinality(ThreadsOf(s))
           /\ Cardinality(BuyersOf(s)) \in Nat /\ Cardinality(ThreadsOf(s)) \in Nat
           /\ Cardinality(PurchasesOf(s)) \in Nat
  <1>1. BuyersOf(s) \subseteq ThreadsOf(s) /\ ThreadsOf(s) \subseteq Hooks
    BY DEF BuyersOf, ThreadsOf
  <1>2. IsFiniteSet(ThreadsOf(s)) /\ IsFiniteSet(BuyersOf(s))
        /\ Cardinality(BuyersOf(s)) <= Cardinality(ThreadsOf(s))
    BY <1>1, FS_Subset, CheckoutAssumption
  <1>3. IsFiniteSet(PurchasesOf(s))
    <2>1. DOMAIN purchases = 1..Len(purchases) /\ Len(purchases) \in Nat
      BY TypedTables DEF MarketInv
    <2>2. IsFiniteSet(DOMAIN purchases) /\ PurchasesOf(s) \subseteq DOMAIN purchases
      BY <2>1, FS_Interval DEF PurchasesOf
    <2> QED
      BY <2>2, FS_Subset
  <1>4. extra \in Nat
    BY DEF MarketInv, TypeOK
  <1> QED
    BY <1>2, <1>3, <1>4, FS_CardinalityType

(* Sets that lose or gain one element at most. *)
LEMMA OneMore ==
    ASSUME NEW S, IsFiniteSet(S), NEW T, NEW x, T \subseteq S \cup {x}
    PROVE  /\ IsFiniteSet(T) /\ Cardinality(T) \in Nat /\ Cardinality(S) \in Nat
           /\ Cardinality(T) <= Cardinality(S) + 1
           /\ T \subseteq S => Cardinality(T) <= Cardinality(S)
           /\ x \in S /\ x \notin T => Cardinality(T) + 1 <= Cardinality(S)
  <1>1. IsFiniteSet(S \cup {x}) /\ Cardinality(S) \in Nat
        /\ Cardinality(S \cup {x}) <= Cardinality(S) + 1
    <2>1. CASE x \in S
      <3>1. S \cup {x} = S
        BY <2>1
      <3>2. Cardinality(S) \in Nat
        BY FS_CardinalityType
      <3> QED
        BY <3>1, <3>2
    <2>2. CASE x \notin S
      BY <2>2, FS_AddElement, FS_CardinalityType
    <2> QED
      BY <2>1, <2>2
  <1>2. IsFiniteSet(T) /\ Cardinality(T) <= Cardinality(S \cup {x}) /\ Cardinality(T) \in Nat
    BY <1>1, FS_Subset, FS_CardinalityType
  <1>3. ASSUME T \subseteq S
        PROVE  Cardinality(T) <= Cardinality(S)
    BY <1>3, FS_Subset
  <1>4. ASSUME x \in S, x \notin T
        PROVE  Cardinality(T) + 1 <= Cardinality(S)
    <2>1. T \cup {x} \subseteq S
      BY <1>4
    <2>2. Cardinality(T \cup {x}) <= Cardinality(S)
      BY <2>1, FS_Subset
    <2>3. Cardinality(T \cup {x}) = Cardinality(T) + 1
      BY <1>2, <1>4, FS_AddElement
    <2> QED
      BY <2>2, <2>3
  <1>5. Cardinality(S \cup {x}) \in Nat
    BY <1>1, FS_CardinalityType
  <1>6. Cardinality(T) <= Cardinality(S) + 1
    BY <1>1, <1>2, <1>5
  <1> QED
    BY <1>1, <1>2, <1>3, <1>4, <1>6

LEMMA ThreadsChange ==
    ASSUME MarketInv, Next, NEW s \in Sessions
    PROVE  \E h \in Hooks \cup {None} :
            \/ extra' = extra /\ ThreadsOf(s)' \subseteq ThreadsOf(s)
            \/ extra' = extra /\ ThreadsOf(s) = {} /\ ThreadsOf(s)' \subseteq {h}
            \/ extra' = extra + 1 /\ ThreadsOf(s)' \subseteq ThreadsOf(s) \cup {h}
  <1>1. hook \in [Hooks -> HookState]
    BY DEF MarketInv, TypeOK
  <1>2. CASE UNCHANGED <<hook, extra>>
    BY <1>2 DEF ThreadsOf
  <1>3. ASSUME NEW h \in Hooks, NEW r \in Sessions, Deliver(h, r)
        PROVE  \/ extra' = extra /\ ThreadsOf(s)' \subseteq ThreadsOf(s)
               \/ extra' = extra /\ ThreadsOf(s) = {} /\ ThreadsOf(s)' \subseteq {h}
               \/ extra' = extra + 1 /\ ThreadsOf(s)' \subseteq ThreadsOf(s) \cup {h}
    <2>1. hook'[h].session = r /\ \A g \in Hooks : g # h => hook'[g] = hook[g]
      BY <1>1, <1>3 DEF Deliver, IdleHook
    <2>2. ThreadsOf(s)' \subseteq ThreadsOf(s) \cup {h}
          /\ (r # s => ThreadsOf(s)' \subseteq ThreadsOf(s))
      BY <2>1 DEF ThreadsOf
    <2>3. \/ extra' = extra /\ \A g \in Hooks : hook[g].session # r
          \/ extra' = extra + 1
      BY <1>3 DEF Deliver
    <2>4. (\A g \in Hooks : hook[g].session # r) /\ r = s => ThreadsOf(s) = {}
      BY DEF ThreadsOf
    <2> QED
      BY <2>2, <2>3, <2>4
  <1>4. ASSUME NEW h \in Hooks, HandlerStep(h) \/ FailDelivery(h)
        PROVE  extra' = extra /\ ThreadsOf(s)' \subseteq ThreadsOf(s)
    <2>1. extra' = extra /\ \A g \in Hooks : g # h => hook'[g] = hook[g]
      BY <1>1, <1>4 DEF HandlerStep, FailDelivery, CheckProcessed, LoadProduct,
                        InsertSubscription, InsertPurchase, InsertPayment, CountSale, Fulfil,
                        GrantPermissions, Answer, GoTo
    <2>2. hook'[h].session \in {hook[h].session, None}
      BY <1>1, <1>4 DEF HandlerStep, FailDelivery, CheckProcessed, LoadProduct,
                        InsertSubscription, InsertPurchase, InsertPayment, CountSale, Fulfil,
                        GrantPermissions, Answer, GoTo, IdleHook, HookState
    <2> QED
      BY <2>1, <2>2, NoneIsNoSession DEF ThreadsOf
  <1>5. CASE CheckoutStep
    <2>1. CASE \/ \E u \in Users, p \in Products : MakeMarketPurchase(u, p)
               \/ \E r \in Sessions : Pay(r)
      BY <1>2, <2>1 DEF MakeMarketPurchase, Pay, checkout
    <2>2. CASE \E h \in Hooks, r \in Sessions : Deliver(h, r)
      BY <1>3, <2>2
    <2>3. CASE \E h \in Hooks : HandlerStep(h) \/ FailDelivery(h)
      BY <1>4, <2>3
    <2> QED
      BY <1>5, <2>1, <2>2, <2>3 DEF CheckoutStep, CheckoutNext
  <1>6. CASE AccountStep \/ RenewalStep
    BY <1>2, <1>6, AccountWriters, RenewalWriters DEF checkout
  <1> QED
    BY <1>5, <1>6 DEF Next

(* Threads come to record a session that has no purchase only, and the one *)
(* that records it is done with that.                                      *)
LEMMA BuyersChange ==
    ASSUME MarketInv, Next, NEW s \in Sessions
    PROVE  \/ PurchasesOf(s)' = {}
           \/ BuyersOf(s)' \subseteq BuyersOf(s) /\ PurchasesOf(s)' \subseteq PurchasesOf(s)
           \/ \E h \in BuyersOf(s) :
                /\ BuyersOf(s)' \subseteq BuyersOf(s) /\ h \notin BuyersOf(s)'
                /\ PurchasesOf(s)' \subseteq PurchasesOf(s) \cup {Len(purchases) + 1}
  <1>1. \/ BuyersOf(s)' \subseteq BuyersOf(s)
        \/ purchases' = purchases /\ PurchasesOf(s)' = {}
    <2>1. ASSUME NEW h \in BuyersOf(s)', h \notin BuyersOf(s)
          PROVE  purchases' = purchases /\ PurchasesOf(s)' = {}
      <3>1. h \in Hooks /\ hook'[h].session = s /\ hook'[h].pc \in Buying
        BY DEF BuyersOf, ThreadsOf
      <3>2. hook[h].session = s /\ hook[h].pc \notin Buying
        BY <2>1, <3>1, BuyingThreads DEF BuyersOf, ThreadsOf
      <3>3. purchases' = purchases /\ \A k \in DOMAIN purchases : purchases[k].session # s
        BY <3>1, <3>2, BuyingThreads
      <3> QED
        BY <3>3 DEF PurchasesOf
    <2> QED
      BY <2>1
  <1>2. CASE purchases' = purchases
    BY <1>1, <1>2 DEF PurchasesOf
  <1>3. CASE purchases' # purchases
    <2> DEFINE n == Len(purchases) + 1
    <2>1. /\ DOMAIN purchases' = DOMAIN purchases \cup {n}
          /\ \/ \E h \in Hooks : /\ InsertPurchase(h) /\ purchases'[n].session = hook[h].session
                                 /\ purchases'[n].session \in Sessions
             \/ purchases'[n].session = None
      BY <1>3, AddedPurchase
    <2>2. \A k \in DOMAIN purchases : purchases'[k] = purchases[k]
      BY <1>3, RowsAreKept DEF Keeps, PurchasesKeep
    <2>3. PurchasesOf(s)' \subseteq PurchasesOf(s) \cup {n}
      BY <2>1, <2>2 DEF PurchasesOf
    <2>4. CASE purchases'[n].session # s
      <3>1. PurchasesOf(s)' \subseteq PurchasesOf(s)
        BY <2>3, <2>4 DEF PurchasesOf
      <3> QED
        BY <1>1, <1>3, <3>1
    <2>5. CASE purchases'[n].session = s
      <3>1. PICK h \in Hooks : InsertPurchase(h) /\ hook[h].session = s
        BY <2>1, <2>5, NoneIsNoSession
      <3>2. h \in BuyersOf(s)
        BY <3>1 DEF BuyersOf, ThreadsOf, InsertPurchase, At, Buying
      <3>3. h \notin BuyersOf(s)'
        BY <3>1, BuyingThreads DEF BuyersOf
      <3> QED
        BY <1>1, <1>3, <2>3, <3>2, <3>3
    <2> QED
      BY <2>4, <2>5
  <1> QED
    BY <1>2, <1>3

LEMMA RepeatsStayCounted ==
    ASSUME MarketInv, RepeatsCounted, [Next]_vars
    PROVE  RepeatsCounted'
  <1>1. CASE UNCHANGED vars
    BY <1>1 DEF vars, market, checkout, RepeatsCounted, ThreadsOf, BuyersOf, PurchasesOf
  <1>2. ASSUME Next, NEW s \in Sessions
        PROVE  /\ Cardinality(ThreadsOf(s)') <= 1 + extra'
               /\ Cardinality(PurchasesOf(s)') + Cardinality(BuyersOf(s)') <= 1 + extra'
    <2> DEFINE T == ThreadsOf(s)
               T2 == ThreadsOf(s)'
               B == BuyersOf(s)
               B2 == BuyersOf(s)'
               P == PurchasesOf(s)
               P2 == PurchasesOf(s)'
    <2>1. IsFiniteSet(T2) /\ IsFiniteSet(B2) /\ IsFiniteSet(P2)
      <3>1. T2 \subseteq Hooks /\ B2 \subseteq Hooks
        BY DEF ThreadsOf, BuyersOf
      <3>2. DOMAIN purchases' = 1..Len(purchases') /\ Len(purchases') \in Nat
        <4>1. MarketInv'
          BY <1>2, MarketInductive
        <4> QED
          BY <4>1, TypedTables DEF MarketInv, TypeOK, TablesTypeOK
      <3>3. IsFiniteSet(DOMAIN purchases') /\ P2 \subseteq DOMAIN purchases'
        BY <3>2, FS_Interval DEF PurchasesOf
      <3> QED
        BY <3>1, <3>3, FS_Subset, CheckoutAssumption
    <2>2. /\ IsFiniteSet(T) /\ IsFiniteSet(B) /\ IsFiniteSet(P) /\ extra \in Nat
          /\ Cardinality(T) \in Nat /\ Cardinality(B) \in Nat /\ Cardinality(P) \in Nat
          /\ Cardinality(T) <= 1 + extra /\ Cardinality(P) + Cardinality(B) <= 1 + extra
      BY SetsOfThreads DEF RepeatsCounted
    <2>3. Cardinality(T2) \in Nat /\ Cardinality(B2) \in Nat /\ Cardinality(P2) \in Nat
      BY <2>1, FS_CardinalityType
    <2>4. B2 \subseteq T2
      BY DEF BuyersOf, ThreadsOf
    <2>5. Cardinality(B2) <= Cardinality(T2)
      BY <2>1, <2>4, FS_Subset
    <2>6. PICK h \in Hooks \cup {None} :
            \/ extra' = extra /\ T2 \subseteq T
            \/ extra' = extra /\ T = {} /\ T2 \subseteq {h}
            \/ extra' = extra + 1 /\ T2 \subseteq T \cup {h}
      BY <1>2, ThreadsChange
    <2>7. \/ P2 = {}
          \/ B2 \subseteq B /\ P2 \subseteq P
          \/ \E g \in B : /\ B2 \subseteq B /\ g \notin B2
                          /\ P2 \subseteq P \cup {Len(purchases) + 1}
      BY <1>2, BuyersChange
    <2> HIDE DEF T, T2, B, B2, P, P2
    <2>8. Cardinality(T2) <= 1 + extra' /\ extra' \in Nat /\ extra' >= extra
      <3>1. CASE extra' = extra /\ T2 \subseteq T
        BY <2>2, <2>3, <3>1, FS_Subset
      <3>2. CASE extra' = extra /\ T = {} /\ T2 \subseteq {h}
        <4>1. Cardinality({h}) = 1 /\ IsFiniteSet({h})
          BY FS_Singleton
        <4>2. Cardinality(T2) <= 1
          BY <3>2, <4>1, FS_Subset
        <4> QED
          BY <2>2, <2>3, <3>2, <4>2
      <3>3. CASE extra' = extra + 1 /\ T2 \subseteq T \cup {h}
        <4>1. Cardinality(T2) <= Cardinality(T) + 1
          BY <2>2, <3>3, OneMore
        <4> QED
          BY <2>2, <2>3, <3>3, <4>1
      <3> QED
        BY <2>6, <3>1, <3>2, <3>3
    <2>9. Cardinality(P2) + Cardinality(B2) <= 1 + extra'
      <3>1. CASE P2 = {}
        <4>1. Cardinality(P2) = 0
          BY <3>1, FS_EmptySet
        <4> QED
          BY <2>3, <2>5, <2>8, <4>1
      <3>2. CASE B2 \subseteq B /\ P2 \subseteq P
        <4>1. Cardinality(B2) <= Cardinality(B) /\ Cardinality(P2) <= Cardinality(P)
          BY <2>2, <3>2, FS_Subset
        <4> QED
          BY <2>2, <2>3, <2>8, <4>1
      <3>3. ASSUME NEW g \in B, B2 \subseteq B, g \notin B2,
                   P2 \subseteq P \cup {Len(purchases) + 1}
            PROVE  Cardinality(P2) + Cardinality(B2) <= 1 + extra'
        <4>1. Cardinality(B2) + 1 <= Cardinality(B)
          <5>1. B2 \subseteq B \cup {g}
            BY <3>3
          <5> QED
            BY <2>2, <3>3, <5>1, OneMore
        <4>2. Cardinality(P2) <= Cardinality(P) + 1
          BY <2>2, <3>3, OneMore
        <4> QED
          BY <2>2, <2>3, <2>8, <4>1, <4>2
      <3> QED
        BY <2>7, <3>1, <3>2, <3>3
    <2> QED
      BY <2>8, <2>9 DEF T2, B2, P2
  <1> QED
    BY <1>1, <1>2 DEF RepeatsCounted

(* However deliveries of an event are repeated, overlap, fail or die, the  *)
(* purchases of a session are at most one more than the deliveries that    *)
(* came while another of their event was handled: none that comes after    *)
(* the others have ended, with a 200 or without, and no failure makes a    *)
(* second purchase (stripe_webhook.rs:158-273).                            *)
THEOREM RepeatsAreFromOverlaps == Spec => []RepeatsComeFromOverlaps
  <1>1. Init => RepeatsCounted
    <2> SUFFICES ASSUME Init, NEW s \in Sessions
                 PROVE  /\ Cardinality(ThreadsOf(s)) <= 1 + extra
                        /\ Cardinality(PurchasesOf(s)) + Cardinality(BuyersOf(s)) <= 1 + extra
      BY DEF RepeatsCounted
    <2>1. purchases = <<>> /\ extra = 0 /\ \A h \in Hooks : hook[h].session = None
      BY DEF Init, ProcessesInit, CheckoutInit, IdleHook
    <2>2. PurchasesOf(s) = {} /\ ThreadsOf(s) = {} /\ BuyersOf(s) = {}
      BY <2>1, NoneIsNoSession DEF PurchasesOf, ThreadsOf, BuyersOf
    <2>3. Cardinality(PurchasesOf(s)) = 0 /\ Cardinality(ThreadsOf(s)) = 0
          /\ Cardinality(BuyersOf(s)) = 0
      BY <2>2, FS_EmptySet
    <2> QED
      BY <2>1, <2>3
  <1>2. MarketInv /\ RepeatsCounted /\ [Next]_vars => RepeatsCounted'
    BY RepeatsStayCounted
  <1>3. MarketInv /\ RepeatsCounted => RepeatsComeFromOverlaps
    <2> SUFFICES ASSUME MarketInv, RepeatsCounted, NEW s \in Sessions
                 PROVE  Cardinality(PurchasesOf(s)) <= 1 + extra
      BY DEF RepeatsComeFromOverlaps
    <2> QED
      BY SetsOfThreads DEF RepeatsCounted
  <1> QED
    BY <1>1, <1>2, <1>3, MemoryStaysTrue, PTL DEF Spec

-----------------------------------------------------------------------------
(* Failures are only ever added. *)
LEMMA FaultsGrow ==
    ASSUME MarketInv, Next
    PROVE  faults \in Nat /\ (faults' = faults \/ faults' = faults + 1)
  <1>1. faults \in Nat
    BY DEF MarketInv, TypeOK, TablesTypeOK
  <1>2. CASE CheckoutStep
    <2>1. ASSUME \/ \E u \in Users, p \in Products : MakeMarketPurchase(u, p)
                 \/ \E s \in Sessions : Pay(s)
          PROVE  faults' = faults
      BY <2>1 DEF MakeMarketPurchase, Pay
    <2>2. ASSUME NEW h \in Hooks, (\E s \in Sessions : Deliver(h, s)) \/ HandlerStep(h)
          PROVE  faults' = faults \/ faults' = faults + 1
      BY <2>2 DEF Deliver, HandlerStep, CheckProcessed, LoadProduct, InsertSubscription,
                  InsertPurchase, InsertPayment, CountSale, Fulfil, GrantPermissions, Fault,
                  market
    <2>3. ASSUME NEW h \in Hooks, FailDelivery(h)
          PROVE  faults' = faults + 1
      BY <2>3 DEF FailDelivery, Fault
    <2> QED
      BY <1>1, <1>2, <2>1, <2>2, <2>3 DEF CheckoutStep, CheckoutNext
  <1>3. CASE AccountStep
    BY <1>1, <1>3, AccountWriters DEF FailCancel, Fault
  <1>4. CASE RenewalStep
    <2> USE DEF Renewal!market, Renewal!Fault
    <2>1. ASSUME \/ Renewal!Tick \/ Renewal!StartJob \/ Renewal!LoadDue \/ Renewal!NextDue
                 \/ Renewal!Declined \/ Renewal!Charge \/ Renewal!RecordPurchase
                 \/ Renewal!RecordPayment \/ Renewal!AdvanceRenewal \/ Renewal!Refulfil
                 \/ Renewal!RegrantPermissions \/ Renewal!LoadLapsed \/ Renewal!NextLapsed
                 \/ Renewal!Revoke \/ Renewal!TakePermissions \/ Renewal!StampTerminated
          PROVE  faults' = faults
      BY <2>1 DEF Renewal!Tick, Renewal!StartJob, Renewal!LoadDue, Renewal!NextDue,
                  Renewal!Declined, Renewal!Charge, Renewal!RecordPurchase,
                  Renewal!RecordPayment, Renewal!AdvanceRenewal, Renewal!Refulfil,
                  Renewal!RegrantPermissions, Renewal!LoadLapsed, Renewal!NextLapsed,
                  Renewal!Revoke, Renewal!TakePermissions, Renewal!StampTerminated
    <2>2. ASSUME \/ Renewal!FailQuery \/ Renewal!ChargeUnanswered \/ Renewal!FailRenewal
                 \/ Renewal!FailTermination \/ Renewal!CrashJob \/ Renewal!EndSubscription
          PROVE  faults' = faults \/ faults' = faults + 1
      BY <2>2 DEF Renewal!FailQuery, Renewal!ChargeUnanswered, Renewal!FailRenewal,
                  Renewal!Err, Renewal!FailTermination, Renewal!CrashJob,
                  Renewal!EndSubscription
    <2> QED
      BY <1>1, <1>4, <2>1, <2>2 DEF RenewalStep, Renewal!RenewalNext, Renewal!JobStep
  <1> QED
    BY <1>1, <1>2, <1>3, <1>4 DEF Next

\* Threads between the two inserts, the subscriptions they have inserted, and those
\* without a purchase that no thread will give one.
BetweenInserts == {h \in Hooks : hook[h].pc = "purchase"}
Pending == {hook[h].sub : h \in BetweenInserts}
Leaked == Unbought \ Pending

LeakedFew == Cardinality(Leaked) <= faults

LEMMA LeavingPurchase ==
    ASSUME MarketInv, Next, NEW h \in Hooks, hook[h].pc = "purchase"
    PROVE  hook'[h] = hook[h] \/ InsertPurchase(h) \/ FailDelivery(h)
  <1>1. hook \in [Hooks -> HookState]
    BY DEF MarketInv, TypeOK
  <1>2. ASSUME NEW g \in Hooks, g # h,
               \/ \E s \in Sessions : Deliver(g, s)
               \/ HandlerStep(g) \/ FailDelivery(g)
        PROVE  hook'[h] = hook[h]
    BY <1>1, <1>2 DEF Deliver, HandlerStep, FailDelivery, CheckProcessed, LoadProduct,
                      InsertSubscription, InsertPurchase, InsertPayment, CountSale, Fulfil,
                      GrantPermissions, Answer, GoTo
  <1>3. ASSUME \/ \E s \in Sessions : Deliver(h, s)
               \/ HandlerStep(h)
        PROVE  InsertPurchase(h)
    <2>1. ~\E s \in Sessions : Deliver(h, s)
      <3>1. hook[h] # IdleHook
        BY DEF IdleHook
      <3> QED
        BY <3>1 DEF Deliver
    <2>2. /\ ~CheckProcessed(h) /\ ~LoadProduct(h) /\ ~InsertSubscription(h)
          /\ ~InsertPayment(h) /\ ~CountSale(h) /\ ~Fulfil(h) /\ ~GrantPermissions(h)
      BY DEF CheckProcessed, LoadProduct, InsertSubscription, InsertPayment, CountSale,
             Fulfil, GrantPermissions, At
    <2> QED
      BY <1>3, <2>1, <2>2 DEF HandlerStep
  <1>4. CASE CheckoutStep
    <2>1. CASE \/ \E u \in Users, p \in Products : MakeMarketPurchase(u, p)
               \/ \E s \in Sessions : Pay(s)
      BY <2>1 DEF MakeMarketPurchase, Pay, checkout
    <2> QED
      BY <1>2, <1>3, <1>4, <2>1 DEF CheckoutStep, CheckoutNext
  <1>5. CASE AccountStep \/ RenewalStep
    BY <1>5, AccountWriters, RenewalWriters DEF checkout
  <1> QED
    BY <1>4, <1>5 DEF Next

(* A new subscription belongs to a thread that is about to insert its purchase. *)
LEMMA NewSubscription ==
    ASSUME MarketInv, Next, NEW i \in DOMAIN subs' \ DOMAIN subs
    PROVE  \E h \in Hooks : hook'[h].pc = "purchase" /\ hook'[h].sub = i
  <1>1. hook \in [Hooks -> HookState] /\ subs \in Seq(Subscription) /\ DOMAIN subs = 1..Len(subs)
        /\ Len(subs) \in Nat
    BY TypedTables DEF MarketInv, TypeOK, TablesTypeOK
  <1>2. ASSUME NEW h \in Hooks, InsertSubscription(h)
        PROVE  hook'[h].pc = "purchase" /\ hook'[h].sub = i
    <2>1. PICK r : subs' = Append(subs, r)
      BY <1>2 DEF InsertSubscription
    <2>2. i = Len(subs) + 1
      BY <1>1, <2>1
    <2> QED
      BY <1>1, <1>2, <2>2 DEF InsertSubscription, HookState
  <1>3. CASE \E c \in Cancelers : SetCanceled(c)
    BY <1>1, <1>3 DEF SetCanceled
  <1>4. CASE \E e \in Editors : WriteSubscription(e)
    BY <1>1, <1>4 DEF WriteSubscription
  <1>5. CASE Renewal!AdvanceRenewal \/ Renewal!EndSubscription \/ Renewal!StampTerminated
    BY <1>1, <1>5 DEF Renewal!AdvanceRenewal, Renewal!EndSubscription, Renewal!StampTerminated
  <1> QED
    BY <1>2, <1>3, <1>4, <1>5, Writers DEF SubsWriters

LEMMA LeakedStep ==
    ASSUME MarketInv, Next
    PROVE  \/ Leaked' \subseteq Leaked /\ faults' >= faults
           \/ \E x : Leaked' \subseteq Leaked \cup {x} /\ faults' = faults + 1
  <1>1. ASSUME NEW i \in Leaked', i \notin Leaked
        PROVE  \E h \in Hooks : FailDelivery(h) /\ hook[h].sub = i
    <2>1. i \in DOMAIN subs' /\ \A k \in DOMAIN purchases' : purchases'[k].sub # i
      BY <1>1 DEF Leaked, Unbought
    <2>2. \A h \in Hooks : hook'[h].pc = "purchase" => hook'[h].sub # i
      BY <1>1 DEF Leaked, Pending, BetweenInserts
    <2>3. i \in DOMAIN subs
      BY <2>1, <2>2, NewSubscription
    <2>4. i \in Unbought
      BY <2>1, <2>3, RowsAreKept DEF Unbought, Keeps, PurchasesKeep
    <2>5. PICK h \in Hooks : hook[h].pc = "purchase" /\ hook[h].sub = i
      BY <1>1, <2>4 DEF Leaked, Pending, BetweenInserts
    <2>6. hook'[h] # hook[h]
      BY <2>2, <2>5
    <2>7. ASSUME InsertPurchase(h)
          PROVE  FALSE
      <3>1. purchases \in Seq(Purchase)
        BY DEF MarketInv, TypeOK, TablesTypeOK
      <3>2. Len(purchases) + 1 \in DOMAIN purchases'
            /\ purchases'[Len(purchases) + 1].sub = i
        BY <2>5, <2>7, <3>1 DEF InsertPurchase
      <3> QED
        BY <2>1, <3>2
    <2> QED
      BY <2>5, <2>6, <2>7, LeavingPurchase
  <1>2. CASE Leaked' \subseteq Leaked
    BY <1>2, FaultsGrow
  <1>3. CASE ~(Leaked' \subseteq Leaked)
    <2>1. PICK h \in Hooks : FailDelivery(h) /\ hook[h].sub \in Leaked'
      BY <1>1, <1>3
    <2>2. \A g \in Hooks : FailDelivery(g) => g = h
      <3>1. hook \in [Hooks -> HookState]
        BY DEF MarketInv, TypeOK
      <3> QED
        BY <2>1, <3>1 DEF FailDelivery
    <2>3. faults' = faults + 1
      BY <2>1 DEF FailDelivery, Fault
    <2> QED
      BY <1>1, <2>1, <2>2, <2>3
  <1> QED
    BY <1>2, <1>3

LEMMA LeakedFinite ==
    ASSUME MarketInv
    PROVE  IsFiniteSet(Unbought) /\ IsFiniteSet(Leaked)
  <1>1. IsFiniteSet(DOMAIN subs)
    <2>1. DOMAIN subs = 1..Len(subs) /\ Len(subs) \in Nat
      BY TypedTables DEF MarketInv, TypeOK, TablesTypeOK
    <2> QED
      BY <2>1, FS_Interval
  <1>2. Unbought \in SUBSET DOMAIN subs /\ Leaked \in SUBSET DOMAIN subs
    BY DEF Unbought, Leaked
  <1> QED
    BY <1>1, <1>2, FS_Subset

LEMMA LeakedStayFew ==
    ASSUME MarketInv, LeakedFew, [Next]_vars
    PROVE  LeakedFew'
  <1>1. CASE UNCHANGED vars
    BY <1>1 DEF vars, market, checkout, LeakedFew, Leaked, Unbought, Pending, BetweenInserts
  <1>2. IsFiniteSet(Leaked) /\ Cardinality(Leaked) \in Nat
    BY LeakedFinite, FS_CardinalityType
  <1>3. CASE Next /\ Leaked' \subseteq Leaked /\ faults' >= faults
    <2>1. Cardinality(Leaked') <= Cardinality(Leaked) /\ Cardinality(Leaked') \in Nat
      BY <1>2, <1>3, FS_Subset, FS_CardinalityType
    <2> QED
      BY <1>2, <1>3, <2>1, FaultsGrow DEF LeakedFew
  <1>4. ASSUME Next, NEW x, Leaked' \subseteq Leaked \cup {x}, faults' = faults + 1
        PROVE  LeakedFew'
    <2>1. /\ IsFiniteSet(Leaked \cup {x}) /\ Cardinality(Leaked \cup {x}) \in Nat
          /\ Cardinality(Leaked \cup {x}) <= Cardinality(Leaked) + 1
      BY <1>2, FS_AddElement
    <2>2. Cardinality(Leaked') <= Cardinality(Leaked \cup {x}) /\ Cardinality(Leaked') \in Nat
      BY <1>4, <2>1, FS_Subset, FS_CardinalityType
    <2> QED
      BY <1>2, <1>4, <2>1, <2>2, FaultsGrow DEF LeakedFew
  <1> QED
    BY <1>1, <1>3, <1>4, LeakedStep

LEMMA UnboughtAreFew == MarketInv /\ LeakedFew => UnboughtComeFromFailures
  <1> SUFFICES ASSUME MarketInv, LeakedFew
               PROVE  UnboughtComeFromFailures
    OBVIOUS
  <1>1. IsFiniteSet(BetweenInserts) /\ Cardinality(BetweenInserts) \in Nat
    BY CheckoutAssumption, FS_Subset, FS_CardinalityType DEF BetweenInserts
  <1>2. IsFiniteSet(Pending) /\ Cardinality(Pending) \in Nat
        /\ Cardinality(Pending) <= Cardinality(BetweenInserts)
    <2> DEFINE f == [h \in BetweenInserts |-> hook[h].sub]
    <2>1. f \in Surjection(BetweenInserts, Pending)
      BY DEF Surjection, Pending
    <2> HIDE DEF f
    <2> QED
      BY <1>1, <2>1, FS_Surjection, FS_CardinalityType
  <1>3. IsFiniteSet(Leaked) /\ Cardinality(Leaked) \in Nat
    BY LeakedFinite, FS_CardinalityType
  <1>4. IsFiniteSet(Leaked \cup Pending)
        /\ Cardinality(Leaked \cup Pending) <= Cardinality(Leaked) + Cardinality(Pending)
        /\ Cardinality(Leaked \cup Pending) \in Nat
    <2>1. IsFiniteSet(Leaked \cap Pending) /\ Cardinality(Leaked \cap Pending) \in Nat
      BY <1>2, FS_Subset, FS_CardinalityType
    <2>2. IsFiniteSet(Leaked \cup Pending) /\ Cardinality(Leaked \cup Pending) =
            Cardinality(Leaked) + Cardinality(Pending) - Cardinality(Leaked \cap Pending)
      BY <1>2, <1>3, FS_Union
    <2> QED
      BY <1>2, <1>3, <2>1, <2>2, FS_CardinalityType
  <1>5. Cardinality(Unbought) <= Cardinality(Leaked \cup Pending) /\ Cardinality(Unbought) \in Nat
    <2>1. Unbought \in SUBSET (Leaked \cup Pending)
      BY DEF Leaked
    <2> QED
      BY <1>4, <2>1, FS_Subset, FS_CardinalityType
  <1>6. faults \in Nat
    BY DEF MarketInv, TypeOK, TablesTypeOK
  <1> QED
    BY <1>1, <1>2, <1>3, <1>4, <1>5, <1>6 DEF LeakedFew, UnboughtComeFromFailures, BetweenInserts

(* Subscriptions that nobody bought, and that will be billed all the same, *)
(* are one for each delivery that failed between its two inserts at most:  *)
(* retries, overlapping deliveries and the other handlers add none         *)
(* (stripe_webhook.rs:245-273).                                            *)
THEOREM UnboughtAreFailures == Spec => []UnboughtComeFromFailures
  <1>1. Init => LeakedFew
    <2> SUFFICES ASSUME Init
                 PROVE  LeakedFew
      OBVIOUS
    <2>1. Leaked = {}
      BY DEF Init, Leaked, Unbought
    <2> QED
      BY <2>1, FS_EmptySet DEF LeakedFew, Init
  <1>2. MarketInv /\ LeakedFew /\ [Next]_vars => LeakedFew'
    BY LeakedStayFew
  <1>3. MarketInv /\ LeakedFew => UnboughtComeFromFailures
    BY UnboughtAreFew
  <1> QED
    BY <1>1, <1>2, <1>3, MemoryStaysTrue, PTL DEF Spec

-----------------------------------------------------------------------------
\* The steps of a thread between recording a purchase and answering with 200, and those
\* of the job's pass over lapsed rows.
Fulfilling == {"payment", "count", "fulfil", "grant"}
OverLapsed == {"terminate", "revoke", "take", "stamp"}

(* What a thread is about to grant is what is recorded for its session, to the session's *)
(* buyer, and the permissions it has read are those the buyer has.                       *)
HookGrants(h) ==
    LET k == hook[h] IN
    /\ k.pc \in {"purchase"} \cup Fulfilling => subs[k.sub].buyer = SessionOf(h).buyer
    /\ k.pc \in Fulfilling =>
        \E i \in DOMAIN purchases :
            /\ purchases[i].session = k.session
            /\ purchases[i].sub = k.sub /\ purchases[i].terms = k.terms
    /\ k.pc = "grant" =>
        /\ TypeOf(SessionOf(h).product) = "PERMISSIONS_ACCESS"
        /\ k.perms = access[SessionOf(h).buyer].perms

(* Stripe has its 200 for nothing but what is recorded, and no thread works on it. *)
AckedOK ==
    \A s \in acked :
        /\ \E i \in DOMAIN purchases : purchases[i].session = s
        /\ \A h \in Hooks : hook[h].session = s => hook[h].pc = "check"

(* The job takes back nothing but what was granted for canceled subscriptions. *)
JobGrants ==
    /\ \A i \in DOMAIN batch : Type(i) = Renewal!JobType
    /\ job.pc \in OverLapsed => \A i \in DOMAIN batch : subs[i].canceled
    /\ job.pc = "take" => Renewal!JobType = "PERMISSIONS_ACCESS"
    /\ job.pc \in {"grant", "take"} => job.perms = access[batch[job.id].buyer].perms

GrantInv ==
    /\ \A h \in Hooks : HookGrants(h)
    /\ AckedOK
    /\ JobGrants

LEMMA AccessTyped ==
    ASSUME MarketInv
    PROVE  access \in [Users -> [storage : Terms \cup {Default}, grant : Terms \cup {None},
                                 perms : SUBSET Permissions]]
  BY DEF MarketInv, TypeOK, TablesTypeOK

(* Only its own steps change a thread. *)
LEMMA ThreadSteps ==
    ASSUME MarketInv, Next, NEW h \in Hooks
    PROVE  \/ /\ hook'[h] = hook[h]
              /\ ~GrantPermissions(h)
           \/ \E s \in Sessions : Deliver(h, s)
           \/ HandlerStep(h)
           \/ FailDelivery(h)
  <1>1. hook \in [Hooks -> HookState]
    BY DEF MarketInv, TypeOK
  <1>2. ASSUME GrantPermissions(h)
        PROVE  hook'[h] # hook[h]
    BY <1>1, <1>2 DEF GrantPermissions, At, Answer, IdleHook
  <1>3. ASSUME NEW g \in Hooks, g # h,
               \/ \E s \in Sessions : Deliver(g, s)
               \/ HandlerStep(g) \/ FailDelivery(g)
        PROVE  hook'[h] = hook[h]
    BY <1>1, <1>3 DEF Deliver, HandlerStep, FailDelivery, CheckProcessed, LoadProduct,
                      InsertSubscription, InsertPurchase, InsertPayment, CountSale, Fulfil,
                      GrantPermissions, Answer, GoTo
  <1>4. CASE CheckoutStep
    <2>1. CASE \/ \E u \in Users, p \in Products : MakeMarketPurchase(u, p)
               \/ \E s \in Sessions : Pay(s)
      BY <1>2, <2>1 DEF MakeMarketPurchase, Pay, checkout
    <2> QED
      BY <1>2, <1>3, <1>4, <2>1 DEF CheckoutStep, CheckoutNext
  <1>5. CASE AccountStep \/ RenewalStep
    BY <1>2, <1>5, AccountWriters, RenewalWriters DEF checkout
  <1> QED
    BY <1>4, <1>5 DEF Next

AccessWriters ==
    \/ \E h \in Hooks : Fulfil(h) \/ GrantPermissions(h)
    \/ Renewal!Refulfil
    \/ Renewal!RegrantPermissions
    \/ Renewal!Revoke
    \/ Renewal!TakePermissions

LEMMA WhoWritesAccess ==
    ASSUME Next
    PROVE  access' = access \/ AccessWriters
  <1>1. CASE CheckoutStep
    <2>1. ASSUME \/ \E u \in Users, p \in Products : MakeMarketPurchase(u, p)
                 \/ \E s \in Sessions : Pay(s)
                 \/ \E h \in Hooks, s \in Sessions : Deliver(h, s)
          PROVE  access' = access
      BY <2>1 DEF MakeMarketPurchase, Pay, Deliver, market, tables
    <2>2. ASSUME NEW h \in Hooks,
                 CheckProcessed(h) \/ LoadProduct(h) \/ InsertSubscription(h)
                  \/ InsertPurchase(h) \/ InsertPayment(h) \/ CountSale(h) \/ FailDelivery(h)
          PROVE  access' = access
      BY <2>2 DEF CheckProcessed, LoadProduct, InsertSubscription, InsertPurchase,
                  InsertPayment, CountSale, FailDelivery, market, tables
    <2> QED
      BY <1>1, <2>1, <2>2 DEF CheckoutStep, CheckoutNext, HandlerStep, AccessWriters
  <1>2. CASE AccountStep
    BY <1>2 DEF AccountStep, AccountNext, ReadForCancel, SetCanceled, FreeSlot, FailCancel,
                ReadProduct, WriteProduct, ReadSubscription, WriteSubscription, market, tables
  <1>3. CASE RenewalStep
    <2> USE DEF Renewal!market, Renewal!tables
    <2>1. ASSUME \/ Renewal!Tick \/ Renewal!StartJob \/ Renewal!LoadDue \/ Renewal!NextDue
                 \/ Renewal!Declined \/ Renewal!Charge \/ Renewal!RecordPurchase
                 \/ Renewal!RecordPayment \/ Renewal!AdvanceRenewal \/ Renewal!EndSubscription
                 \/ Renewal!LoadLapsed \/ Renewal!NextLapsed \/ Renewal!StampTerminated
                 \/ Renewal!FailQuery \/ Renewal!ChargeUnanswered \/ Renewal!FailRenewal
                 \/ Renewal!FailTermination \/ Renewal!CrashJob
          PROVE  access' = access
      BY <2>1 DEF Renewal!Tick, Renewal!StartJob, Renewal!LoadDue, Renewal!NextDue,
                  Renewal!Declined, Renewal!Charge, Renewal!RecordPurchase,
                  Renewal!RecordPayment, Renewal!AdvanceRenewal, Renewal!EndSubscription,
                  Renewal!LoadLapsed, Renewal!NextLapsed, Renewal!StampTerminated,
                  Renewal!FailQuery, Renewal!ChargeUnanswered, Renewal!FailRenewal,
                  Renewal!Err, Renewal!FailTermination, Renewal!CrashJob
    <2> QED
      BY <1>3, <2>1 DEF RenewalStep, Renewal!RenewalNext, Renewal!JobStep, AccessWriters
  <1> QED
    BY <1>1, <1>2, <1>3 DEF Next

(* A buyer's permissions are written by a thread or by the job, in the step after it read them. *)
LEMMA WhoWritesPermissions ==
    ASSUME MarketInv, Next, NEW u \in Users, access'[u].perms # access[u].perms
    PROVE  \/ \E h \in Hooks : GrantPermissions(h) /\ SessionOf(h).buyer = u
           \/ /\ Renewal!RegrantPermissions \/ Renewal!TakePermissions
              /\ batch[job.id].buyer = u
  <1> USE AccessTyped
  <1>1. ASSUME NEW h \in Hooks, Fulfil(h)
        PROVE  FALSE
    <2>1. SessionOf(h).product \in Products /\ SessionOf(h).buyer \in Users
      BY <1>1, HookTyped DEF Fulfil, At
    <2>2. TypeOf(SessionOf(h).product) \in
            {"MEDIA_STORAGE", "AI_GRANTS", "RELLM_HOSTING", "PERMISSIONS_ACCESS"}
      BY <2>1, Types
    <2> QED
      BY <1>1, <2>1, <2>2 DEF Fulfil, GrantOutright
  <1>2. ASSUME NEW h \in Hooks, GrantPermissions(h)
        PROVE  SessionOf(h).buyer = u
    BY <1>2, HookTyped DEF GrantPermissions, At
  <1>3. ASSUME Renewal!RegrantPermissions \/ Renewal!TakePermissions
        PROVE  batch[job.id].buyer = u
    BY <1>3, JobTyped
       DEF Renewal!RegrantPermissions, Renewal!TakePermissions, Renewal!At, Renewal!Row, AtRow
  <1>4. ASSUME Renewal!Revoke
        PROVE  FALSE
    BY <1>4, JobTyped DEF Renewal!Revoke, Renewal!At, Renewal!Row, AtRow
  <1>5. ASSUME Renewal!Refulfil
        PROVE  FALSE
    <2>1. job.pc = "fulfil"
      BY <1>5 DEF Renewal!Refulfil, Renewal!At
    <2>2. batch[job.id].buyer \in Users /\ job.type \in DOMAIN PurchaseTypes
      BY <2>1, JobTyped DEF AtRow, JobOK
    <2>3. Renewal!JobType \in
            {"MEDIA_STORAGE", "AI_GRANTS", "RELLM_HOSTING", "PERMISSIONS_ACCESS"}
      BY <2>2, Types DEF Renewal!JobType, Renewal!PurchaseTypes, PurchaseTypes
    <2> QED
      BY <1>5, <2>2, <2>3 DEF Renewal!Refulfil, Renewal!GrantOutright, Renewal!Row
  <1> QED
    BY <1>1, <1>2, <1>3, <1>4, <1>5, WhoWritesAccess DEF AccessWriters

(* While a thread waits, what it remembers stays true: nobody else writes its buyer's *)
(* permissions.                                                                        *)
LEMMA WaitingThreadGrants ==
    ASSUME MarketInv, GrantInv, GrantsDontOverlap, Next, NEW h \in Hooks,
           hook'[h] = hook[h], ~GrantPermissions(h)
    PROVE  HookGrants(h)'
  <1>1. Keeps /\ HookGrants(h)
    BY RowsAreKept DEF GrantInv
  <1>2. hook[h].pc # "idle" => SessionOf(h)' = SessionOf(h)
    BY <1>1, HookTyped DEF HookOK, SessionOf, Keeps, SessionsKeep
  <1>3. hook[h].pc \in {"purchase"} \cup Fulfilling => subs'[hook[h].sub].buyer = subs[hook[h].sub].buyer
    BY <1>1, HookTyped DEF HookOK, Fulfilling, Keeps, SubsKeep, Same
  <1>4. \A i \in DOMAIN purchases : i \in DOMAIN purchases' /\ purchases'[i] = purchases[i]
    BY <1>1 DEF Keeps, PurchasesKeep
  <1>5. ASSUME hook[h].pc = "grant"
        PROVE  access'[SessionOf(h).buyer].perms = access[SessionOf(h).buyer].perms
    <2>1. SessionOf(h).buyer \in Users
      BY <1>5, HookTyped
    <2>2. ASSUME NEW g \in Hooks, GrantPermissions(g), SessionOf(g).buyer = SessionOf(h).buyer
          PROVE  FALSE
      BY <1>5, <2>2 DEF GrantPermissions, GrantsDontOverlap, At
    <2>3. ASSUME Renewal!RegrantPermissions \/ Renewal!TakePermissions,
                 batch[job.id].buyer = SessionOf(h).buyer
          PROVE  FALSE
      BY <1>5, <2>3
         DEF Renewal!RegrantPermissions, Renewal!TakePermissions, Renewal!At, GrantsDontOverlap, At
    <2> QED
      BY <2>1, <2>2, <2>3, WhoWritesPermissions
  <1> QED
    BY <1>1, <1>2, <1>3, <1>4, <1>5 DEF HookGrants, Fulfilling

LEMMA ThreadGrants ==
    ASSUME MarketInv, GrantInv, GrantsDontOverlap, Next, NEW h \in Hooks
    PROVE  HookGrants(h)'
  <1>1. hook \in [Hooks -> HookState] /\ HookGrants(h) /\ hook[h] \in HookState
    BY HookTyped DEF MarketInv, TypeOK, GrantInv
  <1>2. Keeps
    BY RowsAreKept
  <1> DEFINE early == {"idle", "check", "product", "subscribe"}
  <1>3. ASSUME hook'[h].pc \in early
        PROVE  HookGrants(h)'
    BY <1>3 DEF HookGrants, Fulfilling
  <1>4. CASE \/ \E s \in Sessions : Deliver(h, s)
             \/ CheckProcessed(h) \/ LoadProduct(h) \/ GrantPermissions(h) \/ FailDelivery(h)
    <2>1. CASE \E s \in Sessions : Deliver(h, s)
      BY <1>1, <1>3, <2>1 DEF Deliver, IdleHook
    <2>2. CASE CheckProcessed(h) \/ LoadProduct(h)
      BY <1>1, <1>3, <2>2 DEF CheckProcessed, LoadProduct, Answer, GoTo, IdleHook, HookState
    <2>3. CASE GrantPermissions(h) \/ FailDelivery(h)
      BY <1>1, <1>3, <2>3 DEF GrantPermissions, FailDelivery, Answer, IdleHook
    <2> QED
      BY <1>4, <2>1, <2>2, <2>3
  <1>5. CASE InsertSubscription(h)
    <2>1. /\ hook'[h].pc = "purchase" /\ hook'[h].sub = Len(subs) + 1
          /\ hook'[h].session = hook[h].session /\ session' = session
      BY <1>1, <1>5 DEF InsertSubscription, HookState
    <2>2. subs'[Len(subs) + 1].buyer = SessionOf(h).buyer
      <3>1. PICK r : subs' = Append(subs, r) /\ r.buyer = SessionOf(h).buyer
        BY <1>5 DEF InsertSubscription
      <3>2. subs \in Seq(Subscription) 
        BY DEF MarketInv, TypeOK, TablesTypeOK
      <3> QED
        BY <3>1, <3>2
    <2>3. SessionOf(h)' = SessionOf(h)
      BY <2>1 DEF SessionOf
    <2> QED
      BY <2>1, <2>2, <2>3 DEF HookGrants, Fulfilling
  <1>6. CASE InsertPurchase(h)
    <2> DEFINE r == [sub |-> hook[h].sub, session |-> hook[h].session, terms |-> hook[h].terms]
    <2>1. /\ hook[h].pc = "purchase" /\ hook'[h].pc = "payment" /\ hook'[h].sub = hook[h].sub
          /\ hook'[h].session = hook[h].session /\ hook'[h].terms = hook[h].terms
          /\ session' = session /\ subs' = subs /\ purchases' = Append(purchases, r)
      BY <1>1, <1>6 DEF InsertPurchase, At, HookState
    <2>2. r.sub = hook[h].sub /\ r.session = hook[h].session /\ r.terms = hook[h].terms
      OBVIOUS
    <2>3. purchases \in Seq(Purchase)
      BY DEF MarketInv, TypeOK, TablesTypeOK
    <2> HIDE DEF r
    <2>4. Len(purchases) + 1 \in DOMAIN purchases' /\ purchases'[Len(purchases) + 1] = r
      BY <2>1, <2>3
    <2>5. SessionOf(h)' = SessionOf(h)
      BY <2>1 DEF SessionOf
    <2> QED
      BY <1>1, <2>1, <2>2, <2>4, <2>5 DEF HookGrants, Fulfilling
  <1>7. CASE InsertPayment(h) \/ CountSale(h)
    <2>1. /\ hook[h].pc \in {"payment", "count"} /\ hook'[h].pc \in {"count", "fulfil"}
          /\ hook'[h].sub = hook[h].sub
          /\ hook'[h].session = hook[h].session /\ hook'[h].terms = hook[h].terms
          /\ session' = session /\ subs' = subs /\ purchases' = purchases
      BY <1>1, <1>7 DEF InsertPayment, CountSale, At, GoTo, HookState
    <2>2. SessionOf(h)' = SessionOf(h)
      BY <2>1 DEF SessionOf
    <2> QED
      BY <1>1, <2>1, <2>2 DEF HookGrants, Fulfilling
  <1>8. CASE Fulfil(h)
    <2>1. CASE TypeOf(SessionOf(h).product) # "PERMISSIONS_ACCESS"
      <3>1. hook'[h].pc \in early
        BY <1>1, <1>8, <2>1 DEF Fulfil, Answer, IdleHook
      <3> QED
        BY <1>3, <3>1
    <2>2. CASE TypeOf(SessionOf(h).product) = "PERMISSIONS_ACCESS"
      <3>1. /\ hook[h].pc = "fulfil" /\ hook'[h].pc = "grant"
            /\ hook'[h].sub = hook[h].sub /\ hook'[h].perms = access[SessionOf(h).buyer].perms
            /\ hook'[h].session = hook[h].session /\ hook'[h].terms = hook[h].terms
            /\ session' = session /\ subs' = subs /\ purchases' = purchases /\ access' = access
        BY <1>1, <1>8, <2>2 DEF Fulfil, At, HookState
      <3>2. SessionOf(h)' = SessionOf(h)
        BY <3>1 DEF SessionOf
      <3> QED
        BY <1>1, <2>2, <3>1, <3>2 DEF HookGrants, Fulfilling
    <2> QED
      BY <2>1, <2>2
  <1> QED
    BY <1>4, <1>5, <1>6, <1>7, <1>8, ThreadSteps, WaitingThreadGrants DEF HandlerStep

(* A 200 is given for what is recorded, by the only thread that has the event. *)
LEMMA NewlyAcked ==
    ASSUME MarketInv, GrantInv, Next, NEW s \in acked', s \notin acked
    PROVE  \E h \in Hooks :
            /\ hook[h].session = s /\ hook[h].pc # "idle" /\ hook'[h] = IdleHook
            /\ \A g \in Hooks \ {h} : hook'[g] = hook[g]
            /\ \E i \in DOMAIN purchases : purchases[i].session = s
  <1>1. hook \in [Hooks -> HookState]
    BY DEF MarketInv, TypeOK
  <1>2. ASSUME NEW h \in Hooks, Answer(h),
               CheckProcessed(h) \/ Fulfil(h) \/ GrantPermissions(h)
        PROVE  /\ hook[h].session = s /\ hook[h].pc # "idle" /\ hook'[h] = IdleHook
               /\ \A g \in Hooks \ {h} : hook'[g] = hook[g]
               /\ \E i \in DOMAIN purchases : purchases[i].session = s
    <2>1. /\ hook[h].session = s /\ hook[h].pc # "idle" /\ hook'[h] = IdleHook
          /\ \A g \in Hooks \ {h} : hook'[g] = hook[g]
      BY <1>1, <1>2 DEF Answer, CheckProcessed, Fulfil, GrantPermissions, At
    <2>2. CASE CheckProcessed(h)
      <3>1. ~GoTo(h, "product")
        BY <1>1, <2>1 DEF GoTo, IdleHook
      <3> QED
        BY <2>1, <2>2, <3>1 DEF CheckProcessed
    <2>3. CASE Fulfil(h) \/ GrantPermissions(h)
      BY <2>1, <2>3 DEF Fulfil, GrantPermissions, At, GrantInv, HookGrants, Fulfilling
    <2> QED
      BY <1>2, <2>1, <2>2, <2>3
  <1>3. CASE CheckoutStep
    <2>1. \/ \E u \in Users, p \in Products : MakeMarketPurchase(u, p)
          \/ \E t \in Sessions : Pay(t)
          \/ \E h \in Hooks, t \in Sessions : Deliver(h, t)
          => acked' = acked
      BY DEF MakeMarketPurchase, Pay, Deliver, checkout
    <2>2. ASSUME NEW h \in Hooks, HandlerStep(h) \/ FailDelivery(h)
          PROVE  \/ acked' = acked
                 \/ Answer(h) /\ (CheckProcessed(h) \/ Fulfil(h) \/ GrantPermissions(h))
      BY <2>2 DEF HandlerStep, FailDelivery, CheckProcessed, LoadProduct, InsertSubscription,
                  InsertPurchase, InsertPayment, CountSale, Fulfil, GrantPermissions, GoTo
    <2> QED
      BY <1>2, <1>3, <2>1, <2>2 DEF CheckoutStep, CheckoutNext
  <1>4. CASE AccountStep \/ RenewalStep
    BY <1>4, AccountWriters, RenewalWriters DEF checkout
  <1> QED
    BY <1>3, <1>4 DEF Next

LEMMA AckedStays ==
    ASSUME MarketInv, GrantInv, DeliveriesDontOverlap, Next
    PROVE  AckedOK'
  <1>1. hook \in [Hooks -> HookState] /\ Keeps /\ acked' \subseteq Sessions
    BY RowsAreKept, MarketInductive DEF MarketInv, TypeOK
  <1>2. \A i \in DOMAIN purchases : i \in DOMAIN purchases' /\ purchases'[i] = purchases[i]
    BY <1>1 DEF Keeps, PurchasesKeep
  <1> SUFFICES ASSUME NEW s \in acked'
               PROVE  /\ \E i \in DOMAIN purchases' : purchases'[i].session = s
                      /\ \A g \in Hooks : hook'[g].session = s => hook'[g].pc = "check"
    BY DEF AckedOK
  <1>3. IdleHook.session = None /\ s # None
    BY <1>1, NoneIsNoSession DEF IdleHook
  <1>4. CASE s \notin acked
    <2>1. PICK h \in Hooks :
            /\ hook[h].session = s /\ hook'[h] = IdleHook
            /\ \A g \in Hooks \ {h} : hook'[g] = hook[g]
            /\ \E i \in DOMAIN purchases : purchases[i].session = s
      BY <1>4, NewlyAcked
    <2>2. ASSUME NEW g \in Hooks
          PROVE  hook'[g].session # s
      BY <1>3, <2>1 DEF DeliveriesDontOverlap
    <2> QED
      BY <1>2, <2>1, <2>2
  <1>5. CASE s \in acked
    <2>1. \E i \in DOMAIN purchases : purchases[i].session = s
      BY <1>5 DEF GrantInv, AckedOK
    <2>2. ASSUME NEW g \in Hooks, hook'[g].session = s
          PROVE  hook'[g].pc = "check"
      <3>1. CASE hook'[g] = hook[g]
        BY <1>5, <2>2, <3>1 DEF GrantInv, AckedOK
      <3>2. CASE \E t \in Sessions : Deliver(g, t)
        BY <1>1, <3>2 DEF Deliver, IdleHook
      <3>3. CASE FailDelivery(g)
        BY <1>1, <1>3, <2>2, <3>3 DEF FailDelivery
      <3>4. CASE HandlerStep(g)
        <4>1. hook'[g].session \in {hook[g].session, None}
          BY <1>1, <3>4 DEF HandlerStep, CheckProcessed, LoadProduct, InsertSubscription,
                            InsertPurchase, InsertPayment, CountSale, Fulfil,
                            GrantPermissions, Answer, GoTo, IdleHook, HookState
        <4>2. hook[g].session = s /\ hook[g].pc = "check"
          BY <1>3, <1>5, <2>2, <4>1 DEF GrantInv, AckedOK
        <4>3. CheckProcessed(g)
          BY <3>4, <4>2 DEF HandlerStep, LoadProduct, InsertSubscription, InsertPurchase,
                            InsertPayment, CountSale, Fulfil, GrantPermissions, At
        <4>4. hook'[g] = IdleHook
          BY <1>1, <2>1, <4>2, <4>3 DEF CheckProcessed, Answer
        <4> QED
          BY <1>3, <2>2, <4>4
      <3> QED
        BY <3>1, <3>2, <3>3, <3>4, ThreadSteps
    <2> QED
      BY <1>2, <2>1, <2>2
  <1> QED
    BY <1>4, <1>5

(* A step that leaves the job with rows of the pass it was in, and none of a buyer's *)
(* permissions read.                                                                  *)
LEMMA PassGoesOn ==
    ASSUME MarketInv, GrantInv, Next, DOMAIN batch' \subseteq DOMAIN batch,
           DOMAIN batch' # {} => job'.type = job.type,
           job'.pc \in OverLapsed => job.pc \in OverLapsed \/ DOMAIN batch' = {}
    PROVE  /\ \A i \in DOMAIN batch' : Type(i)' = Renewal!JobType'
           /\ job'.pc \in OverLapsed => \A i \in DOMAIN batch' : subs'[i].canceled
  <1>1. Keeps /\ DOMAIN batch \subseteq DOMAIN subs
    BY RowsAreKept, JobTyped
  <1>2. ASSUME NEW i \in DOMAIN batch'
        PROVE  Type(i)' = Renewal!JobType'
    <2>1. Type(i) = Renewal!JobType /\ subs'[i].product = subs[i].product
      BY <1>1, <1>2 DEF GrantInv, JobGrants, Keeps, SubsKeep, Same
    <2>2. job'.type = job.type
      BY <1>2
    <2> QED
      BY <2>1, <2>2 DEF Type, Renewal!JobType
  <1>3. ASSUME job'.pc \in OverLapsed, NEW i \in DOMAIN batch'
        PROVE  subs'[i].canceled
    BY <1>1, <1>3, SubscriptionEndsForGood DEF GrantInv, JobGrants
  <1> QED
    BY <1>2, <1>3

(* The rows of a query are of the type the pass is for. *)
LEMMA QueryGrants ==
    ASSUME MarketInv, Next, Renewal!LoadDue \/ Renewal!LoadLapsed
    PROVE  JobGrants'
  <1>1. CASE Renewal!LoadDue
    <2> DEFINE I == {i \in DOMAIN subs : Renewal!Type(i) = Renewal!JobType /\ Renewal!Due(i)}
    <2>1. PICK pc \in {"renew", "end all"} : Renewal!GoTo(pc)
      BY <1>1 DEF Renewal!LoadDue
    <2>2. batch' = [i \in I |-> subs[i]] /\ subs' = subs
      BY <1>1 DEF Renewal!LoadDue, Renewal!RowsWhere, Renewal!market
    <2>3. job'.pc = pc /\ job'.type = job.type
      BY <2>1, JobTyped DEF Renewal!GoTo, JobState
    <2>4. \A i \in I : Type(i) = Renewal!JobType
      BY DEF Renewal!Type, Type
    <2> HIDE DEF I
    <2>5. ASSUME NEW i \in DOMAIN batch'
          PROVE  Type(i)' = Renewal!JobType'
      BY <2>2, <2>3, <2>4, <2>5 DEF Type, Renewal!JobType
    <2> QED
      BY <2>3, <2>5 DEF JobGrants, OverLapsed
  <1>2. CASE Renewal!LoadLapsed
    <2> DEFINE I == {i \in DOMAIN subs :
                    Renewal!Type(i) = Renewal!JobType /\ Renewal!Lapsed(i) /\ ~subs[i].terminated}
    <2>1. batch' = [i \in I |-> subs[i]] /\ subs' = subs /\ Renewal!GoTo("terminate")
      BY <1>2 DEF Renewal!LoadLapsed, Renewal!RowsWhere, Renewal!market
    <2>2. job'.pc = "terminate" /\ job'.type = job.type
      BY <2>1, JobTyped DEF Renewal!GoTo, JobState
    <2>3. \A i \in I : Type(i) = Renewal!JobType /\ subs[i].canceled
      BY DEF Renewal!Type, Type, Renewal!Lapsed
    <2> HIDE DEF I
    <2>4. ASSUME NEW i \in DOMAIN batch'
          PROVE  Type(i)' = Renewal!JobType' /\ subs'[i].canceled
      BY <2>1, <2>2, <2>3, <2>4 DEF Type, Renewal!JobType
    <2> QED
      BY <2>2, <2>4 DEF JobGrants, OverLapsed
  <1> QED
    BY <1>1, <1>2

(* While the job waits, nobody else writes the permissions of the buyer it has read. *)
LEMMA WaitingJobGrants ==
    ASSUME MarketInv, GrantInv, GrantsDontOverlap, Next, UNCHANGED renewal
    PROVE  JobGrants'
  <1>1. UNCHANGED <<job, batch>>
    BY DEF renewal
  <1>2. /\ \A i \in DOMAIN batch' : Type(i)' = Renewal!JobType'
        /\ job'.pc \in OverLapsed => \A i \in DOMAIN batch' : subs'[i].canceled
    BY <1>1, PassGoesOn
  <1>3. ASSUME job.pc \in {"grant", "take"}
        PROVE  access'[batch[job.id].buyer].perms = access[batch[job.id].buyer].perms
    <2>1. batch[job.id].buyer \in Users
      BY <1>3, JobTyped DEF AtRow
    <2>2. ASSUME NEW h \in Hooks, GrantPermissions(h), SessionOf(h).buyer = batch[job.id].buyer
          PROVE  FALSE
      BY <1>3, <2>2 DEF GrantPermissions, GrantsDontOverlap, At
    <2>3. ASSUME Renewal!RegrantPermissions \/ Renewal!TakePermissions
          PROVE  FALSE
      <3>1. job'.pc \in {"renew", "stamp"}
        BY <2>3, JobTyped DEF Renewal!RegrantPermissions, Renewal!TakePermissions,
                              Renewal!Done, Renewal!GoTo, JobState
      <3> QED
        BY <1>1, <1>3, <3>1
    <2> QED
      BY <2>1, <2>2, <2>3, WhoWritesPermissions
  <1> QED
    BY <1>1, <1>2, <1>3 DEF GrantInv, JobGrants, Renewal!JobType

LEMMA JobStillGrants ==
    ASSUME MarketInv, GrantInv, GrantsDontOverlap, Next
    PROVE  JobGrants'
  <1> USE DEF Renewal!At, Renewal!GoTo
  <1>1. job \in JobState /\ JobOK
    BY JobTyped
  <1>2. ASSUME DOMAIN batch' \subseteq DOMAIN batch,
               DOMAIN batch' # {} => job'.type = job.type,
               job'.pc \in OverLapsed => job.pc \in OverLapsed \/ DOMAIN batch' = {},
               job'.pc \notin {"grant", "take"}
        PROVE  JobGrants'
    BY <1>2, PassGoesOn DEF JobGrants
  <1>3. CASE CheckoutStep \/ AccountStep \/ Renewal!Tick
    BY <1>3, CheckoutWriters, AccountWriters, WaitingJobGrants DEF Renewal!Tick, Renewal!renewal, renewal
  <1>4. CASE Renewal!LoadDue \/ Renewal!LoadLapsed
    BY <1>4, QueryGrants
  <1>5. CASE Renewal!StartJob
    <2>1. job'.pc = "due" /\ batch' = batch /\ DOMAIN batch = {}
      BY <1>1, <1>5, StartedJobIs DEF Renewal!StartJob, JobOK
    <2> QED
      BY <1>2, <2>1 DEF OverLapsed
  <1>6. CASE Renewal!FailQuery
    <2>1. batch' = batch /\ DOMAIN batch = {} /\ job'.pc \in {"lapsed", "terminate"}
      BY <1>1, <1>6 DEF Renewal!FailQuery, JobOK, JobState
    <2> QED
      BY <1>2, <2>1
  <1>7. CASE Renewal!NextDue
    <2>1. /\ batch' = batch /\ job'.pc \in {"lapsed", "charge", "end, all"}
          /\ job'.type = job.type
      BY <1>1, <1>7 DEF Renewal!NextDue, JobState
    <2> QED
      BY <1>2, <2>1 DEF OverLapsed
  <1>8. CASE Renewal!NextLapsed
    <2>1. CASE batch # Renewal!NoRows
      <3>1. batch' = batch /\ job'.pc = "revoke" /\ job'.type = job.type /\ job.pc = "terminate"
        BY <1>1, <1>8, <2>1 DEF Renewal!NextLapsed, JobState
      <3> QED
        BY <1>2, <3>1 DEF OverLapsed
    <2>2. CASE batch = Renewal!NoRows
      <3>1. batch' = batch /\ DOMAIN batch = {} /\ job'.pc \in {"due", "asleep"}
        BY <1>1, <1>8, <2>2, NoRowsTyped, AsleepTyped DEF Renewal!NextLapsed, JobState
      <3> QED
        BY <1>2, <3>1
    <2> QED
      BY <2>1, <2>2
  <1>9. CASE \/ Renewal!Declined \/ Renewal!Charge \/ Renewal!RecordPurchase
             \/ Renewal!RecordPayment \/ Renewal!AdvanceRenewal \/ Renewal!ChargeUnanswered
             \/ Renewal!FailRenewal
    <2>1. /\ batch' = batch /\ job'.type = job.type
          /\ job'.pc \in {"end", "purchase", "payment", "advance", "fulfil"}
      BY <1>1, <1>9 DEF Renewal!Declined, Renewal!Charge, Renewal!RecordPurchase,
            Renewal!RecordPayment, Renewal!AdvanceRenewal, Renewal!ChargeUnanswered,
            Renewal!FailRenewal, Renewal!Err, JobState
    <2> QED
      BY <1>2, <2>1 DEF OverLapsed
  <1>10. ASSUME NEW pc \in {"renew", "end all", "terminate"}, Renewal!Done(pc),
                pc = "terminate" => job.pc \in OverLapsed
         PROVE  JobGrants'
    <2>1. job'.pc = pc /\ job'.type = job.type /\ DOMAIN batch' \subseteq DOMAIN batch
      BY <1>1, <1>10 DEF Renewal!Done, Renewal!Without, JobState
    <2> QED
      BY <1>2, <1>10, <2>1 DEF OverLapsed
  <1>11. CASE Renewal!RegrantPermissions \/ Renewal!EndSubscription
    BY <1>10, <1>11 DEF Renewal!RegrantPermissions, Renewal!EndSubscription
  <1>12. CASE Renewal!StampTerminated \/ Renewal!FailTermination
    <2>1. Renewal!Done("terminate") /\ job.pc \in OverLapsed
      BY <1>12 DEF Renewal!StampTerminated, Renewal!FailTermination, OverLapsed
    <2> QED
      BY <1>10, <2>1
  <1>13. CASE Renewal!TakePermissions
    <2>1. batch' = batch /\ job'.pc = "stamp" /\ job'.type = job.type /\ job.pc = "take"
      BY <1>1, <1>13 DEF Renewal!TakePermissions, JobState
    <2> QED
      BY <1>2, <2>1 DEF OverLapsed
  <1>14. CASE Renewal!CrashJob
    <2>1. job'.pc = "asleep" /\ DOMAIN batch' = {}
      BY <1>14, NoRowsTyped, AsleepTyped DEF Renewal!CrashJob
    <2> QED
      BY <1>2, <2>1 DEF OverLapsed
  <1>15. CASE Renewal!Refulfil
    <2>1. CASE Renewal!JobType # "PERMISSIONS_ACCESS"
      BY <1>10, <1>15, <2>1 DEF Renewal!Refulfil
    <2>2. CASE Renewal!JobType = "PERMISSIONS_ACCESS"
      <3>1. /\ job'.pc = "grant" /\ job'.type = job.type /\ job'.id = job.id /\ batch' = batch
            /\ access' = access /\ job'.perms = access[batch[job.id].buyer].perms
        BY <1>1, <1>15, <2>2 DEF Renewal!Refulfil, Renewal!Row, JobState
      <3>2. \A i \in DOMAIN batch' : Type(i)' = Renewal!JobType'
        BY <3>1, PassGoesOn DEF OverLapsed
      <3> QED
        BY <3>1, <3>2 DEF JobGrants, OverLapsed
    <2> QED
      BY <2>1, <2>2
  <1>16. CASE Renewal!Revoke
    <2>1. batch' = batch /\ job.pc = "revoke" /\ job.pc \in OverLapsed
      BY <1>16 DEF Renewal!Revoke, OverLapsed
    <2>2. CASE Renewal!GoTo("stamp")
      <3>1. job'.pc = "stamp" /\ job'.type = job.type
        BY <1>1, <2>2 DEF JobState
      <3> QED
        BY <1>2, <2>1, <3>1
    <2>3. CASE /\ Renewal!JobType = "PERMISSIONS_ACCESS" /\ access' = access
               /\ job' = [job EXCEPT !.pc = "take", !.perms = access[Renewal!Row.buyer].perms]
      <3>1. /\ job'.pc = "take" /\ job'.type = job.type /\ job'.id = job.id
            /\ job'.perms = access[batch[job.id].buyer].perms
        BY <1>1, <2>3 DEF Renewal!Row, JobState
      <3>2. /\ \A i \in DOMAIN batch' : Type(i)' = Renewal!JobType'
            /\ \A i \in DOMAIN batch' : subs'[i].canceled
        BY <2>1, <3>1, PassGoesOn DEF OverLapsed
      <3>3. Renewal!JobType' = "PERMISSIONS_ACCESS"
        BY <2>3, <3>1 DEF Renewal!JobType
      <3> QED
        BY <2>1, <2>3, <3>1, <3>2, <3>3 DEF JobGrants
    <2> QED
      BY <1>16, <2>2, <2>3 DEF Renewal!Revoke
  <1> QED
    BY <1>3, <1>4, <1>5, <1>6, <1>7, <1>8, <1>9, <1>11, <1>12, <1>13, <1>14, <1>15, <1>16
       DEF Next, RenewalStep, Renewal!RenewalNext, Renewal!JobStep

LEMMA GrantsStay ==
    ASSUME MarketInv, GrantInv, DeliveriesDontOverlap, GrantsDontOverlap, [Next]_vars
    PROVE  GrantInv'
  <1>1. CASE Next
    BY <1>1, ThreadGrants, AckedStays, JobStillGrants DEF GrantInv
  <1>2. CASE UNCHANGED vars
    BY <1>2 DEF vars, market, checkout, renewal, GrantInv, HookGrants, SessionOf, AckedOK,
                JobGrants, Type, Renewal!JobType
  <1> QED
    BY <1>1, <1>2

-----------------------------------------------------------------------------
(* The rows whose entitlements the job takes back are those of canceled subscriptions. *)
LEMMA TakenIsCanceled ==
    ASSUME MarketInv, GrantInv, job.pc \in {"revoke", "take"},
           NEW u, u = batch[job.id].buyer, NEW type, type = Renewal!JobType
    PROVE  MayBeTaken(u, type)
  <1>1. job.id \in DOMAIN batch /\ job.id \in DOMAIN subs /\ subs[job.id].buyer = u
    BY JobTyped DEF AtRow, Same
  <1>2. Type(job.id) = type /\ subs[job.id].canceled
    BY <1>1 DEF GrantInv, JobGrants, OverLapsed
  <1> QED
    BY <1>1, <1>2 DEF MayBeTaken

(* What a step does to a user's entitlements. *)
LEMMA EntitlementsGrow ==
    ASSUME MarketInv, GrantInv, Next, NEW u \in Users
    PROVE  /\ \/ access'[u].storage = access[u].storage
              \/ access'[u].storage # Default
              \/ job.pc = "revoke" /\ Renewal!JobType = "MEDIA_STORAGE" /\ batch[job.id].buyer = u
           /\ access[u].grant # None => access'[u].grant # None
           /\ \/ access[u].perms \subseteq access'[u].perms
              \/ /\ job.pc = "take" /\ Renewal!JobType = "PERMISSIONS_ACCESS"
                 /\ batch[job.id].buyer = u
  <1>1. access \in [Users -> [storage : Terms \cup {Default}, grant : Terms \cup {None},
                              perms : SUBSET Permissions]]
        /\ None \notin Terms /\ Default \notin Terms
    BY AccessTyped, MarketAssumption
  <1>2. ASSUME NEW v \in Users, NEW t \in Terms,
               NEW type \in {"MEDIA_STORAGE", "AI_GRANTS", "RELLM_HOSTING"},
               access' = GrantOutright(v, type, t)
        PROVE  /\ access'[u].storage = access[u].storage \/ access'[u].storage # Default
               /\ access[u].grant # None => access'[u].grant # None
               /\ access'[u].perms = access[u].perms
    BY <1>1, <1>2 DEF GrantOutright
  <1>3. ASSUME NEW h \in Hooks, Fulfil(h)
        PROVE  /\ access'[u].storage = access[u].storage \/ access'[u].storage # Default
               /\ access[u].grant # None => access'[u].grant # None
               /\ access'[u].perms = access[u].perms
    <2>1. /\ SessionOf(h).product \in Products /\ SessionOf(h).buyer \in Users
          /\ hook[h].terms \in Terms
      BY <1>3, HookTyped DEF Fulfil, At, HookOK
    <2>2. TypeOf(SessionOf(h).product) \in
            {"MEDIA_STORAGE", "AI_GRANTS", "RELLM_HOSTING", "PERMISSIONS_ACCESS"}
      BY <2>1, Types
    <2> QED
      BY <1>2, <1>3, <2>1, <2>2 DEF Fulfil
  <1>4. ASSUME NEW h \in Hooks, GrantPermissions(h)
        PROVE  /\ access'[u].storage = access[u].storage /\ access'[u].grant = access[u].grant
               /\ access[u].perms \subseteq access'[u].perms
    <2>1. SessionOf(h).buyer \in Users /\ hook[h].perms = access[SessionOf(h).buyer].perms
      BY <1>4, HookTyped DEF GrantPermissions, At, GrantInv, HookGrants
    <2> QED
      BY <1>1, <1>4, <2>1 DEF GrantPermissions
  <1>5. CASE Renewal!Refulfil
    <2>1. job.pc = "fulfil"
      BY <1>5 DEF Renewal!Refulfil, Renewal!At
    <2>2. /\ batch[job.id].buyer \in Users /\ batch[job.id].terms \in Terms
          /\ job.type \in DOMAIN PurchaseTypes
      BY <2>1, JobTyped DEF AtRow, JobOK
    <2>3. Renewal!JobType \in
            {"MEDIA_STORAGE", "AI_GRANTS", "RELLM_HOSTING", "PERMISSIONS_ACCESS"}
      BY <2>2, Types DEF Renewal!JobType, Renewal!PurchaseTypes, PurchaseTypes
    <2>4. \/ access' = access
          \/ /\ Renewal!JobType # "PERMISSIONS_ACCESS"
             /\ access' = GrantOutright(batch[job.id].buyer, Renewal!JobType, batch[job.id].terms)
      BY <1>5 DEF Renewal!Refulfil, Renewal!Row, Renewal!GrantOutright, GrantOutright
    <2> QED
      BY <1>2, <2>2, <2>3, <2>4
  <1>6. CASE Renewal!RegrantPermissions
    <2>1. batch[job.id].buyer \in Users /\ job.perms = access[batch[job.id].buyer].perms
      BY <1>6, JobTyped DEF Renewal!RegrantPermissions, Renewal!At, AtRow, GrantInv, JobGrants
    <2> QED
      BY <1>1, <1>6, <2>1 DEF Renewal!RegrantPermissions, Renewal!Row
  <1>7. CASE Renewal!Revoke
    <2>1. job.pc = "revoke" /\ batch[job.id].buyer \in Users
      BY <1>7, JobTyped DEF Renewal!Revoke, Renewal!At, AtRow
    <2>2. \/ access' = access
          \/ /\ Renewal!JobType = "MEDIA_STORAGE"
             /\ access' = [access EXCEPT ![batch[job.id].buyer].storage = Default]
      BY <1>7 DEF Renewal!Revoke, Renewal!Row
    <2> QED
      BY <1>1, <2>1, <2>2
  <1>8. CASE Renewal!TakePermissions
    <2>1. /\ job.pc = "take" /\ batch[job.id].buyer \in Users
          /\ Renewal!JobType = "PERMISSIONS_ACCESS"
      BY <1>8, JobTyped DEF Renewal!TakePermissions, Renewal!At, AtRow, GrantInv, JobGrants
    <2> QED
      BY <1>1, <1>8, <2>1 DEF Renewal!TakePermissions, Renewal!Row
  <1> QED
    BY <1>3, <1>4, <1>5, <1>6, <1>7, <1>8, WhoWritesAccess DEF AccessWriters

(* A user keeps an entitlement that no canceled subscription of hers could end. *)
LEMMA EntitlementStays ==
    ASSUME MarketInv, GrantInv, Next, NEW u \in Users, NEW t \in Terms,
           NEW type \in {"MEDIA_STORAGE", "AI_GRANTS", "RELLM_HOSTING", "PERMISSIONS_ACCESS"},
           HasEntitlement(u, type, t), ~MayBeTaken(u, type)
    PROVE  HasEntitlement(u, type, t)'
  <1>1. ~(job.pc \in {"revoke", "take"} /\ batch[job.id].buyer = u /\ Renewal!JobType = type)
    BY TakenIsCanceled
  <1> QED
    BY <1>1, EntitlementsGrow DEF HasEntitlement

(* Of a user's subscriptions, canceled ones stay canceled. *)
LEMMA TakenForGood ==
    ASSUME MarketInv, Next, NEW u, NEW type, MayBeTaken(u, type)
    PROVE  MayBeTaken(u, type)'
  <1>1. PICK i \in DOMAIN subs : subs[i].buyer = u /\ Type(i) = type /\ subs[i].canceled
    BY DEF MayBeTaken
  <1>2. i \in DOMAIN subs' /\ Same(subs'[i], subs[i]) /\ subs'[i].canceled
    BY RowsAreKept, SubscriptionEndsForGood, <1>1 DEF Keeps, SubsKeep
  <1> QED
    BY <1>1, <1>2 DEF MayBeTaken, Type, Same

(* A thread that answers after granting has granted what is recorded for its session. *)
LEMMA GrantedWhatIsRecorded ==
    ASSUME MarketInv, RecordedOnce, GrantInv, NEW h \in Hooks,
           \/ Fulfil(h) /\ TypeOf(SessionOf(h).product) # "PERMISSIONS_ACCESS"
           \/ GrantPermissions(h),
           NEW k \in DOMAIN purchases, purchases[k].session = hook[h].session,
           NEW u, u = subs[purchases[k].sub].buyer,
           NEW type, type = Type(purchases[k].sub), NEW t, t = purchases[k].terms
    PROVE  HasEntitlement(u, type, t)'
  <1>1. hook[h].pc \in {"fulfil", "grant"} /\ HookOK(h) /\ HookGrants(h) /\ hook[h].pc \in Fulfilling
    BY HookTyped DEF Fulfil, GrantPermissions, At, GrantInv, Fulfilling
  <1>2. PICK i \in DOMAIN purchases :
            /\ purchases[i].session = hook[h].session
            /\ purchases[i].sub = hook[h].sub /\ purchases[i].terms = hook[h].terms
    BY <1>1 DEF HookGrants
  <1>3. i = k
    BY <1>1, <1>2 DEF RecordedOnce, HookOK
  <1>4. /\ u = SessionOf(h).buyer /\ type = TypeOf(SessionOf(h).product) /\ t = hook[h].terms
        /\ u \in Users /\ t \in Terms /\ SessionOf(h).product \in Products
    BY <1>1, <1>2, <1>3, HookTyped DEF HookGrants, HookOK, Type, SessionOf
  <1>5. type \in {"MEDIA_STORAGE", "AI_GRANTS", "RELLM_HOSTING", "PERMISSIONS_ACCESS"}
        /\ None \notin Terms /\ Default \notin Terms
    BY <1>4, Types, MarketAssumption
  <1>6. CASE Fulfil(h) /\ type # "PERMISSIONS_ACCESS"
    <2>1. access' = GrantOutright(u, type, t)
      BY <1>4, <1>6 DEF Fulfil
    <2> QED
      BY <1>4, <1>5, <1>6, <2>1, AccessTyped DEF GrantOutright, HasEntitlement
  <1>7. CASE GrantPermissions(h)
    <2>1. type = "PERMISSIONS_ACCESS"
      BY <1>1, <1>4, <1>7 DEF GrantPermissions, At, HookGrants
    <2>2. access'[u].perms = hook[h].perms \cup PermissionsIn(t)
      BY <1>4, <1>7, AccessTyped DEF GrantPermissions
    <2> QED
      BY <2>1, <2>2 DEF HasEntitlement
  <1> QED
    BY <1>4, <1>6, <1>7

\* Sessions recorded, but left ungranted, which no thread works on any more.
Stuck == {s \in Sessions :
    /\ Ungranted(s)
    /\ \A h \in Hooks : hook[h].session = s => hook[h].pc \notin Fulfilling}

StuckFew == IsFiniteSet(Stuck) /\ Cardinality(Stuck) <= faults

(* A thread that is to grant a session goes on, has granted it, or fails. *)
LEMMA LeavingFulfilment ==
    ASSUME MarketInv, Next, NEW h \in Hooks, hook[h].pc \in Fulfilling
    PROVE  \/ hook'[h].session = hook[h].session /\ hook'[h].pc \in Fulfilling
           \/ Fulfil(h) /\ TypeOf(SessionOf(h).product) # "PERMISSIONS_ACCESS"
           \/ GrantPermissions(h)
           \/ FailDelivery(h)
  <1>1. hook \in [Hooks -> HookState] /\ hook[h] \in HookState
    BY HookTyped DEF MarketInv, TypeOK
  <1>2. hook[h] # IdleHook
    BY DEF Fulfilling, IdleHook
  <1>3. ~\E s \in Sessions : Deliver(h, s)
    BY <1>2 DEF Deliver
  <1>4. /\ ~CheckProcessed(h) /\ ~LoadProduct(h) /\ ~InsertSubscription(h)
        /\ ~InsertPurchase(h)
    BY DEF CheckProcessed, LoadProduct, InsertSubscription, InsertPurchase, At, Fulfilling
  <1>5. CASE InsertPayment(h) \/ CountSale(h)
    BY <1>1, <1>5 DEF InsertPayment, CountSale, GoTo, HookState, Fulfilling
  <1>6. CASE Fulfil(h) /\ TypeOf(SessionOf(h).product) = "PERMISSIONS_ACCESS"
    BY <1>1, <1>6 DEF Fulfil, HookState, Fulfilling
  <1> QED
    BY <1>3, <1>4, <1>5, <1>6, ThreadSteps DEF HandlerStep

LEMMA NewlyStuck ==
    ASSUME MarketInv, RecordedOnce, GrantInv, Next, NEW s \in Stuck', s \notin Stuck
    PROVE  \E h \in Hooks : FailDelivery(h) /\ hook[h].session = s
  <1>1. s \in Sessions /\ Keeps /\ s # None
        /\ \A h \in Hooks : hook'[h].session = s => hook'[h].pc \notin Fulfilling
    BY RowsAreKept, NoneIsNoSession DEF Stuck
  <1>2. PICK k \in DOMAIN purchases' :
            /\ purchases'[k].session = s
            /\ (/\ ~MayBeTaken(subs[purchases[k].sub].buyer, Type(purchases[k].sub))
                /\ ~HasEntitlement(subs[purchases[k].sub].buyer, Type(purchases[k].sub),
                                   purchases[k].terms))'
    BY DEF Stuck, Ungranted, PurchasesOf
  <1>3. PICK u, type, t :
            /\ u = subs'[purchases'[k].sub].buyer
            /\ type = TypeOf(subs'[purchases'[k].sub].product)
            /\ t = purchases'[k].terms
            /\ ~MayBeTaken(u, type)' /\ ~HasEntitlement(u, type, t)'
    <2>1. PICK u, type, t :
              /\ u = subs'[purchases'[k].sub].buyer
              /\ type = TypeOf(subs'[purchases'[k].sub].product)
              /\ t = purchases'[k].terms
      OBVIOUS
    <2>2. ~MayBeTaken(u, type)'
      BY <1>2, <2>1 DEF MayBeTaken, Type
    <2>3. ~HasEntitlement(u, type, t)'
      BY <1>2, <2>1 DEF HasEntitlement, Type
    <2> QED
      BY <2>1, <2>2, <2>3
  <1>4. k \in DOMAIN purchases
    <2> SUFFICES ASSUME k \notin DOMAIN purchases
                 PROVE  FALSE
      OBVIOUS
    <2>1. PICK h \in Hooks : InsertPurchase(h) /\ hook[h].session = s
      BY <1>1, <1>2, AddedPurchase
    <2>2. hook'[h].pc = "payment" /\ hook'[h].session = s
      BY <2>1, HookTyped DEF InsertPurchase, HookState, MarketInv, TypeOK
    <2> QED
      BY <1>1, <2>2 DEF Fulfilling
  <1>5. /\ purchases'[k] = purchases[k] /\ purchases[k].sub \in DOMAIN subs
        /\ u = subs[purchases[k].sub].buyer /\ type = Type(purchases[k].sub)
        /\ t = purchases[k].terms /\ purchases[k].session = s
    BY <1>1, <1>2, <1>3, <1>4 DEF Keeps, SubsKeep, PurchasesKeep, Same, MarketInv, PurchasesOK, Type
  <1>6. u \in Users /\ t \in Terms
        /\ type \in {"MEDIA_STORAGE", "AI_GRANTS", "RELLM_HOSTING", "PERMISSIONS_ACCESS"}
    <2>1. purchases[k] \in Purchase /\ subs[purchases[k].sub] \in Subscription
      BY <1>4, <1>5, TypedTables DEF MarketInv
    <2> QED
      BY <1>5, <2>1, Types DEF Purchase, Subscription, Type
  <1>7. ~MayBeTaken(u, type)
    BY <1>3, TakenForGood
  <1>8. ~HasEntitlement(u, type, t)
    BY <1>3, <1>6, <1>7, EntitlementStays
  <1>9. Ungranted(s)
    BY <1>4, <1>5, <1>7, <1>8 DEF Ungranted, PurchasesOf
  <1>10. PICK h \in Hooks : hook[h].session = s /\ hook[h].pc \in Fulfilling
    BY <1>1, <1>9 DEF Stuck
  <1>11. FailDelivery(h)
    <2>1. CASE \/ Fulfil(h) /\ TypeOf(SessionOf(h).product) # "PERMISSIONS_ACCESS"
               \/ GrantPermissions(h)
      <3>1. HasEntitlement(u, type, t)'
        BY <1>4, <1>5, <1>10, <2>1, GrantedWhatIsRecorded
      <3> QED
        BY <1>3, <3>1
    <2> QED
      BY <1>1, <1>10, <2>1, LeavingFulfilment
  <1> QED
    BY <1>10, <1>11

LEMMA StuckStep ==
    ASSUME MarketInv, RecordedOnce, GrantInv, Next
    PROVE  \/ Stuck' \subseteq Stuck /\ faults' >= faults
           \/ \E x : Stuck' \subseteq Stuck \cup {x} /\ faults' = faults + 1
  <1>1. CASE Stuck' \subseteq Stuck
    BY <1>1, FaultsGrow
  <1>2. CASE ~(Stuck' \subseteq Stuck)
    <2>1. PICK h \in Hooks : FailDelivery(h)
      BY <1>2, NewlyStuck
    <2>2. \A g \in Hooks : FailDelivery(g) => g = h
      <3>1. hook \in [Hooks -> HookState]
        BY DEF MarketInv, TypeOK
      <3> QED
        BY <2>1, <3>1 DEF FailDelivery
    <2>3. faults' = faults + 1
      BY <2>1 DEF FailDelivery, Fault
    <2>4. PICK x : x = hook[h].session
      OBVIOUS
    <2>5. Stuck' \subseteq Stuck \cup {x}
      BY <2>2, <2>4, NewlyStuck
    <2> QED
      BY <2>3, <2>5
  <1> QED
    BY <1>1, <1>2

LEMMA StuckStayFew ==
    ASSUME MarketInv, RecordedOnce, GrantInv, StuckFew, [Next]_vars
    PROVE  StuckFew'
  <1>1. CASE UNCHANGED vars
    BY <1>1 DEF vars, market, checkout, StuckFew, Stuck, Ungranted, PurchasesOf, MayBeTaken,
                HasEntitlement, Type
  <1>2. IsFiniteSet(Stuck) /\ Cardinality(Stuck) \in Nat
    BY FS_CardinalityType DEF StuckFew
  <1>3. CASE Next /\ Stuck' \subseteq Stuck /\ faults' >= faults
    <2>1. /\ IsFiniteSet(Stuck') /\ Cardinality(Stuck') \in Nat
          /\ Cardinality(Stuck') <= Cardinality(Stuck)
      BY <1>2, <1>3, FS_Subset, FS_CardinalityType
    <2> QED
      BY <1>2, <1>3, <2>1, FaultsGrow DEF StuckFew
  <1>4. ASSUME Next, NEW x, Stuck' \subseteq Stuck \cup {x}, faults' = faults + 1
        PROVE  StuckFew'
    <2>1. /\ IsFiniteSet(Stuck \cup {x}) /\ Cardinality(Stuck \cup {x}) \in Nat
          /\ Cardinality(Stuck \cup {x}) <= Cardinality(Stuck) + 1
      BY <1>2, FS_AddElement
    <2>2. /\ IsFiniteSet(Stuck') /\ Cardinality(Stuck') \in Nat
          /\ Cardinality(Stuck') <= Cardinality(Stuck \cup {x})
      BY <1>4, <2>1, FS_Subset, FS_CardinalityType
    <2> QED
      BY <1>2, <1>4, <2>1, <2>2, FaultsGrow DEF StuckFew
  <1> QED
    BY <1>1, <1>3, <1>4, StuckStep

LEMMA UngrantedAreFew ==
    ASSUME MarketInv, GrantInv, StuckFew
    PROVE  UngrantedComeFromFailures
  <1>1. {s \in acked : Ungranted(s)} \subseteq Stuck
    BY DEF GrantInv, AckedOK, Stuck, Fulfilling, MarketInv, TypeOK
  <1>2. /\ Cardinality(Stuck) \in Nat
        /\ Cardinality({s \in acked : Ungranted(s)}) <= Cardinality(Stuck)
        /\ Cardinality({s \in acked : Ungranted(s)}) \in Nat
    BY <1>1, FS_Subset, FS_CardinalityType DEF StuckFew
  <1>3. faults \in Nat
    BY DEF MarketInv, TypeOK, TablesTypeOK
  <1> QED
    BY <1>2, <1>3 DEF StuckFew, UngrantedComeFromFailures

(* A redelivery finds the purchase recorded and answers 200, whether or    *)
(* not it was granted (stripe_webhook.rs:158-172).  Those it so gives up   *)
(* are one for each failure at most, and what has been granted is never    *)
(* taken away by another grant, a renewal or the end of a subscription,    *)
(* unless the buyer has a canceled one of the same type                    *)
(* (market_fulfillment.rs:70-71) - as long as deliveries of one event come *)
(* in turn and no two processes are between reading and writing one user's *)
(* permissions.                                                            *)
THEOREM UngrantedAreFailures ==
    Spec /\ []DeliveriesDontOverlap /\ []GrantsDontOverlap => []UngrantedComeFromFailures
  <1>1. Init => RecordedOnce /\ GrantInv /\ StuckFew
    <2> SUFFICES ASSUME Init
                 PROVE  RecordedOnce /\ GrantInv /\ StuckFew
      OBVIOUS
    <2>1. /\ purchases = <<>> /\ acked = {} /\ faults = 0
          /\ \A h \in Hooks : hook[h].pc = "idle"
          /\ job.pc = "asleep" /\ DOMAIN batch = {}
      BY NoRowsTyped, AsleepTyped
         DEF Init, ProcessesInit, CheckoutInit, IdleHook, Renewal!RenewalInit
    <2>2. RecordedOnce
      BY <2>1 DEF RecordedOnce, Buying
    <2>3. GrantInv
      BY <2>1 DEF GrantInv, HookGrants, AckedOK, JobGrants, Fulfilling, OverLapsed
    <2>4. Stuck = {}
      BY <2>1 DEF Stuck, Ungranted, PurchasesOf
    <2> QED
      BY <2>1, <2>2, <2>3, <2>4, FS_EmptySet DEF StuckFew
  <1>2. MarketInv /\ DeliveriesDontOverlap /\ RecordedOnce /\ [Next]_vars => RecordedOnce'
    BY RecordingOnce
  <1>3. MarketInv /\ GrantInv /\ DeliveriesDontOverlap /\ GrantsDontOverlap /\ [Next]_vars
            => GrantInv'
    BY GrantsStay
  <1>4. MarketInv /\ RecordedOnce /\ GrantInv /\ StuckFew /\ [Next]_vars => StuckFew'
    BY StuckStayFew
  <1>5. MarketInv /\ GrantInv /\ StuckFew => UngrantedComeFromFailures
    BY UngrantedAreFew
  <1> QED
    BY <1>1, <1>2, <1>3, <1>4, <1>5, MemoryStaysTrue, PTL DEF Spec

-----------------------------------------------------------------------------
\* The orders of Stripe's sessions and the subscriptions, as the book takes them.
OrdersNow == [s \in Sessions |-> OrderOf(s)]
ServedNow == [i \in DOMAIN subs |-> ServedBy(i)]

(* A thread that is about to record has a subscription of its own, of the session's buyer, *)
(* on which nothing is booked.                                                             *)
ThreadsBook ==
    /\ \A h \in Hooks : hook[h].pc = "purchase" =>
        subs[hook[h].sub].buyer = SessionOf(h).buyer /\ OrdersOf(hook[h].sub) = {}
    /\ \A g, h \in Hooks :
        hook[g].pc = "purchase" /\ hook[h].pc = "purchase" /\ hook[g].sub = hook[h].sub => g = h

(* What is booked on a subscription changes when a thread records a purchase of it. *)
LEMMA OrdersChange ==
    ASSUME MarketInv, Next, NEW i
    PROVE  \/ OrdersOf(i)' = OrdersOf(i)
           \/ \E h \in Hooks : /\ InsertPurchase(h) /\ hook[h].sub = i
                               /\ OrdersOf(i)' = OrdersOf(i) \cup {hook[h].session}
  <1>1. \A k \in DOMAIN purchases : k \in DOMAIN purchases' /\ purchases'[k] = purchases[k]
    BY RowsAreKept DEF Keeps, PurchasesKeep
  <1>2. CASE purchases' = purchases
    BY <1>2 DEF OrdersOf, PurchasesOf
  <1>3. CASE purchases' # purchases
    <2>1. PICK n : n = Len(purchases) + 1
      OBVIOUS
    <2>2. /\ DOMAIN purchases' = DOMAIN purchases \cup {n}
          /\ \/ \E h \in Hooks : /\ InsertPurchase(h) /\ purchases'[n].session = hook[h].session
                                 /\ hook[h].session \in Sessions /\ purchases'[n].sub = hook[h].sub
             \/ purchases'[n].session = None
      BY <1>3, <2>1, AddedPurchase
    <2> QED
      BY <1>1, <2>2, NoneIsNoSession DEF OrdersOf, PurchasesOf
  <1> QED
    BY <1>2, <1>3

(* What is inserted for a new subscription, and by whom. *)
LEMMA SubscriptionOf ==
    ASSUME MarketInv, Next, NEW h \in Hooks, InsertSubscription(h), NEW n, n = Len(subs) + 1
    PROVE  /\ hook[h].pc = "subscribe" /\ hook'[h].pc = "purchase" /\ hook'[h].sub = n
           /\ hook'[h].session = hook[h].session /\ UNCHANGED <<session, purchases>>
           /\ DOMAIN subs' = DOMAIN subs \cup {n} /\ n \notin DOMAIN subs
           /\ \A i \in DOMAIN subs : subs'[i] = subs[i]
           /\ subs'[n].buyer = SessionOf(h).buyer /\ subs'[n].product = SessionOf(h).product
           /\ OrdersOf(n)' = {}
  <1>1. hook \in [Hooks -> HookState] /\ subs \in Seq(Subscription)
        /\ DOMAIN subs = 1..Len(subs) /\ Len(subs) \in Nat
    BY TypedTables DEF MarketInv, TypeOK, TablesTypeOK
  <1>2. /\ hook[h].pc = "subscribe" /\ hook'[h].pc = "purchase" /\ hook'[h].sub = n
        /\ hook'[h].session = hook[h].session /\ UNCHANGED <<session, purchases>>
    BY <1>1 DEF InsertSubscription, At, HookState
  <1>3. PICK r : /\ subs' = Append(subs, r)
                 /\ r.buyer = SessionOf(h).buyer /\ r.product = SessionOf(h).product
    BY DEF InsertSubscription
  <1>4. /\ DOMAIN subs' = DOMAIN subs \cup {n} /\ n \notin DOMAIN subs
        /\ \A i \in DOMAIN subs : subs'[i] = subs[i]
        /\ subs'[n] = r
    BY <1>1, <1>3
  <1>5. OrdersOf(n)' = {}
    BY <1>2, <1>4 DEF OrdersOf, PurchasesOf, MarketInv, PurchasesOK
  <1> QED
    BY <1>2, <1>3, <1>4, <1>5

LEMMA ThreadsStillBook ==
    ASSUME MarketInv, ThreadsBook, [Next]_vars
    PROVE  ThreadsBook'
  <1>1. CASE UNCHANGED vars
    BY <1>1 DEF vars, market, checkout, ThreadsBook, SessionOf, OrdersOf, PurchasesOf
  <1> SUFFICES ASSUME Next
               PROVE  ThreadsBook'
    BY <1>1
  <1>2. hook \in [Hooks -> HookState] /\ Keeps
    BY RowsAreKept DEF MarketInv, TypeOK
  <1>3. ASSUME NEW h \in Hooks, hook'[h].pc = "purchase"
        PROVE  InsertSubscription(h) \/ (hook'[h] = hook[h] /\ ~InsertPurchase(h))
    <2>1. CASE \E s \in Sessions : Deliver(h, s)
      BY <1>2, <1>3, <2>1 DEF Deliver, IdleHook
    <2>2. CASE CheckProcessed(h) \/ LoadProduct(h)
      BY <1>2, <1>3, <2>2 DEF CheckProcessed, LoadProduct, Answer, GoTo, IdleHook, HookState
    <2>3. CASE InsertPurchase(h) \/ InsertPayment(h) \/ CountSale(h)
      BY <1>2, <1>3, <2>3 DEF InsertPurchase, InsertPayment, CountSale, GoTo, HookState
    <2>4. CASE Fulfil(h) \/ GrantPermissions(h) \/ FailDelivery(h)
      BY <1>2, <1>3, <2>4 DEF Fulfil, GrantPermissions, FailDelivery, Answer, IdleHook, HookState
    <2> QED
      BY <2>1, <2>2, <2>3, <2>4, ThreadSteps DEF HandlerStep
  <1>4. ASSUME NEW h \in Hooks, hook[h].pc = "purchase"
        PROVE  hook[h].sub \in DOMAIN subs
    BY <1>4, HookTyped DEF HookOK
  <1>5. ASSUME NEW h \in Hooks, hook'[h].pc = "purchase"
        PROVE  subs'[hook'[h].sub].buyer = SessionOf(h)'.buyer /\ OrdersOf(hook[h].sub)' = {}
    <2>1. PICK i : i = hook'[h].sub
      OBVIOUS
    <2>2. CASE InsertSubscription(h)
      <3>1. /\ subs'[i].buyer = SessionOf(h).buyer /\ OrdersOf(i)' = {}
            /\ hook'[h].session = hook[h].session /\ session' = session
        BY <2>1, <2>2, SubscriptionOf
      <3> QED
        BY <2>1, <3>1 DEF SessionOf, OrdersOf
    <2>3. CASE hook'[h] = hook[h] /\ ~InsertPurchase(h)
      <3>1. hook[h].pc = "purchase" /\ i = hook[h].sub /\ i \in DOMAIN subs
        BY <1>4, <1>5, <2>1, <2>3
      <3>2. subs'[i].buyer = subs[i].buyer
        BY <1>2, <3>1 DEF Keeps, SubsKeep, Same
      <3>3. SessionOf(h)' = SessionOf(h)
        BY <1>2, <2>3, <3>1, HookTyped DEF HookOK, SessionOf, Keeps, SessionsKeep
      <3>4. OrdersOf(i) = {}
        BY <3>1 DEF ThreadsBook
      <3>5. OrdersOf(i)' = {}
        <4>1. ASSUME NEW g \in Hooks, InsertPurchase(g), hook[g].sub = i
              PROVE  FALSE
          BY <2>3, <3>1, <4>1 DEF InsertPurchase, At, ThreadsBook
        <4> QED
          BY <3>4, <4>1, OrdersChange
      <3> QED
        BY <2>1, <3>1, <3>2, <3>3, <3>5 DEF ThreadsBook, OrdersOf
    <2> QED
      BY <1>3, <1>5, <2>2, <2>3
  <1>6. ASSUME NEW g \in Hooks, NEW h \in Hooks, hook'[g].pc = "purchase",
               hook'[h].pc = "purchase", hook'[g].sub = hook'[h].sub
        PROVE  g = h
    <2>1. PICK n : n = Len(subs) + 1
      OBVIOUS
    <2>2. ASSUME NEW k \in Hooks, NEW l \in Hooks, InsertSubscription(k), InsertSubscription(l)
          PROVE  k = l
      BY <1>2, <2>2 DEF InsertSubscription, At, HookState
    <2>3. ASSUME NEW k \in Hooks, InsertSubscription(k)
          PROVE  hook'[k].sub \notin DOMAIN subs
      BY <2>1, <2>3, SubscriptionOf
    <2> QED
      BY <1>3, <1>4, <1>6, <2>2, <2>3 DEF ThreadsBook
  <1> QED
    BY <1>5, <1>6 DEF ThreadsBook

(* Only ordering and paying change a session. *)
LEMMA WhoWritesSessions ==
    ASSUME Next
    PROVE  \/ session' = session
           \/ \E u \in Users, p \in Products : MakeMarketPurchase(u, p)
           \/ \E s \in Sessions : Pay(s)
  <1>1. CASE CheckoutStep
    <2>1. ASSUME NEW h \in Hooks, \/ \E s \in Sessions : Deliver(h, s)
                                  \/ HandlerStep(h) \/ FailDelivery(h)
          PROVE  session' = session
      BY <2>1 DEF Deliver, HandlerStep, FailDelivery, CheckProcessed, LoadProduct,
                  InsertSubscription, InsertPurchase, InsertPayment, CountSale, Fulfil,
                  GrantPermissions, market
    <2> QED
      BY <1>1, <2>1 DEF CheckoutStep, CheckoutNext
  <1>2. CASE AccountStep \/ RenewalStep
    BY <1>2, AccountWriters, RenewalWriters
  <1> QED
    BY <1>1, <1>2 DEF Next

LEMMA OrdersTyped ==
    ASSUME MarketInv, NEW s \in Sessions
    PROVE  /\ OrdersNow[s] = OrderOf(s)
           /\ session[s] = NoSession => OrderOf(s) = Book!New
           /\ OrderOf(s) = [status |-> session[s].status, buyer |-> session[s].buyer,
                            product |-> session[s].product]
  BY DEF OrdersNow, OrderOf, Book!New, NoSession

(* What a subscription is and who owns it stays. *)
LEMMA ServedStays ==
    ASSUME MarketInv, Next, NEW i \in DOMAIN subs, OrdersOf(i)' = OrdersOf(i)
    PROVE  ServedBy(i)' = ServedBy(i)
  <1>1. subs'[i].buyer = subs[i].buyer /\ subs'[i].product = subs[i].product
    BY RowsAreKept DEF Keeps, SubsKeep, Same
  <1> QED
    BY <1>1 DEF ServedBy

(* An order is opened and paid while nothing is recorded. *)
LEMMA PlacesOrPays ==
    ASSUME MarketInv, NEW s \in Sessions,
           \/ \E u \in Users, p \in Products : MakeMarketPurchase(u, p)
           \/ Pay(s)
    PROVE  \E t \in Sessions : Book!Place(t) \/ Book!Pay(t)
  <1>1. session \in [Sessions -> [status : {"new", "open", "paid"}, buyer : Users \cup {None},
                                   product : Products \cup {None}, terms : Terms \cup {None}]]
    BY DEF MarketInv, TypeOK, TablesTypeOK
  <1>2. ASSUME UNCHANGED <<subs, purchases>>
        PROVE  ServedNow' = ServedNow
    BY <1>2 DEF ServedNow, ServedBy, OrdersOf, PurchasesOf
  <1>3. ASSUME NEW u \in Users, NEW p \in Products, MakeMarketPurchase(u, p)
        PROVE  \E t \in Sessions : Book!Place(t)
    <2>1. PICK t \in Sessions :
            /\ session[t] = NoSession
            /\ session' = [session EXCEPT ![t] = [status |-> "open", buyer |-> u,
                                product |-> p, terms |-> product[p].terms]]
      BY <1>3 DEF MakeMarketPurchase
    <2>2. UNCHANGED <<subs, purchases>>
      BY <1>3 DEF MakeMarketPurchase, tables
    <2>3. OrderOf(t)' = [status |-> "open", buyer |-> u, product |-> p]
      BY <1>1, <2>1 DEF OrderOf
    <2>4. \A r \in Sessions \ {t} : OrderOf(r)' = OrderOf(r)
      BY <1>1, <2>1 DEF OrderOf
    <2>5. OrdersNow' = [OrdersNow EXCEPT ![t] = [status |-> "open", buyer |-> u, product |-> p]]
      BY <2>3, <2>4 DEF OrdersNow
    <2>6. OrdersNow[t] = Book!New
      BY <2>1, OrdersTyped
    <2> QED
      BY <1>2, <2>2, <2>5, <2>6 DEF Book!Place, OrdersNow, ServedNow
  <1>4. ASSUME Pay(s)
        PROVE  Book!Pay(s)
    <2>1. /\ session[s].status = "open" /\ session' = [session EXCEPT ![s].status = "paid"]
          /\ UNCHANGED <<subs, purchases>>
      BY <1>4 DEF Pay, tables
    <2>2. OrderOf(s)' = [OrderOf(s) EXCEPT !.status = "paid"]
      BY <1>1, <2>1 DEF OrderOf
    <2>3. \A r \in Sessions \ {s} : OrderOf(r)' = OrderOf(r)
      BY <1>1, <2>1 DEF OrderOf
    <2>4. OrdersNow' = [OrdersNow EXCEPT ![s].status = "paid"]
      BY <2>2, <2>3 DEF OrdersNow
    <2>5. OrdersNow[s].status = "open"
      BY <2>1 DEF OrdersNow, OrderOf
    <2> QED
      BY <1>2, <2>1, <2>4, <2>5 DEF Book!Pay, OrdersNow, ServedNow
  <1> QED
    BY <1>3, <1>4

(* A thread past the check has a paid session that is booked nowhere. *)
LEMMA NotBookedYet ==
    ASSUME MarketInv, RecordedOnce, NEW h \in Hooks, hook[h].pc \in {"subscribe", "purchase"},
           NEW s, s = hook[h].session
    PROVE  s \in Sessions /\ Book!ToBeBooked(s)
  <1>1. s \in Sessions /\ session[s].status = "paid"
    BY HookTyped DEF HookOK
  <1>2. \A k \in DOMAIN purchases : purchases[k].session # s
    BY DEF RecordedOnce, Buying
  <1>3. \A i \in DOMAIN subs : s \notin OrdersOf(i)
    BY <1>2 DEF OrdersOf, PurchasesOf
  <1> QED
    BY <1>1, <1>3 DEF Book!ToBeBooked, OrderOf, ServedBy

(* A thread opens a subscription for its session. *)
LEMMA SubscribesOrder ==
    ASSUME MarketInv, RecordedOnce, Next, NEW h \in Hooks, InsertSubscription(h),
           NEW s, s = hook[h].session
    PROVE  Book!Subscribe(s)
  <1>1. PICK n : n = Len(subs) + 1
    OBVIOUS
  <1>2. /\ hook[h].pc = "subscribe" /\ UNCHANGED <<session, purchases>>
        /\ DOMAIN subs' = DOMAIN subs \cup {n} /\ n \notin DOMAIN subs
        /\ subs'[n].buyer = session[s].buyer /\ subs'[n].product = session[s].product
        /\ OrdersOf(n)' = {}
    BY <1>1, SubscriptionOf DEF SessionOf
  <1>3. s \in Sessions /\ Book!ToBeBooked(s)
    BY <1>2, NotBookedYet
  <1>4. PICK a : a = [buyer |-> session[s].buyer, product |-> session[s].product, orders |-> {}]
    OBVIOUS
  <1>5. ServedBy(n)' = a
    BY <1>2, <1>4 DEF ServedBy
  <1>6. \A k \in DOMAIN subs : ServedBy(k)' = ServedBy(k)
    <2>1. \A k : OrdersOf(k)' = OrdersOf(k)
      BY <1>2 DEF OrdersOf, PurchasesOf
    <2> QED
      BY <2>1, ServedStays
  <1>7. DOMAIN subs = 1..Len(subs) /\ Len(subs) \in Nat
    BY TypedTables DEF MarketInv
  <1>8. PICK all : all = {ServedBy(k) : k \in DOMAIN subs} \cup {a}
    OBVIOUS
  <1>9. ServedNow \in Seq(all) /\ a \in all /\ Len(ServedNow) = Len(subs)
    BY <1>7, <1>8 DEF ServedNow
  <1>10. /\ Append(ServedNow, a) \in Seq(all) /\ Len(Append(ServedNow, a)) = n
         /\ Append(ServedNow, a)[n] = a
         /\ \A k \in 1..Len(subs) : Append(ServedNow, a)[k] = ServedNow[k]
    BY <1>1, <1>9, AppendProperties
  <1>11. ServedNow' = [k \in 1..n |-> IF k <= Len(subs) THEN ServedNow[k] ELSE a]
    BY <1>1, <1>2, <1>5, <1>6, <1>7 DEF ServedNow
  <1>12. ServedNow' = Append(ServedNow, a)
    <2>1. \A k \in 1..Len(subs) : ServedNow[k] \in all
      BY <1>7, <1>9
    <2>2. ServedNow' \in Seq(all) /\ Len(ServedNow') = n
      BY <1>1, <1>7, <1>9, <1>11, <2>1
    <2>3. \A k \in 1..Len(ServedNow') : ServedNow'[k] = Append(ServedNow, a)[k]
      BY <1>1, <1>7, <1>10, <1>11, <2>2
    <2> QED
      BY <1>10, <2>2, <2>3, SeqEqual
  <1>13. OrdersNow' = OrdersNow
    BY <1>2 DEF OrdersNow, OrderOf
  <1>14. Book!Subscribed(s, {}) = a
    BY <1>3, <1>4 DEF Book!Subscribed, OrderOf
  <1> QED
    BY <1>3, <1>12, <1>13, <1>14 DEF Book!Subscribe, ServedNow, OrdersNow

(* A thread records the purchase on the subscription it opened. *)
LEMMA BooksOrder ==
    ASSUME MarketInv, RecordedOnce, ThreadsBook, Next, NEW h \in Hooks, InsertPurchase(h),
           NEW s, s = hook[h].session, NEW i, i = hook[h].sub
    PROVE  i \in DOMAIN subs /\ Book!Book(s, i)
  <1>1. /\ hook \in [Hooks -> HookState] /\ hook[h].pc = "purchase"
        /\ UNCHANGED <<subs, session>>
    BY DEF MarketInv, TypeOK, InsertPurchase, At
  <1>2. s \in Sessions /\ Book!ToBeBooked(s)
    BY <1>1, NotBookedYet
  <1>3. i \in DOMAIN subs /\ subs[i].product = session[s].product
    BY <1>1, HookTyped DEF HookOK
  <1>4. subs[i].buyer = session[s].buyer /\ OrdersOf(i) = {}
    BY <1>1 DEF ThreadsBook, SessionOf
  <1>5. ASSUME NEW g \in Hooks, InsertPurchase(g)
        PROVE  g = h
    BY <1>1, <1>5 DEF InsertPurchase, At, HookState
  <1>6. \A k \in DOMAIN subs \ {i} : OrdersOf(k)' = OrdersOf(k)
    BY <1>5, OrdersChange
  <1>7. OrdersOf(i)' = {s}
    <2>1. PICK n : n = Len(purchases) + 1
      OBVIOUS
    <2>2. purchases \in Seq(Purchase)
      BY DEF MarketInv, TypeOK, TablesTypeOK
    <2>3. n \in DOMAIN purchases' /\ purchases'[n].session = s /\ purchases'[n].sub = i
      BY <2>1, <2>2 DEF InsertPurchase
    <2>4. s \in OrdersOf(i)'
      BY <1>2, <2>3 DEF OrdersOf, PurchasesOf
    <2> QED
      BY <1>4, <1>5, <2>4, OrdersChange
  <1>8. PICK b : b = [buyer |-> session[s].buyer, product |-> session[s].product, orders |-> {s}]
    OBVIOUS
  <1>9. ServedBy(i)' = b
    BY <1>1, <1>3, <1>4, <1>7, <1>8 DEF ServedBy
  <1>10. \A k \in DOMAIN subs \ {i} : ServedBy(k)' = ServedBy(k)
    BY <1>6, ServedStays
  <1>11. ServedNow' = [ServedNow EXCEPT ![i] = b]
    BY <1>1, <1>3, <1>9, <1>10 DEF ServedNow
  <1>12. OrdersNow' = OrdersNow
    BY <1>1 DEF OrdersNow, OrderOf
  <1>13. Book!Subscribed(s, {s}) = b
    BY <1>2, <1>8 DEF Book!Subscribed, OrderOf
  <1>14. ServedNow[i] = Book!Subscribed(s, {})
    BY <1>2, <1>3, <1>4 DEF Book!Subscribed, OrderOf, ServedNow, ServedBy
  <1> QED
    BY <1>2, <1>3, <1>11, <1>12, <1>13, <1>14 DEF Book!Book, ServedNow, OrdersNow

(* Only threads open subscriptions. *)
LEMMA SameSubscriptions ==
    ASSUME MarketInv, Next, \A h \in Hooks : ~InsertSubscription(h)
    PROVE  DOMAIN subs' = DOMAIN subs
  <1>1. subs \in Seq(Subscription)
    BY DEF MarketInv, TypeOK, TablesTypeOK
  <1>2. ASSUME NEW j, NEW r, subs' = [subs EXCEPT ![j] = r]
        PROVE  DOMAIN subs' = DOMAIN subs
    BY <1>1, <1>2
  <1> QED
    BY <1>2, Writers DEF SubsWriters, SetCanceled, WriteSubscription,
       Renewal!AdvanceRenewal, Renewal!EndSubscription, Renewal!StampTerminated

LEMMA StepOfTheBook ==
    ASSUME MarketInv, RecordedOnce, ThreadsBook, [Next]_vars
    PROVE  [Book!Next]_<<OrdersNow, ServedNow>>
  <1>1. CASE UNCHANGED vars
    BY <1>1 DEF vars, market, OrdersNow, OrderOf, ServedNow, ServedBy, OrdersOf, PurchasesOf
  <1> SUFFICES ASSUME Next
               PROVE  [Book!Next]_<<OrdersNow, ServedNow>>
    BY <1>1
  <1>2. CASE \/ \E u \in Users, p \in Products : MakeMarketPurchase(u, p)
             \/ \E s \in Sessions : Pay(s)
    <2>1. \E t \in Sessions : Book!Place(t) \/ Book!Pay(t)
      BY <1>2, PlacesOrPays DEF MakeMarketPurchase
    <2> QED
      BY <2>1 DEF Book!Next
  <1>3. ASSUME NEW h \in Hooks, InsertSubscription(h)
        PROVE  Book!Next
    <2>1. PICK s : s = hook[h].session
      OBVIOUS
    <2>2. s \in Sessions
      BY <1>3, <2>1, HookTyped DEF HookOK, InsertSubscription, At
    <2> QED
      BY <1>3, <2>1, <2>2, SubscribesOrder DEF Book!Next
  <1>4. ASSUME NEW h \in Hooks, InsertPurchase(h)
        PROVE  Book!Next
    <2>1. PICK s : s = hook[h].session
      OBVIOUS
    <2>2. PICK i : i = hook[h].sub
      OBVIOUS
    <2>3. s \in Sessions
      BY <1>4, <2>1, HookTyped DEF HookOK, InsertPurchase, At
    <2>4. i \in DOMAIN ServedNow /\ Book!Book(s, i)
      BY <1>4, <2>1, <2>2, BooksOrder DEF ServedNow
    <2> QED
      BY <2>3, <2>4 DEF Book!Next, ServedNow
  <1>5. CASE /\ session' = session
             /\ \A h \in Hooks : ~InsertSubscription(h) /\ ~InsertPurchase(h)
    <2>1. \A k : OrdersOf(k)' = OrdersOf(k)
      BY <1>5, OrdersChange
    <2>2. DOMAIN subs' = DOMAIN subs
      BY <1>5, SameSubscriptions
    <2>3. \A k \in DOMAIN subs : ServedBy(k)' = ServedBy(k)
      BY <2>1, ServedStays
    <2>4. ServedNow' = ServedNow
      BY <2>2, <2>3 DEF ServedNow
    <2>5. OrdersNow' = OrdersNow
      BY <1>5 DEF OrdersNow, OrderOf
    <2> QED
      BY <2>4, <2>5
  <1> QED
    BY <1>2, <1>3, <1>4, <1>5, WhoWritesSessions

(* Through deliveries that fail, crash or come again, through renewals,    *)
(* cancellations and edits, what is recorded is what was ordered and paid: *)
(* a paid session is recorded once, for its buyer and its product, on a    *)
(* subscription of its own, and no session is recorded that was not paid   *)
(* (stripe_webhook.rs:158-273) - while deliveries of one event come in     *)
(* turn.                                                                   *)
THEOREM OrdersAreBooked == Spec /\ []DeliveriesDontOverlap => BooksOrders
  <1>1. Init => Book!Init
    <2> SUFFICES ASSUME Init
                 PROVE  Book!Init
      OBVIOUS
    <2>1. subs = <<>> /\ session = [s \in Sessions |-> NoSession]
      BY DEF Init, ProcessesInit, CheckoutInit
    <2>2. \A s \in Sessions : OrderOf(s) = Book!New
      BY <2>1 DEF OrderOf, NoSession, Book!New
    <2> QED
      BY <2>1, <2>2 DEF Book!Init
  <1>2. Init => RecordedOnce /\ ThreadsBook
    <2>1. ASSUME Init
          PROVE  purchases = <<>> /\ \A h \in Hooks : hook[h].pc = "idle"
      BY <2>1 DEF Init, ProcessesInit, CheckoutInit, IdleHook
    <2> QED
      BY <2>1 DEF RecordedOnce, Buying, ThreadsBook
  <1>3. MarketInv /\ DeliveriesDontOverlap /\ RecordedOnce /\ [Next]_vars => RecordedOnce'
    BY RecordingOnce
  <1>4. MarketInv /\ ThreadsBook /\ [Next]_vars => ThreadsBook'
    BY ThreadsStillBook
  <1>5. MarketInv /\ RecordedOnce /\ ThreadsBook /\ [Next]_vars
        => [Book!Next]_<<[s \in Sessions |-> OrderOf(s)], [i \in DOMAIN subs |-> ServedBy(i)]>>
    BY StepOfTheBook DEF OrdersNow, ServedNow
  <1> QED
    BY <1>1, <1>2, <1>3, <1>4, <1>5, MemoryStaysTrue, PTL DEF Spec, BooksOrders, Book!Spec

=============================================================================
