------------------------- MODULE MarketChargesProofs -------------------------
(***************************************************************************)
(* What holds of renewals and of the count of slots: what Stripe has       *)
(* charged, what is recorded of it, how long a subscription is served, and *)
(* what sold_count covers.                                                 *)
(*                                                                         *)
(* A charge is worked off in a few steps of the job, which may fail at     *)
(* each; the arguments follow the one row that the job has in hand, while  *)
(* handlers, cancellations and edits come between.                         *)
(***************************************************************************)
EXTENDS MarketplaceProofs, MarketSlots

\* The steps between a charge and the renews_at that it pays for.
PaidSteps == {"purchase", "payment", "advance"}

(* How the job comes to these steps and leaves them. *)
JobAside == UNCHANGED <<job, batch>> \/ (job.pc \notin PaidSteps /\ job'.pc \notin PaidSteps)
JobAdvances(from, to) == job.pc = from /\ job'.pc = to /\ job'.id = job.id /\ batch' = batch
JobFailsPaid == job.pc \in PaidSteps /\ job'.pc \notin PaidSteps /\ faults' = faults + 1

LEMMA GoToIs ==
    ASSUME MarketInv, NEW pc, Renewal!GoTo(pc)
    PROVE  job'.pc = pc /\ job'.id = job.id /\ job'.type = job.type
  BY JobTyped DEF Renewal!GoTo, JobState

LEMMA JobPaths ==
    ASSUME MarketInv, Next
    PROVE  \/ JobAside /\ charged' = charged
           \/ Renewal!Charge /\ JobAdvances("charge", "purchase")
           \/ Renewal!ChargeUnanswered /\ JobAdvances("charge", "end") /\ faults' = faults + 1
           \/ Renewal!RecordPurchase /\ JobAdvances("purchase", "payment") /\ charged' = charged
           \/ Renewal!RecordPayment /\ JobAdvances("payment", "advance") /\ charged' = charged
           \/ Renewal!AdvanceRenewal /\ JobAdvances("advance", "fulfil") /\ charged' = charged
           \/ JobFailsPaid /\ charged' = charged
  <1> USE DEF PaidSteps, JobAside, Renewal!At
  <1>1. CASE CheckoutStep \/ AccountStep
    BY <1>1, CheckoutWriters, AccountWriters DEF renewal
  <1>2. CASE Renewal!Charge
    BY <1>2, GoToIs DEF Renewal!Charge, JobAdvances
  <1>3. CASE Renewal!ChargeUnanswered
    BY <1>3, GoToIs DEF Renewal!ChargeUnanswered, Renewal!Fault, JobAdvances
  <1>4. CASE Renewal!RecordPurchase
    BY <1>4, JobTyped DEF Renewal!RecordPurchase, JobAdvances, JobState
  <1>5. CASE Renewal!RecordPayment
    BY <1>5, GoToIs DEF Renewal!RecordPayment, JobAdvances
  <1>6. CASE Renewal!AdvanceRenewal
    BY <1>6, GoToIs DEF Renewal!AdvanceRenewal, JobAdvances
  <1>7. CASE Renewal!FailRenewal
    BY <1>7, GoToIs DEF Renewal!FailRenewal, Renewal!Err, Renewal!Fault, JobFailsPaid
  <1>8. CASE Renewal!CrashJob
    BY <1>8, AsleepTyped DEF Renewal!CrashJob, Renewal!Fault, JobFailsPaid
  <1>9. CASE Renewal!Tick
    BY <1>9 DEF Renewal!Tick, Renewal!renewal
  <1>10. CASE Renewal!StartJob
    BY <1>10, StartedJobIs DEF Renewal!StartJob, Renewal!market
  <1>11. CASE Renewal!LoadDue \/ Renewal!LoadLapsed
    <2>1. PICK pc \in {"renew", "end all", "terminate"} : Renewal!GoTo(pc)
      BY <1>11 DEF Renewal!LoadDue, Renewal!LoadLapsed, Renewal!RowsWhere
    <2>2. charged' = charged /\ job.pc \in {"due", "lapsed"}
      BY <1>11 DEF Renewal!LoadDue, Renewal!LoadLapsed, Renewal!RowsWhere, Renewal!market
    <2> QED
      BY <2>1, <2>2, GoToIs
  <1>12. CASE Renewal!FailQuery
    BY <1>12, GoToIs DEF Renewal!FailQuery
  <1>13. CASE Renewal!NextDue
    <2>1. job'.pc \in {"lapsed", "charge", "end, all"}
      BY <1>13, GoToIs, JobTyped DEF Renewal!NextDue, JobState
    <2> QED
      BY <1>13, <2>1 DEF Renewal!NextDue, Renewal!market
  <1>14. CASE Renewal!NextLapsed
    <2>1. job'.pc \in {"revoke", "due", "asleep"}
      BY <1>14, JobTyped, AsleepTyped DEF Renewal!NextLapsed, JobState
    <2> QED
      BY <1>14, <2>1 DEF Renewal!NextLapsed, Renewal!market
  <1>15. CASE Renewal!Declined
    BY <1>15, GoToIs DEF Renewal!Declined, Renewal!market
  <1>16. CASE Renewal!Refulfil
    <2>1. job.pc = "fulfil" /\ charged' = charged
      BY <1>16 DEF Renewal!Refulfil
    <2>2. CASE Renewal!JobType = "PERMISSIONS_ACCESS"
      <3> DEFINE k == [job EXCEPT !.pc = "grant", !.perms = access[Renewal!Row.buyer].perms]
      <3>1. job' = k /\ k.pc = "grant"
        BY <1>16, <2>2, JobTyped DEF Renewal!Refulfil, JobState
      <3> HIDE DEF k
      <3> QED
        BY <2>1, <3>1
    <2>3. CASE Renewal!JobType # "PERMISSIONS_ACCESS"
      <3>1. Renewal!GoTo("renew")
        BY <1>16, <2>3 DEF Renewal!Refulfil, Renewal!Done
      <3> QED
        BY <2>1, <3>1, GoToIs
    <2> QED
      BY <2>2, <2>3
  <1>17. CASE Renewal!RegrantPermissions \/ Renewal!EndSubscription \/ Renewal!StampTerminated
              \/ Renewal!FailTermination
    <2>1. PICK pc \in {"renew", "end all", "terminate"} : Renewal!GoTo(pc)
      BY <1>17 DEF Renewal!RegrantPermissions, Renewal!EndSubscription,
         Renewal!StampTerminated, Renewal!FailTermination, Renewal!Done
    <2>2. charged' = charged /\ job.pc \in {"grant", "end", "end, all", "revoke", "take", "stamp"}
      BY <1>17 DEF Renewal!RegrantPermissions, Renewal!EndSubscription,
         Renewal!StampTerminated, Renewal!FailTermination
    <2> QED
      BY <2>1, <2>2, GoToIs
  <1>18. CASE Renewal!Revoke
    <2>1. job.pc = "revoke" /\ charged' = charged
      BY <1>18 DEF Renewal!Revoke
    <2>2. CASE Renewal!JobType = "PERMISSIONS_ACCESS"
      <3> DEFINE k == [job EXCEPT !.pc = "take", !.perms = access[Renewal!Row.buyer].perms]
      <3>1. job' = k /\ k.pc = "take"
        BY <1>18, <2>2, JobTyped DEF Renewal!Revoke, JobState
      <3> HIDE DEF k
      <3> QED
        BY <2>1, <3>1
    <2>3. CASE Renewal!JobType # "PERMISSIONS_ACCESS"
      <3>1. Renewal!GoTo("stamp")
        BY <1>18, <2>3 DEF Renewal!Revoke
      <3> QED
        BY <2>1, <3>1, GoToIs
    <2> QED
      BY <2>2, <2>3
  <1>19. CASE Renewal!TakePermissions
    BY <1>19, GoToIs DEF Renewal!TakePermissions
  <1> QED
    BY <1>1, <1>2, <1>3, <1>4, <1>5, <1>6, <1>7, <1>8, <1>9, <1>10, <1>11, <1>12, <1>13, <1>14,
       <1>15, <1>16, <1>17, <1>18, <1>19
       DEF Next, RenewalStep, Renewal!RenewalNext, Renewal!JobStep

LEMMA ChargedIs ==
    ASSUME MarketInv, Renewal!Charge \/ Renewal!ChargeUnanswered
    PROVE  /\ charged' = [charged EXCEPT ![job.id] = @ + 1]
           /\ job.id \in DOMAIN subs /\ job.id \in DOMAIN batch /\ job.pc = "charge"
           /\ UNCHANGED <<subs, purchases, batch, now>>
  BY JobTyped DEF Renewal!Charge, Renewal!ChargeUnanswered, Renewal!At, Renewal!tables, AtRow

-----------------------------------------------------------------------------
(* The charges of a subscription against its recorded renewals: at most the one under way *)
(* and one for each failure is not recorded, and none is recorded that was not made. *)
ChargesOK ==
    \A i \in 1..MaxSubs :
        LET recorded == Cardinality(RenewalsOf(i)) + Working(i, {"purchase"}) IN
        recorded <= charged[i] /\ charged[i] <= recorded + faults

LEMMA RenewalsFinite ==
    ASSUME MarketInv, NEW i
    PROVE  IsFiniteSet(RenewalsOf(i)) /\ Cardinality(RenewalsOf(i)) \in Nat
  <1>1. IsFiniteSet(DOMAIN purchases)
    <2>1. DOMAIN purchases = 1..Len(purchases) /\ Len(purchases) \in Nat
      BY TypedTables DEF MarketInv
    <2> QED
      BY <2>1, FS_Interval
  <1>2. RenewalsOf(i) \in SUBSET DOMAIN purchases
    BY DEF RenewalsOf
  <1> QED
    BY <1>1, <1>2, FS_Subset, FS_CardinalityType

(* Renewals are recorded by the job only. *)
LEMMA RenewalsRecorded ==
    ASSUME MarketInv, Next, NEW i
    PROVE  IF Renewal!RecordPurchase /\ job.id = i
           THEN Cardinality(RenewalsOf(i)') = Cardinality(RenewalsOf(i)) + 1
           ELSE RenewalsOf(i)' = RenewalsOf(i)
  <1>1. CASE purchases' = purchases
    <2>1. purchases \in Seq(Purchase)
      BY DEF MarketInv, TypeOK, TablesTypeOK
    <2>2. ~Renewal!RecordPurchase
      <3>1. ASSUME Renewal!RecordPurchase
            PROVE  Len(purchases') = Len(purchases) + 1
        <4>1. PICK r : purchases' = Append(purchases, r)
          BY <3>1 DEF Renewal!RecordPurchase
        <4> QED
          BY <2>1, <4>1
      <3>2. Len(purchases) \in Nat
        BY <2>1, LenProperties
      <3> QED
        BY <1>1, <3>1, <3>2
    <2> QED
      BY <1>1, <2>2 DEF RenewalsOf
  <1>2. CASE purchases' # purchases
    <2> DEFINE n == Len(purchases) + 1
    <2>1. /\ DOMAIN purchases' = DOMAIN purchases \cup {n} /\ n \notin DOMAIN purchases
          /\ \/ \E h \in Hooks : InsertPurchase(h) /\ purchases'[n].session \in Sessions
             \/ Renewal!RecordPurchase /\ purchases'[n].session = None /\ purchases'[n].sub = job.id
      BY <1>2, AddedPurchase
    <2>2. \A k \in DOMAIN purchases : purchases'[k] = purchases[k]
      BY <1>2, RowsAreKept DEF Keeps, PurchasesKeep
    <2> HIDE DEF n
    <2>3. CASE Renewal!RecordPurchase /\ purchases'[n].session = None /\ purchases'[n].sub = job.id
      <3>1. CASE job.id = i
        <4>1. RenewalsOf(i)' = RenewalsOf(i) \cup {n} /\ n \notin RenewalsOf(i)
          BY <2>1, <2>2, <2>3, <3>1 DEF RenewalsOf
        <4> QED
          BY <2>3, <3>1, <4>1, RenewalsFinite, FS_AddElement
      <3>2. CASE job.id # i
        BY <2>1, <2>2, <2>3, <3>2 DEF RenewalsOf
      <3> QED
        BY <3>1, <3>2
    <2>4. CASE \E h \in Hooks : InsertPurchase(h) /\ purchases'[n].session \in Sessions
      <3>1. RenewalsOf(i)' = RenewalsOf(i)
        BY <2>1, <2>2, <2>4, NoneIsNoSession DEF RenewalsOf
      <3>2. ASSUME NEW h \in Hooks, InsertPurchase(h), Renewal!RecordPurchase,
                   purchases'[n].session \in Sessions
            PROVE  FALSE
        <4>1. purchases \in Seq(Purchase)
          BY DEF MarketInv, TypeOK, TablesTypeOK
        <4>2. purchases'[n].session = None
          BY <3>2, <4>1 DEF Renewal!RecordPurchase, n
        <4> QED
          BY <3>2, <4>2, NoneIsNoSession
      <3> QED
        BY <2>4, <3>1, <3>2
    <2> QED
      BY <2>1, <2>3, <2>4
  <1> QED
    BY <1>1, <1>2

LEMMA ChargesStayOK ==
    ASSUME MarketInv, ChargesOK, [Next]_vars
    PROVE  ChargesOK'
  <1>1. CASE UNCHANGED vars
    BY <1>1 DEF vars, market, renewal, ChargesOK, RenewalsOf, Working
  <1>2. ASSUME Next, NEW i \in 1..MaxSubs
        PROVE  LET recorded == Cardinality(RenewalsOf(i)') + Working(i, {"purchase"})' IN
               recorded <= charged'[i] /\ charged'[i] <= recorded + faults'
    <2> DEFINE r == Cardinality(RenewalsOf(i))
    <2>1. r \in Nat /\ charged \in [1..MaxSubs -> Nat] /\ faults \in Nat
          /\ (faults' = faults \/ faults' = faults + 1)
      BY <1>2, RenewalsFinite, FaultsGrow DEF MarketInv, TypeOK, TablesTypeOK
    <2>2. /\ r + Working(i, {"purchase"}) <= charged[i]
          /\ charged[i] <= r + Working(i, {"purchase"}) + faults
      BY DEF ChargesOK
    <2>3. IF Renewal!RecordPurchase /\ job.id = i THEN Cardinality(RenewalsOf(i)') = r + 1
                                                  ELSE Cardinality(RenewalsOf(i)') = r
      BY <1>2, RenewalsRecorded
    <2> HIDE DEF r
    <2>4. CASE Renewal!RecordPurchase /\ JobAdvances("purchase", "payment") /\ charged' = charged
      BY <2>1, <2>2, <2>3, <2>4 DEF JobAdvances, Working
    <2>5. CASE ~Renewal!RecordPurchase
      <3>1. Cardinality(RenewalsOf(i)') = r
        BY <2>3, <2>5
      <3>2. CASE JobAside /\ charged' = charged
        BY <2>1, <2>2, <3>1, <3>2 DEF JobAside, PaidSteps, Working
      <3>3. CASE Renewal!Charge /\ JobAdvances("charge", "purchase")
        <4>1. charged'[i] = IF job.id = i THEN charged[i] + 1 ELSE charged[i]
          BY <2>1, <3>3, ChargedIs
        <4>2. Working(i, {"purchase"}) = 0
              /\ Working(i, {"purchase"})' = IF job.id = i THEN 1 ELSE 0
          BY <3>3 DEF JobAdvances, Working
        <4>3. faults' = faults
          BY <3>3 DEF Renewal!Charge
        <4> QED
          BY <2>1, <2>2, <3>1, <4>1, <4>2, <4>3
      <3>4. CASE Renewal!ChargeUnanswered /\ JobAdvances("charge", "end") /\ faults' = faults + 1
        <4>1. charged'[i] = charged[i] \/ charged'[i] = charged[i] + 1
          BY <2>1, <3>4, ChargedIs
        <4>2. Working(i, {"purchase"}) = 0 /\ Working(i, {"purchase"})' = 0
          BY <3>4 DEF JobAdvances, Working
        <4> QED
          BY <2>1, <2>2, <3>1, <3>4, <4>1, <4>2
      <3>5. CASE (JobAdvances("payment", "advance") \/ JobAdvances("advance", "fulfil"))
                 /\ charged' = charged
        BY <2>1, <2>2, <3>1, <3>5 DEF JobAdvances, Working
      <3>6. CASE JobFailsPaid /\ charged' = charged
        BY <2>1, <2>2, <3>1, <3>6 DEF JobFailsPaid, PaidSteps, Working
      <3> QED
        BY <1>2, <2>5, <3>2, <3>3, <3>4, <3>5, <3>6, JobPaths
    <2>6. CASE Renewal!RecordPurchase
          /\ ~(JobAdvances("purchase", "payment") /\ charged' = charged)
      BY <2>6, GoToIs, JobTyped DEF Renewal!RecordPurchase, JobAdvances, Renewal!At, JobState
    <2> QED
      BY <2>4, <2>5, <2>6 DEF r
  <1> QED
    BY <1>1, <1>2 DEF ChargesOK

(* Every charge that Stripe made is recorded as a purchase, but for the    *)
(* one the job is at and those lost to a failure, and nothing is recorded  *)
(* that was not charged, for any number of runs, crashes and lost answers  *)
(* (market_renewal.rs:80-124).                                             *)
THEOREM EveryChargeIsRecorded == Spec => []ChargesAreRecorded
  <1>1. Init => ChargesOK
    <2> SUFFICES ASSUME Init, NEW i \in 1..MaxSubs
                 PROVE  RenewalsOf(i) = {} /\ Working(i, {"purchase"}) = 0
                        /\ charged[i] = 0 /\ faults = 0
      BY FS_EmptySet DEF ChargesOK
    <2> QED
      BY AsleepTyped DEF Init, ProcessesInit, Renewal!RenewalInit, RenewalsOf, Working
  <1>2. MarketInv /\ ChargesOK /\ [Next]_vars => ChargesOK'
    BY ChargesStayOK
  <1>3. MarketInv /\ ChargesOK => ChargesAreRecorded
    <2> SUFFICES ASSUME MarketInv, ChargesOK, NEW i \in DOMAIN subs
                 PROVE  LET recorded == Cardinality(RenewalsOf(i)) IN
                        /\ recorded <= charged[i]
                        /\ charged[i] <= recorded + Working(i, {"purchase"}) + faults
      BY DEF ChargesAreRecorded
    <2>1. i \in 1..MaxSubs /\ Cardinality(RenewalsOf(i)) \in Nat /\ charged[i] \in Nat
      BY SubIds, RenewalsFinite DEF MarketInv, TypeOK, TablesTypeOK
    <2>2. Working(i, {"purchase"}) \in {0, 1}
      BY DEF Working
    <2> QED
      BY <2>1, <2>2 DEF ChargesOK
  <1> QED
    BY <1>1, <1>2, <1>3, MemoryStaysTrue, PTL DEF Spec

-----------------------------------------------------------------------------
(* What a step does to the times and the states of a subscription. *)
LEMMA SubStep ==
    ASSUME MarketInv, Next, NEW i \in DOMAIN subs
    PROVE  /\ subs[i] \in Subscription /\ i \in DOMAIN subs' /\ Same(subs'[i], subs[i])
           /\ \/ subs'[i].renews = subs[i].renews
              \/ /\ Renewal!AdvanceRenewal /\ job.id = i
                 /\ subs'[i].renews = batch[i].renews + PeriodOf(subs[i].product)
              \/ \E e \in Editors : /\ edit[e].pc = "notes" /\ edit[e].id = i
                                    /\ subs'[i].renews = edit[e].row.renews
           /\ \/ subs'[i].terminated = subs[i].terminated
              \/ Renewal!StampTerminated /\ job.id = i /\ subs'[i].renews = subs[i].renews
              \/ \E e \in Editors : /\ edit[e].pc = "notes" /\ edit[e].id = i
                                    /\ edit[e].row.terminated
  <1>1. subs \in Seq(Subscription) /\ subs[i] \in Subscription
    BY TypedTables DEF MarketInv, TypeOK, TablesTypeOK
  <1>2. i \in DOMAIN subs' /\ Same(subs'[i], subs[i])
    BY RowsAreKept DEF Keeps, SubsKeep
  <1> SUFFICES \/ subs'[i].renews = subs[i].renews /\ subs'[i].terminated = subs[i].terminated
               \/ /\ Renewal!AdvanceRenewal /\ job.id = i
                  /\ subs'[i].renews = batch[i].renews + PeriodOf(subs[i].product)
                  /\ subs'[i].terminated = subs[i].terminated
               \/ Renewal!StampTerminated /\ job.id = i /\ subs'[i].renews = subs[i].renews
               \/ \E e \in Editors :
                    /\ edit[e].pc = "notes" /\ edit[e].id = i
                    /\ subs'[i].renews = edit[e].row.renews
                    /\ subs'[i].terminated = subs[i].terminated \/ edit[e].row.terminated
    BY <1>1, <1>2
  <1>3. CASE subs'[i] = subs[i]
    BY <1>3
  <1>4. ASSUME NEW h \in Hooks, InsertSubscription(h)
        PROVE  subs'[i] = subs[i]
    BY <1>1, <1>4 DEF InsertSubscription
  <1>5. ASSUME NEW c \in Cancelers, SetCanceled(c)
        PROVE  subs'[i].renews = subs[i].renews /\ subs'[i].terminated = subs[i].terminated
    <2>1. subs' = [subs EXCEPT ![cancel[c].sub].canceled = TRUE]
      BY <1>5 DEF SetCanceled
    <2>2. subs'[i] = subs[i] \/ subs'[i] = [subs[i] EXCEPT !.canceled = TRUE]
      BY <1>1, <2>1
    <2> QED
      BY <1>1, <2>2 DEF Subscription
  <1>6. ASSUME NEW e \in Editors, WriteSubscription(e), subs'[i] # subs[i]
        PROVE  /\ edit[e].pc = "notes" /\ edit[e].id = i
               /\ subs'[i].renews = edit[e].row.renews
               /\ subs'[i].terminated = subs[i].terminated \/ edit[e].row.terminated
    <2>1. edit[e].row \in Subscription /\ edit[e].pc = "notes"
      BY <1>6, AccountTyped DEF WriteSubscription, NotesEdit
    <2>2. edit[e].id = i
      BY <1>1, <1>6 DEF WriteSubscription
    <2>3. subs'[i] = [edit[e].row EXCEPT !.notes = edit[e].request,
                        !.canceled = edit[e].row.canceled \/ subs[i].canceled,
                        !.terminated = edit[e].row.terminated \/ subs[i].terminated]
      BY <1>1, <1>6, <2>2 DEF WriteSubscription
    <2>4. subs'[i].renews = edit[e].row.renews
      BY <2>1, <2>3 DEF Subscription
    <2>5. subs'[i].terminated = (edit[e].row.terminated \/ subs[i].terminated)
      BY <2>1, <2>3 DEF Subscription
    <2>6. edit[e].row.terminated \in BOOLEAN /\ subs[i].terminated \in BOOLEAN
      BY <1>1, <2>1 DEF Subscription
    <2>7. subs'[i].terminated = subs[i].terminated \/ edit[e].row.terminated
      BY <2>5, <2>6, Zenon
    <2> QED
      BY <2>1, <2>2, <2>4, <2>7
  <1>7. CASE Renewal!AdvanceRenewal
    <2> DEFINE t == Advance(batch[job.id].renews, batch[job.id].product)
    <2>1. subs' = [subs EXCEPT ![job.id].renews = t] /\ job.pc = "advance"
      BY <1>7 DEF Renewal!AdvanceRenewal, Renewal!Row, Renewal!At, Renewal!Advance, Advance
    <2>2. batch[job.id].product = subs[job.id].product
      BY <2>1, JobTyped DEF AtRow, Same
    <2>3. t = batch[job.id].renews + PeriodOf(subs[job.id].product)
      BY <2>2 DEF Advance
    <2> HIDE DEF t
    <2>4. subs'[i] = IF i = job.id THEN [subs[i] EXCEPT !.renews = t] ELSE subs[i]
      BY <1>1, <2>1
    <2>5. CASE i = job.id
      <3>1. subs'[i].renews = t /\ subs'[i].terminated = subs[i].terminated
        BY <1>1, <2>4, <2>5 DEF Subscription
      <3> QED
        BY <1>7, <2>3, <2>5, <3>1
    <2> QED
      BY <2>4, <2>5
  <1>8. CASE Renewal!EndSubscription
    <2>1. subs' = subs \/ subs' = [subs EXCEPT ![job.id].canceled = TRUE]
      BY <1>8 DEF Renewal!EndSubscription
    <2>2. subs'[i] = subs[i] \/ subs'[i] = [subs[i] EXCEPT !.canceled = TRUE]
      BY <1>1, <2>1
    <2>3. subs'[i].renews = subs[i].renews /\ subs'[i].terminated = subs[i].terminated
      BY <1>1, <2>2 DEF Subscription
    <2> QED
      BY <2>3
  <1>9. CASE Renewal!StampTerminated
    <2>1. subs' = [subs EXCEPT ![job.id].terminated = TRUE]
      BY <1>9 DEF Renewal!StampTerminated
    <2>2. subs'[i] = IF i = job.id THEN [subs[i] EXCEPT !.terminated = TRUE] ELSE subs[i]
      BY <1>1, <2>1
    <2>3. subs'[i].renews = subs[i].renews
      BY <1>1, <2>2 DEF Subscription
    <2> QED
      BY <1>9, <2>2, <2>3
  <1>10. CASE \E e \in Editors : WriteSubscription(e)
    BY <1>3, <1>6, <1>10
  <1> QED
    BY <1>3, <1>4, <1>5, <1>7, <1>8, <1>9, <1>10, Writers DEF SubsWriters

(* A new subscription has its first period. *)
LEMMA NewSubscriptionIs ==
    ASSUME MarketInv, Next, NEW i \in DOMAIN subs' \ DOMAIN subs
    PROVE  LET s == subs'[i] IN
           /\ s \in Subscription /\ ~s.canceled /\ ~s.terminated /\ s.created = now
           /\ s.renews = IF PeriodOf(s.product) = 0 THEN None ELSE s.created + PeriodOf(s.product)
           /\ i \in 1..MaxSubs /\ UNCHANGED <<charged, faults, now, job, batch, account, product>>
           /\ DOMAIN subs' = DOMAIN subs \cup {i}
  <1>1. subs \in Seq(Subscription) /\ DOMAIN subs = 1..Len(subs) /\ Len(subs) \in Nat
    BY TypedTables DEF MarketInv, TypeOK, TablesTypeOK
  <1>2. subs' # subs
    OBVIOUS
  <1>3. PICK h \in Hooks : InsertSubscription(h)
    <2>1. CASE \E c \in Cancelers : SetCanceled(c)
      BY <1>1, <2>1 DEF SetCanceled
    <2>2. CASE \E e \in Editors : WriteSubscription(e)
      BY <1>1, <2>2 DEF WriteSubscription
    <2>3. CASE Renewal!AdvanceRenewal \/ Renewal!EndSubscription \/ Renewal!StampTerminated
      BY <1>1, <2>3 DEF Renewal!AdvanceRenewal, Renewal!EndSubscription, Renewal!StampTerminated
    <2> QED
      BY <1>2, <2>1, <2>2, <2>3, Writers DEF SubsWriters
  <1>4. CheckoutStep
    <2>1. CASE AccountStep
      BY <1>3, <2>1, HookTyped DEF AccountStep, checkout, InsertSubscription, At, HookState,
         MarketInv, TypeOK
    <2>2. CASE RenewalStep
      BY <1>3, <2>2, HookTyped DEF RenewalStep, checkout, InsertSubscription, At, HookState,
         MarketInv, TypeOK
    <2> QED
      BY <2>1, <2>2 DEF Next
  <1> DEFINE s == SessionOf(h)
             row(payable) ==
                [buyer |-> s.buyer, product |-> s.product, terms |-> hook[h].terms,
                 created |-> now,
                 renews |-> IF PeriodOf(s.product) = 0 THEN None ELSE Advance(now, s.product),
                 payable |-> payable, canceled |-> FALSE, terminated |-> FALSE,
                 notes |-> <<>>]
  <1>5. PICK payable \in BOOLEAN : subs' = Append(subs, row(payable))
    BY <1>3 DEF InsertSubscription
  <1>6. i = Len(subs) + 1 /\ subs'[i] = row(payable) /\ DOMAIN subs' = DOMAIN subs \cup {i}
    BY <1>1, <1>5
  <1>7. MarketInv'
    BY <1>4, CheckoutKeeps
  <1>8. subs'[i] \in Subscription /\ i \in 1..MaxSubs
    <2>1. i \in 1..Len(subs') /\ Len(subs') <= MaxSubs /\ subs' \in Seq(Subscription)
      BY <1>1, <1>6, <1>7, <1>5 DEF MarketInv, TypeOK, TablesTypeOK
    <2> QED
      BY <2>1, MarketAssumption
  <1>9. UNCHANGED <<charged, faults, now, job, batch, account, product>>
    BY <1>3, <1>4 DEF InsertSubscription, CheckoutStep, renewal
  <1> QED
    BY <1>6, <1>8, <1>9 DEF Advance

(* Charges are made one at a time, for the row in hand; they add to what has been paid for. *)
LEMMA PaidThroughStep ==
    ASSUME MarketInv, Next, NEW i \in DOMAIN subs
    PROVE  /\ PaidThrough(i) \in Nat /\ PeriodOf(subs[i].product) \in Nat
           /\ PaidThrough(i)' \in Nat /\ PeriodOf(subs'[i].product) = PeriodOf(subs[i].product)
           /\ \/ charged'[i] = charged[i] /\ PaidThrough(i)' = PaidThrough(i)
              \/ /\ (Renewal!Charge \/ Renewal!ChargeUnanswered) /\ job.id = i
                 /\ PaidThrough(i)' = PaidThrough(i) + PeriodOf(subs[i].product)
  <1> DEFINE P == PeriodOf(subs[i].product)
             C == subs[i].created
             n == charged[i]
  <1>1. P \in Nat /\ C \in Nat /\ n \in Nat /\ charged \in [1..MaxSubs -> Nat] /\ i \in 1..MaxSubs
    <2>1. subs[i] \in Subscription /\ i \in 1..MaxSubs
      BY SubStep, SubIds
    <2>2. C \in Nat
      BY <2>1, MarketAssumption DEF Subscription
    <2>3. P \in Nat
      BY <2>1, MarketAssumption DEF Subscription
    <2> QED
      BY <2>1, <2>2, <2>3 DEF MarketInv, TypeOK, TablesTypeOK
  <1>2. subs'[i].created = C /\ PeriodOf(subs'[i].product) = P
    BY SubStep DEF Same
  <1>3. PaidThrough(i) = C + (1 + n) * P /\ PaidThrough(i)' = C + (1 + charged'[i]) * P
    BY <1>2 DEF PaidThrough
  <1>4. charged'[i] = n \/ (charged'[i] = n + 1 /\ (Renewal!Charge \/ Renewal!ChargeUnanswered)
                            /\ job.id = i)
    BY <1>1, ChargedIs, Writers
  <1> HIDE DEF P, C, n
  <1>5. (1 + n) * P \in Nat /\ (1 + (n + 1)) * P = (1 + n) * P + P
    BY <1>1
  <1>6. CASE charged'[i] = n
    BY <1>1, <1>2, <1>3, <1>5, <1>6 DEF P, n
  <1>7. CASE charged'[i] = n + 1 /\ (Renewal!Charge \/ Renewal!ChargeUnanswered) /\ job.id = i
    <2>1. PaidThrough(i)' = PaidThrough(i) + P
      BY <1>1, <1>3, <1>5, <1>7
    <2>2. PaidThrough(i) \in Nat /\ PaidThrough(i)' \in Nat
      BY <1>1, <1>3, <1>5, <2>1
    <2> QED
      BY <1>1, <1>2, <1>7, <2>1, <2>2 DEF P
  <1> QED
    BY <1>4, <1>6, <1>7

(* The rows that an editor has in hand: read before the step, or in it. *)
LEMMA EditStep ==
    ASSUME MarketInv, Next, NEW e \in Editors, edit'[e].pc = "notes"
    PROVE  \/ edit'[e] = edit[e]
           \/ subs' = subs /\ edit'[e].id \in DOMAIN subs /\ edit'[e].row = subs[edit'[e].id]
  <1>1. edit \in [Editors -> {IdleEdit} \cup ProductEdit \cup NotesEdit] /\ edits \in Nat
    BY AccountTyped
  <1>2. ASSUME WriteSubscription(e) \/ WriteProduct(e) \/ \E p \in Products : ReadProduct(e, p)
        PROVE  FALSE
    BY <1>1, <1>2 DEF WriteSubscription, ReadProduct, WriteProduct, IdleEdit
  <1>3. ASSUME NEW i \in DOMAIN subs, ReadSubscription(e, i)
        PROVE  subs' = subs /\ edit'[e].id \in DOMAIN subs /\ edit'[e].row = subs[edit'[e].id]
    <2>1. PICK k :
            /\ k = [IdleEdit EXCEPT !.pc = "notes", !.id = i, !.row = subs[i],
                                    !.request = Append(subs[i].notes, edits + 1)]
            /\ edit'[e] = k /\ subs' = subs
      BY <1>1, <1>3 DEF ReadSubscription, market
    <2>2. k.id = i /\ k.row = subs[i]
      BY <2>1 DEF IdleEdit
    <2> QED
      BY <2>1, <2>2
  <1>4. ASSUME NEW d \in Editors, d # e,
               \/ \E i \in DOMAIN subs : ReadSubscription(d, i)
               \/ \E p \in Products : ReadProduct(d, p)
               \/ WriteProduct(d) \/ WriteSubscription(d)
        PROVE  edit'[e] = edit[e]
    BY <1>1, <1>4 DEF ReadSubscription, ReadProduct, WriteProduct, WriteSubscription
  <1>5. ASSUME NEW c \in Cancelers,
               \/ \E i \in DOMAIN subs : ReadForCancel(c, i)
               \/ SetCanceled(c) \/ FreeSlot(c) \/ FailCancel(c)
        PROVE  edit'[e] = edit[e]
    BY <1>5 DEF ReadForCancel, SetCanceled, FreeSlot, FailCancel
  <1>6. CASE CheckoutStep \/ RenewalStep
    BY <1>6 DEF CheckoutStep, RenewalStep, account
  <1>7. CASE AccountStep
    BY <1>2, <1>3, <1>4, <1>5, <1>7 DEF AccountStep, AccountNext
  <1> QED
    BY <1>6, <1>7 DEF Next

(* The rows of a pass: those of its query, until they are done. *)
RowsStay(later) == \A i \in DOMAIN later : i \in DOMAIN batch /\ later[i] = batch[i]

LEMMA BatchStep ==
    ASSUME MarketInv, Next
    PROVE  \/ /\ RowsStay(batch')
              /\ job'.pc \in OverDue => job.pc \in OverDue \/ DOMAIN batch' = {}
              /\ job'.pc \in OverLapsed => job.pc \in OverLapsed \/ DOMAIN batch' = {}
           \/ /\ job.pc = "due" /\ job'.pc \in OverDue /\ UNCHANGED market
              /\ \A i \in DOMAIN batch' :
                    i \in DOMAIN subs /\ batch'[i] = subs[i] /\ Due(i)
           \/ /\ job.pc = "lapsed" /\ job'.pc = "terminate" /\ UNCHANGED market
              /\ \A i \in DOMAIN batch' :
                    i \in DOMAIN subs /\ batch'[i] = subs[i] /\ Lapsed(i)
  <1> USE DEF RowsStay
  <1> DEFINE Stay == /\ RowsStay(batch')
                     /\ job'.pc \in OverDue => job.pc \in OverDue \/ DOMAIN batch' = {}
                     /\ job'.pc \in OverLapsed => job.pc \in OverLapsed \/ DOMAIN batch' = {}
  <1>1. CASE CheckoutStep \/ AccountStep
    BY <1>1, CheckoutWriters, AccountWriters DEF renewal
  <1>2. CASE Renewal!Tick
    BY <1>2 DEF Renewal!Tick, Renewal!renewal
  <1>3. CASE Renewal!LoadDue
    <2>1. PICK pc \in {"renew", "end all"} : Renewal!GoTo(pc)
      BY <1>3 DEF Renewal!LoadDue, Renewal!RowsWhere
    <2>2. job'.pc \in OverDue
      BY <2>1, GoToIs DEF OverDue
    <2>3. batch' = [i \in {k \in DOMAIN subs : Renewal!Type(k) = Renewal!JobType /\ Renewal!Due(k)}
                        |-> subs[i]]
          /\ job.pc = "due" /\ UNCHANGED market
      BY <1>3 DEF Renewal!LoadDue, Renewal!RowsWhere, Renewal!At, Renewal!market, market
    <2> QED
      BY <2>2, <2>3 DEF Renewal!Due, Due
  <1>4. CASE Renewal!LoadLapsed
    <2>1. batch' = [i \in {k \in DOMAIN subs : Renewal!Type(k) = Renewal!JobType
                                /\ (Renewal!Lapsed(k) /\ ~subs[k].terminated)} |-> subs[i]]
          /\ job.pc = "lapsed" /\ Renewal!GoTo("terminate") /\ UNCHANGED market
      BY <1>4 DEF Renewal!LoadLapsed, Renewal!RowsWhere, Renewal!At, Renewal!market, market
    <2> QED
      BY <2>1, GoToIs DEF Renewal!Lapsed, Lapsed
  <1>5. ASSUME UNCHANGED batch, job.pc \in {"asleep", "due", "lapsed"} PROVE Stay
    BY <1>5, JobTyped DEF JobOK
  <1>6. CASE Renewal!StartJob \/ Renewal!FailQuery
    <2>1. UNCHANGED batch /\ job.pc \in {"asleep", "due", "lapsed"}
      BY <1>6 DEF Renewal!StartJob, Renewal!FailQuery, Renewal!At
    <2> QED
      BY <1>5, <2>1
  <1>7. CASE Renewal!NextDue
    <2>1. UNCHANGED batch /\ job.pc \in OverDue
      BY <1>7 DEF Renewal!NextDue, Renewal!At, OverDue
    <2>2. job'.pc \in {"lapsed", "charge", "end, all"}
      BY <1>7, GoToIs, JobTyped DEF Renewal!NextDue, JobState
    <2> QED
      BY <2>1, <2>2 DEF OverDue, OverLapsed
  <1>8. CASE Renewal!NextLapsed
    <2>1. UNCHANGED batch /\ job.pc \in OverLapsed
      BY <1>8 DEF Renewal!NextLapsed, Renewal!At, OverLapsed
    <2>2. job'.pc \in {"revoke", "due", "asleep"}
      BY <1>8, JobTyped, AsleepTyped DEF Renewal!NextLapsed, JobState
    <2> QED
      BY <2>1, <2>2 DEF OverDue, OverLapsed
  <1>9. CASE Renewal!Declined \/ Renewal!Charge \/ Renewal!ChargeUnanswered
             \/ Renewal!RecordPayment \/ Renewal!AdvanceRenewal \/ Renewal!FailRenewal
    <2>1. UNCHANGED batch /\ job.pc \in OverDue
      BY <1>9 DEF Renewal!Declined, Renewal!Charge, Renewal!ChargeUnanswered,
         Renewal!RecordPayment, Renewal!AdvanceRenewal, Renewal!FailRenewal, Renewal!Err,
         Renewal!At, OverDue
    <2>2. PICK pc \in {"end", "purchase", "advance", "fulfil"} : Renewal!GoTo(pc)
      BY <1>9 DEF Renewal!Declined, Renewal!Charge, Renewal!ChargeUnanswered,
         Renewal!RecordPayment, Renewal!AdvanceRenewal, Renewal!FailRenewal, Renewal!Err
    <2>3. job'.pc \notin OverLapsed
      BY <2>2, GoToIs DEF OverLapsed
    <2> QED
      BY <2>1, <2>3
  <1>10. CASE Renewal!RecordPurchase
    <2>1. UNCHANGED batch /\ job.pc \in OverDue /\ job'.pc = "payment"
      BY <1>10, JobTyped DEF Renewal!RecordPurchase, Renewal!At, OverDue, JobState
    <2> QED
      BY <2>1 DEF OverLapsed
  <1>11. CASE Renewal!Revoke \/ Renewal!TakePermissions
    <2>1. UNCHANGED batch /\ job.pc \in OverLapsed
      BY <1>11 DEF Renewal!Revoke, Renewal!TakePermissions, Renewal!At, OverLapsed
    <2>2. job'.pc \in {"take", "stamp"}
      BY <1>11, GoToIs, JobTyped DEF Renewal!Revoke, Renewal!TakePermissions, JobState
    <2> QED
      BY <2>1, <2>2 DEF OverDue
  <1>12. ASSUME NEW pc \in {"renew", "end all", "terminate"}, Renewal!Done(pc),
                pc \in OverDue => job.pc \in OverDue, pc \in OverLapsed => job.pc \in OverLapsed
         PROVE  Stay
    BY <1>12, GoToIs DEF Renewal!Done, Renewal!Without
  <1>13. CASE Renewal!Refulfil /\ Renewal!JobType = "PERMISSIONS_ACCESS"
    <2>1. UNCHANGED batch /\ job.pc \in OverDue
      BY <1>13 DEF Renewal!Refulfil, Renewal!At, OverDue
    <2> DEFINE k == [job EXCEPT !.pc = "grant", !.perms = access[Renewal!Row.buyer].perms]
    <2>2. job' = k /\ k.pc = "grant"
      BY <1>13, JobTyped DEF Renewal!Refulfil, JobState
    <2> HIDE DEF k
    <2> QED
      BY <2>1, <2>2 DEF OverLapsed
  <1>14. CASE Renewal!Refulfil /\ Renewal!JobType # "PERMISSIONS_ACCESS"
    <2>1. job.pc = "fulfil" /\ Renewal!Done("renew")
      BY <1>14 DEF Renewal!Refulfil, Renewal!At
    <2> QED
      BY <1>12, <2>1 DEF OverDue, OverLapsed
  <1>15. CASE Renewal!RegrantPermissions \/ Renewal!EndSubscription
    <2>1. job.pc \in OverDue
      BY <1>15 DEF Renewal!RegrantPermissions, Renewal!EndSubscription, Renewal!At, OverDue
    <2>2. PICK pc \in {"renew", "end all"} : Renewal!Done(pc)
      BY <1>15 DEF Renewal!RegrantPermissions, Renewal!EndSubscription
    <2> QED
      BY <1>12, <2>1, <2>2 DEF OverLapsed
  <1>16. CASE Renewal!StampTerminated \/ Renewal!FailTermination
    <2>1. job.pc \in OverLapsed /\ Renewal!Done("terminate")
      BY <1>16 DEF Renewal!StampTerminated, Renewal!FailTermination, Renewal!At, OverLapsed
    <2> QED
      BY <1>12, <2>1 DEF OverDue
  <1>17. CASE Renewal!CrashJob
    BY <1>17, NoRowsTyped DEF Renewal!CrashJob
  <1> QED
    BY <1>1, <1>2, <1>3, <1>4, <1>6, <1>7, <1>8, <1>9, <1>10, <1>11, <1>13, <1>14, <1>15,
       <1>16, <1>17 DEF Next, RenewalStep, Renewal!RenewalNext, Renewal!JobStep

-----------------------------------------------------------------------------
(* Whatever is read of a renews_at, or written to it, has been paid for. *)
PaidFor(r, end) == r \in Nat => r <= end

RowsPaidFor ==
    /\ \A i \in DOMAIN subs : PaidFor(subs[i].renews, PaidThrough(i))
    /\ \A i \in DOMAIN batch : PaidFor(batch[i].renews, PaidThrough(i))
    /\ job.pc \in PaidSteps =>
        batch[job.id].renews + PeriodOf(subs[job.id].product) <= PaidThrough(job.id)
    /\ \A e \in Editors : edit[e].pc = "notes" => PaidFor(edit[e].row.renews, PaidThrough(edit[e].id))

LEMMA PaidForStays ==
    ASSUME MarketInv, Next, NEW i \in DOMAIN subs, NEW r, PaidFor(r, PaidThrough(i))
    PROVE  PaidFor(r, PaidThrough(i)')
  <1>1. PaidThrough(i) \in Nat /\ PaidThrough(i)' \in Nat /\ PaidThrough(i)' >= PaidThrough(i)
    BY PaidThroughStep
  <1>2. r \in Nat => r <= PaidThrough(i)'
    BY <1>1 DEF PaidFor
  <1> QED
    BY <1>2 DEF PaidFor

LEMMA RowsStayPaidFor ==
    ASSUME MarketInv, RowsPaidFor, [Next]_vars
    PROVE  RowsPaidFor'
  <1>1. CASE UNCHANGED vars
    BY <1>1 DEF vars, market, renewal, account, RowsPaidFor, PaidFor, PaidThrough
  <1>2. CASE Next
    <2>1. ASSUME NEW i \in DOMAIN subs'
          PROVE  PaidFor(subs'[i].renews, PaidThrough(i)')
      <3>1. CASE i \notin DOMAIN subs
        <4> DEFINE s == subs'[i]
        <4>1. s \in Subscription /\ charged' = charged /\ i \in 1..MaxSubs
              /\ s.renews = IF PeriodOf(s.product) = 0 THEN None ELSE s.created + PeriodOf(s.product)
          BY <1>2, <3>1, NewSubscriptionIs
        <4>2. s.created \in Nat /\ PeriodOf(s.product) \in Nat /\ charged'[i] \in Nat
          BY <4>1, MarketAssumption DEF Subscription, MarketInv, TypeOK, TablesTypeOK
        <4>3. PaidThrough(i)' = s.created + (1 + charged'[i]) * PeriodOf(s.product)
          BY DEF PaidThrough
        <4> HIDE DEF s
        <4>4. (1 + charged'[i]) * PeriodOf(s.product) >= PeriodOf(s.product)
          BY <4>2
        <4>5. (1 + charged'[i]) * PeriodOf(s.product) \in Nat
          BY <4>2
        <4>6. s.renews \in Nat => s.renews <= PaidThrough(i)'
          BY <4>1, <4>2, <4>3, <4>4, <4>5, MarketAssumption
        <4> QED
          BY <4>6 DEF PaidFor, s
      <3>2. CASE i \in DOMAIN subs
        <4>1. CASE subs'[i].renews = subs[i].renews
          BY <1>2, <3>2, <4>1, PaidForStays DEF RowsPaidFor
        <4>2. CASE \E e \in Editors : /\ edit[e].pc = "notes" /\ edit[e].id = i
                                      /\ subs'[i].renews = edit[e].row.renews
          BY <1>2, <3>2, <4>2, PaidForStays DEF RowsPaidFor
        <4>3. CASE /\ Renewal!AdvanceRenewal /\ job.id = i
                   /\ subs'[i].renews = batch[i].renews + PeriodOf(subs[i].product)
          <5>1. job.pc \in PaidSteps
            BY <4>3 DEF Renewal!AdvanceRenewal, Renewal!At, PaidSteps
          <5>2. PaidFor(subs'[i].renews, PaidThrough(i))
            BY <4>3, <5>1 DEF RowsPaidFor, PaidFor
          <5> QED
            BY <1>2, <3>2, <5>2, PaidForStays
        <4> QED
          BY <1>2, <3>2, <4>1, <4>2, <4>3, SubStep
      <3> QED
        BY <3>1, <3>2
    <2>2. ASSUME NEW i \in DOMAIN batch'
          PROVE  PaidFor(batch'[i].renews, PaidThrough(i)')
      <3>1. i \in DOMAIN subs /\ PaidFor(batch'[i].renews, PaidThrough(i))
        BY <1>2, BatchStep, JobTyped DEF RowsStay, RowsPaidFor
      <3> QED
        BY <1>2, <3>1, PaidForStays
    <2>3. ASSUME NEW i, i = job'.id, job'.pc \in PaidSteps
          PROVE  batch'[i].renews + PeriodOf(subs'[i].product) <= PaidThrough(i)'
      <3>1. (job.pc \in PaidSteps \/ (job.pc = "charge" /\ Renewal!Charge))
            /\ job.id = i /\ batch' = batch
        <4>1. ~JobAside \/ UNCHANGED <<job, batch>>
          BY <2>3 DEF JobAside
        <4>2. ~JobAdvances("charge", "end") /\ ~JobAdvances("advance", "fulfil") /\ ~JobFailsPaid
          BY <2>3 DEF JobAdvances, JobFailsPaid, PaidSteps
        <4> QED
          BY <1>2, <2>3, <4>1, <4>2, JobPaths DEF JobAdvances, PaidSteps
      <3>2. job.pc \in AtRow /\ job.pc \in OverDue
        BY <3>1 DEF PaidSteps, AtRow, OverDue
      <3>3. i \in DOMAIN subs /\ i \in DOMAIN batch /\ batch[i].renews \in Nat
        BY <3>1, <3>2, JobTyped DEF JobOK
      <3> DEFINE P == PeriodOf(subs[i].product)
      <3>4. PaidThrough(i) \in Nat /\ P \in Nat /\ PaidThrough(i)' \in Nat
            /\ PeriodOf(subs'[i].product) = P /\ PaidThrough(i)' >= PaidThrough(i)
        BY <1>2, <3>3, PaidThroughStep
      <3>5. CASE job.pc \in PaidSteps
        <4>1. batch[i].renews + P <= PaidThrough(i)
          BY <3>1, <3>5 DEF RowsPaidFor
        <4> HIDE DEF P
        <4> QED
          BY <3>1, <3>3, <3>4, <4>1
      <3>6. CASE Renewal!Charge
        <4>1. charged'[i] # charged[i]
          <5>1. charged \in [1..MaxSubs -> Nat] /\ i \in 1..MaxSubs
            BY <3>3, SubIds DEF MarketInv, TypeOK, TablesTypeOK
          <5>2. charged'[i] = charged[i] + 1 /\ charged[i] \in Nat
            BY <3>1, <3>6, <5>1, ChargedIs
          <5> QED
            BY <5>2
        <4>2. PaidThrough(i)' = PaidThrough(i) + P
          BY <1>2, <3>3, <4>1, PaidThroughStep
        <4>3. batch[i].renews <= PaidThrough(i)
          BY <3>3 DEF RowsPaidFor, PaidFor
        <4> HIDE DEF P
        <4> QED
          BY <3>1, <3>3, <3>4, <4>2, <4>3
      <3> QED
        BY <3>1, <3>5, <3>6
    <2>4. ASSUME NEW e \in Editors, NEW k, k = edit'[e], k.pc = "notes"
          PROVE  PaidFor(k.row.renews, PaidThrough(k.id)')
      <3>1. k.id \in DOMAIN subs /\ PaidFor(k.row.renews, PaidThrough(k.id))
        BY <1>2, <2>4, EditStep, AccountTyped DEF RowsPaidFor, EditOK
      <3> QED
        BY <1>2, <3>1, PaidForStays
    <2> QED
      BY <2>1, <2>2, <2>3, <2>4 DEF RowsPaidFor, PaidThrough
  <1> QED
    BY <1>1, <1>2

(* No period is given away: a subscription is never served beyond what has *)
(* been charged for it, whichever steps of the job fail, and however late  *)
(* a row is written back by the job or an editor                           *)
(* (market_renewal.rs:80-124, update_market_subscription.rs:95).           *)
THEOREM NothingIsGivenAway == Spec => []NoFreePeriod
  <1>1. Init => RowsPaidFor
    <2> SUFFICES ASSUME Init
                 PROVE  RowsPaidFor
      OBVIOUS
    <2>1. DOMAIN subs = {} /\ DOMAIN batch = {} /\ job.pc = "asleep"
          /\ \A e \in Editors : edit[e].pc = "idle"
      BY AsleepTyped, NoRowsTyped DEF Init, ProcessesInit, Renewal!RenewalInit, AccountInit,
         IdleEdit
    <2> QED
      BY <2>1 DEF RowsPaidFor, PaidSteps
  <1>2. MarketInv /\ RowsPaidFor /\ [Next]_vars => RowsPaidFor'
    BY RowsStayPaidFor
  <1>3. MarketInv /\ RowsPaidFor => NoFreePeriod
    <2> SUFFICES ASSUME MarketInv, RowsPaidFor, NEW i \in DOMAIN subs, subs[i].renews # None
                 PROVE  subs[i].renews <= PaidThrough(i)
      BY DEF NoFreePeriod, Recurring
    <2>1. subs[i].renews \in Nat
      BY TypedTables DEF MarketInv, Subscription
    <2> QED
      BY <2>1 DEF RowsPaidFor, PaidFor
  <1> QED
    BY <1>1, <1>2, <1>3, MemoryStaysTrue, PTL DEF Spec

-----------------------------------------------------------------------------
(* No renewal is recorded of an order that an admin has open. *)
RenewalsDontCrossEdits ==
    \A e \in Editors : edit[e].pc = "notes" => edit[e].row.renews = subs[edit[e].id].renews

(* What the job has in hand is the renews_at of the table, until it advances it; and every *)
(* charge but the one under way has advanced it, or failed to. *)
ChargedOnce ==
    /\ \A i \in 1..MaxSubs : i \notin DOMAIN subs => charged[i] = 0
    /\ \A i \in DOMAIN batch :
        \/ batch[i].renews = subs[i].renews
        \/ job.id = i /\ job.pc \in {"fulfil", "grant", "end"}
    /\ \A i \in DOMAIN subs : subs[i].renews \in Nat =>
        PaidThrough(i) <= subs[i].renews
            + PeriodOf(subs[i].product) * (Working(i, PaidSteps) + faults)

LEMMA Periods ==
    ASSUME NEW P \in Nat, NEW x \in Nat
    PROVE  /\ P * x \in Nat /\ x * P = P * x /\ P * (x + 1) = P * x + P
           /\ \A y \in Nat : y >= x => P * y >= P * x
  <1>1. P * x \in Nat /\ x * P = P * x /\ P * (x + 1) = P * x + P
    OBVIOUS
  <1>2. ASSUME NEW y \in Nat, y >= x
        PROVE  P * y >= P * x
    <2>1. PICK d \in Nat : y = x + d
      <3>1. y - x \in Nat /\ y = x + (y - x)
        BY <1>2
      <3> QED
        BY <3>1
    <2>2. P * (x + d) = P * x + P * d /\ P * d \in Nat
      OBVIOUS
    <2> QED
      BY <1>1, <2>1, <2>2
  <1> QED
    BY <1>1, <1>2

(* A row that has been advanced stays in hand until it is done. *)
LEMMA AdvancedRow ==
    ASSUME MarketInv, Next, job.pc \in {"fulfil", "grant", "end"}, job.id \in DOMAIN batch'
    PROVE  job'.id = job.id /\ job'.pc \in {"fulfil", "grant", "end"}
  <1>1. CASE CheckoutStep \/ AccountStep
    BY <1>1, CheckoutWriters, AccountWriters DEF renewal
  <1>2. CASE Renewal!Tick
    BY <1>2 DEF Renewal!Tick, Renewal!renewal
  <1>3. CASE Renewal!FailRenewal
    BY <1>3, GoToIs DEF Renewal!FailRenewal, Renewal!Err
  <1>4. CASE Renewal!CrashJob
    BY <1>4, NoRowsTyped DEF Renewal!CrashJob
  <1>5. ASSUME NEW pc, Renewal!Done(pc)
        PROVE  FALSE
    BY <1>5 DEF Renewal!Done, Renewal!Without
  <1>6. CASE Renewal!Refulfil
    <2>1. CASE Renewal!JobType = "PERMISSIONS_ACCESS"
      <3> DEFINE k == [job EXCEPT !.pc = "grant", !.perms = access[Renewal!Row.buyer].perms]
      <3>1. job' = k /\ k.pc = "grant" /\ k.id = job.id
        BY <1>6, <2>1, JobTyped DEF Renewal!Refulfil, JobState
      <3> HIDE DEF k
      <3> QED
        BY <3>1
    <2>2. CASE Renewal!JobType # "PERMISSIONS_ACCESS"
      BY <1>5, <1>6, <2>2 DEF Renewal!Refulfil
    <2> QED
      BY <2>1, <2>2
  <1>7. CASE Renewal!RegrantPermissions
    BY <1>5, <1>7 DEF Renewal!RegrantPermissions
  <1>8. CASE Renewal!EndSubscription
    <2>1. PICK pc : Renewal!Done(pc)
      BY <1>8 DEF Renewal!EndSubscription
    <2> QED
      BY <1>5, <2>1
  <1>9. CASE Renewal!StartJob \/ Renewal!LoadDue \/ Renewal!FailQuery \/ Renewal!NextDue
    BY <1>9 DEF Renewal!StartJob, Renewal!LoadDue, Renewal!FailQuery, Renewal!NextDue, Renewal!At,
       Renewal!RowsWhere
  <1>10. CASE Renewal!Declined \/ Renewal!Charge \/ Renewal!ChargeUnanswered
              \/ Renewal!RecordPurchase \/ Renewal!RecordPayment \/ Renewal!AdvanceRenewal
    BY <1>10 DEF Renewal!Declined, Renewal!Charge, Renewal!ChargeUnanswered,
       Renewal!RecordPurchase, Renewal!RecordPayment, Renewal!AdvanceRenewal, Renewal!At
  <1>11. CASE Renewal!LoadLapsed \/ Renewal!NextLapsed \/ Renewal!Revoke
              \/ Renewal!TakePermissions \/ Renewal!StampTerminated \/ Renewal!FailTermination
    BY <1>11 DEF Renewal!LoadLapsed, Renewal!NextLapsed, Renewal!Revoke, Renewal!RowsWhere,
       Renewal!TakePermissions, Renewal!StampTerminated, Renewal!FailTermination, Renewal!At
  <1> QED
    BY <1>1, <1>2, <1>3, <1>4, <1>6, <1>7, <1>8, <1>9, <1>10, <1>11
       DEF Next, RenewalStep, Renewal!RenewalNext, Renewal!JobStep

(* The renews_at of a subscription changes only when the job advances it, by one period. *)
LEMMA RenewsStep ==
    ASSUME MarketInv, RenewalsDontCrossEdits, ChargedOnce, Next, NEW i \in DOMAIN subs
    PROVE  \/ subs'[i].renews = subs[i].renews /\ ~(Renewal!AdvanceRenewal /\ job.id = i)
           \/ /\ Renewal!AdvanceRenewal /\ job.id = i
              /\ subs[i].renews \in Nat
              /\ subs'[i].renews = subs[i].renews + PeriodOf(subs[i].product)
  <1>1. CASE Renewal!AdvanceRenewal /\ job.id = i
    <2>1. job.pc = "advance"
      BY <1>1 DEF Renewal!AdvanceRenewal, Renewal!At
    <2>2. i \in DOMAIN batch /\ batch[i].renews \in Nat
      BY <1>1, <2>1, JobTyped DEF JobOK, AtRow, OverDue
    <2>3. batch[i].renews = subs[i].renews
      BY <2>1, <2>2 DEF ChargedOnce
    <2> DEFINE t == Advance(batch[i].renews, batch[i].product)
    <2>4. subs' = [subs EXCEPT ![i].renews = t]
      BY <1>1 DEF Renewal!AdvanceRenewal, Renewal!Row, Renewal!Advance, Advance
    <2>5. batch[i].product = subs[i].product
      BY <2>2, JobTyped DEF JobOK, Same
    <2>6. t = subs[i].renews + PeriodOf(subs[i].product)
      BY <2>3, <2>5 DEF Advance
    <2> HIDE DEF t
    <2>7. subs \in Seq(Subscription) /\ subs[i] \in Subscription
      BY TypedTables DEF MarketInv, TypeOK, TablesTypeOK
    <2>8. subs'[i].renews = t
      BY <2>4, <2>7 DEF Subscription
    <2> QED
      BY <1>1, <2>2, <2>3, <2>6, <2>8
  <1>2. CASE ~(Renewal!AdvanceRenewal /\ job.id = i)
    BY <1>2, SubStep DEF RenewalsDontCrossEdits
  <1> QED
    BY <1>1, <1>2

(* What is paid for but not yet served, against the steps under way and the failures. *)
LEMMA DebtStep ==
    ASSUME MarketInv, RenewalsDontCrossEdits, ChargedOnce, Next, NEW i \in DOMAIN subs
    PROVE  LET w == Working(i, PaidSteps) + faults
               P == PeriodOf(subs[i].product)
           IN
           \/ /\ subs'[i].renews = subs[i].renews /\ PaidThrough(i)' = PaidThrough(i)
              /\ Working(i, PaidSteps)' + faults' >= w
           \/ /\ subs'[i].renews = subs[i].renews /\ PaidThrough(i)' = PaidThrough(i) + P
              /\ Working(i, PaidSteps)' + faults' = w + 1
           \/ /\ subs[i].renews \in Nat /\ subs'[i].renews = subs[i].renews + P
              /\ PaidThrough(i)' = PaidThrough(i)
              /\ Working(i, PaidSteps)' + faults' + 1 = w
  <1> DEFINE P == PeriodOf(subs[i].product)
             W == Working(i, PaidSteps)
             V == Working(i, PaidSteps)'
  <1>1. faults \in Nat /\ (faults' = faults \/ faults' = faults + 1)
    BY FaultsGrow
  <1>2. W = (IF job.id = i /\ job.pc \in PaidSteps THEN 1 ELSE 0)
        /\ V = (IF job'.id = i /\ job'.pc \in PaidSteps THEN 1 ELSE 0)
    BY DEF Working
  <1>3. charged \in [1..MaxSubs -> Nat] /\ i \in 1..MaxSubs /\ charged[i] \in Nat
    BY SubIds DEF MarketInv, TypeOK, TablesTypeOK
  <1>4. (charged' = charged \/ ~(Renewal!Charge \/ Renewal!ChargeUnanswered) \/ job.id # i)
        => PaidThrough(i)' = PaidThrough(i)
    <2>1. charged' = charged => PaidThrough(i)' = PaidThrough(i)
      <3>1. ASSUME charged' = charged, Renewal!Charge \/ Renewal!ChargeUnanswered, job.id = i
            PROVE  FALSE
        BY <1>3, <3>1, ChargedIs
      <3> QED
        BY <3>1, PaidThroughStep
    <2> QED
      BY <2>1, PaidThroughStep
  <1>5. (Renewal!Charge \/ Renewal!ChargeUnanswered) /\ job.id = i
        => PaidThrough(i)' = PaidThrough(i) + P
    <2>1. ASSUME Renewal!Charge \/ Renewal!ChargeUnanswered, job.id = i
          PROVE  charged'[i] # charged[i]
      <3>1. charged'[i] = charged[i] + 1
        BY <1>3, <2>1, ChargedIs
      <3> QED
        BY <1>3, <3>1
    <2> QED
      BY <2>1, PaidThroughStep
  <1>6. Renewal!AdvanceRenewal => job.pc = "advance" /\ job'.pc = "fulfil"
    BY GoToIs DEF Renewal!AdvanceRenewal, Renewal!At
  <1> DEFINE Stays == /\ subs'[i].renews = subs[i].renews /\ PaidThrough(i)' = PaidThrough(i)
                      /\ V + faults' >= W + faults
             Charged == /\ subs'[i].renews = subs[i].renews /\ PaidThrough(i)' = PaidThrough(i) + P
                        /\ V + faults' = W + faults + 1
             Advanced == /\ subs[i].renews \in Nat /\ subs'[i].renews = subs[i].renews + P
                         /\ PaidThrough(i)' = PaidThrough(i)
                         /\ V + faults' + 1 = W + faults
  <1> SUFFICES Stays \/ Charged \/ Advanced
    OBVIOUS
  <1> HIDE DEF W, V
  <1>7. ASSUME ~Renewal!AdvanceRenewal \/ job.id # i
        PROVE  subs'[i].renews = subs[i].renews
    BY <1>7, RenewsStep
  <1>8. CASE JobAside /\ charged' = charged
    <2>1. W = V
      BY <1>2, <1>8 DEF JobAside, PaidSteps
    <2>2. ~Renewal!AdvanceRenewal
      BY <1>6, <1>8 DEF JobAside, PaidSteps
    <2>3. W \in Nat
      BY <1>2
    <2> QED
      BY <1>1, <1>4, <1>7, <1>8, <2>1, <2>2, <2>3
  <1>9. CASE Renewal!Charge /\ JobAdvances("charge", "purchase")
    <2>1. ~Renewal!AdvanceRenewal /\ faults' = faults
      BY <1>6, <1>9 DEF JobAdvances, Renewal!Charge
    <2>2. W = 0 /\ V = IF job.id = i THEN 1 ELSE 0
      BY <1>2, <1>9 DEF JobAdvances, PaidSteps
    <2>3. CASE job.id = i
      BY <1>1, <1>5, <1>7, <1>9, <2>1, <2>2, <2>3
    <2>4. CASE job.id # i
      BY <1>1, <1>4, <1>7, <1>9, <2>1, <2>2, <2>4
    <2> QED
      BY <2>3, <2>4
  <1>10. CASE Renewal!ChargeUnanswered /\ JobAdvances("charge", "end") /\ faults' = faults + 1
    <2>1. ~Renewal!AdvanceRenewal
      BY <1>6, <1>10 DEF JobAdvances
    <2>2. W = 0 /\ V = 0
      BY <1>2, <1>10 DEF JobAdvances, PaidSteps
    <2>3. CASE job.id = i
      BY <1>1, <1>5, <1>7, <1>10, <2>1, <2>2, <2>3
    <2>4. CASE job.id # i
      BY <1>1, <1>4, <1>7, <1>10, <2>1, <2>2, <2>4
    <2> QED
      BY <2>3, <2>4
  <1>11. CASE (JobAdvances("purchase", "payment") \/ JobAdvances("payment", "advance"))
              /\ charged' = charged
    <2>1. ~Renewal!AdvanceRenewal /\ W = V /\ W \in Nat
      BY <1>2, <1>6, <1>11 DEF JobAdvances, PaidSteps
    <2> QED
      BY <1>1, <1>4, <1>7, <1>11, <2>1
  <1>12. CASE Renewal!AdvanceRenewal /\ JobAdvances("advance", "fulfil") /\ charged' = charged
    <2>1. W = (IF job.id = i THEN 1 ELSE 0) /\ V = 0 /\ faults' = faults
      BY <1>2, <1>12 DEF JobAdvances, PaidSteps, Renewal!AdvanceRenewal
    <2>2. CASE job.id = i
      BY <1>1, <1>4, <1>12, <2>1, <2>2, RenewsStep
    <2>3. CASE job.id # i
      BY <1>1, <1>4, <1>7, <1>12, <2>1, <2>3
    <2> QED
      BY <2>2, <2>3
  <1>13. CASE JobFailsPaid /\ charged' = charged
    <2>1. ~Renewal!AdvanceRenewal
      <3>1. ASSUME Renewal!AdvanceRenewal PROVE FALSE
        <4>1. faults' = faults
          BY <3>1 DEF Renewal!AdvanceRenewal
        <4> QED
          BY <1>1, <1>13, <4>1 DEF JobFailsPaid
      <3> QED
        BY <3>1
    <2>2. V = 0 /\ W \in {0, 1} /\ faults' = faults + 1
      BY <1>2, <1>13 DEF JobFailsPaid
    <2> QED
      BY <1>1, <1>4, <1>7, <1>13, <2>1, <2>2
  <1> QED
    BY <1>8, <1>9, <1>10, <1>11, <1>12, <1>13, JobPaths

LEMMA ChargedOnceStays ==
    ASSUME MarketInv, RenewalsDontCrossEdits, ChargedOnce, [Next]_vars
    PROVE  ChargedOnce'
  <1>1. CASE UNCHANGED vars
    BY <1>1 DEF vars, market, renewal, ChargedOnce, PaidThrough, Working
  <1>2. CASE Next
    <2>1. ASSUME NEW i \in 1..MaxSubs, i \notin DOMAIN subs'
          PROVE  charged'[i] = 0
      <3>1. i \notin DOMAIN subs /\ charged[i] = 0
        BY <1>2, <2>1, RowsAreKept DEF Keeps, SubsKeep, ChargedOnce
      <3>2. charged \in [1..MaxSubs -> Nat]
        BY DEF MarketInv, TypeOK, TablesTypeOK
      <3> QED
        BY <1>2, <3>1, <3>2, Writers, ChargedIs
    <2>2. ASSUME NEW i \in DOMAIN batch'
          PROVE  \/ batch'[i].renews = subs'[i].renews
                 \/ job'.id = i /\ job'.pc \in {"fulfil", "grant", "end"}
      <3>1. CASE i \in DOMAIN batch /\ batch'[i] = batch[i]
        <4>1. i \in DOMAIN subs
          BY <3>1, JobTyped
        <4>2. CASE job.id = i /\ job.pc \in {"fulfil", "grant", "end"}
          BY <1>2, <2>2, <4>2, AdvancedRow
        <4>3. CASE batch[i].renews = subs[i].renews /\ subs'[i].renews = subs[i].renews
          BY <3>1, <4>3
        <4>4. CASE Renewal!AdvanceRenewal /\ job.id = i
          BY <4>4, GoToIs DEF Renewal!AdvanceRenewal
        <4> QED
          BY <1>2, <3>1, <4>1, <4>2, <4>3, <4>4, RenewsStep DEF ChargedOnce
      <3>2. CASE UNCHANGED market /\ batch'[i] = subs[i]
        BY <3>2 DEF market
      <3> QED
        BY <1>2, <3>1, <3>2, BatchStep DEF RowsStay
    <2>3. ASSUME NEW i \in DOMAIN subs', subs'[i].renews \in Nat
          PROVE  PaidThrough(i)' <= subs'[i].renews
                    + PeriodOf(subs'[i].product) * (Working(i, PaidSteps)' + faults')
      <3>1. Working(i, PaidSteps) \in Nat /\ Working(i, PaidSteps)' \in Nat
            /\ faults \in Nat /\ faults' \in Nat
        BY <1>2, FaultsGrow DEF Working
      <3>2. CASE i \notin DOMAIN subs
        <4> DEFINE s == subs'[i]
                   P == PeriodOf(s.product)
                   w == Working(i, PaidSteps)' + faults'
        <4>1. s \in Subscription /\ charged' = charged /\ i \in 1..MaxSubs
              /\ s.renews = IF P = 0 THEN None ELSE s.created + P
          BY <1>2, <3>2, NewSubscriptionIs
        <4>2. s.created \in Nat /\ P \in Nat /\ charged'[i] = 0
          BY <3>2, <4>1, MarketAssumption DEF Subscription, ChargedOnce
        <4>3. PaidThrough(i)' = s.created + (1 + charged'[i]) * P
          BY DEF PaidThrough
        <4>4. w \in Nat /\ P * w \in Nat
          BY <3>1, <4>2, Periods
        <4>5. s.renews = s.created + P
          BY <2>3, <4>1, MarketAssumption
        <4> HIDE DEF s, P, w
        <4>6. PaidThrough(i)' = s.created + P
          BY <4>2, <4>3
        <4>7. PaidThrough(i)' <= s.renews + P * w
          BY <4>2, <4>4, <4>5, <4>6
        <4> QED
          BY <4>7 DEF s, P, w
      <3>3. CASE i \in DOMAIN subs
        <4> DEFINE P == PeriodOf(subs[i].product)
                   w == Working(i, PaidSteps) + faults
                   v == Working(i, PaidSteps)' + faults'
                   r == subs[i].renews
                   t == subs'[i].renews
        <4>1. /\ PaidThrough(i) \in Nat /\ PaidThrough(i)' \in Nat /\ P \in Nat
              /\ PeriodOf(subs'[i].product) = P
          BY <1>2, <3>3, PaidThroughStep
        <4>2. r \in Nat => PaidThrough(i) <= r + P * w
          BY <3>3 DEF ChargedOnce
        <4>3. w \in Nat /\ v \in Nat /\ t \in Nat
          BY <2>3, <3>1
        <4>4. \/ t = r /\ PaidThrough(i)' = PaidThrough(i) /\ v >= w
              \/ t = r /\ PaidThrough(i)' = PaidThrough(i) + P /\ v = w + 1
              \/ r \in Nat /\ t = r + P /\ PaidThrough(i)' = PaidThrough(i) /\ v + 1 = w
          BY <1>2, <3>3, DebtStep
        <4>5. /\ P * w \in Nat /\ P * v \in Nat /\ P * (w + 1) = P * w + P
              /\ P * (v + 1) = P * v + P /\ (v >= w => P * v >= P * w)
          BY <4>1, <4>3, Periods
        <4> HIDE DEF P, w, v, r, t
        <4>6. PaidThrough(i)' <= t + P * v
          <5>1. CASE t = r /\ PaidThrough(i)' = PaidThrough(i) /\ v >= w
            BY <4>1, <4>2, <4>3, <4>5, <5>1
          <5>2. CASE t = r /\ PaidThrough(i)' = PaidThrough(i) + P /\ v = w + 1
            BY <4>1, <4>2, <4>3, <4>5, <5>2
          <5>3. CASE r \in Nat /\ t = r + P /\ PaidThrough(i)' = PaidThrough(i) /\ v + 1 = w
            <6>1. P * w = P * v + P
              BY <4>5, <5>3
            <6> QED
              BY <4>1, <4>2, <4>3, <4>5, <5>3, <6>1
          <5> QED
            BY <4>4, <5>1, <5>2, <5>3
        <4> QED
          BY <4>1, <4>6 DEF t, v
      <3> QED
        BY <3>2, <3>3
    <2> QED
      BY <2>1, <2>2, <2>3 DEF ChargedOnce
  <1> QED
    BY <1>1, <1>2

LEMMA InitChargedOnce == Init => ChargedOnce
  <1> SUFFICES ASSUME Init
               PROVE  ChargedOnce
    OBVIOUS
  <1>1. DOMAIN subs = {} /\ DOMAIN batch = {} /\ charged = [i \in 1..MaxSubs |-> 0]
    BY NoRowsTyped DEF Init, ProcessesInit, Renewal!RenewalInit
  <1> QED
    BY <1>1 DEF ChargedOnce

LEMMA OnceIsNotTwice == MarketInv /\ ChargedOnce => NoDoubleCharge
  <1> SUFFICES ASSUME MarketInv, ChargedOnce, NEW i \in DOMAIN subs, subs[i].renews # None
               PROVE  PaidThrough(i) <= subs[i].renews
                        + PeriodOf(subs[i].product) * (Working(i, PaidSteps) + faults)
    BY DEF NoDoubleCharge, Recurring, PaidSteps
  <1>1. subs[i].renews \in Nat
    BY TypedTables DEF MarketInv, Subscription
  <1> QED
    BY <1>1 DEF ChargedOnce

(* No period is charged twice, through failures, crashes, lost answers and *)
(* runs of the job over rows read long before: each charge but the one     *)
(* under way has moved renews_at on, or a failure kept it from doing so    *)
(* (market_renewal.rs:80-150).  This supposes that no admin saves an order *)
(* opened before a renewal, which would put the old renews_at back         *)
(* (update_market_subscription.rs:95).                                     *)
THEOREM PeriodsAreChargedOnce == Spec /\ []RenewalsDontCrossEdits => []NoDoubleCharge
  <1>1. Init => ChargedOnce
    BY InitChargedOnce
  <1>2. MarketInv /\ RenewalsDontCrossEdits /\ ChargedOnce /\ [Next]_vars => ChargedOnce'
    BY ChargedOnceStays
  <1>3. MarketInv /\ ChargedOnce => NoDoubleCharge
    BY OnceIsNotTwice
  <1> QED
    BY <1>1, <1>2, <1>3, MemoryStaysTrue, PTL DEF Spec

-----------------------------------------------------------------------------
(* A subscription is terminated by a pass over rows that were canceled and whose time was *)
(* up when they were read, and stays so; and none is renewed once it is terminated. *)
EndedOnTime ==
    /\ job.pc \in OverLapsed => \A i \in DOMAIN batch :
        subs[i].canceled /\ (batch[i].renews \in Nat => batch[i].renews <= now)
    /\ job.pc \in OverDue => \A i \in DOMAIN batch : ~subs[i].terminated
    /\ \A i \in DOMAIN subs : subs[i].terminated => subs[i].canceled
    /\ \A e \in Editors :
        edit[e].pc = "notes" /\ edit[e].row.terminated => subs[edit[e].id].terminated
    /\ \A i \in DOMAIN subs : subs[i].terminated /\ subs[i].renews \in Nat =>
        PaidThrough(i) <= now + PeriodOf(subs[i].product) * faults

LEMMA TerminatedStep ==
    ASSUME MarketInv, EndedOnTime, Next, NEW i \in DOMAIN subs, subs'[i].terminated
    PROVE  \/ subs[i].terminated
           \/ /\ Renewal!StampTerminated /\ job.pc = "stamp" /\ job.id = i /\ i \in DOMAIN batch
              /\ subs'[i].renews = subs[i].renews
  <1>1. ASSUME Renewal!StampTerminated, job.id = i
        PROVE  job.pc = "stamp" /\ i \in DOMAIN batch
    <2>1. job.pc = "stamp" /\ job.pc \in AtRow
      BY <1>1 DEF Renewal!StampTerminated, Renewal!At, AtRow
    <2> QED
      BY <1>1, <2>1, JobTyped
  <1>2. ASSUME NEW e \in Editors, edit[e].pc = "notes", edit[e].id = i, edit[e].row.terminated
        PROVE  subs[i].terminated
    BY <1>2 DEF EndedOnTime
  <1> QED
    BY <1>1, <1>2, SubStep

LEMMA EndedOnTimeStays ==
    ASSUME MarketInv, RenewalsDontCrossEdits, ChargedOnce, EndedOnTime, [Next]_vars
    PROVE  EndedOnTime'
  <1>1. CASE UNCHANGED vars
    BY <1>1 DEF vars, market, renewal, account, EndedOnTime, PaidThrough
  <1>2. CASE Next
    <2>1. now \in Nat /\ now' \in Nat /\ now' >= now /\ faults \in Nat /\ faults' \in Nat
          /\ faults' >= faults
      <3>1. now \in Nat
        BY MarketAssumption DEF MarketInv, TypeOK, TablesTypeOK
      <3>2. now' = now \/ now' = now + 1
        BY <1>2, Writers DEF Renewal!Tick
      <3> QED
        BY <1>2, <3>1, <3>2, FaultsGrow
    <2>2. ASSUME job'.pc \in OverLapsed, NEW i \in DOMAIN batch'
          PROVE  subs'[i].canceled /\ (batch'[i].renews \in Nat => batch'[i].renews <= now')
      <3>1. CASE i \in DOMAIN batch /\ batch'[i] = batch[i] /\ job.pc \in OverLapsed
        <4>1. i \in DOMAIN subs /\ subs[i].canceled
              /\ (batch[i].renews \in Nat => batch[i].renews <= now)
          BY <3>1, JobTyped DEF EndedOnTime
        <4> QED
          BY <1>2, <2>1, <3>1, <4>1, SubscriptionEndsForGood
      <3>2. CASE UNCHANGED market /\ i \in DOMAIN subs /\ batch'[i] = subs[i] /\ Lapsed(i)
        BY <2>1, <3>2, MarketAssumption DEF market, Lapsed
      <3>3. \/ i \in DOMAIN batch /\ batch'[i] = batch[i] /\ job.pc \in OverLapsed
            \/ UNCHANGED market /\ i \in DOMAIN subs /\ batch'[i] = subs[i] /\ Lapsed(i)
        BY <1>2, <2>2, BatchStep DEF RowsStay, OverDue, OverLapsed
      <3> QED
        BY <3>1, <3>2, <3>3
    <2>3. ASSUME job'.pc \in OverDue, NEW i \in DOMAIN batch'
          PROVE  ~subs'[i].terminated
      <3>1. CASE i \in DOMAIN batch /\ job.pc \in OverDue
        <4>1. i \in DOMAIN subs /\ ~subs[i].terminated /\ job.pc # "stamp"
          BY <3>1, JobTyped DEF EndedOnTime, OverDue
        <4> QED
          BY <1>2, <4>1, TerminatedStep
      <3>2. CASE UNCHANGED market /\ i \in DOMAIN subs /\ Due(i)
        BY <3>2 DEF market, Due, EndedOnTime
      <3>3. \/ i \in DOMAIN batch /\ job.pc \in OverDue
            \/ UNCHANGED market /\ i \in DOMAIN subs /\ Due(i)
        BY <1>2, <2>3, BatchStep DEF RowsStay, OverDue
      <3> QED
        BY <3>1, <3>2, <3>3
    <2>4. ASSUME NEW i \in DOMAIN subs', subs'[i].terminated
          PROVE  subs'[i].canceled
      <3>1. i \in DOMAIN subs
        BY <1>2, <2>4, NewSubscriptionIs
      <3>2. subs[i].canceled
        BY <1>2, <2>4, <3>1, TerminatedStep DEF EndedOnTime, OverLapsed
      <3> QED
        BY <1>2, <3>1, <3>2, SubscriptionEndsForGood
    <2>5. ASSUME NEW e \in Editors, NEW k, k = edit'[e], k.pc = "notes", k.row.terminated
          PROVE  subs'[k.id].terminated
      <3>1. k.id \in DOMAIN subs /\ subs[k.id].terminated
        BY <1>2, <2>5, EditStep, AccountTyped DEF EditOK, EndedOnTime
      <3> QED
        BY <1>2, <3>1, SubscriptionEndsForGood
    <2>6. ASSUME NEW i \in DOMAIN subs', subs'[i].terminated, subs'[i].renews \in Nat
          PROVE  PaidThrough(i)' <= now' + PeriodOf(subs'[i].product) * faults'
      <3>1. i \in DOMAIN subs
        BY <1>2, <2>6, NewSubscriptionIs
      <3> DEFINE P == PeriodOf(subs[i].product)
      <3>2. P \in Nat /\ PeriodOf(subs'[i].product) = P /\ PaidThrough(i) \in Nat
            /\ PaidThrough(i)' \in Nat
        BY <1>2, <3>1, PaidThroughStep
      <3>3. ~(job.id = i /\ job.pc \in {"charge", "advance"})
        <4>1. ASSUME job.id = i, job.pc \in {"charge", "advance"}
              PROVE  FALSE
          <5>1. i \in DOMAIN batch /\ job.pc \in OverDue /\ job.pc # "stamp"
            BY <4>1, JobTyped DEF AtRow, OverDue
          <5>2. ~subs[i].terminated
            BY <5>1 DEF EndedOnTime
          <5> QED
            BY <1>2, <2>6, <3>1, <5>1, <5>2, TerminatedStep
        <4> QED
          BY <4>1
      <3>4. PaidThrough(i)' = PaidThrough(i)
        BY <1>2, <3>1, <3>3, PaidThroughStep, ChargedIs
      <3>5. subs'[i].renews = subs[i].renews
        <4>1. ~(Renewal!AdvanceRenewal /\ job.id = i)
          BY <3>3 DEF Renewal!AdvanceRenewal, Renewal!At
        <4> QED
          BY <1>2, <3>1, <4>1, RenewsStep
      <3>6. PaidThrough(i) <= now + P * faults
        <4>1. CASE subs[i].terminated
          BY <2>6, <3>1, <3>5, <4>1 DEF EndedOnTime
        <4>2. CASE job.pc = "stamp" /\ job.id = i /\ i \in DOMAIN batch
          <5> DEFINE r == subs[i].renews
                     f == faults
          <5>1. batch[i].renews = r
            BY <4>2 DEF ChargedOnce
          <5>2. r <= now /\ r \in Nat
            BY <2>6, <3>5, <4>2, <5>1 DEF EndedOnTime, OverLapsed
          <5>3. Working(i, PaidSteps) = 0
            BY <4>2 DEF Working, PaidSteps
          <5>4. PaidThrough(i) <= r + P * (Working(i, PaidSteps) + f)
            BY <3>1, <5>2 DEF ChargedOnce
          <5>5. Working(i, PaidSteps) + f = f
            BY <2>1, <5>3
          <5>6. P * f \in Nat
            BY <2>1, <3>2, Periods
          <5> HIDE DEF r, f, P
          <5>7. PaidThrough(i) <= r + P * f
            BY <5>4, <5>5
          <5>8. PaidThrough(i) <= now + P * f
            BY <2>1, <3>2, <5>2, <5>6, <5>7
          <5> QED
            BY <5>8 DEF f
        <4> QED
          BY <1>2, <2>6, <3>1, <4>1, <4>2, TerminatedStep
      <3>7. P * faults \in Nat /\ P * faults' \in Nat /\ P * faults' >= P * faults
        BY <2>1, <3>2, Periods
      <3> HIDE DEF P
      <3>8. PaidThrough(i)' <= now' + P * faults'
        BY <2>1, <3>2, <3>4, <3>6, <3>7
      <3> QED
        BY <3>2, <3>8
    <2> QED
      BY <2>2, <2>3, <2>4, <2>5, <2>6 DEF EndedOnTime
  <1> QED
    BY <1>1, <1>2

(* A buyer who cancels, or whose card is declined, is served for all that  *)
(* was charged before service ends, but for what a failure left            *)
(* unrecorded: the job ends only what it read as canceled and over, and    *)
(* what it ended it never charges again (market_renewal.rs:176-230).       *)
THEOREM ServedUntilPaid == Spec /\ []RenewalsDontCrossEdits => []ServedForWhatWasPaid
  <1>1. Init => ChargedOnce /\ EndedOnTime
    <2> SUFFICES ASSUME Init
                 PROVE  EndedOnTime
      BY InitChargedOnce
    <2>1. DOMAIN subs = {} /\ DOMAIN batch = {} /\ \A e \in Editors : edit[e].pc = "idle"
      BY NoRowsTyped DEF Init, ProcessesInit, Renewal!RenewalInit, AccountInit, IdleEdit
    <2> QED
      BY <2>1 DEF EndedOnTime
  <1>2. MarketInv /\ RenewalsDontCrossEdits /\ ChargedOnce /\ EndedOnTime /\ [Next]_vars
        => ChargedOnce' /\ EndedOnTime'
    BY ChargedOnceStays, EndedOnTimeStays
  <1>3. MarketInv /\ EndedOnTime => ServedForWhatWasPaid
    <2> SUFFICES ASSUME MarketInv, EndedOnTime,
                        NEW i \in DOMAIN subs, subs[i].renews # None, subs[i].terminated
                 PROVE  PaidThrough(i) <= now + faults * PeriodOf(subs[i].product)
      BY DEF ServedForWhatWasPaid, Recurring
    <2>1. subs[i].renews \in Nat /\ PeriodOf(subs[i].product) \in Nat /\ faults \in Nat
      <3>1. subs[i] \in Subscription /\ faults \in 0..MaxFaults
        BY TypedTables DEF MarketInv, TypeOK, TablesTypeOK
      <3>2. subs[i].renews \in Nat /\ subs[i].product \in Products
        BY <3>1 DEF Subscription
      <3> QED
        BY <3>1, <3>2, MarketAssumption
    <2>2. PeriodOf(subs[i].product) * faults = faults * PeriodOf(subs[i].product)
      BY <2>1, Periods
    <2> QED
      BY <2>1, <2>2 DEF EndedOnTime
  <1> QED
    BY <1>1, <1>2, <1>3, MemoryStaysTrue, PTL DEF Spec

-----------------------------------------------------------------------------
(* The subscriptions that have a slot of the product: those that are live, and those that a *)
(* cancellation has yet to free. *)
Held(p) ==
    {i \in DOMAIN subs :
        /\ subs[i].product = p
        /\ \/ ~subs[i].canceled
           \/ \E c \in Cancelers : cancel[c].pc # "idle" /\ cancel[c].sub = i}

CancelsKnow == \A c \in Cancelers : cancel[c].pc = "free" => subs[cancel[c].sub].canceled

(* There is room for every slot that is taken in a count of n. *)
RoomIn(n, p) == Cardinality(Held(p)) <= n + Cardinality(BeingCounted(p)) + faults

(* The count has room, but for what was forgotten; and so will the one an  *)
(* editor puts back, with the sales that it takes back.                    *)
SlotsCovered ==
    /\ CancelsKnow
    /\ \A p \in Products : RoomIn(product[p].sold + forgotten, p)
    /\ \A e \in Editors, p \in Products :
        Opened(e, p) => RoomIn(edit[e].row.sold + crossed[e] + forgotten, p)

(* A cancellation begins with a subscription that is live. *)
LEMMA CancelStep ==
    ASSUME MarketInv, Next, NEW c \in Cancelers, NEW k, k = cancel'[c], k.pc # "idle"
    PROVE  /\ \/ cancel[c].pc # "idle" /\ cancel[c].sub = k.sub /\ ~FreeSlot(c)
              \/ k.sub \in DOMAIN subs /\ ~subs[k.sub].canceled
           /\ \/ k.pc # "free"
              \/ cancel[c] = k
              \/ subs'[k.sub].canceled
  <1>1. cancel \in [Cancelers -> CancelState]
    BY AccountTyped
  <1>2. ASSUME NEW i \in DOMAIN subs, ReadForCancel(c, i)
        PROVE  k.pc # "free" /\ k.sub \in DOMAIN subs /\ ~subs[k.sub].canceled
    BY <1>1, <1>2 DEF ReadForCancel
  <1>3. ASSUME SetCanceled(c)
        PROVE  /\ cancel[c].pc = "cancel" /\ cancel[c].sub = k.sub
               /\ subs'[k.sub].canceled
    <2>1. cancel[c].pc = "cancel" /\ k.sub = cancel[c].sub
      BY <1>1, <1>3 DEF SetCanceled, CancelState
    <2>2. k.sub \in DOMAIN subs
      BY <2>1, AccountTyped DEF CancelOK
    <2>3. subs'[k.sub] = [subs[k.sub] EXCEPT !.canceled = TRUE] /\ subs[k.sub] \in Subscription
      BY <1>3, <2>1, <2>2, TypedTables DEF SetCanceled, MarketInv, TypeOK, TablesTypeOK
    <2> QED
      BY <2>1, <2>3 DEF Subscription
  <1>4. ASSUME FreeSlot(c) \/ FailCancel(c)
        PROVE  FALSE
    BY <1>1, <1>4 DEF FreeSlot, FailCancel, IdleCancel
  <1>5. ASSUME NEW d \in Cancelers, d # c,
               \/ \E i \in DOMAIN subs : ReadForCancel(d, i)
               \/ SetCanceled(d) \/ FreeSlot(d) \/ FailCancel(d)
        PROVE  cancel[c] = k
    BY <1>1, <1>5 DEF ReadForCancel, SetCanceled, FreeSlot, FailCancel
  <1>6. ASSUME NEW e \in Editors,
               \/ \E p \in Products : ReadProduct(e, p)
               \/ WriteProduct(e)
               \/ \E i \in DOMAIN subs : ReadSubscription(e, i)
               \/ WriteSubscription(e)
        PROVE  cancel[c] = k
    BY <1>6 DEF ReadProduct, WriteProduct, ReadSubscription, WriteSubscription
  <1>7. CASE CheckoutStep \/ RenewalStep
    <2>1. cancel[c] = k
      BY <1>7 DEF CheckoutStep, RenewalStep, account
    <2> QED
      BY <1>4, <2>1
  <1>8. CASE AccountStep
    BY <1>2, <1>3, <1>4, <1>5, <1>6, <1>8 DEF AccountStep, AccountNext
  <1> QED
    BY <1>7, <1>8 DEF Next

(* Slots are taken by new subscriptions only. *)
LEMMA HeldStep ==
    ASSUME MarketInv, Next, NEW p \in Products
    PROVE  \A i \in Held(p)' :
             \/ i \in Held(p)
             \/ i \in DOMAIN subs' \ DOMAIN subs /\ subs'[i].product = p
  <1> SUFFICES ASSUME NEW i \in DOMAIN subs, i \in Held(p)'
               PROVE  i \in Held(p)
    BY DEF Held
  <1>1. subs[i].product = p
    BY SubStep DEF Held, Same
  <1>2. CASE ~subs'[i].canceled
    BY <1>1, <1>2, SubscriptionEndsForGood DEF Held
  <1>3. ASSUME NEW c \in Cancelers, NEW k, k = cancel'[c], k.pc # "idle", k.sub = i
        PROVE  i \in Held(p)
    BY <1>1, <1>3, CancelStep DEF Held
  <1> QED
    BY <1>2, <1>3 DEF Held

(* A thread leaves the steps before the count by counting, or by failing. *)
LEMMA CountingStep ==
    ASSUME MarketInv, Next, NEW p \in Products, NEW h \in BeingCounted(p)
    PROVE  h \in BeingCounted(p)' \/ CountSale(h) \/ FailDelivery(h)
  <1>1. hook \in [Hooks -> HookState] /\ h \in Hooks
        /\ hook[h].pc \in {"purchase", "payment", "count"} /\ SessionOf(h).product = p
    BY DEF MarketInv, TypeOK, BeingCounted
  <1>2. session'[hook[h].session] = session[hook[h].session]
    BY <1>1, HookTyped, SessionsAreKept DEF HookOK, SessionsKeep
  <1>3. ASSUME hook'[h] = hook[h]
        PROVE  h \in BeingCounted(p)'
    BY <1>1, <1>2, <1>3 DEF BeingCounted, SessionOf
  <1>4. ASSUME NEW g \in Hooks, g # h,
               \/ \E s \in Sessions : Deliver(g, s)
               \/ HandlerStep(g) \/ FailDelivery(g)
        PROVE  hook'[h] = hook[h]
    BY <1>1, <1>4 DEF Deliver, HandlerStep, FailDelivery, CheckProcessed, LoadProduct,
                      InsertSubscription, InsertPurchase, InsertPayment, CountSale, Fulfil,
                      GrantPermissions, Answer, GoTo
  <1>5. ASSUME InsertPurchase(h) \/ InsertPayment(h)
        PROVE  h \in BeingCounted(p)'
    <2>1. hook'[h].pc \in {"payment", "count"} /\ hook'[h].session = hook[h].session
      BY <1>1, <1>5 DEF InsertPurchase, InsertPayment, GoTo, HookState
    <2> QED
      BY <1>1, <1>2, <2>1 DEF BeingCounted, SessionOf
  <1>6. ~\E s \in Sessions : Deliver(h, s)
    <2>1. hook[h] # IdleHook
      BY <1>1 DEF IdleHook
    <2> QED
      BY <2>1 DEF Deliver
  <1>7. /\ ~CheckProcessed(h) /\ ~LoadProduct(h) /\ ~InsertSubscription(h)
        /\ ~Fulfil(h) /\ ~GrantPermissions(h)
    BY <1>1 DEF CheckProcessed, LoadProduct, InsertSubscription, Fulfil, GrantPermissions, At
  <1>8. CASE CheckoutStep
    <2>1. CASE \/ \E u \in Users, q \in Products : MakeMarketPurchase(u, q)
               \/ \E s \in Sessions : Pay(s)
      BY <1>3, <2>1 DEF MakeMarketPurchase, Pay, checkout
    <2> QED
      BY <1>3, <1>4, <1>5, <1>6, <1>7, <1>8, <2>1 DEF CheckoutStep, CheckoutNext, HandlerStep
  <1>9. CASE AccountStep \/ RenewalStep
    BY <1>3, <1>9, AccountWriters, RenewalWriters DEF checkout
  <1> QED
    BY <1>8, <1>9 DEF Next

(* A thread that has inserted a subscription comes to be counted. *)
LEMMA SoldStep ==
    ASSUME MarketInv, Next, NEW p \in Products, NEW i \in DOMAIN subs' \ DOMAIN subs,
           subs'[i].product = p
    PROVE  \E h \in Hooks : h \notin BeingCounted(p) /\ h \in BeingCounted(p)'
  <1>1. subs \in Seq(Subscription) /\ DOMAIN subs = 1..Len(subs) /\ Len(subs) \in Nat
        /\ hook \in [Hooks -> HookState]
    BY TypedTables DEF MarketInv, TypeOK, TablesTypeOK
  <1>2. PICK h \in Hooks : InsertSubscription(h)
    <2>1. CASE \E c \in Cancelers : SetCanceled(c)
      BY <1>1, <2>1 DEF SetCanceled
    <2>2. CASE \E e \in Editors : WriteSubscription(e)
      BY <1>1, <2>2 DEF WriteSubscription
    <2>3. CASE Renewal!AdvanceRenewal \/ Renewal!EndSubscription \/ Renewal!StampTerminated
      BY <1>1, <2>3 DEF Renewal!AdvanceRenewal, Renewal!EndSubscription, Renewal!StampTerminated
    <2> QED
      BY <2>1, <2>2, <2>3, Writers DEF SubsWriters
  <1>3. hook[h].pc = "subscribe" /\ hook'[h].pc = "purchase"
        /\ hook'[h].session = hook[h].session /\ session' = session
    BY <1>1, <1>2 DEF InsertSubscription, At, HookState
  <1>4. subs'[i].product = SessionOf(h).product
    <2>1. PICK r : subs' = Append(subs, r) /\ r.product = SessionOf(h).product
      BY <1>2 DEF InsertSubscription
    <2> QED
      BY <1>1, <2>1
  <1> QED
    BY <1>3, <1>4 DEF BeingCounted, SessionOf

(* Only these steps change the count. *)
LEMMA ProductStep ==
    ASSUME MarketInv, Next, NEW p \in Products
    PROVE  \/ product'[p].sold = product[p].sold
           \/ \E h \in Hooks : CountSale(h) /\ product'[p].sold = product[p].sold + 1
           \/ \E c \in Cancelers :
                /\ FreeSlot(c) /\ subs[cancel[c].sub].product = p
                /\ product'[p].sold + 1 >= product[p].sold
           \/ \E e \in Editors :
                WriteProduct(e) /\ Opened(e, p) /\ product'[p].sold = edit[e].row.sold
  <1>1. product \in [Products -> ProductRow] /\ product[p] \in ProductRow
        /\ product[p].sold \in Nat
    BY DEF MarketInv, TypeOK, TablesTypeOK, ProductRow
  <1>2. CASE product' = product
    BY <1>2
  <1>3. ASSUME NEW h \in Hooks, CountSale(h), product' # product
        PROVE  \/ product'[p].sold = product[p].sold
               \/ product'[p].sold = product[p].sold + 1
    <2> DEFINE q == SessionOf(h).product
    <2>1. product' = [product EXCEPT ![q].sold = @ + 1]
      BY <1>3 DEF CountSale
    <2> HIDE DEF q
    <2>2. product'[p] = product[p] \/ product'[p] = [product[p] EXCEPT !.sold = product[p].sold + 1]
      BY <1>1, <2>1
    <2> QED
      BY <1>1, <2>2 DEF ProductRow
  <1>4. ASSUME NEW c \in Cancelers, FreeSlot(c), product'[p] # product[p]
        PROVE  /\ subs[cancel[c].sub].product = p
               /\ product'[p].sold + 1 >= product[p].sold
    <2> DEFINE q == subs[cancel[c].sub].product
               n == IF product[p].sold > 0 THEN product[p].sold - 1 ELSE 0
    <2>1. product' = [product EXCEPT ![q].sold = IF @ > 0 THEN @ - 1 ELSE 0]
      BY <1>4 DEF FreeSlot
    <2> HIDE DEF q
    <2>2. q = p /\ product'[p] = [product[p] EXCEPT !.sold = n]
      BY <1>1, <1>4, <2>1
    <2>3. n + 1 >= product[p].sold
      BY <1>1
    <2> HIDE DEF n
    <2>4. product'[p].sold = n
      BY <1>1, <2>2 DEF ProductRow
    <2> QED
      BY <2>2, <2>3, <2>4 DEF q
  <1>5. ASSUME NEW e \in Editors, WriteProduct(e), product'[p] # product[p]
        PROVE  Opened(e, p) /\ product'[p].sold = edit[e].row.sold
    BY <1>1, <1>5 DEF WriteProduct, Opened
  <1>6. CASE CheckoutStep
    <2>1. ASSUME NEW h \in Hooks,
                 CheckProcessed(h) \/ LoadProduct(h) \/ InsertSubscription(h)
                    \/ InsertPurchase(h) \/ InsertPayment(h) \/ Fulfil(h)
                    \/ GrantPermissions(h) \/ FailDelivery(h)
          PROVE  product' = product
      BY <2>1 DEF CheckProcessed, LoadProduct, InsertSubscription, InsertPurchase,
         InsertPayment, Fulfil, GrantPermissions, FailDelivery, market, tables
    <2>2. CASE \/ \E u \in Users, q \in Products : MakeMarketPurchase(u, q)
               \/ \E s \in Sessions : Pay(s)
               \/ \E h \in Hooks, s \in Sessions : Deliver(h, s)
      BY <2>2 DEF MakeMarketPurchase, Pay, Deliver, market, tables
    <2> QED
      BY <1>2, <1>3, <1>6, <2>1, <2>2 DEF CheckoutStep, CheckoutNext, HandlerStep
  <1>7. CASE AccountStep
    <2>1. ASSUME NEW c \in Cancelers,
                 (\E i \in DOMAIN subs : ReadForCancel(c, i)) \/ SetCanceled(c) \/ FailCancel(c)
          PROVE  product' = product
      BY <2>1 DEF ReadForCancel, SetCanceled, FailCancel, market, tables
    <2>2. ASSUME NEW e \in Editors,
                 (\E q \in Products : ReadProduct(e, q)) \/ WriteSubscription(e)
                    \/ \E i \in DOMAIN subs : ReadSubscription(e, i)
          PROVE  product' = product
      BY <2>2 DEF ReadProduct, ReadSubscription, WriteSubscription, market
    <2> QED
      BY <1>2, <1>4, <1>5, <1>7, <2>1, <2>2 DEF AccountStep, AccountNext
  <1>8. CASE RenewalStep
    <2>1. product' = product
      BY <1>8 DEF RenewalStep, Renewal!RenewalNext, Renewal!JobStep, Renewal!Tick,
         Renewal!StartJob, Renewal!LoadDue, Renewal!RowsWhere, Renewal!FailQuery,
         Renewal!NextDue, Renewal!Err,
         Renewal!Declined, Renewal!Charge, Renewal!ChargeUnanswered, Renewal!RecordPurchase,
         Renewal!RecordPayment, Renewal!AdvanceRenewal, Renewal!Refulfil,
         Renewal!RegrantPermissions, Renewal!FailRenewal, Renewal!EndSubscription,
         Renewal!LoadLapsed, Renewal!NextLapsed, Renewal!Revoke, Renewal!TakePermissions,
         Renewal!StampTerminated, Renewal!FailTermination, Renewal!CrashJob,
         Renewal!market, Renewal!tables
    <2> QED
      BY <1>2, <2>1
  <1> QED
    BY <1>6, <1>7, <1>8 DEF Next

LEMMA SetsOfSlots ==
    ASSUME MarketInv, NEW p \in Products
    PROVE  IsFiniteSet(Held(p)) /\ IsFiniteSet(BeingCounted(p))
  <1>1. IsFiniteSet(DOMAIN subs)
    <2>1. DOMAIN subs = 1..Len(subs) /\ Len(subs) \in Nat
      BY TypedTables DEF MarketInv
    <2> QED
      BY <2>1, FS_Interval
  <1>2. Held(p) \subseteq DOMAIN subs /\ BeingCounted(p) \subseteq Hooks
    BY DEF Held, BeingCounted
  <1> QED
    BY <1>1, <1>2, FS_Subset, CheckoutAssumption

LEMMA ThreadAlone ==
    ASSUME MarketInv, NEW h \in Hooks, CountSale(h) \/ FailDelivery(h)
    PROVE  /\ subs' = subs /\ hook' # hook /\ session' = session
           /\ \A g \in Hooks : g # h => hook'[g] = hook[g]
  <1>1. hook \in [Hooks -> HookState]
    BY DEF MarketInv, TypeOK
  <1>2. hook[h].pc # hook'[h].pc
    <2>1. CASE CountSale(h)
      <3>1. hook[h].pc = "count" /\ hook'[h].pc = "fulfil"
        BY <1>1, <2>1 DEF CountSale, GoTo, At, HookState
      <3> QED
        BY <3>1
    <2>2. CASE FailDelivery(h)
      <3>1. hook[h] # IdleHook /\ hook'[h] = IdleHook
        BY <1>1, <2>2 DEF FailDelivery
      <3>2. hook[h].pc # "idle"
        BY <3>1, HookTyped DEF HookOK
      <3> QED
        BY <3>1, <3>2 DEF IdleHook
    <2> QED
      BY <2>1, <2>2
  <1>3. subs' = subs /\ session' = session
    BY DEF CountSale, FailDelivery, tables
  <1>4. \A g \in Hooks : g # h => hook'[g] = hook[g]
    <2>1. CASE CountSale(h)
      <3>1. hook' = [hook EXCEPT ![h].pc = "fulfil"]
        BY <2>1 DEF CountSale, GoTo
      <3> QED
        BY <1>1, <3>1
    <2>2. CASE FailDelivery(h)
      BY <1>1, <2>2 DEF FailDelivery
    <2> QED
      BY <2>1, <2>2
  <1> QED
    BY <1>2, <1>3, <1>4

(* A count goes from n to m: a sale that is counted raises it, and only a  *)
(* cancellation that is alone may lower it, by one.                        *)
Counts(n, m, p) ==
    \/ m >= n /\ ~\E h \in Hooks : CountSale(h)
    \/ \E h \in Hooks :
        /\ CountSale(h) /\ m >= n
        /\ SessionOf(h).product = p /\ product' # product => m >= n + 1
    \/ \E c \in Cancelers :
        /\ FreeSlot(c) /\ subs[cancel[c].sub].product = p /\ ~FreesAgain(c)
        /\ m + 1 >= n

(* The sums of the next lemma: what is held, a room of n, what is being     *)
(* counted and the failures, before and after a step.                       *)
LEMMA SumsCarry ==
    ASSUME NEW a \in Nat, NEW b \in Nat, NEW c \in Nat, NEW d \in Nat, NEW n \in Nat,
           NEW m \in Nat, NEW g \in Nat, NEW h \in Nat, NEW x \in Nat,
           a <= b, b <= n + c + g, c <= d + x, n + g + x <= m + h
    PROVE  a <= m + d + h
  <1>1. b <= n + d + x + g
    OBVIOUS
  <1>2. n + d + x + g <= m + d + h
    OBVIOUS
  <1> QED
    BY <1>1, <1>2

LEMMA SumsGrow ==
    ASSUME NEW n \in Nat, NEW m \in Nat, NEW g \in Nat, NEW h \in Nat, NEW x \in Nat,
           n + x <= m, g <= h
    PROVE  n + g + x <= m + h
  OBVIOUS

(* Such a count keeps its room.                                             *)
LEMMA RoomStep ==
    ASSUME MarketInv, CancelsKnow, Next, NEW p \in Products, NEW n \in Nat, NEW m \in Nat,
           RoomIn(n, p),
           Counts(n, m, p)
    PROVE  Cardinality(Held(p)') <= m + Cardinality(BeingCounted(p)') + faults'
  <1> DEFINE H == Held(p)
             H2 == Held(p)'
             B == BeingCounted(p)
             B2 == BeingCounted(p)'
  <1>1. MarketInv'
    BY MarketInductive
  <1>2. faults \in Nat /\ faults' \in Nat /\ faults' >= faults
    BY FaultsGrow
  <1>3. IsFiniteSet(H) /\ IsFiniteSet(H2) /\ IsFiniteSet(B) /\ IsFiniteSet(B2)
    <2>1. IsFiniteSet(H2)
      <3>1. DOMAIN subs' = 1..Len(subs') /\ Len(subs') \in Nat
        BY <1>1, TypedTables DEF MarketInv, TypeOK, TablesTypeOK
      <3>2. H2 \subseteq DOMAIN subs'
        BY DEF Held
      <3>3. IsFiniteSet(DOMAIN subs')
        BY <3>1, FS_Interval
      <3> QED
        BY <3>2, <3>3, FS_Subset
    <2>2. IsFiniteSet(B2)
      <3>1. B2 \subseteq Hooks
        BY DEF BeingCounted
      <3> QED
        BY <3>1, FS_Subset, CheckoutAssumption
    <2> QED
      BY <2>1, <2>2, SetsOfSlots
  <1>4. /\ Cardinality(H) \in Nat /\ Cardinality(H2) \in Nat
        /\ Cardinality(B) \in Nat /\ Cardinality(B2) \in Nat
        /\ Cardinality(H) <= n + Cardinality(B) + faults
    BY <1>3, FS_CardinalityType DEF RoomIn
  <1>5. \A i \in H2 : i \in H \/ (i \in DOMAIN subs' \ DOMAIN subs /\ subs'[i].product = p)
    BY HeldStep
  <1>6. \A h \in B : h \in B2 \/ CountSale(h) \/ FailDelivery(h)
    BY CountingStep
  <1>7. hook \in [Hooks -> HookState] /\ B \subseteq Hooks
    BY DEF MarketInv, TypeOK, BeingCounted
  <1>8. \A h \in B : hook[h].pc \in {"purchase", "payment", "count"} /\ SessionOf(h).product = p
    BY DEF BeingCounted
  <1>9. SUFFICES Cardinality(H2) <= m + Cardinality(B2) + faults'
    OBVIOUS
  <1>10. ASSUME NEW c \in Cancelers, FreeSlot(c)
         PROVE  UNCHANGED <<subs, hook, session, faults>>
    <2>1. AccountStep \/ hook' = hook
      <3>1. cancel[c].pc = "free" /\ cancel'[c] = IdleCancel
        BY <1>10, AccountTyped DEF FreeSlot
      <3>2. cancel' # cancel
        BY <3>1 DEF IdleCancel
      <3> QED
        BY <3>2 DEF Next, CheckoutStep, RenewalStep, account
    <2> QED
      BY <1>10, <2>1, AccountWriters DEF FreeSlot, checkout
  <1>12. ASSUME NEW h \in Hooks, CountSale(h) \/ FailDelivery(h)
         PROVE  B \subseteq B2 \cup {h}
    <2>1. \A g \in B : g # h => g \in B2
      BY <1>7, <1>8, <1>12, ThreadAlone DEF B2, BeingCounted, SessionOf
    <2> QED
      BY <2>1
  <1> HIDE DEF H, H2, B, B2
  <1>13. CASE \E i \in DOMAIN subs' \ DOMAIN subs : subs'[i].product = p
    <2>1. PICK i \in DOMAIN subs' \ DOMAIN subs : subs'[i].product = p
      BY <1>13
    <2>2. DOMAIN subs' = DOMAIN subs \cup {i} /\ faults' = faults
      BY NewSubscriptionIs
    <2>3. PICK h \in Hooks : h \notin B /\ h \in B2
      BY <2>1, SoldStep DEF B, B2
    <2>4. B \subseteq B2
      BY <1>6, <1>7, ThreadAlone, <2>1
    <2>5. Cardinality(B) + 1 <= Cardinality(B2)
      BY <1>3, <2>3, <2>4, OneMore
    <2>6. H2 \subseteq H \cup {i}
      BY <1>5, <2>2
    <2>7. Cardinality(H2) <= Cardinality(H) + 1
      BY <1>3, <2>6, OneMore
    <2>8. m >= n
      BY <1>10, <2>1 DEF Counts
    <2> DEFINE b == Cardinality(H) + 1
               c == Cardinality(B) + 1
    <2>9. b \in Nat /\ c \in Nat
      BY <1>4
    <2>10. b <= n + c + faults
      BY <1>2, <1>4
    <2>11. n + faults + 0 <= m + faults' /\ c <= Cardinality(B2) + 0
      BY <1>2, <1>4, <2>2, <2>5, <2>8
    <2>12. Cardinality(H2) <= b
      BY <2>7
    <2> HIDE DEF b, c
    <2> QED
      BY <1>2, <1>4, <2>9, <2>10, <2>11, <2>12, SumsCarry
  <1>14. CASE ~\E i \in DOMAIN subs' \ DOMAIN subs : subs'[i].product = p
    <2>1. H2 \subseteq H
      BY <1>5, <1>14
    <2>8. Cardinality(H2) <= Cardinality(H)
      BY <1>3, <2>1, FS_Subset
    <2>2. ASSUME B \subseteq B2, m >= n
          PROVE  Cardinality(H2) <= m + Cardinality(B2) + faults'
      <3>1. Cardinality(B) <= Cardinality(B2)
        BY <1>3, <2>2, FS_Subset
      <3>2. n + faults + 0 <= m + faults'
        <4>1. n + 0 <= m /\ faults <= faults'
          BY <1>2, <2>2
        <4> QED
          BY <1>2, <4>1, SumsGrow
      <3>3. Cardinality(B) <= Cardinality(B2) + 0
        BY <1>4, <3>1
      <3> QED
        BY <1>2, <1>4, <2>8, <3>2, <3>3, SumsCarry
    <2>3. ASSUME NEW h \in Hooks, CountSale(h) \/ FailDelivery(h), n + faults + 1 <= m + faults'
          PROVE  Cardinality(H2) <= m + Cardinality(B2) + faults'
      <3>1. Cardinality(B) <= Cardinality(B2) + 1
        <4>1. B \subseteq B2 \cup {h}
          BY <1>12, <2>3
        <4> QED
          BY <1>3, <4>1, OneMore
      <3>2. n + faults + 1 <= m + faults'
        BY <2>3
      <3> QED
        BY <1>2, <1>4, <2>8, <3>1, <3>2, SumsCarry
    <2>4. ASSUME NEW h \in Hooks, CountSale(h), m >= n,
                 SessionOf(h).product = p /\ product' # product => m >= n + 1
          PROVE  Cardinality(H2) <= m + Cardinality(B2) + faults'
      <3>1. CASE SessionOf(h).product # p
        <4>1. h \notin B
          BY <1>8, <3>1
        <4>2. B \subseteq B2
          BY <1>12, <2>4, <4>1
        <4> QED
          BY <2>2, <2>4, <4>2
      <3>2. CASE product' # product /\ SessionOf(h).product = p
        <4>1. n + faults + 1 <= m + faults'
          <5>1. n + 1 <= m /\ faults <= faults'
            BY <1>2, <2>4, <3>2
          <5> QED
            BY <1>2, <5>1, SumsGrow
        <4> QED
          BY <2>3, <2>4, <4>1
      <3>3. CASE product' = product /\ SessionOf(h).product = p
        <4>1. faults' = faults + 1
          <5>1. product \in [Products -> ProductRow] /\ product[p] \in ProductRow
                /\ product[p].sold \in Nat
            BY DEF MarketInv, TypeOK, TablesTypeOK, ProductRow
          <5>2. CASE product' = [product EXCEPT ![p].sold = @ + 1]
            <6>1. product'[p] = [product[p] EXCEPT !.sold = product[p].sold + 1]
              BY <5>1, <5>2
            <6>2. product'[p].sold = product[p].sold + 1
              BY <5>1, <6>1 DEF ProductRow
            <6> QED
              BY <3>3, <5>1, <6>2
          <5> QED
            BY <2>4, <3>3, <5>2 DEF CountSale, Fault
        <4> QED
          <5>1. n + faults + 1 <= m + faults'
            BY <1>2, <2>4, <4>1
          <5> QED
            BY <2>3, <2>4, <5>1
      <3> QED
        BY <3>1, <3>2, <3>3
    <2>5. ASSUME NEW h \in B, FailDelivery(h), m >= n
          PROVE  Cardinality(H2) <= m + Cardinality(B2) + faults'
      <3>1. faults' = faults + 1
        BY <2>5 DEF FailDelivery, Fault
      <3>2. n + faults + 1 <= m + faults'
        BY <1>2, <2>5, <3>1
      <3> QED
        BY <1>7, <2>3, <2>5, <3>2
    <2>6. CASE m >= n /\ ~\E h \in Hooks : CountSale(h)
      <3>1. CASE \E h \in B : FailDelivery(h)
        BY <2>5, <2>6, <3>1
      <3>2. CASE ~\E h \in B : FailDelivery(h)
        <4>1. B \subseteq B2
          BY <1>6, <1>7, <2>6, <3>2
        <4> QED
          BY <2>2, <2>6, <4>1
      <3> QED
        BY <3>1, <3>2
    <2>7. ASSUME NEW c \in Cancelers, FreeSlot(c), subs[cancel[c].sub].product = p,
                 ~FreesAgain(c), m + 1 >= n
          PROVE  Cardinality(H2) <= m + Cardinality(B2) + faults'
      <3> DEFINE i == cancel[c].sub
      <3>1. cancel[c].pc = "free" /\ i \in DOMAIN subs /\ subs[i].canceled
        BY <2>7, AccountTyped DEF FreeSlot, CancelOK, CancelsKnow
      <3>2. i \in H
        BY <2>7, <3>1 DEF H, Held
      <3>3. i \notin H2
        <4>1. subs'[i].canceled
          BY <3>1, SubscriptionEndsForGood
        <4>2. ASSUME NEW d \in Cancelers, NEW k, k = cancel'[d], k.pc # "idle", k.sub = i
              PROVE  FALSE
          <5>1. cancel[d].pc # "idle" /\ cancel[d].sub = i /\ ~FreeSlot(d)
            BY <3>1, <4>2, CancelStep
          <5> QED
            BY <2>7, <5>1 DEF FreesAgain
        <4> QED
          BY <4>1, <4>2 DEF H2, Held
      <3>4. B \subseteq B2
        BY <1>6, <1>7, <1>10, ThreadAlone, <2>7
      <3>5. Cardinality(H2) + 1 <= Cardinality(H)
        BY <1>3, <2>1, <3>2, <3>3, OneMore
      <3> DEFINE a == Cardinality(H2) + 1
                 k == m + 1
      <3>6. a \in Nat /\ k \in Nat /\ a <= Cardinality(H)
        BY <1>4, <3>5
      <3>7. Cardinality(B) <= Cardinality(B2) + 0
        BY <1>3, <1>4, <3>4, FS_Subset
      <3>8. n + faults + 0 <= k + faults'
        BY <1>2, <2>7
      <3> HIDE DEF a, k
      <3>9. a <= k + Cardinality(B2) + faults'
        BY <1>2, <1>4, <3>6, <3>7, <3>8, SumsCarry
      <3> QED
        BY <1>2, <1>4, <3>9 DEF a, k
    <2> QED
      BY <2>4, <2>6, <2>7 DEF Counts
  <1> QED
    BY <1>13, <1>14

-----------------------------------------------------------------------------
(* What the watch says of a step: it forgets no less than what the two      *)
(* interleavings lose, and a sale counted while a product is open is        *)
(* remembered for its editor.                                               *)
LEMMA WriterAlone ==
    ASSUME MarketInv, NEW e \in Editors, WriteProduct(e)
    PROVE  /\ edit' # edit /\ edit'[e].pc = "idle"
           /\ \A d \in Editors : d # e => edit'[d] = edit[d] /\ ~WriteProduct(d)
           /\ \A c \in Cancelers : ~FreeSlot(c)
  <1>1. edit[e].pc = "product" /\ edit' = [edit EXCEPT ![e] = IdleEdit]
        /\ edit'[e] = IdleEdit /\ IdleEdit.pc = "idle"
    BY AccountTyped DEF WriteProduct, IdleEdit
  <1>2. edit' # edit
    BY <1>1
  <1>3. ASSUME NEW d \in Editors, d # e
        PROVE  edit'[d] = edit[d] /\ ~WriteProduct(d)
    <2>1. edit'[d] = edit[d]
      BY <1>1, <1>3, AccountTyped
    <2>2. ASSUME WriteProduct(d)
          PROVE  edit'[e] = edit[e]
      BY <1>3, <2>2, AccountTyped DEF WriteProduct
    <2> QED
      BY <1>1, <2>1, <2>2
  <1>4. \A c \in Cancelers : ~FreeSlot(c)
    BY <1>2 DEF FreeSlot
  <1> QED
    BY <1>1, <1>2, <1>3, <1>4

LEMMA WatchSays ==
    ASSUME MarketInv, SlotsTypeOK, Watch
    PROVE  /\ SlotsTypeOK'
           /\ forgotten' >= forgotten
           /\ \A c \in Cancelers : FreesAgain(c) => forgotten' >= forgotten + 1
           /\ \A e \in Editors : WriteProduct(e) => forgotten' >= forgotten + crossed[e]
           /\ \A e \in Editors :
                edit'[e].pc = "product" =>
                    crossed'[e] = IF Crosses(e) THEN crossed[e] + 1 ELSE crossed[e]
  <1>1. /\ crossed \in [Editors -> Nat] /\ forgotten \in Nat
        /\ crossed' = [e \in Editors |->
                IF edit'[e].pc # "product" THEN 0
                ELSE IF Crosses(e) THEN crossed[e] + 1 ELSE crossed[e]]
    BY DEF SlotsTypeOK, Watch
  <1>2. \A e \in Editors : crossed'[e] \in Nat
    BY <1>1
  <1>3. crossed' \in [Editors -> Nat]
    BY <1>1, <1>2
  <1>4. CASE (\E c \in Cancelers : FreesAgain(c)) /\ forgotten' = forgotten + 1
    <2>1. \A e \in Editors : ~WriteProduct(e)
      BY <1>4, WriterAlone DEF FreesAgain
    <2> QED
      BY <1>1, <1>3, <1>4, <2>1 DEF SlotsTypeOK
  <1>5. ASSUME NEW e \in Editors, TakesBack(e), forgotten' = forgotten + crossed[e]
        PROVE  /\ SlotsTypeOK' /\ forgotten' >= forgotten
               /\ \A c \in Cancelers : FreesAgain(c) => forgotten' >= forgotten + 1
               /\ \A d \in Editors : WriteProduct(d) => forgotten' >= forgotten + crossed[d]
    <2>1. WriteProduct(e)
      BY <1>5 DEF TakesBack
    <2>2. \A d \in Editors : WriteProduct(d) => d = e
      BY <2>1, WriterAlone
    <2>3. \A c \in Cancelers : ~FreesAgain(c)
      BY <2>1, WriterAlone DEF FreesAgain
    <2>4. crossed[e] \in Nat
      BY <1>1
    <2>5. forgotten' \in Nat /\ forgotten' >= forgotten /\ forgotten' >= forgotten + crossed[e]
      BY <1>1, <1>5, <2>4
    <2> QED
      BY <1>3, <2>2, <2>3, <2>5 DEF SlotsTypeOK
  <1>6. CASE /\ \A c \in Cancelers : ~FreesAgain(c)
             /\ \A e \in Editors : ~TakesBack(e)
             /\ forgotten' = forgotten
    <2>1. ASSUME NEW e \in Editors, WriteProduct(e)
          PROVE  forgotten' >= forgotten + crossed[e]
      <3>1. crossed[e] \in Nat /\ ~(crossed[e] > 0)
        BY <1>1, <1>6, <2>1 DEF TakesBack
      <3>2. crossed[e] = 0
        BY <3>1
      <3> QED
        BY <1>1, <1>6, <3>2
    <2> QED
      BY <1>1, <1>3, <1>6, <2>1 DEF SlotsTypeOK
  <1>7. \/ (\E c \in Cancelers : FreesAgain(c)) /\ forgotten' = forgotten + 1
        \/ \E e \in Editors : TakesBack(e) /\ forgotten' = forgotten + crossed[e]
        \/ /\ \A c \in Cancelers : ~FreesAgain(c)
           /\ \A e \in Editors : ~TakesBack(e)
           /\ forgotten' = forgotten
    BY DEF Watch
  <1>8. \A e \in Editors :
            edit'[e].pc = "product" =>
                crossed'[e] = IF Crosses(e) THEN crossed[e] + 1 ELSE crossed[e]
    BY <1>1
  <1> QED
    BY <1>4, <1>5, <1>6, <1>7, <1>8

(* A product is opened with the row as it is. *)
LEMMA OpenedStep ==
    ASSUME MarketInv, Next, NEW e \in Editors, NEW p \in Products, Opened(e, p)'
    PROVE  \/ Opened(e, p) /\ edit'[e] = edit[e]
           \/ /\ edit'[e].row.sold = product[p].sold
              /\ ~\E h \in Hooks : CountSale(h)
              /\ \A c \in Cancelers : ~FreeSlot(c)
  <1>1. edit \in [Editors -> {IdleEdit} \cup ProductEdit \cup NotesEdit]
        /\ edit'[e].pc = "product" /\ edit'[e].id = p
    BY AccountTyped DEF Opened
  <1>2. CASE edit'[e] = edit[e]
    BY <1>1, <1>2 DEF Opened
  <1>3. CASE edit'[e] # edit[e]
    <2>1. AccountStep /\ edit' # edit
      BY <1>3 DEF Next, CheckoutStep, RenewalStep, account
    <2>2. ASSUME NEW c \in Cancelers,
                 \/ \E i \in DOMAIN subs : ReadForCancel(c, i)
                 \/ SetCanceled(c) \/ FreeSlot(c) \/ FailCancel(c)
          PROVE  FALSE
      BY <2>1, <2>2 DEF ReadForCancel, SetCanceled, FreeSlot, FailCancel
    <2>3. ASSUME NEW d \in Editors,
                 \/ \E i \in DOMAIN subs : ReadSubscription(d, i)
                 \/ WriteProduct(d) \/ WriteSubscription(d)
          PROVE  FALSE
      <3>1. CASE d # e
        BY <1>1, <1>3, <2>3, <3>1 DEF ReadSubscription, WriteProduct, WriteSubscription
      <3>2. CASE d = e
        <4>1. CASE WriteProduct(e) \/ WriteSubscription(e)
          BY <1>1, <4>1 DEF WriteProduct, WriteSubscription, IdleEdit
        <4>2. ASSUME NEW i \in DOMAIN subs, ReadSubscription(e, i)
              PROVE  FALSE
          <5>1. PICK k :
                  /\ k = [IdleEdit EXCEPT !.pc = "notes", !.id = i, !.row = subs[i],
                                          !.request = Append(subs[i].notes, edits + 1)]
                  /\ edit'[e] = k
            BY <1>1, <4>2 DEF ReadSubscription
          <5>2. k.pc = "notes"
            BY <5>1 DEF IdleEdit
          <5> QED
            BY <1>1, <5>1, <5>2
        <4> QED
          BY <2>3, <3>2, <4>1, <4>2
      <3> QED
        BY <3>1, <3>2
    <2>4. PICK d \in Editors : \E q \in Products : ReadProduct(d, q)
      BY <2>1, <2>2, <2>3 DEF AccountStep, AccountNext
    <2>5. PICK q \in Products : ReadProduct(d, q)
      BY <2>4
    <2>6. d = e
      BY <1>1, <1>3, <2>5 DEF ReadProduct
    <2>7. edit'[e].id = q /\ edit'[e].row = product[q]
      BY <1>1, <2>5, <2>6 DEF ReadProduct
    <2>8. ~\E h \in Hooks : CountSale(h)
      <3>1. hook' = hook
        BY <2>1, AccountWriters DEF checkout
      <3> QED
        BY <3>1, ThreadAlone
    <2> QED
      BY <1>1, <2>2, <2>7, <2>8
  <1> QED
    BY <1>2, <1>3

(* A sale that is counted raises the count of its product, and the editors  *)
(* that have the product open are told.                                     *)
LEMMA SaleStep ==
    ASSUME MarketInv, NEW p \in Products, NEW h \in Hooks, CountSale(h),
           SessionOf(h).product = p, product' # product
    PROVE  /\ product'[p].sold = product[p].sold + 1
           /\ \A e \in Editors : Opened(e, p) => Crosses(e)
  <1>1. product \in [Products -> ProductRow] /\ product[p] \in ProductRow
        /\ product[p].sold \in Nat
    BY DEF MarketInv, TypeOK, TablesTypeOK, ProductRow
  <1>2. product' = [product EXCEPT ![p].sold = @ + 1]
    BY DEF CountSale
  <1>3. product'[p] = [product[p] EXCEPT !.sold = product[p].sold + 1]
    BY <1>1, <1>2
  <1>4. product'[p].sold = product[p].sold + 1
    BY <1>1, <1>3 DEF ProductRow
  <1> QED
    BY <1>1, <1>4 DEF Crosses

(* There is room in every count after a step. *)
LEMMA ProductKeepsRoom ==
    ASSUME MarketInv, SlotsTypeOK, SlotsCovered, Next, Watch, NEW p \in Products
    PROVE  RoomIn(product[p].sold + forgotten, p)'
  <1> DEFINE n == product[p].sold + forgotten
             m == product'[p].sold + forgotten'
  <1>1. /\ product[p].sold \in Nat /\ product'[p].sold \in Nat
        /\ forgotten \in Nat /\ forgotten' \in Nat /\ forgotten' >= forgotten
    <2>1. product \in [Products -> ProductRow] /\ product' \in [Products -> ProductRow]
      BY MarketInductive DEF MarketInv, TypeOK, TablesTypeOK
    <2> QED
      BY <2>1, WatchSays DEF ProductRow, SlotsTypeOK
  <1>2. n \in Nat /\ m \in Nat /\ RoomIn(n, p) /\ CancelsKnow
    BY <1>1 DEF SlotsCovered
  <1>3. SUFFICES Cardinality(Held(p)') <= m + Cardinality(BeingCounted(p)') + faults'
    BY DEF RoomIn
  <1>4. ASSUME NEW h \in Hooks, CountSale(h)
        PROVE  Counts(n, m, p)
    <2>1. hook' # hook
      BY <1>4, ThreadAlone
    <2>2. edit' = edit /\ cancel' = cancel
      BY <2>1, AccountWriters, RenewalWriters DEF Next, CheckoutStep, account, checkout
    <2>3. (\A e \in Editors : ~WriteProduct(e)) /\ (\A c \in Cancelers : ~FreeSlot(c))
      BY <2>2, WriterAlone, AccountTyped DEF FreeSlot, IdleCancel
    <2>4. product'[p].sold >= product[p].sold
      <3>1. \/ product'[p].sold = product[p].sold
            \/ product'[p].sold = product[p].sold + 1
        BY <2>3, ProductStep
      <3> QED
        BY <1>1, <3>1
    <2>5. m >= n
      BY <1>1, <2>4
    <2>6. SessionOf(h).product = p /\ product' # product => m >= n + 1
      BY <1>1, <1>4, SaleStep
    <2> QED
      BY <1>4, <2>5, <2>6 DEF Counts
  <1>5. ASSUME ~\E h \in Hooks : CountSale(h), product'[p].sold >= product[p].sold
        PROVE  Counts(n, m, p)
    BY <1>1, <1>5 DEF Counts
  <1>6. ASSUME ~\E h \in Hooks : CountSale(h),
               NEW c \in Cancelers, FreeSlot(c), subs[cancel[c].sub].product = p,
               product'[p].sold + 1 >= product[p].sold
        PROVE  Counts(n, m, p)
    <2>1. CASE FreesAgain(c)
      <3>1. forgotten' >= forgotten + 1
        BY <2>1, WatchSays
      <3>2. m >= n
        BY <1>1, <1>6, <3>1
      <3> QED
        BY <1>6, <3>2 DEF Counts
    <2>2. CASE ~FreesAgain(c)
      <3>1. m + 1 >= n
        BY <1>1, <1>6
      <3> QED
        BY <1>6, <2>2, <3>1 DEF Counts
    <2> QED
      BY <2>1, <2>2
  <1>7. ASSUME ~\E h \in Hooks : CountSale(h),
               NEW e \in Editors, WriteProduct(e), Opened(e, p),
               product'[p].sold = edit[e].row.sold
        PROVE  Cardinality(Held(p)') <= m + Cardinality(BeingCounted(p)') + faults'
    <2> DEFINE k == edit[e].row.sold + crossed[e] + forgotten
    <2>1. crossed[e] \in Nat /\ forgotten' >= forgotten + crossed[e]
      BY <1>7, WatchSays DEF SlotsTypeOK
    <2>2. k \in Nat /\ m >= k
      BY <1>1, <1>7, <2>1
    <2>3. RoomIn(k, p)
      BY <1>7 DEF SlotsCovered
    <2> HIDE DEF k, m
    <2>4. Counts(k, m, p)
      BY <1>7, <2>2 DEF Counts
    <2> QED
      BY <1>2, <2>2, <2>3, <2>4, RoomStep
  <1> HIDE DEF n, m
  <1>8. ASSUME Counts(n, m, p)
        PROVE  Cardinality(Held(p)') <= m + Cardinality(BeingCounted(p)') + faults'
    BY <1>2, <1>8, RoomStep
  <1>9. CASE \E h \in Hooks : CountSale(h)
    BY <1>4, <1>8, <1>9
  <1>10. CASE ~\E h \in Hooks : CountSale(h)
    <2>1. product'[p].sold = product[p].sold => product'[p].sold >= product[p].sold
      BY <1>1
    <2> QED
      BY <1>5, <1>6, <1>7, <1>8, <1>10, <2>1, ProductStep
  <1> QED
    BY <1>9, <1>10

LEMMA EditorKeepsRoom ==
    ASSUME MarketInv, SlotsTypeOK, SlotsCovered, Next, Watch,
           NEW e \in Editors, NEW p \in Products, Opened(e, p)'
    PROVE  RoomIn(edit[e].row.sold + crossed[e] + forgotten, p)'
  <1> DEFINE m == edit'[e].row.sold + crossed'[e] + forgotten'
  <1>1. /\ edit'[e].row.sold \in Nat /\ crossed[e] \in Nat /\ crossed'[e] \in Nat
        /\ forgotten \in Nat /\ forgotten' \in Nat /\ forgotten' >= forgotten
        /\ crossed'[e] = IF Crosses(e) THEN crossed[e] + 1 ELSE crossed[e]
    <2>1. edit'[e].pc = "product"
      BY DEF Opened
    <2>2. edit'[e] \in ProductEdit
      BY <2>1, MarketInductive, AccountTyped DEF MarketInv, TypeOK, IdleEdit, NotesEdit
    <2>3. edit'[e].row.sold \in Nat
      BY <2>2 DEF ProductEdit, ProductRow
    <2> QED
      BY <2>1, <2>3, WatchSays DEF SlotsTypeOK
  <1>2. m \in Nat
    BY <1>1
  <1>3. SUFFICES Cardinality(Held(p)') <= m + Cardinality(BeingCounted(p)') + faults'
    BY DEF RoomIn
  <1>4. CASE Opened(e, p) /\ edit'[e] = edit[e]
    <2> DEFINE n == edit[e].row.sold + crossed[e] + forgotten
    <2>1. n \in Nat /\ m >= n /\ RoomIn(n, p)
      BY <1>1, <1>4 DEF SlotsCovered
    <2>2. ASSUME NEW h \in Hooks, SessionOf(h).product = p, product' # product, CountSale(h)
          PROVE  m >= n + 1
      <3>1. Crosses(e)
        BY <1>4, <2>2, SaleStep
      <3> QED
        BY <1>1, <1>4, <3>1
    <2> HIDE DEF n, m
    <2>3. Counts(n, m, p)
      BY <2>1, <2>2 DEF Counts
    <2> QED
      BY <1>2, <2>1, <2>3, RoomStep DEF SlotsCovered
  <1>5. CASE /\ edit'[e].row.sold = product[p].sold
             /\ ~\E h \in Hooks : CountSale(h)
    <2> DEFINE n == product[p].sold + forgotten
    <2>1. n \in Nat /\ m >= n /\ RoomIn(n, p)
      BY <1>1, <1>5 DEF SlotsCovered
    <2> HIDE DEF n, m
    <2>2. Counts(n, m, p)
      BY <1>5, <2>1 DEF Counts
    <2> QED
      BY <1>2, <2>1, <2>2, RoomStep DEF SlotsCovered
  <1> QED
    BY <1>4, <1>5, OpenedStep

LEMMA SlotsStayCovered ==
    ASSUME MarketInv, SlotsTypeOK, SlotsCovered, [Next /\ Watch]_<<vars, slots>>
    PROVE  SlotsTypeOK' /\ SlotsCovered'
  <1>1. CASE UNCHANGED <<vars, slots>>
    BY <1>1 DEF vars, slots, market, checkout, account, SlotsTypeOK, SlotsCovered, CancelsKnow,
       RoomIn, Opened, Held, BeingCounted, SessionOf
  <1>2. CASE Next /\ Watch
    <2>1. ASSUME NEW c \in Cancelers, NEW k, k = cancel'[c], k.pc = "free"
          PROVE  subs'[k.sub].canceled
      <3>1. CASE cancel[c] = k
        BY <1>2, <2>1, <3>1, AccountTyped, SubscriptionEndsForGood
           DEF CancelOK, SlotsCovered, CancelsKnow
      <3> QED
        BY <1>2, <2>1, <3>1, CancelStep
    <2>2. CancelsKnow'
      BY <2>1 DEF CancelsKnow
    <2>3. \A p \in Products : RoomIn(product[p].sold + forgotten, p)'
      BY <1>2, ProductKeepsRoom
    <2>4. \A e \in Editors, p \in Products :
            Opened(e, p)' => RoomIn(edit[e].row.sold + crossed[e] + forgotten, p)'
      BY <1>2, EditorKeepsRoom
    <2> QED
      BY <1>2, <2>2, <2>3, <2>4, WatchSays DEF SlotsCovered
  <1> QED
    BY <1>1, <1>2

(* sold_count covers the subscriptions that are live, however sales,       *)
(* cancellations, edits, renewals and failures interleave: what it lacks   *)
(* is being counted by a thread, was left out by a failure                 *)
(* (stripe_webhook.rs:290, cancel_market_subscription.rs:50-60), or was    *)
(* forgotten when a subscription was canceled by two calls at once or when *)
(* an admin saved a product opened before a sale                           *)
(* (update_market_product.rs:53), and each of those loses no more than the *)
(* one slot, or the sales counted meanwhile.                               *)
THEOREM SoldCountCovers == SlotsSpec => []SoldCoversLiveSubs
  <1>1. Init /\ SlotsInit => SlotsTypeOK /\ SlotsCovered
    <2> SUFFICES ASSUME Init, SlotsInit
                 PROVE  SlotsTypeOK /\ SlotsCovered
      OBVIOUS
    <2>1. MarketInv
      BY InitMarket
    <2>2. DOMAIN subs = {} /\ \A c \in Cancelers : cancel[c].pc = "idle"
      BY DEF Init, ProcessesInit, AccountInit, IdleCancel
    <2>3. \A e \in Editors, p \in Products : ~Opened(e, p)
      BY DEF Init, ProcessesInit, AccountInit, IdleEdit, Opened
    <2>4. SlotsTypeOK /\ forgotten = 0
      BY DEF SlotsInit, SlotsTypeOK
    <2>5. ASSUME NEW p \in Products
          PROVE  RoomIn(product[p].sold + forgotten, p)
      <3>1. Held(p) = {}
        BY <2>2 DEF Held
      <3>2. Cardinality(Held(p)) = 0
        BY <3>1, FS_EmptySet
      <3>3. Cardinality(BeingCounted(p)) \in Nat /\ product[p].sold \in Nat /\ faults \in Nat
        BY <2>1, SetsOfSlots, FS_CardinalityType
           DEF MarketInv, TypeOK, TablesTypeOK, ProductRow
      <3> QED
        BY <2>4, <3>2, <3>3 DEF RoomIn
    <2> QED
      BY <2>2, <2>3, <2>4, <2>5 DEF SlotsCovered, CancelsKnow
  <1>2. MarketInv /\ SlotsTypeOK /\ SlotsCovered /\ [Next /\ Watch]_<<vars, slots>>
        => SlotsTypeOK' /\ SlotsCovered'
    BY SlotsStayCovered
  <1>3. MarketInv /\ SlotsTypeOK /\ SlotsCovered => SoldCoversLiveSubs
    <2> SUFFICES ASSUME MarketInv, SlotsTypeOK, SlotsCovered, NEW p \in Products
                 PROVE  Cardinality(LiveSubs(p))
                          <= product[p].sold + Cardinality(BeingCounted(p)) + faults + forgotten
      BY DEF SoldCoversLiveSubs
    <2>1. LiveSubs(p) \subseteq Held(p) /\ IsFiniteSet(Held(p)) /\ IsFiniteSet(BeingCounted(p))
      BY SetsOfSlots DEF LiveSubs, Held
    <2>2. /\ Cardinality(LiveSubs(p)) <= Cardinality(Held(p)) /\ Cardinality(LiveSubs(p)) \in Nat
          /\ Cardinality(Held(p)) \in Nat /\ Cardinality(BeingCounted(p)) \in Nat
      BY <2>1, FS_Subset, FS_CardinalityType
    <2>3. product[p].sold \in Nat /\ faults \in Nat /\ forgotten \in Nat
      BY DEF MarketInv, TypeOK, TablesTypeOK, ProductRow, SlotsTypeOK
    <2>4. Cardinality(Held(p)) <= product[p].sold + forgotten + Cardinality(BeingCounted(p)) + faults
      BY DEF SlotsCovered, RoomIn
    <2> QED
      BY <2>2, <2>3, <2>4
  <1>4. [Next /\ Watch]_<<vars, slots>> => [Next]_vars
    BY DEF vars, slots
  <1>5. MarketInv /\ [Next]_vars => MarketInv'
    BY MarketInductive
  <1>6. Init => MarketInv
    BY InitMarket
  <1> QED
    BY <1>1, <1>2, <1>3, <1>4, <1>5, <1>6, PTL DEF SlotsSpec

-----------------------------------------------------------------------------
(* What the job has in hand of a pass over due rows was due when it was read. *)
DueWhenRead == job.pc \in OverDue => \A i \in DOMAIN batch : batch[i].renews <= now

LEMMA DueRowsStayDue ==
    ASSUME MarketInv, DueWhenRead, [Next]_vars
    PROVE  DueWhenRead'
  <1>1. CASE UNCHANGED vars
    BY <1>1 DEF vars, market, renewal, DueWhenRead
  <1>2. ASSUME Next, job'.pc \in OverDue, NEW i \in DOMAIN batch'
        PROVE  batch'[i].renews <= now'
    <2>1. now \in Nat /\ (now' = now \/ now' = now + 1)
      <3>1. now' = now \/ now' = now + 1
        BY <1>2, Writers DEF Renewal!Tick
      <3> QED
        BY <3>1, MarketAssumption DEF MarketInv, TypeOK, TablesTypeOK
    <2>2. CASE i \in DOMAIN batch /\ batch'[i] = batch[i] /\ job.pc \in OverDue
      <3>1. batch[i].renews \in Nat
        BY <2>2, JobTyped DEF JobOK
      <3>2. batch[i].renews <= now
        BY <2>2 DEF DueWhenRead
      <3> QED
        BY <2>1, <2>2, <3>1, <3>2
    <2>3. CASE UNCHANGED market /\ batch'[i] = subs[i] /\ Due(i)
      BY <2>3 DEF market, Due
    <2>4. \/ i \in DOMAIN batch /\ batch'[i] = batch[i] /\ job.pc \in OverDue
          \/ UNCHANGED market /\ batch'[i] = subs[i] /\ Due(i)
      BY <1>2, BatchStep DEF RowsStay, OverDue
    <2> QED
      BY <2>2, <2>3, <2>4
  <1> QED
    BY <1>1, <1>2 DEF DueWhenRead

(* The accounts that the tables and Stripe have, as the ledger takes them. *)
Accounts == [i \in DOMAIN subs |-> AccountOf(i)]

LedgerInv ==
    /\ ChargesOK
    /\ RowsPaidFor
    /\ ChargedOnce
    /\ EndedOnTime
    /\ DueWhenRead

LEMMA AccountsTyped ==
    ASSUME MarketInv, NEW i \in DOMAIN subs
    PROVE  LET a == AccountOf(i) IN
           /\ a.opened \in Nat /\ a.period \in Nat /\ a.charges \in Nat /\ a.recorded \in Nat
           /\ a.renews \in Nat \cup {None} /\ a.canceled \in BOOLEAN /\ a.ended \in BOOLEAN
           /\ a.period = PeriodOf(subs[i].product) /\ a.charges = charged[i]
           /\ a.recorded = Cardinality(RenewalsOf(i))
           /\ a.renews = subs[i].renews /\ a.canceled = subs[i].canceled
           /\ a.ended = subs[i].terminated
           /\ Ledger!PaidUntil(a) = PaidThrough(i)
  <1>1. subs[i] \in Subscription /\ i \in 1..MaxSubs
    BY SubIds, TypedTables DEF MarketInv
  <1>2. charged[i] \in Nat /\ Cardinality(RenewalsOf(i)) \in Nat
    BY <1>1, RenewalsFinite DEF MarketInv, TypeOK, TablesTypeOK
  <1>3. PeriodOf(subs[i].product) \in Nat /\ subs[i].created \in Nat
    BY <1>1, MarketAssumption DEF Subscription
  <1> QED
    BY <1>1, <1>2, <1>3 DEF AccountOf, Subscription, Ledger!PaidUntil, PaidThrough

(* An account changes as the row, the charges and the recorded renewals do. *)
Fields(opened, period, charges, recorded, renews, canceled, ended) ==
    [opened |-> opened, period |-> period, charges |-> charges, recorded |-> recorded,
     renews |-> renews, canceled |-> canceled, ended |-> ended]

LEMMA FieldChanges ==
    ASSUME NEW o, NEW p, NEW c, NEW r, NEW n, NEW x, NEW e,
           NEW a, a = Fields(o, p, c, r, n, x, e)
    PROVE  /\ \A v : [a EXCEPT !.charges = v] = Fields(o, p, v, r, n, x, e)
           /\ \A v : [a EXCEPT !.recorded = v] = Fields(o, p, c, v, n, x, e)
           /\ \A v : [a EXCEPT !.renews = v] = Fields(o, p, c, r, v, x, e)
           /\ \A v : [a EXCEPT !.canceled = v] = Fields(o, p, c, r, n, v, e)
           /\ \A v : [a EXCEPT !.ended = v] = Fields(o, p, c, r, n, x, v)
  BY DEF Fields

LEMMA AccountChanges ==
    ASSUME MarketInv, Next, NEW i \in DOMAIN subs
    PROVE  LET s == subs[i]
               t == subs'[i]
               c == charged'[i]
               r == Cardinality(RenewalsOf(i)')
               P == PeriodOf(s.product)
           IN
           /\ AccountOf(i) = Fields(s.created, P, charged[i], Cardinality(RenewalsOf(i)),
                                    s.renews, s.canceled, s.terminated)
           /\ AccountOf(i)' = Fields(s.created, P, c, r, t.renews, t.canceled, t.terminated)
  <1>1. subs'[i].created = subs[i].created /\ subs'[i].product = subs[i].product
    BY SubStep DEF Same
  <1> QED
    BY <1>1 DEF AccountOf, Fields

LEMMA AccountStays ==
    ASSUME NEW i, subs'[i] = subs[i], charged'[i] = charged[i], RenewalsOf(i)' = RenewalsOf(i)
    PROVE  AccountOf(i)' = AccountOf(i)
  BY DEF AccountOf

LEMMA OneAccountChanges ==
    ASSUME MarketInv, Next, NEW i \in DOMAIN subs, NEW a, AccountOf(i)' = a,
           DOMAIN subs' = DOMAIN subs, now' = now,
           \A k \in DOMAIN subs \ {i} : AccountOf(k)' = AccountOf(k)
    PROVE  Ledger!Becomes(i, a)
  <1>1. Accounts' = [Accounts EXCEPT ![i] = a]
    BY DEF Accounts
  <1> QED
    BY <1>1, FaultsGrow DEF Accounts, Ledger!Becomes

(* A step that leaves the accounts alone is none of the ledger, or a failure. *)
LEMMA NoAccountChanges ==
    ASSUME MarketInv, Next, DOMAIN subs' = DOMAIN subs, now' = now,
           \A k \in DOMAIN subs : AccountOf(k)' = AccountOf(k)
    PROVE  [Ledger!Next]_<<now, faults, Accounts>>
  <1>1. Accounts' = Accounts
    BY DEF Accounts
  <1>2. faults' = faults + 1 => Ledger!Fails
    BY <1>1 DEF Accounts, Ledger!Fails
  <1> QED
    BY <1>1, <1>2, FaultsGrow DEF Ledger!Next
-----------------------------------------------------------------------------
LEMMA ChargesAccount ==
    ASSUME MarketInv, LedgerInv, Next, Renewal!Charge \/ Renewal!ChargeUnanswered,
           NEW i, i = job.id
    PROVE  i \in DOMAIN subs /\ Ledger!Charge(i)
  <1> DEFINE a == AccountOf(i)
             c == charged[i] + 1
             b == [a EXCEPT !.charges = c]
  <1>1. /\ charged' = [charged EXCEPT ![i] = @ + 1]
        /\ i \in DOMAIN subs /\ i \in DOMAIN batch /\ job.pc = "charge"
        /\ UNCHANGED <<subs, purchases, batch, now>>
    BY ChargedIs
  <1>2. charged \in [1..MaxSubs -> Nat] /\ \A k \in DOMAIN subs : k \in 1..MaxSubs
    BY SubIds DEF MarketInv, TypeOK, TablesTypeOK
  <1>3. \A k : RenewalsOf(k)' = RenewalsOf(k)
    BY <1>1 DEF RenewalsOf
  <1>4. subs[i].renews \in Nat /\ subs[i].renews <= now /\ ~subs[i].terminated
    <2>1. job.pc \in OverDue
      BY <1>1 DEF OverDue
    <2>2. batch[i].renews \in Nat /\ batch[i].renews <= now /\ ~subs[i].terminated
      BY <1>1, <2>1, JobTyped DEF JobOK, LedgerInv, DueWhenRead, EndedOnTime
    <2>3. batch[i].renews = subs[i].renews
      BY <1>1 DEF LedgerInv, ChargedOnce
    <2> QED
      BY <2>2, <2>3
  <1>5. PaidThrough(i) <= subs[i].renews + PeriodOf(subs[i].product) * faults
    <2>1. Working(i, PaidSteps) = 0 /\ faults \in Nat
      BY <1>1, FaultsGrow DEF Working, PaidSteps
    <2>2. Working(i, PaidSteps) + faults = faults
      BY <2>1
    <2>3. PaidThrough(i) <= subs[i].renews
                + PeriodOf(subs[i].product) * (Working(i, PaidSteps) + faults)
      BY <1>1, <1>4 DEF LedgerInv, ChargedOnce
    <2> QED
      BY <2>2, <2>3
  <1>6. Ledger!Becomes(i, b)
    <2>1. AccountOf(i)' = b
      <3>1. charged'[i] = c
        BY <1>1, <1>2
      <3>2. Cardinality(RenewalsOf(i)') = Cardinality(RenewalsOf(i))
        BY <1>3
      <3> DEFINE s == subs[i]
                 After == Fields(s.created, PeriodOf(s.product), c, Cardinality(RenewalsOf(i)),
                                 s.renews, s.canceled, s.terminated)
      <3> HIDE DEF c
      <3>3. AccountOf(i)' = After
        BY <1>1, <3>1, <3>2, AccountChanges
      <3>4. b = After
        <4>1. a = Fields(s.created, PeriodOf(s.product), charged[i],
                         Cardinality(RenewalsOf(i)), s.renews, s.canceled, s.terminated)
          BY <1>1, AccountChanges
        <4> HIDE DEF a
        <4> QED
          BY <4>1, FieldChanges
      <3> QED
        BY <3>3, <3>4
    <2>2. \A k \in DOMAIN subs \ {i} : AccountOf(k)' = AccountOf(k)
      BY <1>1, <1>2, <1>3, AccountStays
    <2> HIDE DEF b
    <2> QED
      BY <1>1, <2>1, <2>2, OneAccountChanges
  <1>7. /\ a.renews # None /\ a.renews <= now /\ ~a.ended /\ a.charges + 1 = c
        /\ Ledger!PaidUntil(a) <= a.renews + a.period * faults
    BY <1>1, <1>4, <1>5, AccountsTyped, MarketAssumption
  <1>8. Accounts[i] = a
    BY <1>1 DEF Accounts
  <1> HIDE DEF a, c
  <1> QED
    BY <1>1, <1>6, <1>7, <1>8 DEF Ledger!Charge, Ledger!IsOver, Accounts

LEMMA RecordsAccount ==
    ASSUME MarketInv, LedgerInv, Next, Renewal!RecordPurchase, NEW i, i = job.id
    PROVE  i \in DOMAIN subs /\ Ledger!Record(i)
  <1> DEFINE a == AccountOf(i)
             r == Cardinality(RenewalsOf(i)) + 1
             b == [a EXCEPT !.recorded = r]
  <1>1. job.pc = "purchase" /\ UNCHANGED <<subs, charged, now>>
    BY DEF Renewal!RecordPurchase, Renewal!At
  <1>2. i \in DOMAIN subs /\ i \in DOMAIN batch
    BY <1>1, JobTyped DEF AtRow
  <1>3. ~subs[i].terminated
    BY <1>1, <1>2 DEF LedgerInv, EndedOnTime, OverDue
  <1>4. Cardinality(RenewalsOf(i)) < charged[i]
    <2>1. i \in 1..MaxSubs /\ Working(i, {"purchase"}) = 1
      BY <1>1, <1>2, SubIds DEF Working
    <2>2. Cardinality(RenewalsOf(i)) + 1 <= charged[i]
      BY <2>1 DEF LedgerInv, ChargesOK
    <2> QED
      BY <1>2, <2>2, AccountsTyped
  <1>5. Ledger!Becomes(i, b)
    <2>1. AccountOf(i)' = b
      <3>1. Cardinality(RenewalsOf(i)') = r
        BY RenewalsRecorded
      <3> DEFINE s == subs[i]
                 After == Fields(s.created, PeriodOf(s.product), charged[i], r,
                                 s.renews, s.canceled, s.terminated)
      <3> HIDE DEF r
      <3>2. AccountOf(i)' = After
        BY <1>1, <1>2, <3>1, AccountChanges
      <3>3. b = After
        <4>1. a = Fields(s.created, PeriodOf(s.product), charged[i],
                         Cardinality(RenewalsOf(i)), s.renews, s.canceled, s.terminated)
          BY <1>2, AccountChanges
        <4> HIDE DEF a
        <4> QED
          BY <4>1, FieldChanges
      <3> QED
        BY <3>2, <3>3
    <2>2. \A k \in DOMAIN subs \ {i} : AccountOf(k)' = AccountOf(k)
      <3>1. \A k \in DOMAIN subs \ {i} : RenewalsOf(k)' = RenewalsOf(k)
        BY RenewalsRecorded
      <3> QED
        BY <1>1, <3>1, AccountStays
    <2> HIDE DEF b
    <2> QED
      BY <1>1, <1>2, <2>1, <2>2, OneAccountChanges
  <1>6. ~a.ended /\ a.recorded < a.charges /\ a.recorded + 1 = r
    BY <1>2, <1>3, <1>4, AccountsTyped
  <1>7. Accounts[i] = a
    BY <1>2 DEF Accounts
  <1> HIDE DEF a, r
  <1> QED
    BY <1>2, <1>5, <1>6, <1>7 DEF Ledger!Record, Accounts

(* A step that writes one row leaves the accounts of the others alone. *)
LEMMA OneRowWritten ==
    ASSUME MarketInv, Next, NEW i \in DOMAIN subs, NEW r, subs' = [subs EXCEPT ![i] = r],
           UNCHANGED <<purchases, charged, now>>
    PROVE  /\ subs'[i] = r /\ DOMAIN subs' = DOMAIN subs
           /\ RenewalsOf(i)' = RenewalsOf(i)
           /\ \A k \in DOMAIN subs \ {i} : AccountOf(k)' = AccountOf(k)
  <1>1. subs \in Seq(Subscription)
    BY DEF MarketInv, TypeOK, TablesTypeOK
  <1>2. DOMAIN subs' = DOMAIN subs /\ subs'[i] = r /\ \A k \in DOMAIN subs \ {i} : subs'[k] = subs[k]
    BY <1>1
  <1>3. \A k : RenewalsOf(k)' = RenewalsOf(k)
    BY DEF RenewalsOf
  <1> QED
    BY <1>2, <1>3, AccountStays

LEMMA ExtendsAccount ==
    ASSUME MarketInv, RenewalsDontCrossEdits, LedgerInv, Next, Renewal!AdvanceRenewal,
           NEW i, i = job.id
    PROVE  i \in DOMAIN subs /\ Ledger!Extend(i)
  <1> DEFINE a == AccountOf(i)
             s == subs[i]
             n == s.renews + PeriodOf(s.product)
             b == [a EXCEPT !.renews = n]
  <1>1. job.pc = "advance" /\ UNCHANGED <<purchases, charged, now>>
    BY DEF Renewal!AdvanceRenewal, Renewal!At
  <1>2. i \in DOMAIN subs /\ i \in DOMAIN batch
    BY <1>1, JobTyped DEF AtRow
  <1>3. ~s.terminated
    BY <1>1, <1>2 DEF LedgerInv, EndedOnTime, OverDue
  <1>4. s.renews \in Nat /\ subs'[i].renews = n
    BY <1>2, RenewsStep DEF LedgerInv
  <1>5. n <= PaidThrough(i)
    <2>1. batch[i].renews = s.renews
      BY <1>1, <1>2 DEF LedgerInv, ChargedOnce
    <2> QED
      BY <1>1, <2>1 DEF LedgerInv, RowsPaidFor, PaidSteps
  <1>6. PICK t : subs' = [subs EXCEPT ![i] = [s EXCEPT !.renews = t]]
    BY DEF Renewal!AdvanceRenewal
  <1>7. Ledger!Becomes(i, b)
    <2> DEFINE row == [s EXCEPT !.renews = t]
    <2>1. row.canceled = s.canceled /\ row.terminated = s.terminated
      BY <1>2, SubStep DEF Subscription
    <2>2. subs' = [subs EXCEPT ![i] = row]
      BY <1>6
    <2> HIDE DEF row
    <2>3. /\ subs'[i] = row /\ DOMAIN subs' = DOMAIN subs /\ RenewalsOf(i)' = RenewalsOf(i)
          /\ \A k \in DOMAIN subs \ {i} : AccountOf(k)' = AccountOf(k)
      BY <1>1, <1>2, <2>2, OneRowWritten
    <2>4. AccountOf(i)' = b
      <3> DEFINE After == Fields(s.created, PeriodOf(s.product), charged[i],
                                 Cardinality(RenewalsOf(i)), n, s.canceled, s.terminated)
      <3>1. subs'[i].canceled = s.canceled /\ subs'[i].terminated = s.terminated
            /\ subs'[i].renews = n /\ Cardinality(RenewalsOf(i)') = Cardinality(RenewalsOf(i))
        BY <1>4, <2>1, <2>3
      <3> HIDE DEF n
      <3>2. AccountOf(i)' = After
        BY <1>1, <1>2, <3>1, AccountChanges
      <3>3. b = After
        <4>1. a = Fields(s.created, PeriodOf(s.product), charged[i],
                         Cardinality(RenewalsOf(i)), s.renews, s.canceled, s.terminated)
          BY <1>2, AccountChanges
        <4> HIDE DEF a
        <4> QED
          BY <4>1, FieldChanges
      <3> QED
        BY <3>2, <3>3
    <2> HIDE DEF b
    <2> QED
      BY <1>1, <1>2, <2>3, <2>4, OneAccountChanges
  <1>8. /\ ~a.ended /\ a.renews # None /\ a.renews + a.period = n
        /\ Ledger!PaidUntil(a) = PaidThrough(i)
    BY <1>2, <1>3, <1>4, AccountsTyped, MarketAssumption
  <1>9. Accounts[i] = a
    BY <1>2 DEF Accounts
  <1> HIDE DEF a, n
  <1> QED
    BY <1>2, <1>5, <1>7, <1>8, <1>9 DEF Ledger!Extend, Accounts

(* What becomes of a row whose renews_at and service_terminated_at stay. *)
LEMMA CancelsAccount ==
    ASSUME MarketInv, Next, NEW i \in DOMAIN subs, NEW r, subs' = [subs EXCEPT ![i] = r],
           UNCHANGED <<purchases, charged, now>>,
           r.renews = subs[i].renews, r.terminated = subs[i].terminated,
           r.canceled = subs[i].canceled \/ r.canceled = TRUE
    PROVE  [Ledger!Next]_<<now, faults, Accounts>>
  <1> DEFINE a == AccountOf(i)
             s == subs[i]
             b == [a EXCEPT !.canceled = TRUE]
  <1>1. /\ subs'[i] = r /\ DOMAIN subs' = DOMAIN subs
        /\ Cardinality(RenewalsOf(i)') = Cardinality(RenewalsOf(i))
        /\ \A k \in DOMAIN subs \ {i} : AccountOf(k)' = AccountOf(k)
    BY OneRowWritten
  <1>2. AccountOf(i)' = Fields(s.created, PeriodOf(s.product), charged[i],
                               Cardinality(RenewalsOf(i)), s.renews, r.canceled, s.terminated)
    BY <1>1, AccountChanges
  <1>3. a = Fields(s.created, PeriodOf(s.product), charged[i],
                   Cardinality(RenewalsOf(i)), s.renews, s.canceled, s.terminated)
    BY AccountChanges
  <1>4. CASE r.canceled = s.canceled
    <2>1. AccountOf(i)' = AccountOf(i)
      BY <1>2, <1>3, <1>4
    <2> QED
      BY <1>1, <2>1, NoAccountChanges
  <1>5. CASE r.canceled = TRUE
    <2>1. AccountOf(i)' = b
      <3> DEFINE yes == TRUE
                 After == Fields(s.created, PeriodOf(s.product), charged[i],
                                 Cardinality(RenewalsOf(i)), s.renews, yes, s.terminated)
      <3>1. AccountOf(i)' = After
        BY <1>2, <1>5
      <3>2. b = [a EXCEPT !.canceled = yes]
        OBVIOUS
      <3> HIDE DEF a, b, yes
      <3>3. [a EXCEPT !.canceled = yes] = After
        BY <1>3, FieldChanges
      <3> QED
        BY <3>1, <3>2, <3>3
    <2>2. Ledger!Becomes(i, b)
      <3> HIDE DEF b
      <3> QED
        BY <1>1, <2>1, OneAccountChanges
    <2>3. Accounts[i] = a
      BY DEF Accounts
    <2> HIDE DEF a
    <2>4. Ledger!Cancel(i)
      BY <2>2, <2>3 DEF Ledger!Cancel, Accounts
    <2> QED
      BY <2>4 DEF Ledger!Next
  <1> QED
    BY <1>4, <1>5

LEMMA WritesAccount ==
    ASSUME MarketInv, RenewalsDontCrossEdits, LedgerInv, Next,
           \/ \E c \in Cancelers : SetCanceled(c)
           \/ \E e \in Editors : WriteSubscription(e)
           \/ Renewal!EndSubscription
    PROVE  [Ledger!Next]_<<now, faults, Accounts>>
  <1>1. ASSUME NEW c \in Cancelers, SetCanceled(c)
        PROVE  [Ledger!Next]_<<now, faults, Accounts>>
    <2>1. PICK i : i = cancel[c].sub
      OBVIOUS
    <2>2. i \in DOMAIN subs /\ subs[i] \in Subscription
      BY <1>1, <2>1, AccountTyped, TypedTables DEF SetCanceled, CancelOK, MarketInv
    <2> DEFINE r == [subs[i] EXCEPT !.canceled = TRUE]
    <2>3. subs' = [subs EXCEPT ![i] = r] /\ UNCHANGED <<purchases, charged, now>>
      BY <1>1, <2>1 DEF SetCanceled
    <2>4. r.renews = subs[i].renews /\ r.terminated = subs[i].terminated /\ r.canceled = TRUE
      BY <2>2 DEF Subscription
    <2> HIDE DEF r
    <2> QED
      BY <2>2, <2>3, <2>4, CancelsAccount
  <1>2. ASSUME NEW e \in Editors, WriteSubscription(e)
        PROVE  [Ledger!Next]_<<now, faults, Accounts>>
    <2>1. PICK i, row : i = edit[e].id /\ row = edit[e].row
      OBVIOUS
    <2>2. /\ i \in DOMAIN subs /\ row \in Subscription /\ subs[i] \in Subscription
          /\ edit[e].pc = "notes"
      BY <1>2, <2>1, AccountTyped, TypedTables DEF WriteSubscription, EditOK, NotesEdit, MarketInv
    <2>3. row.renews = subs[i].renews /\ (row.terminated => subs[i].terminated)
      BY <1>2, <2>1, <2>2 DEF RenewalsDontCrossEdits, LedgerInv, EndedOnTime
    <2> DEFINE r == [row EXCEPT !.notes = edit[e].request,
                                !.canceled = row.canceled \/ subs[i].canceled,
                                !.terminated = row.terminated \/ subs[i].terminated]
    <2>4. subs' = [subs EXCEPT ![i] = r] /\ UNCHANGED <<purchases, charged, now>>
      BY <1>2, <2>1 DEF WriteSubscription
    <2>5. /\ r.renews = row.renews
          /\ r.terminated = (row.terminated \/ subs[i].terminated)
          /\ r.canceled = (row.canceled \/ subs[i].canceled)
      BY <2>2 DEF Subscription
    <2> HIDE DEF r
    <2>6. /\ subs[i].terminated \in BOOLEAN /\ subs[i].canceled \in BOOLEAN
          /\ row.terminated \in BOOLEAN /\ row.canceled \in BOOLEAN
      BY <2>2 DEF Subscription
    <2>7. r.terminated = subs[i].terminated
      BY <2>3, <2>5, <2>6
    <2>8. r.canceled = subs[i].canceled \/ r.canceled = TRUE
      BY <2>5, <2>6
    <2> QED
      BY <2>2, <2>3, <2>4, <2>5, <2>7, <2>8, CancelsAccount
  <1>3. CASE Renewal!EndSubscription
    <2>1. PICK i : i = job.id
      OBVIOUS
    <2>2. i \in DOMAIN subs /\ subs[i] \in Subscription
      BY <1>3, <2>1, JobTyped DEF Renewal!EndSubscription, AtRow
    <2> DEFINE r == [subs[i] EXCEPT !.canceled = TRUE]
    <2>3. UNCHANGED <<purchases, charged, now>>
      BY <1>3 DEF Renewal!EndSubscription
    <2>4. subs' = subs \/ subs' = [subs EXCEPT ![i] = r]
      BY <1>3, <2>1 DEF Renewal!EndSubscription
    <2>5. r.renews = subs[i].renews /\ r.terminated = subs[i].terminated /\ r.canceled = TRUE
      BY <2>2 DEF Subscription
    <2> HIDE DEF r
    <2>6. CASE subs' = subs
      <3>1. \A k : RenewalsOf(k)' = RenewalsOf(k)
        BY <2>3 DEF RenewalsOf
      <3>2. \A k \in DOMAIN subs : AccountOf(k)' = AccountOf(k)
        BY <2>3, <2>6, <3>1, AccountStays
      <3> QED
        BY <2>3, <2>6, <3>2, NoAccountChanges
    <2> QED
      BY <2>2, <2>3, <2>4, <2>5, <2>6, CancelsAccount
  <1> QED
    BY <1>1, <1>2, <1>3

LEMMA EndsAccount ==
    ASSUME MarketInv, LedgerInv, Next, Renewal!StampTerminated, NEW i, i = job.id
    PROVE  i \in DOMAIN subs /\ Ledger!End(i)
  <1> DEFINE a == AccountOf(i)
             s == subs[i]
             b == [a EXCEPT !.ended = TRUE]
             r == [s EXCEPT !.terminated = TRUE]
  <1>1. job.pc = "stamp" /\ UNCHANGED <<purchases, charged, now>>
        /\ subs' = [subs EXCEPT ![i] = r]
    BY DEF Renewal!StampTerminated, Renewal!At
  <1>2. i \in DOMAIN subs /\ i \in DOMAIN batch /\ s \in Subscription
    BY <1>1, JobTyped DEF AtRow
  <1>3. s.canceled /\ (s.renews \in Nat => s.renews <= now)
    <2>1. batch[i].renews = s.renews
      BY <1>1, <1>2 DEF LedgerInv, ChargedOnce
    <2> QED
      BY <1>1, <1>2, <2>1 DEF LedgerInv, EndedOnTime, OverLapsed
  <1>4. s.renews \in Nat => PaidThrough(i) <= now + PeriodOf(s.product) * faults
    <2> SUFFICES ASSUME s.renews \in Nat
                 PROVE  PaidThrough(i) <= now + PeriodOf(s.product) * faults
      OBVIOUS
    <2> DEFINE d == PeriodOf(s.product) * faults
    <2>1. Working(i, PaidSteps) = 0 /\ faults \in Nat
      BY <1>1, FaultsGrow DEF Working, PaidSteps
    <2>2. Working(i, PaidSteps) + faults = faults
      BY <2>1
    <2>3. PaidThrough(i) <= s.renews + PeriodOf(s.product) * (Working(i, PaidSteps) + faults)
      BY <1>2 DEF LedgerInv, ChargedOnce
    <2>4. PaidThrough(i) <= s.renews + d
      BY <2>2, <2>3
    <2>5. d \in Nat /\ PaidThrough(i) \in Nat
      <3>1. PaidThrough(i) \in Nat /\ PeriodOf(s.product) \in Nat
        BY <1>2, PaidThroughStep
      <3> QED
        BY <2>1, <3>1, Periods
    <2> HIDE DEF d
    <2>6. now \in Nat
      BY MarketAssumption DEF MarketInv, TypeOK, TablesTypeOK
    <2>7. PaidThrough(i) <= now + d
      BY <1>3, <2>4, <2>5, <2>6
    <2> QED
      BY <2>7 DEF d
  <1>5. Ledger!Becomes(i, b)
    <2>1. r.renews = s.renews /\ r.canceled = s.canceled /\ r.terminated = TRUE
      BY <1>2 DEF Subscription
    <2> HIDE DEF r
    <2>2. /\ subs'[i] = r /\ DOMAIN subs' = DOMAIN subs
          /\ Cardinality(RenewalsOf(i)') = Cardinality(RenewalsOf(i))
          /\ \A k \in DOMAIN subs \ {i} : AccountOf(k)' = AccountOf(k)
      BY <1>1, <1>2, OneRowWritten
    <2>3. AccountOf(i)' = b
      <3> DEFINE yes == TRUE
                 After == Fields(s.created, PeriodOf(s.product), charged[i],
                                 Cardinality(RenewalsOf(i)), s.renews, s.canceled, yes)
      <3>1. AccountOf(i)' = After
        BY <1>1, <1>2, <2>1, <2>2, AccountChanges
      <3>2. b = [a EXCEPT !.ended = yes]
        OBVIOUS
      <3>3. a = Fields(s.created, PeriodOf(s.product), charged[i],
                       Cardinality(RenewalsOf(i)), s.renews, s.canceled, s.terminated)
        BY <1>2, AccountChanges
      <3> HIDE DEF a, b, yes
      <3>4. [a EXCEPT !.ended = yes] = After
        BY <3>3, FieldChanges
      <3> QED
        BY <3>1, <3>2, <3>4
    <2> HIDE DEF b
    <2> QED
      BY <1>1, <1>2, <2>2, <2>3, OneAccountChanges
  <1>6. /\ a.canceled /\ (a.renews = None \/ a.renews <= now)
        /\ a.renews # None => Ledger!PaidUntil(a) <= now + a.period * faults
    BY <1>2, <1>3, <1>4, AccountsTyped
  <1>7. Accounts[i] = a
    BY <1>2 DEF Accounts
  <1> HIDE DEF a
  <1> QED
    BY <1>2, <1>5, <1>6, <1>7 DEF Ledger!End, Ledger!IsOver, Accounts

(* A new subscription has paid its first period, and nothing else. *)
LEMMA OpensAccount ==
    ASSUME MarketInv, LedgerInv, Next, NEW i \in DOMAIN subs' \ DOMAIN subs
    PROVE  Ledger!Open
  <1> DEFINE s == subs'[i]
             P == PeriodOf(s.product)
             a == Ledger!Account(now, P)
             all == {AccountOf(k) : k \in DOMAIN subs} \cup {a}
  <1>1. /\ s \in Subscription /\ ~s.canceled /\ ~s.terminated /\ s.created = now
        /\ s.renews = IF P = 0 THEN None ELSE s.created + P
        /\ i \in 1..MaxSubs /\ UNCHANGED <<charged, faults, now>>
        /\ DOMAIN subs' = DOMAIN subs \cup {i}
    BY NewSubscriptionIs
  <1>2. purchases' = purchases
    <2>1. CASE purchases' # purchases
      <3>1. subs' = subs
        BY <2>1, AddedPurchase
      <3> QED
        BY <3>1
    <2> QED
      BY <2>1
  <1>3. \A k : RenewalsOf(k)' = RenewalsOf(k)
    BY <1>2 DEF RenewalsOf
  <1>4. RenewalsOf(i) = {}
    BY DEF RenewalsOf, MarketInv, PurchasesOK
  <1>5. charged'[i] = 0
    BY <1>1 DEF LedgerInv, ChargedOnce
  <1>6. AccountOf(i)' = a
    <2>1. Cardinality(RenewalsOf(i)') = 0
      BY <1>3, <1>4, FS_EmptySet
    <2>2. s.canceled = FALSE /\ s.terminated = FALSE
      BY <1>1 DEF Subscription
    <2> QED
      BY <1>1, <1>5, <2>1, <2>2 DEF AccountOf, Ledger!Account
  <1>7. PICK h \in Hooks : InsertSubscription(h)
    <2>1. subs \in Seq(Subscription) /\ subs' # subs
      BY DEF MarketInv, TypeOK, TablesTypeOK
    <2>2. ASSUME NEW j, NEW r, subs' = [subs EXCEPT ![j] = r]
          PROVE  FALSE
      BY <2>1, <2>2
    <2> QED
      BY <2>1, <2>2, Writers DEF SubsWriters, SetCanceled, WriteSubscription,
         Renewal!AdvanceRenewal, Renewal!EndSubscription, Renewal!StampTerminated
  <1>8. /\ \A k \in DOMAIN subs : subs'[k] = subs[k]
        /\ i = Len(subs) + 1 /\ DOMAIN subs = 1..Len(subs) /\ Len(subs) \in Nat
    <2>1. subs \in Seq(Subscription) /\ DOMAIN subs = 1..Len(subs) /\ Len(subs) \in Nat
      BY TypedTables DEF MarketInv, TypeOK, TablesTypeOK
    <2>2. PICK r : subs' = Append(subs, r)
      BY <1>7 DEF InsertSubscription
    <2> QED
      BY <2>1, <2>2
  <1>9. \A k \in DOMAIN subs : AccountOf(k)' = AccountOf(k)
    BY <1>1, <1>3, <1>8, AccountStays
  <1> HIDE DEF a
  <1>10. Accounts \in Seq(all) /\ a \in all /\ Len(Accounts) = Len(subs)
    BY <1>8 DEF Accounts
  <1>11. Accounts' = [k \in 1..Len(subs) + 1 |-> IF k <= Len(subs) THEN Accounts[k] ELSE a]
    BY <1>1, <1>6, <1>8, <1>9 DEF Accounts
  <1> HIDE DEF all
  <1>12. /\ Append(Accounts, a) \in Seq(all) /\ Len(Append(Accounts, a)) = Len(subs) + 1
         /\ Append(Accounts, a)[Len(subs) + 1] = a
         /\ \A k \in 1..Len(subs) : Append(Accounts, a)[k] = Accounts[k]
    BY <1>10, AppendProperties
  <1>13. Accounts' = Append(Accounts, a)
    <2>1. \A k \in 1..Len(subs) : Accounts[k] \in all
      BY <1>8, <1>10
    <2>2. Accounts' \in Seq(all) /\ Len(Accounts') = Len(subs) + 1
      BY <1>8, <1>10, <1>11, <2>1
    <2>3. \A k \in 1..Len(Accounts') : Accounts'[k] = Append(Accounts, a)[k]
      BY <1>8, <1>11, <1>12, <2>2
    <2> QED
      BY <1>12, <2>2, <2>3, SeqEqual
  <1>14. P \in {PeriodOf(p) : p \in Products}
    BY <1>1 DEF Subscription
  <1> QED
    BY <1>1, <1>13, <1>14 DEF a, Accounts, Ledger!Open

LEMMA StepOfTheLedger ==
    ASSUME MarketInv, RenewalsDontCrossEdits, LedgerInv, [Next]_vars
    PROVE  [Ledger!Next]_<<now, faults, Accounts>>
  <1>1. CASE UNCHANGED vars
    BY <1>1 DEF vars, market, Accounts, AccountOf, RenewalsOf
  <1> SUFFICES ASSUME Next
               PROVE  [Ledger!Next]_<<now, faults, Accounts>>
    BY <1>1
  <1>2. PICK i : i = job.id
    OBVIOUS
  <1>3. CASE Renewal!Charge \/ Renewal!ChargeUnanswered
    <2>1. i \in DOMAIN Accounts /\ Ledger!Charge(i)
      BY <1>2, <1>3, ChargesAccount DEF Accounts
    <2> QED
      BY <2>1 DEF Ledger!Next, Accounts
  <1>4. CASE Renewal!RecordPurchase
    <2>1. i \in DOMAIN Accounts /\ Ledger!Record(i)
      BY <1>2, <1>4, RecordsAccount DEF Accounts
    <2> QED
      BY <2>1 DEF Ledger!Next, Accounts
  <1>5. CASE Renewal!AdvanceRenewal
    <2>1. i \in DOMAIN Accounts /\ Ledger!Extend(i)
      BY <1>2, <1>5, ExtendsAccount DEF Accounts
    <2> QED
      BY <2>1 DEF Ledger!Next, Accounts
  <1>6. CASE Renewal!StampTerminated
    <2>1. i \in DOMAIN Accounts /\ Ledger!End(i)
      BY <1>2, <1>6, EndsAccount DEF Accounts
    <2> QED
      BY <2>1 DEF Ledger!Next, Accounts
  <1>7. CASE \/ \E c \in Cancelers : SetCanceled(c)
             \/ \E e \in Editors : WriteSubscription(e)
             \/ Renewal!EndSubscription
    BY <1>7, WritesAccount
  <1>8. CASE Renewal!Tick
    <2>1. UNCHANGED <<subs, purchases, charged, faults>> /\ now' = now + 1
      BY <1>8 DEF Renewal!Tick, Renewal!tables
    <2>2. Accounts' = Accounts
      BY <2>1 DEF Accounts, AccountOf, RenewalsOf
    <2>3. Ledger!Passes
      BY <2>1, <2>2 DEF Ledger!Passes, Accounts
    <2> QED
      BY <2>3 DEF Ledger!Next
  <1>9. CASE \E k \in DOMAIN subs' : k \notin DOMAIN subs
    BY <1>9, OpensAccount DEF Ledger!Next
  <1>10. CASE /\ subs' = subs /\ charged' = charged /\ now' = now
              /\ ~Renewal!RecordPurchase
    <2>1. \A k \in DOMAIN subs : RenewalsOf(k)' = RenewalsOf(k)
      BY <1>10, RenewalsRecorded
    <2>2. \A k \in DOMAIN subs : AccountOf(k)' = AccountOf(k)
      BY <1>10, <2>1, AccountStays
    <2> QED
      BY <1>10, <2>2, NoAccountChanges
  <1>11. ASSUME NEW h \in Hooks, InsertSubscription(h)
         PROVE  \E k \in DOMAIN subs' : k \notin DOMAIN subs
    <2>1. PICK r : subs' = Append(subs, r)
      BY <1>11 DEF InsertSubscription
    <2>2. subs \in Seq(Subscription) /\ DOMAIN subs = 1..Len(subs) /\ Len(subs) \in Nat
      BY TypedTables DEF MarketInv, TypeOK, TablesTypeOK
    <2>3. Len(subs) + 1 \in DOMAIN subs' /\ Len(subs) + 1 \notin DOMAIN subs
      BY <2>1, <2>2
    <2> QED
      BY <2>3
  <1> QED
    BY <1>3, <1>4, <1>5, <1>6, <1>7, <1>8, <1>9, <1>10, <1>11, Writers DEF SubsWriters

(* Whatever handlers, RPCs and runs of the job do to subscriptions, to     *)
(* their recorded purchases and at Stripe, one statement at a time, in any *)
(* order and with any failures, is for each of them an account that is     *)
(* opened, charged when it is due and owes nothing, recorded and extended  *)
(* by what was charged, and ended when it was canceled and is used up      *)
(* (market_renewal.rs:30-230).  This supposes, as for the single charge,   *)
(* that no admin saves an order opened before a renewal                    *)
(* (update_market_subscription.rs:95).                                     *)
THEOREM AccountsAreKept == Spec /\ []RenewalsDontCrossEdits => KeepsLedger
  <1>1. Init => Ledger!Init
    BY DEF Init, Ledger!Init
  <1>2. Init => LedgerInv
    <2> SUFFICES ASSUME Init
                 PROVE  ChargesOK /\ RowsPaidFor /\ EndedOnTime /\ DueWhenRead
      BY InitChargedOnce DEF LedgerInv
    <2>1. DOMAIN subs = {} /\ DOMAIN batch = {} /\ job.pc = "asleep" /\ faults = 0
          /\ \A e \in Editors : edit[e].pc = "idle"
      BY AsleepTyped, NoRowsTyped DEF Init, ProcessesInit, Renewal!RenewalInit, AccountInit,
         IdleEdit
    <2>2. \A i \in 1..MaxSubs : /\ RenewalsOf(i) = {} /\ Working(i, {"purchase"}) = 0
                                /\ charged[i] = 0
      BY <2>1 DEF Init, RenewalsOf, Working
    <2>3. ChargesOK
      <3>1. \A i \in 1..MaxSubs : /\ Cardinality(RenewalsOf(i)) = 0
                                  /\ Working(i, {"purchase"}) = 0 /\ charged[i] = 0
        BY <2>2, FS_EmptySet
      <3> QED
        BY <2>1, <3>1 DEF ChargesOK
    <2>4. RowsPaidFor /\ EndedOnTime
      BY <2>1 DEF RowsPaidFor, PaidSteps, EndedOnTime
    <2>5. DueWhenRead
      BY <2>1 DEF DueWhenRead
    <2> QED
      BY <2>3, <2>4, <2>5
  <1>3. MarketInv /\ RenewalsDontCrossEdits /\ LedgerInv /\ [Next]_vars => LedgerInv'
    BY ChargesStayOK, RowsStayPaidFor, ChargedOnceStays, EndedOnTimeStays, DueRowsStayDue
       DEF LedgerInv
  <1>4. MarketInv /\ RenewalsDontCrossEdits /\ LedgerInv /\ [Next]_vars
        => [Ledger!Next]_<<now, faults, [i \in DOMAIN subs |-> AccountOf(i)]>>
    BY StepOfTheLedger DEF Accounts
  <1> QED
    BY <1>1, <1>2, <1>3, <1>4, MemoryStaysTrue, PTL DEF Spec, KeepsLedger, Ledger!Spec
=============================================================================
