------------------------ MODULE FederatedPagesProofs ------------------------
(* That a server is never signed in to with an account that is gone or of another
   server, for any servers and accounts, however pins, logins, removals and timers
   follow each other, and that what shows of a server is what the account signed in there
   may see.  A login under way signs in to the server it was made for, so the invariant
   says of each login that its account is of its server. *)
EXTENDS FederatedPages, SequenceTheorems, TLAPS

IsPin(p) == p = [pinned |-> p.pinned, account |-> p.account, listed |-> p.listed]

LoginsRight ==
    \A c \in DOMAIN calls :
        /\ c.kind = "login" => HostOf(c.as) = c.host
        /\ c.kind \in {"login", "check", "verify"} => c.as \in Accounts

PinsInv ==
    /\ pins = [h \in Hosts |-> pins[h]] /\ \A h \in Hosts : IsPin(pins[h])
    /\ accounts \subseteq Accounts /\ current \in Hosts
    /\ LoginsRight
    /\ PinnedAccountsExist

-----------------------------------------------------------------------------
(* Requests that are made, and requests that are answered. *)
LEMMA SentKeeps ==
    ASSUME LoginsRight, NEW S, Sent(S),
           \A c \in S : /\ c.kind = "login" => HostOf(c.as) = c.host
                        /\ c.kind \in {"login", "check", "verify"} => c.as \in Accounts
    PROVE  LoginsRight'
  <1>1. DOMAIN calls' = DOMAIN calls \cup S
    BY DEF Sent, SetToBag, (+)
  <1> QED
    BY <1>1 DEF LoginsRight

LEMMA DoneKeeps ==
    ASSUME LoginsRight, NEW c, Done(c)
    PROVE  LoginsRight'
  <1>1. DOMAIN calls' \subseteq DOMAIN calls
    BY DEF Done, (-)
  <1> QED
    BY <1>1 DEF LoginsRight

(* The account of one server changes to None or to one of its own. *)
LEMMA PinChanges ==
    ASSUME PinsInv, NEW h \in Hosts, NEW p, AccountOf(h, p), IsPin(p),
           p.account # None => p.account \in accounts' /\ HostOf(p.account) = h,
           accounts \subseteq accounts', accounts' \subseteq Accounts,
           current' \in Hosts, LoginsRight'
    PROVE  PinsInv'
  <1>1. pins' = [k \in Hosts |-> IF k = h THEN p ELSE pins[k]]
    BY DEF PinsInv, AccountOf
  <1>2. \A k \in Hosts : IsPin(pins'[k])
    BY <1>1 DEF PinsInv, IsPin
  <1>3. PinnedAccountsExist'
    BY <1>1 DEF PinsInv, PinnedAccountsExist, SignedIn
  <1> QED
    BY <1>1, <1>2, <1>3 DEF PinsInv

LEMMA PinsStay ==
    ASSUME PinsInv, pins' = pins, accounts \subseteq accounts', accounts' \subseteq Accounts,
           current' \in Hosts, LoginsRight'
    PROVE  PinsInv'
  BY DEF PinsInv, PinnedAccountsExist, SignedIn, IsPin

(* What the pins of a server can be changed to. *)
LEMMA PinForms ==
    /\ \A on, a : IsPin(Pin(on, a)) /\ Pin(on, a).account = a
    /\ IsPin(NoPin) /\ NoPin.account = None
    /\ \A h \in Hosts : \A a : IsPin(pins[h]) =>
         /\ IsPin([pins[h] EXCEPT !.account = a])
         /\ [pins[h] EXCEPT !.account = a].account = a
  BY DEF IsPin, Pin, NoPin

LEMMA UnpinnedForm ==
    ASSUME PinsInv, NEW h \in Hosts
    PROVE  IsPin(Unpinned(h)) /\ Unpinned(h).account = None
  BY PinForms DEF PinsInv, Unpinned
-----------------------------------------------------------------------------
LEMMA PinsInit == Init => PinsInv
  <1> SUFFICES ASSUME Init PROVE PinsInv
    OBVIOUS
  <1>1. DOMAIN calls = {}
    BY DEF Init, EmptyBag, SetToBag
  <1>2. pins \in [Hosts -> {NoPin} \cup {Pin(on, a) : on \in BOOLEAN, a \in accounts \cup {None}}]
    BY DEF Init
  <1>3. ASSUME NEW h \in Hosts
        PROVE  IsPin(pins[h]) /\ (pins[h].account # None => pins[h].account \in accounts)
    BY <1>2, PinForms
  <1>4. PinnedAccountsExist
    BY <1>3 DEF Init, PinnedAccountsExist, SignedIn
  <1>5. accounts \subseteq Accounts /\ current \in Hosts
    BY DEF Init
  <1> QED
    BY <1>1, <1>2, <1>3, <1>4, <1>5 DEF PinsInv, LoginsRight

LEMMA PinsUserStep ==
    ASSUME PinsInv, UserStep
    PROVE  PinsInv'
  <1> USE DEF PinsInv
  <1>1. CASE LogOut
    BY <1>1, PinsStay DEF LogOut, pinVars, LoginsRight
  <1>2. CASE ToggleExcludeCurrentServer
    <2>1. AccountOf(current, Pin(excluded, SignedIn(current)))
      BY <1>2 DEF ToggleExcludeCurrentServer, Pinned, AccountOf
    <2> QED
      BY <1>2, <2>1, PinForms, PinChanges DEF ToggleExcludeCurrentServer, LoginsRight, PinnedAccountsExist
  <1>3. ASSUME NEW a \in Accounts, SelectAccount(a) PROVE PinsInv'
    <2> DEFINE h == HostOf(a)
    <2>1. h \in Hosts /\ a \in accounts
      BY <1>3, PagesAssumption DEF SelectAccount
    <2>2. LoginsRight'
      BY <1>3, SentKeeps DEF SelectAccount, Call
    <2>3. CASE pins[h].listed
      <3> DEFINE p == [pins[h] EXCEPT !.account = a]
      <3>1. AccountOf(h, p) /\ accounts' = accounts /\ current' = current
        BY <1>3, <2>3 DEF SelectAccount
      <3>2. IsPin(p) /\ p.account = a
        BY <2>1, PinForms
      <3> HIDE DEF p
      <3> QED
        BY <2>1, <2>2, <3>1, <3>2, PinChanges
    <2>4. CASE ~pins[h].listed
      BY <1>3, <2>2, <2>4, PinsStay DEF SelectAccount
    <2> QED
      BY <2>3, <2>4
  <1>4. ASSUME NEW a \in Accounts, PinAccount(a) PROVE PinsInv'
    <2> DEFINE h == HostOf(a)
               p == IF pins[h].listed THEN [pins[h] EXCEPT !.account = a] ELSE Pin(TRUE, a)
    <2>1. h \in Hosts /\ a \in accounts
      BY <1>4, PagesAssumption DEF PinAccount
    <2>2. LoginsRight'
      BY <1>4, SentKeeps DEF PinAccount, Call
    <2>3. AccountOf(h, p) /\ accounts' = accounts /\ current' = current
      BY <1>4 DEF PinAccount
    <2>4. IsPin(p) /\ p.account = a
      BY <2>1, PinForms
    <2> HIDE DEF p
    <2> QED
      BY <2>1, <2>2, <2>3, <2>4, PinChanges
  <1>5. ASSUME NEW a \in Accounts, RemoveAccount(a) PROVE PinsInv'
    <2> DEFINE h == HostOf(a)
    <2>1. h \in Hosts
      BY PagesAssumption
    <2>2. pins' = [k \in Hosts |-> IF k = h THEN WithAccountUnpinned(h) ELSE pins[k]]
      BY <1>5 DEF RemoveAccount, AccountOf
    <2>3. IsPin(WithAccountUnpinned(h)) /\ WithAccountUnpinned(h).account = None
      BY <2>1, PinForms DEF WithAccountUnpinned
    <2>4. ASSUME NEW k \in Hosts, SignedIn(k)' # None
          PROVE  SignedIn(k)' \in accounts' /\ HostOf(SignedIn(k)') = k
      <3>1. k # h /\ SignedIn(k)' = SignedIn(k)
        BY <2>2, <2>3, <2>4 DEF SignedIn
      <3>2. SignedIn(k) \in accounts /\ HostOf(SignedIn(k)) = k
        BY <2>4, <3>1 DEF PinnedAccountsExist
      <3> QED
        BY <1>5, <3>1, <3>2 DEF RemoveAccount
    <2>5. \A k \in Hosts : IsPin(pins'[k])
      BY <2>2, <2>3
    <2> QED
      BY <1>5, <2>2, <2>4, <2>5 DEF RemoveAccount, PinnedAccountsExist, LoginsRight
  <1>6. ASSUME NEW a \in Accounts, LogIn(a) PROVE PinsInv'
    BY <1>6, SentKeeps, PinsStay DEF LogIn, Call, pinVars
  <1>7. ASSUME NEW h \in Hosts, UnpinAccount(h) PROVE PinsInv'
    BY <1>7, UnpinnedForm, PinChanges DEF UnpinAccount, LoginsRight
  <1>8. ASSUME NEW h \in Hosts, SelectServer(h) PROVE PinsInv'
    BY <1>8, PinsStay DEF SelectServer, LoginsRight
  <1>9. ASSUME NEW h \in Hosts, SelectCreationServer(h) PROVE PinsInv'
    BY <1>9, PinsStay DEF SelectCreationServer, pinVars, LoginsRight
  <1>10. ASSUME NEW h \in Hosts, NEW on \in BOOLEAN, PinServer(h, on) PROVE PinsInv'
    <2>1. AccountOf(h, Pin(on, SignedIn(h)))
      BY <1>10 DEF PinServer, Pinned, AccountOf
    <2> QED
      BY <1>10, <2>1, PinForms, PinChanges DEF PinServer, LoginsRight, PinnedAccountsExist
  <1>11. ASSUME NEW h \in Hosts, NEW st \in Stores, Create(st, h) PROVE PinsInv'
    BY <1>11, SentKeeps, PinsStay DEF Create, Call, pinVars
  <1> QED
    BY <1>1, <1>2, <1>3, <1>4, <1>5, <1>6, <1>7, <1>8, <1>9, <1>10, <1>11 DEF UserStep

LEMMA PinsAnswer ==
    ASSUME PinsInv, NEW c \in BagToSet(calls),
           PageLoaded(c) \/ PageFails(c) \/ Created(c) \/ CallFails(c) \/ Verified(c) \/ LoggedIn(c)
    PROVE  PinsInv'
  <1> USE DEF PinsInv
  <1>1. LoginsRight'
    BY DoneKeeps DEF PageLoaded, PageFails, Created, CallFails, Verified, LoggedIn
  <1>2. CASE PageLoaded(c) \/ PageFails(c) \/ Created(c) \/ CallFails(c)
    BY <1>1, <1>2, PinsStay DEF PageLoaded, PageFails, Created, CallFails, pinVars
  <1>3. CASE Verified(c)
    <2>1. c.as \in Accounts
      BY <1>3 DEF Verified, LoginsRight, BagToSet
    <2> QED
      BY <1>1, <1>3, <2>1, PinsStay DEF Verified
  <1>4. CASE LoggedIn(c)
    <2>1. c.as \in Accounts /\ HostOf(c.as) = c.host /\ c.host \in Hosts
      BY <1>4, PagesAssumption DEF LoggedIn, Under, LoginsRight, BagToSet
    <2>2. CASE pins[c.host].listed
      <3> DEFINE p == [pins[c.host] EXCEPT !.account = c.as]
      <3>1. AccountOf(c.host, p) /\ accounts' = accounts \cup {c.as} /\ current' = current
        BY <1>4, <2>2 DEF LoggedIn
      <3>2. IsPin(p) /\ p.account = c.as
        BY <2>1, PinForms
      <3> HIDE DEF p
      <3> QED
        BY <1>1, <2>1, <3>1, <3>2, PinChanges
    <2>3. CASE ~pins[c.host].listed
      BY <1>1, <1>4, <2>1, <2>3, PinsStay DEF LoggedIn
    <2> QED
      BY <2>2, <2>3
  <1> QED
    BY <1>2, <1>3, <1>4

LEMMA PinsTimer ==
    ASSUME PinsInv, RunTimer
    PROVE  PinsInv'
  <1> DEFINE t == Head(soon)
  <1> HIDE DEF t
  <1>1. accounts' = accounts /\ current' = current /\ LoginsRight'
    BY DEF RunTimer, PinsInv, LoginsRight
  <1>2. accounts \subseteq Accounts /\ current \in Hosts
    BY DEF PinsInv
  <1>3. CASE pins' = pins
    BY <1>1, <1>2, <1>3, PinsStay
  <1>4. CASE AccountOf(current, Unpinned(current))
    BY <1>1, <1>2, <1>4, UnpinnedForm, PinChanges
  <1>5. CASE pins' = [pins EXCEPT ![t.host] = Pin(TRUE, SignedIn(t.host))]
    <2>1. CASE t.host \in Hosts
      <3> DEFINE p == Pin(TRUE, SignedIn(t.host))
      <3>1. AccountOf(t.host, p)
        BY <1>5 DEF AccountOf
      <3>2. IsPin(p) /\ p.account = SignedIn(t.host)
        BY PinForms
      <3>3. p.account # None => p.account \in accounts /\ HostOf(p.account) = t.host
        BY <2>1, <3>2 DEF PinsInv, PinnedAccountsExist
      <3> HIDE DEF p
      <3> QED
        BY <1>1, <1>2, <2>1, <3>1, <3>2, <3>3, PinChanges
    <2>2. CASE t.host \notin Hosts
      <3>1. pins' = pins
        BY <1>5, <2>2 DEF PinsInv
      <3> QED
        BY <1>3, <3>1
    <2> QED
      BY <2>1, <2>2
  <1> QED
    BY <1>3, <1>4, <1>5 DEF RunTimer, Runs, t

LEMMA PinsNext ==
    ASSUME PinsInv, [Next]_vars
    PROVE  PinsInv'
  <1>1. CASE RenderPosts \/ RenderGroups
    <2>1. pins' = pins /\ accounts' = accounts /\ current' = current
      BY <1>1 DEF RenderPosts, RenderGroups, pinVars
    <2>2. LoginsRight'
      <3>1. CASE UNCHANGED calls
        BY <3>1 DEF PinsInv, LoginsRight
      <3>2. ASSUME NEW S, Sent(S), \A c \in S : c.kind = "page" PROVE LoginsRight'
        BY <3>2, SentKeeps DEF PinsInv
      <3>3. \A st : \A c \in PageLoads(st) : c.kind = "page"
        BY DEF PageLoads, Call
      <3> QED
        BY <1>1, <3>1, <3>2, <3>3 DEF RenderPosts, RenderGroups
    <2> QED
      BY <2>1, <2>2, PinsStay DEF PinsInv
  <1>2. CASE Answer
    BY <1>2, PinsAnswer DEF Answer
  <1>3. CASE RunTimer
    BY <1>3, PinsTimer
  <1>4. ASSUME NEW h \in Hosts, ResetCredentialedData(h) PROVE PinsInv'
    BY <1>4, PinsStay DEF ResetCredentialedData, pinVars, PinsInv, LoginsRight
  <1>5. CASE UserStep
    BY <1>5, PinsUserStep
  <1>6. ASSUME NEW h \in Hosts, MarkedUnpinned(h) PROVE PinsInv'
    BY <1>6, UnpinnedForm, PinChanges DEF MarkedUnpinned, PinsInv, LoginsRight
  <1>7. CASE UNCHANGED vars
    BY <1>7, PinsStay DEF vars, pinVars, PinsInv, LoginsRight
  <1> QED
    BY <1>1, <1>2, <1>3, <1>4, <1>5, <1>6, <1>7 DEF Next, SystemStep, Render, TimerStep

(* No server is signed in to with an account that was removed or is of another server,
   whatever logins, checks and timers were under way (accounts_state.ts:54-89). *)
THEOREM PinsNameAccounts == Spec => []PinnedAccountsExist
  <1>1. PinsInv /\ [Next]_vars => PinsInv'
    BY PinsNext
  <1>2. PinsInv => PinnedAccountsExist
    BY DEF PinsInv
  <1> QED
    BY PinsInit, <1>1, <1>2, PTL DEF Spec

-----------------------------------------------------------------------------
(* What the store has of a server was loaded for the account signed in there, and so is
   every request for more of it; or else a reset of the server is on its way. *)
HoldsOnly(h) ==
    /\ \A st \in Stores : /\ seen[st][h] \subseteq {SignedIn(h)}
                          /\ pages[st][h].of \subseteq {SignedIn(h)}
    /\ \A c \in DOMAIN calls :
         c.host = h /\ c.kind \in {"page", "create"} => c.as = SignedIn(h)

Resets(t, h) == t.do \in {"reset", "resetCurrent"} /\ t.host = h
ResetPending(h) == h \in resetting \/ \E i \in DOMAIN soon : Resets(soon[i], h)

Timers ==
    [do : {"reset", "resetCurrent", "unpinCurrent", "exclude", "pin"}, host : Hosts, on : BOOLEAN]

StoreTyped ==
    /\ pages = [st \in Stores |-> [h \in Hosts |-> pages[st][h]]]
    /\ seen = [st \in Stores |-> [h \in Hosts |-> seen[st][h]]]
    /\ soon \in Seq(Timers)
    /\ \A c \in DOMAIN calls : c.host \in Hosts /\ c.store \in Stores

ViewInv ==
    /\ PinsInv /\ StoreTyped
    /\ \A h \in Hosts \ stale : ResetPending(h) \/ HoldsOnly(h)

-----------------------------------------------------------------------------
(* The timers: those set for later come behind the others, and only the first runs. *)
LEMMA LaterKeeps ==
    ASSUME StoreTyped, resetting \subseteq resetting', NEW ts \in Seq(Timers), Later(ts)
    PROVE  /\ soon' \in Seq(Timers)
           /\ \A h \in Hosts : ResetPending(h) => ResetPending(h)'
           /\ \A i \in DOMAIN ts, h \in Hosts : Resets(ts[i], h) => ResetPending(h)'
  <1>1. soon \in Seq(Timers)
    BY DEF StoreTyped
  <1>2. /\ soon' \in Seq(Timers) /\ Len(soon') = Len(soon) + Len(ts)
        /\ Len(soon) \in Nat /\ Len(ts) \in Nat
        /\ DOMAIN soon = 1..Len(soon) /\ DOMAIN ts = 1..Len(ts) /\ DOMAIN soon' = 1..Len(soon')
        /\ \A i \in 1..Len(soon) : soon'[i] = soon[i]
        /\ \A i \in 1..Len(ts) : soon'[Len(soon) + i] = ts[i]
    BY <1>1 DEF Later
  <1>3. ASSUME NEW h \in Hosts, ResetPending(h) PROVE ResetPending(h)'
    BY <1>2, <1>3 DEF ResetPending
  <1>4. ASSUME NEW i \in DOMAIN ts, NEW h \in Hosts, Resets(ts[i], h) PROVE ResetPending(h)'
    <2>1. Len(soon) + i \in DOMAIN soon' /\ soon'[Len(soon) + i] = ts[i]
      BY <1>2
    <2> QED
      BY <1>4, <2>1 DEF ResetPending
  <1> QED
    BY <1>2, <1>3, <1>4

LEMMA TimersWait ==
    ASSUME StoreTyped, resetting \subseteq resetting', soon' = soon
    PROVE  /\ soon' \in Seq(Timers)
           /\ \A h \in Hosts : ResetPending(h) => ResetPending(h)'
  BY DEF StoreTyped, ResetPending

LEMMA FirstRuns ==
    ASSUME StoreTyped, resetting \subseteq resetting', soon # <<>>,
           \/ soon' = Tail(soon)
           \/ \E t \in Timers : soon' = Append(Tail(soon), t)
    PROVE  /\ soon' \in Seq(Timers)
           /\ \A h \in Hosts : ResetPending(h) => ResetPending(h)' \/ Resets(Head(soon), h)
           /\ \A t \in Timers, h \in Hosts :
                soon' = Append(Tail(soon), t) /\ Resets(t, h) => ResetPending(h)'
  <1>0. /\ soon \in Seq(Timers) /\ Len(soon) \in Nat \ {0} /\ DOMAIN soon = 1..Len(soon)
        /\ Head(soon) = soon[1] /\ Tail(soon) \in Seq(Timers) /\ Len(Tail(soon)) = Len(soon) - 1
        /\ \A i \in 1..Len(Tail(soon)) : Tail(soon)[i] = soon[i + 1]
    BY EmptySeq, HeadTailProperties, LenProperties DEF StoreTyped
  <1> DEFINE rest == Tail(soon)
  <1> HIDE DEF rest
  <1>1. /\ soon' \in Seq(Timers)
        /\ \A i \in 1..(Len(soon) - 1) : i \in DOMAIN soon' /\ soon'[i] = soon[i + 1]
        /\ \A t \in Timers : soon' = Append(rest, t) => Len(soon) \in DOMAIN soon' /\ soon'[Len(soon)] = t
    <2>1. rest \in Seq(Timers) /\ Len(rest) = Len(soon) - 1 /\ DOMAIN rest = 1..(Len(soon) - 1)
      BY <1>0, LenProperties DEF rest
    <2>2. ASSUME NEW t \in Timers, soon' = Append(rest, t)
          PROVE  /\ soon' \in Seq(Timers) /\ DOMAIN soon' = 1..Len(soon)
                 /\ \A i \in 1..(Len(soon) - 1) : soon'[i] = rest[i]
                 /\ soon'[Len(soon)] = t
      <3>1. /\ soon' \in Seq(Timers) /\ Len(soon') = Len(rest) + 1
            /\ \A i \in 1..Len(rest) : soon'[i] = rest[i]
            /\ soon'[Len(rest) + 1] = t
        BY <2>1, <2>2, AppendProperties
      <3>2. Len(rest) + 1 = Len(soon)
        BY <1>0, <2>1
      <3>3. DOMAIN soon' = 1..Len(soon')
        BY <3>1, LenProperties
      <3> QED
        BY <2>1, <3>1, <3>2, <3>3
    <2> QED
      BY <1>0, <2>1, <2>2 DEF rest
  <1>2. ASSUME NEW h \in Hosts, ResetPending(h), ~Resets(Head(soon), h) PROVE ResetPending(h)'
    <2>1. CASE h \in resetting
      BY <2>1 DEF ResetPending
    <2>2. CASE h \notin resetting
      <3>1. PICK i \in DOMAIN soon : Resets(soon[i], h)
        BY <1>2, <2>2 DEF ResetPending
      <3>2. i # 1
        BY <1>0, <1>2, <3>1
      <3>3. i - 1 \in 1..(Len(soon) - 1) /\ (i - 1) + 1 = i
        BY <1>0, <3>2
      <3>4. i - 1 \in DOMAIN soon' /\ soon'[i - 1] = soon[i]
        BY <1>1, <3>3
      <3> QED
        BY <3>1, <3>4 DEF ResetPending
    <2> QED
      BY <2>1, <2>2
  <1>3. ASSUME NEW t \in Timers, NEW h \in Hosts, soon' = Append(rest, t), Resets(t, h)
        PROVE  ResetPending(h)'
    BY <1>1, <1>3 DEF ResetPending
  <1> QED
    BY <1>1, <1>2, <1>3 DEF rest

-----------------------------------------------------------------------------
(* Steps that leave what was loaded alone: where another account is signed in to, a
   reset comes; requests are made for the account there is. *)
LEMMA StoreStays ==
    ASSUME ViewInv, [Next]_vars, UNCHANGED <<pages, seen>>, soon' \in Seq(Timers),
           NEW S, DOMAIN calls' \subseteq DOMAIN calls \cup S,
           \A c \in S : /\ c.host \in Hosts /\ c.store \in Stores
                        /\ c.kind \in {"page", "create"} => c.as = SignedIn(c.host),
           stale \subseteq stale',
           \A h \in Hosts : ResetPending(h) => ResetPending(h)',
           \A h \in Hosts : pins'[h].account = pins[h].account \/ ResetPending(h)' \/ h \in stale'
    PROVE  ViewInv'
  <1>1. PinsInv'
    BY PinsNext DEF ViewInv
  <1>2. StoreTyped'
    BY DEF ViewInv, StoreTyped
  <1>3. ASSUME NEW h \in Hosts \ stale', ~ResetPending(h)' PROVE HoldsOnly(h)'
    <2>1. HoldsOnly(h) /\ SignedIn(h)' = SignedIn(h)
      BY <1>3 DEF ViewInv, SignedIn
    <2>2. ASSUME NEW st \in Stores PROVE seen'[st][h] = seen[st][h] /\ pages'[st][h] = pages[st][h]
      OBVIOUS
    <2>3. ASSUME NEW c \in DOMAIN calls', c.host = h, c.kind \in {"page", "create"}
          PROVE  c.as = SignedIn(h)
      BY <2>1, <2>3 DEF HoldsOnly
    <2> QED
      BY <2>1, <2>2, <2>3 DEF HoldsOnly
  <1> QED
    BY <1>1, <1>2, <1>3 DEF ViewInv

LEMMA NothingAsked ==
    ASSUME ViewInv, [Next]_vars, UNCHANGED <<pages, seen>>, soon' \in Seq(Timers),
           DOMAIN calls' \subseteq DOMAIN calls, stale \subseteq stale',
           \A h \in Hosts : ResetPending(h) => ResetPending(h)',
           \A h \in Hosts : pins'[h].account = pins[h].account \/ ResetPending(h)'
    PROVE  ViewInv'
  <1>1. PICK S : S = {}
    OBVIOUS
  <1>2. /\ DOMAIN calls' \subseteq DOMAIN calls \cup S
        /\ \A c \in S : /\ c.host \in Hosts /\ c.store \in Stores
                        /\ c.kind \in {"page", "create"} => c.as = SignedIn(c.host)
    BY <1>1
  <1>3. \A h \in Hosts : pins'[h].account = pins[h].account \/ ResetPending(h)' \/ h \in stale'
    OBVIOUS
  <1> QED
    BY <1>2, <1>3, StoreStays

LEMMA SentCalls ==
    ASSUME NEW S, Sent(S)
    PROVE  DOMAIN calls' = DOMAIN calls \cup S
  BY DEF Sent, SetToBag, (+)

LEMMA DoneCalls ==
    ASSUME NEW c, Done(c)
    PROVE  DOMAIN calls' \subseteq DOMAIN calls
  BY DEF Done, (-)

LEMMA PinOfHost ==
    ASSUME PinsInv, NEW k \in Hosts, NEW p, AccountOf(k, p)
    PROVE  pins'[k] = p /\ \A h \in Hosts \ {k} : pins'[h] = pins[h]
  BY DEF PinsInv, AccountOf

-----------------------------------------------------------------------------
LEMMA ViewRender ==
    ASSUME ViewInv, [Next]_vars, Render
    PROVE  ViewInv'
  <1>0. \A st \in Stores : \A c \in PageLoads(st) :
          /\ c.host \in Hosts /\ c.store \in Stores
          /\ c.kind \in {"page", "create"} => c.as = SignedIn(c.host)
    BY DEF PageLoads, Call, Missing, Shown
  <1>1. PICK st \in Stores : DOMAIN calls' \subseteq DOMAIN calls \cup PageLoads(st)
    <2>1. CASE RenderPosts
      <3>1. DOMAIN calls' = DOMAIN calls \cup (IF NeedsLoading THEN PageLoads("posts") ELSE {})
        BY <2>1, SentCalls DEF RenderPosts
      <3> QED
        BY <3>1 DEF Stores
    <2>2. CASE RenderGroups
      <3>1. calls' = calls \/ Sent(PageLoads("groups"))
        BY <2>2 DEF RenderGroups
      <3>2. DOMAIN calls' \subseteq DOMAIN calls \cup PageLoads("groups")
        BY <3>1, SentCalls
      <3> QED
        BY <3>2 DEF Stores
    <2> QED
      BY <2>1, <2>2 DEF Render
  <1>2. UNCHANGED <<pages, seen, pins, soon, resetting, stale>>
    BY DEF Render, RenderPosts, RenderGroups, storeVars, pinVars
  <1>3. soon' \in Seq(Timers) /\ \A h \in Hosts : ResetPending(h) => ResetPending(h)'
    BY <1>2, TimersWait DEF ViewInv
  <1> QED
    BY <1>0, <1>1, <1>2, <1>3, StoreStays

LEMMA ViewUserStep ==
    ASSUME ViewInv, [Next]_vars, UserStep \/ \E h \in Hosts : MarkedUnpinned(h)
    PROVE  ViewInv'
  <1> DEFINE Asks(S) ==
        \A c \in S : /\ c.host \in Hosts /\ c.store \in Stores
                     /\ c.kind \in {"page", "create"} => c.as = SignedIn(c.host)
             Sets(ts) == ts \in Seq(Timers) /\ (Later(ts) \/ (ts = <<>> /\ soon' = soon))
             Changed(h, ts) ==
               \/ pins'[h].account = pins[h].account
               \/ h \in resetting' \cup stale'
               \/ \E i \in DOMAIN ts : Resets(ts[i], h)
  <1>0. PinsInv /\ StoreTyped /\ current \in Hosts
    BY DEF ViewInv, PinsInv
  <1>1. ASSUME UNCHANGED <<pages, seen>>, resetting \subseteq resetting', stale \subseteq stale',
               NEW S, calls' = calls \/ Sent(S), Asks(S),
               NEW ts, Sets(ts), \A h \in Hosts : Changed(h, ts)
        PROVE  ViewInv'
    <2>1. DOMAIN calls' \subseteq DOMAIN calls \cup S
      BY <1>1, SentCalls
    <2>2. /\ soon' \in Seq(Timers)
          /\ \A h \in Hosts : ResetPending(h) => ResetPending(h)'
          /\ \A i \in DOMAIN ts, h \in Hosts : Resets(ts[i], h) => ResetPending(h)'
      BY <1>0, <1>1, LaterKeeps, TimersWait
    <2>3. \A h \in Hosts : h \in resetting' => ResetPending(h)'
      BY DEF ResetPending
    <2> QED
      BY <1>1, <2>1, <2>2, <2>3, StoreStays
  <1>2. \A do \in {"reset", "resetCurrent", "unpinCurrent", "exclude", "pin"}, on \in BOOLEAN :
          \A h \in Hosts : Timer(do, h, on) \in Timers
    BY DEF Timer, Timers
  <1>3. Asks({}) /\ \A kind \in {"check", "verify", "login"} : \A h \in Hosts : \A a :
          Asks({Call(kind, "posts", h, a)})
    BY DEF Call, Stores
  <1>4. <<>> \in Seq(Timers) /\ \A t \in Timers : <<t>> \in Seq(Timers) /\ 1 \in DOMAIN <<t>> /\ <<t>>[1] = t
    OBVIOUS
  <1>5. ASSUME NEW k \in Hosts PROVE ResetSoon(k) \in Seq(Timers) /\ \E i \in DOMAIN ResetSoon(k) : Resets(ResetSoon(k)[i], k)
    BY <1>2, <1>4 DEF ResetSoon, Resets, Timer
  <1> HIDE DEF Asks, Sets
  <1>6. CASE LogOut
    <2>1. PICK one \in Timers, two \in Timers : Later(<<one, two>>)
      BY <1>0, <1>2, <1>6 DEF LogOut
    <2>2. <<one, two>> \in Seq(Timers)
      OBVIOUS
    <2>3. Sets(<<one, two>>)
      BY <2>1, <2>2 DEF Sets
    <2>4. UNCHANGED <<pages, seen, resetting, stale, calls, pins>>
      BY <1>6 DEF LogOut, pinVars, storeVars
    <2> QED
      BY <1>1, <1>3, <2>3, <2>4
  <1>7. ASSUME NEW k \in Hosts, NEW on, Pinned(k, on),
               UNCHANGED <<resetting, pages, seen, calls, stale>>
        PROVE  ViewInv'
    <2>1. AccountOf(k, Pin(on, SignedIn(k)))
      BY <1>7 DEF Pinned, AccountOf
    <2>2. \A h \in Hosts : pins'[h].account = pins[h].account
      BY <1>0, <2>1, PinOfHost, PinForms DEF SignedIn
    <2>3. PICK t \in Timers : Later(<<t>>)
      <3>1. Timer("exclude", k, ~on) \in Timers
        BY DEF Timer, Timers
      <3> QED
        BY <1>7, <3>1 DEF Pinned
    <2>4. Sets(<<t>>)
      BY <1>4, <2>3 DEF Sets
    <2> QED
      BY <1>1, <1>3, <1>7, <2>2, <2>4
  <1>8. CASE ToggleExcludeCurrentServer
    BY <1>0, <1>7, <1>8 DEF ToggleExcludeCurrentServer, storeVars
  <1>9. ASSUME NEW h \in Hosts, NEW on \in BOOLEAN, PinServer(h, on) PROVE ViewInv'
    BY <1>7, <1>9 DEF PinServer, storeVars
  <1>10. ASSUME NEW k \in Hosts, AccountOf(k, Unpinned(k)), Later(ResetSoon(k)),
                UNCHANGED <<resetting, pages, seen, calls, stale>>
         PROVE  ViewInv'
    <2>1. \A h \in Hosts \ {k} : pins'[h] = pins[h]
      BY <1>0, <1>10, PinOfHost
    <2>2. Sets(ResetSoon(k))
      BY <1>5, <1>10 DEF Sets
    <2>3. \A h \in Hosts : Changed(h, ResetSoon(k))
      BY <1>5, <2>1
    <2> QED
      BY <1>1, <1>3, <1>10, <2>2, <2>3
  <1>11. ASSUME NEW h \in Hosts, UnpinAccount(h) \/ MarkedUnpinned(h) PROVE ViewInv'
    BY <1>10, <1>11 DEF UnpinAccount, MarkedUnpinned, storeVars
  <1>12. ASSUME NEW a \in Accounts, SelectAccount(a) PROVE ViewInv'
    <2> DEFINE k == HostOf(a)
    <2>1. k \in Hosts /\ k = current
      BY <1>12, PagesAssumption DEF SelectAccount
    <2>2. PICK t \in Timers : Later(<<t>>) /\ Resets(t, k)
      BY <1>2, <1>12, <2>1 DEF SelectAccount, Resets, Timer
    <2>3. Sets(<<t>>) /\ \E i \in DOMAIN <<t>> : Resets(<<t>>[i], k)
      BY <1>4, <2>2 DEF Sets
    <2>4. \A h \in Hosts \ {k} : pins'[h] = pins[h]
      BY <1>0, <1>12, <2>1, PinOfHost DEF SelectAccount
    <2>5. \A h \in Hosts : Changed(h, <<t>>)
      BY <2>3, <2>4
    <2>6. /\ Sent({Call("check", "posts", k, a)}) /\ UNCHANGED <<pages, seen, resetting, stale>>
          /\ Asks({Call("check", "posts", k, a)})
      BY <1>3, <1>12, <2>1 DEF SelectAccount, storeVars
    <2> HIDE DEF k
    <2> QED
      BY <1>1, <2>3, <2>5, <2>6
  <1>13. ASSUME NEW a \in Accounts, PinAccount(a) PROVE ViewInv'
    <2> DEFINE k == HostOf(a)
    <2>1. k \in Hosts
      BY PagesAssumption
    <2>2. PICK p : AccountOf(k, p) /\ p.account = a
      <3>1. AccountOf(k, IF pins[k].listed THEN [pins[k] EXCEPT !.account = a] ELSE Pin(TRUE, a))
        BY <1>13 DEF PinAccount
      <3> QED
        BY <1>0, <2>1, <3>1, PinForms DEF PinsInv
    <2>3. pins'[k].account = a /\ \A h \in Hosts \ {k} : pins'[h] = pins[h]
      BY <1>0, <2>1, <2>2, PinOfHost
    <2>4. /\ UNCHANGED <<pages, seen, soon, stale>> /\ resetting \subseteq resetting'
          /\ pins[k].account # a => k \in resetting'
      BY <1>13 DEF PinAccount, ResetFor, SignedIn, storeVars
    <2>5. \A h \in Hosts : Changed(h, <<>>)
      BY <2>3, <2>4
    <2>6. PICK S : Sent(S) /\ Asks(S)
      BY <1>3, <1>13, <2>1 DEF PinAccount
    <2>7. Sets(<<>>)
      BY <1>4, <2>4 DEF Sets
    <2> HIDE DEF k
    <2> QED
      BY <1>1, <2>4, <2>5, <2>6, <2>7
  <1>14. ASSUME NEW a \in Accounts, RemoveAccount(a) PROVE ViewInv'
    <2> DEFINE k == HostOf(a)
    <2>1. k \in Hosts
      BY PagesAssumption
    <2>2. /\ UNCHANGED <<pages, seen, soon, resetting, calls>>
          /\ stale' = IF pins[k].account = None THEN stale ELSE stale \cup {k}
          /\ AccountOf(k, WithAccountUnpinned(k))
      BY <1>14 DEF RemoveAccount, SignedIn, storeVars
    <2>3. WithAccountUnpinned(k).account = None
      BY <1>0, <2>1, PinForms DEF WithAccountUnpinned, PinsInv
    <2>4. pins'[k].account = None /\ \A h \in Hosts \ {k} : pins'[h] = pins[h]
      BY <1>0, <2>1, <2>2, <2>3, PinOfHost
    <2>5. \A h \in Hosts : Changed(h, <<>>)
      BY <2>2, <2>4
    <2>6. Sets(<<>>)
      BY <1>4, <2>2 DEF Sets
    <2> HIDE DEF k
    <2> QED
      BY <1>1, <1>3, <2>2, <2>5, <2>6
  <1>15. ASSUME NEW a \in Accounts, LogIn(a) PROVE ViewInv'
    <2>1. Asks({Call("login", "posts", HostOf(a), a)}) /\ Sets(<<>>)
      BY <1>3, <1>4, <1>15, PagesAssumption DEF LogIn, Sets
    <2>2. Sent({Call("login", "posts", HostOf(a), a)}) /\ UNCHANGED <<pages, seen, pins, resetting, stale>>
      BY <1>15 DEF LogIn, pinVars, storeVars
    <2> QED
      BY <1>1, <2>1, <2>2
  <1>16. ASSUME NEW h \in Hosts, SelectServer(h) PROVE ViewInv'
    <2>1. Sets(<<>>)
      BY <1>4, <1>16 DEF SelectServer, Sets
    <2>2. UNCHANGED <<pages, seen, pins, resetting, stale, calls>>
      BY <1>16 DEF SelectServer, storeVars
    <2> QED
      BY <1>1, <1>3, <2>1, <2>2
  <1>17. ASSUME NEW h \in Hosts, SelectCreationServer(h) PROVE ViewInv'
    <2>1. PICK t \in Timers : Later(<<t>>)
      BY <1>2, <1>17 DEF SelectCreationServer
    <2>2. Sets(<<t>>)
      BY <1>4, <2>1 DEF Sets
    <2>3. UNCHANGED <<pages, seen, pins, resetting, stale, calls>>
      BY <1>17 DEF SelectCreationServer, pinVars, storeVars
    <2> QED
      BY <1>1, <1>3, <2>2, <2>3
  <1>18. ASSUME NEW h \in Hosts, NEW st \in Stores, Create(st, h) PROVE ViewInv'
    <2>1. Asks({Call("create", st, h, SignedIn(h))}) /\ Sets(<<>>)
      BY <1>4, <1>18 DEF Create, Sets, Asks, Call
    <2>2. Sent({Call("create", st, h, SignedIn(h))}) /\ UNCHANGED <<pages, seen, pins, resetting, stale>>
      BY <1>18 DEF Create, pinVars, storeVars
    <2> QED
      BY <1>1, <2>1, <2>2
  <1> QED
    BY <1>6, <1>8, <1>9, <1>11, <1>12, <1>13, <1>14, <1>15, <1>16, <1>17, <1>18 DEF UserStep

-----------------------------------------------------------------------------
(* What an answer brings is for the account it was asked for. *)
LEMMA LoadedKeeps ==
    ASSUME ViewInv, [Next]_vars, NEW c \in DOMAIN calls, c.kind \in {"page", "create"},
           NEW page, Stored(c, page), page.of \subseteq pages[c.store][c.host].of \cup {c.as},
           Done(c), UNCHANGED <<pins, soon, resetting, stale>>
    PROVE  ViewInv'
  <1>0. c.host \in Hosts /\ c.store \in Stores
    BY DEF ViewInv, StoreTyped
  <1>1. DOMAIN calls' \subseteq DOMAIN calls
    BY DoneCalls
  <1> DEFINE P == [st \in Stores |-> [h \in Hosts |-> pages[st][h]]]
             D == [st \in Stores |-> [h \in Hosts |-> seen[st][h]]]
  <1>2. /\ \A st \in Stores, h \in Hosts : st = c.store /\ h = c.host =>
             pages'[st][h] = page /\ seen'[st][h] = seen[st][h] \cup {c.as}
        /\ \A st \in Stores, h \in Hosts : st # c.store \/ h # c.host =>
             pages'[st][h] = pages[st][h] /\ seen'[st][h] = seen[st][h]
    <2>1. pages = P /\ seen = D
      BY DEF ViewInv, StoreTyped
    <2>2. /\ pages' = [P EXCEPT ![c.store][c.host] = page]
          /\ seen' = [D EXCEPT ![c.store][c.host] = @ \cup {c.as}]
      BY <2>1 DEF Stored
    <2> QED
      BY <1>0, <2>1, <2>2
  <1>3. StoreTyped'
    <2>1. /\ pages' = [st \in Stores |-> [h \in Hosts |-> pages'[st][h]]]
          /\ seen' = [st \in Stores |-> [h \in Hosts |-> seen'[st][h]]]
      BY <1>0 DEF Stored, ViewInv, StoreTyped
    <2> QED
      BY <1>1, <2>1 DEF ViewInv, StoreTyped
  <1>4. ASSUME NEW h \in Hosts \ stale', ~ResetPending(h)' PROVE HoldsOnly(h)'
    <2>1. HoldsOnly(h) /\ SignedIn(h)' = SignedIn(h)
      BY <1>4 DEF ViewInv, SignedIn, ResetPending
    <2>2. ASSUME NEW d \in DOMAIN calls', d.host = h, d.kind \in {"page", "create"}
          PROVE  d.as = SignedIn(h)
      BY <1>1, <2>1, <2>2 DEF HoldsOnly
    <2>3. h = c.host => c.as = SignedIn(h)
      BY <2>1 DEF HoldsOnly
    <2>4. ASSUME NEW st \in Stores
          PROVE  seen'[st][h] \subseteq {SignedIn(h)} /\ pages'[st][h].of \subseteq {SignedIn(h)}
      <3>1. seen[st][h] \subseteq {SignedIn(h)} /\ pages[st][h].of \subseteq {SignedIn(h)}
        BY <2>1 DEF HoldsOnly
      <3>2. CASE st = c.store /\ h = c.host
        <4>1. pages'[st][h] = page /\ seen'[st][h] = seen[st][h] \cup {c.as}
          BY <1>2, <3>2
        <4>2. page.of \subseteq pages[st][h].of \cup {c.as}
          BY <3>2
        <4> QED
          BY <2>3, <3>1, <3>2, <4>1, <4>2
      <3>3. CASE ~(st = c.store /\ h = c.host)
        BY <1>2, <3>1, <3>3
      <3> QED
        BY <3>2, <3>3
    <2> QED
      BY <2>1, <2>2, <2>4 DEF HoldsOnly
  <1>5. PinsInv'
    BY PinsNext DEF ViewInv
  <1> QED
    BY <1>3, <1>4, <1>5 DEF ViewInv

LEMMA ViewAnswer ==
    ASSUME ViewInv, [Next]_vars, NEW c \in BagToSet(calls),
           PageLoaded(c) \/ PageFails(c) \/ Created(c) \/ CallFails(c) \/ Verified(c) \/ LoggedIn(c)
    PROVE  ViewInv'
  <1>0. c \in DOMAIN calls /\ Done(c) /\ DOMAIN calls' \subseteq DOMAIN calls
    BY DoneCalls DEF BagToSet, PageLoaded, PageFails, Created, CallFails, Verified, LoggedIn
  <1>1. ASSUME UNCHANGED <<pages, seen, soon, stale>>, resetting \subseteq resetting',
               \A h \in Hosts : pins'[h].account = pins[h].account \/ h \in resetting'
        PROVE  ViewInv'
    <2>1. soon' \in Seq(Timers) /\ \A h \in Hosts : ResetPending(h) => ResetPending(h)'
      BY <1>1, TimersWait DEF ViewInv
    <2>2. \A h \in Hosts : h \in resetting' => ResetPending(h)'
      BY DEF ResetPending
    <2>3. \A h \in Hosts : pins'[h].account = pins[h].account \/ ResetPending(h)'
      BY <1>1, <2>2
    <2> QED
      BY <1>0, <1>1, <2>1, <2>3, NothingAsked
  <1>2. CASE PageLoaded(c)
    <2>1. PageOf({c.as}, TRUE).of = {c.as}
      BY DEF PageOf
    <2> QED
      BY <1>0, <1>2, <2>1, LoadedKeeps DEF PageLoaded, Under, pinVars
  <1>3. CASE Created(c)
    <2>1. WithNew(c).of \subseteq pages[c.store][c.host].of \cup {c.as}
      BY DEF WithNew, PageOf
    <2> QED
      BY <1>0, <1>3, <2>1, LoadedKeeps DEF Created, Under, pinVars
  <1>4. CASE PageFails(c) \/ CallFails(c) \/ Verified(c)
    BY <1>1, <1>4 DEF PageFails, CallFails, Verified, pinVars, storeVars
  <1>5. CASE LoggedIn(c)
    <2>1. \A h \in Hosts \ {c.host} : pins'[h] = pins[h]
      BY <1>0, <1>5, PinOfHost DEF LoggedIn, ViewInv, StoreTyped
    <2> QED
      BY <1>1, <1>5, <2>1 DEF LoggedIn, storeVars
  <1> QED
    BY <1>2, <1>3, <1>4, <1>5

-----------------------------------------------------------------------------
LEMMA ViewTimer ==
    ASSUME ViewInv, [Next]_vars, RunTimer
    PROVE  ViewInv'
  <1> DEFINE t == Head(soon)
  <1>0. /\ PinsInv /\ StoreTyped /\ current \in Hosts
        /\ soon # <<>> /\ t \in Timers /\ t.host \in Hosts
        /\ UNCHANGED <<pages, seen, calls, stale>>
    <2>1. soon \in Seq(Timers) /\ soon # <<>>
      BY DEF RunTimer, ViewInv, StoreTyped
    <2>2. t \in Timers
      BY <2>1
    <2> QED
      BY <2>1, <2>2 DEF Timers, RunTimer, ViewInv, PinsInv, storeVars
  <1> DEFINE Runs1 ==
        /\ t.do \in {"reset", "resetCurrent"} => t.host \in resetting'
        /\ resetting \subseteq resetting'
        /\ \/ soon' = Tail(soon) /\ \A h \in Hosts : pins'[h].account = pins[h].account
           \/ \E u \in Timers :
                /\ soon' = Append(Tail(soon), u)
                /\ \A h \in Hosts : pins'[h].account = pins[h].account \/ Resets(u, h)
  <1>1. \A do \in {"reset", "exclude"}, on \in BOOLEAN : \A h \in Hosts : Timer(do, h, on) \in Timers
    BY DEF Timer, Timers
  <1>2. Runs1
    <2>1. CASE t.do = "reset" \/ t.do = "resetCurrent" \/ t.do = "exclude"
      BY <2>1 DEF RunTimer, Runs, Resetting
    <2>2. CASE t.do = "unpinCurrent"
      <3>1. \A h \in Hosts \ {current} : pins'[h] = pins[h]
        BY <1>0, <2>2, PinOfHost DEF RunTimer, Runs
      <3>2. Resets(Timer("reset", current, TRUE), current)
        BY DEF Resets, Timer
      <3>3. soon' = Append(Tail(soon), Timer("reset", current, TRUE)) /\ resetting' = resetting
        BY <2>2 DEF RunTimer, Runs
      <3> QED
        BY <1>0, <1>1, <2>2, <3>1, <3>2, <3>3
    <2>3. CASE t.do = "pin"
      <3>1. resetting' = resetting
        BY <2>3 DEF RunTimer, Runs
      <3>2. CASE pins[t.host].pinned
        BY <2>3, <3>1, <3>2 DEF RunTimer, Runs
      <3>3. CASE ~pins[t.host].pinned
        <4>1. /\ AccountOf(t.host, Pin(TRUE, SignedIn(t.host)))
              /\ soon' = Append(Tail(soon), Timer("exclude", t.host, FALSE))
          BY <2>3, <3>3 DEF RunTimer, Runs, AccountOf
        <4>2. \A h \in Hosts : pins'[h].account = pins[h].account
          <5>1. PICK k \in Hosts : k = t.host
            BY <1>0
          <5>2. AccountOf(k, Pin(TRUE, SignedIn(k)))
            BY <4>1, <5>1
          <5>3. Pin(TRUE, SignedIn(k)).account = pins[k].account
            BY PinForms DEF SignedIn
          <5> HIDE DEF t
          <5> QED
            BY <1>0, <5>2, <5>3, PinOfHost
        <4>3. Timer("exclude", t.host, FALSE) \in Timers
          BY <1>0, <1>1
        <4> QED
          BY <2>3, <3>1, <4>1, <4>2, <4>3
      <3> QED
        BY <3>2, <3>3
    <2> QED
      BY <1>0, <2>1, <2>2, <2>3 DEF Timers
  <1>3. /\ soon' \in Seq(Timers)
        /\ \A h \in Hosts : ResetPending(h) => ResetPending(h)' \/ Resets(t, h)
        /\ \A u \in Timers, h \in Hosts :
             soon' = Append(Tail(soon), u) /\ Resets(u, h) => ResetPending(h)'
    BY <1>0, <1>2, FirstRuns
  <1>4. \A h \in Hosts : Resets(t, h) => ResetPending(h)'
    BY <1>2 DEF Resets, ResetPending
  <1>5. \A h \in Hosts : pins'[h].account = pins[h].account \/ ResetPending(h)'
    BY <1>2, <1>3
  <1>6. \A h \in Hosts : ResetPending(h) => ResetPending(h)'
    BY <1>3, <1>4
  <1>7. DOMAIN calls' \subseteq DOMAIN calls /\ UNCHANGED <<pages, seen>> /\ stale \subseteq stale'
    BY <1>0
  <1> HIDE DEF t
  <1> QED
    BY <1>3, <1>5, <1>6, <1>7, NothingAsked

(* A reset leaves nothing of its server, and whatever is still asked of it is asked for
   the account there is, unless another account's requests are under way. *)
LEMMA ViewReset ==
    ASSUME ViewInv, [Next]_vars, NEW k \in Hosts, ResetCredentialedData(k)
    PROVE  ViewInv'
  <1>0. /\ UNCHANGED <<pins, soon, calls>>
        /\ pages' = [st \in Stores |-> [pages[st] EXCEPT ![k] = NoPage]]
        /\ seen' = [st \in Stores |-> [seen[st] EXCEPT ![k] = {}]]
        /\ stale' = IF Strangers(k) = {} THEN stale \ {k} ELSE stale \cup {k}
        /\ resetting' = resetting \ {k}
    BY DEF ResetCredentialedData, pinVars
  <1>1. \A st \in Stores, h \in Hosts :
          /\ pages'[st][h] = IF h = k THEN NoPage ELSE pages[st][h]
          /\ seen'[st][h] = IF h = k THEN {} ELSE seen[st][h]
    BY <1>0 DEF ViewInv, StoreTyped
  <1>2. StoreTyped'
    <2>1. /\ pages' = [st \in Stores |-> [h \in Hosts |-> pages'[st][h]]]
          /\ seen' = [st \in Stores |-> [h \in Hosts |-> seen'[st][h]]]
      BY <1>0 DEF ViewInv, StoreTyped
    <2> QED
      BY <1>0, <2>1 DEF ViewInv, StoreTyped
  <1>3. ASSUME NEW h \in Hosts \ stale', ~ResetPending(h)' PROVE HoldsOnly(h)'
    <2>1. SignedIn(h)' = SignedIn(h)
      BY <1>0 DEF SignedIn
    <2>2. CASE h = k
      <3>1. Strangers(k) = {}
        BY <1>0, <1>3, <2>2
      <3>2. \A c \in DOMAIN calls : c.host = h /\ c.kind \in {"page", "create"} => c.as = SignedIn(h)
        BY <2>2, <3>1 DEF Strangers, BagToSet
      <3>3. NoPage.of = {}
        BY DEF NoPage
      <3>4. ASSUME NEW st \in Stores PROVE seen'[st][h] = {} /\ pages'[st][h].of = {}
        BY <1>1, <2>2, <3>3
      <3> QED
        BY <1>0, <2>1, <3>2, <3>4 DEF HoldsOnly
    <2>3. CASE h # k
      <3>1. HoldsOnly(h)
        BY <1>0, <1>3, <2>3 DEF ViewInv, ResetPending
      <3> QED
        BY <1>0, <1>1, <2>1, <2>3, <3>1 DEF HoldsOnly
    <2> QED
      BY <2>2, <2>3
  <1>4. PinsInv'
    BY PinsNext DEF ViewInv
  <1> QED
    BY <1>2, <1>3, <1>4 DEF ViewInv

-----------------------------------------------------------------------------
LEMMA ViewInit == Init => ViewInv
  <1> SUFFICES ASSUME Init PROVE ViewInv
    OBVIOUS
  <1>1. DOMAIN calls = {}
    BY DEF Init, EmptyBag, SetToBag
  <1>2. /\ pages = [st \in Stores |-> [h \in Hosts |-> NoPage]]
        /\ seen = [st \in Stores |-> [h \in Hosts |-> {}]]
        /\ soon = <<>> /\ NoPage.of = {}
    BY DEF Init, NoPage
  <1>3. StoreTyped
    BY <1>1, <1>2 DEF StoreTyped
  <1>4. \A h \in Hosts : HoldsOnly(h)
    BY <1>1, <1>2 DEF HoldsOnly
  <1> QED
    BY <1>3, <1>4, PinsInit DEF ViewInv

LEMMA ViewNext ==
    ASSUME ViewInv, [Next]_vars
    PROVE  ViewInv'
  <1>1. CASE Render
    BY <1>1, ViewRender
  <1>2. CASE Answer
    BY <1>2, ViewAnswer DEF Answer
  <1>3. CASE RunTimer
    BY <1>3, ViewTimer
  <1>4. ASSUME NEW h \in Hosts, ResetCredentialedData(h) PROVE ViewInv'
    BY <1>4, ViewReset
  <1>5. CASE UserStep \/ \E h \in Hosts : MarkedUnpinned(h)
    BY <1>5, ViewUserStep
  <1>6. CASE UNCHANGED vars
    <2>1. UNCHANGED <<pages, seen, soon, resetting, calls, pins, stale>>
      BY <1>6 DEF vars, pinVars, storeVars
    <2>2. soon' \in Seq(Timers) /\ \A h \in Hosts : ResetPending(h) => ResetPending(h)'
      BY <2>1, TimersWait DEF ViewInv
    <2> QED
      BY <2>1, <2>2, NothingAsked
  <1> QED
    BY <1>1, <1>2, <1>3, <1>4, <1>5, <1>6 DEF Next, SystemStep, TimerStep

\* With no reset on its way a server's data is of the account signed in there.
LEMMA QuietShows == ViewInv => SignedInView
  <1> SUFFICES ASSUME ViewInv, NEW h \in Hosts \ stale, NEW st \in Stores, Quiet(h)
               PROVE  seen[st][h] \subseteq {SignedIn(h)} /\ pages[st][h].of \subseteq {SignedIn(h)}
    BY DEF SignedInView
  <1>1. DOMAIN soon = 1..Len(soon)
    BY LenProperties DEF ViewInv, StoreTyped
  <1>2. ~ResetPending(h)
    BY <1>1 DEF ResetPending, Resets, Quiet
  <1> QED
    BY <1>2 DEF ViewInv, HoldsOnly

(* When nothing is under way for a server, the store has of it what the account signed
   in may see, whatever was pinned, signed in to and out of, and loaded meanwhile
   (resetCredentialedData, credentialed_data.ts:82-97). *)
THEOREM ShowsTheAccountSignedIn == Spec => []SignedInView
  <1>1. ViewInv /\ [Next]_vars => ViewInv'
    BY ViewNext
  <1> QED
    BY ViewInit, <1>1, QuietShows, PTL DEF Spec
=============================================================================
