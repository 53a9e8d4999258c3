------------------------- MODULE AccountTokensProofs -------------------------
(* That no account ever holds, sends or is given another account's tokens, and that the
   store ends with what an account's last answer brought where its calls did not overlap,
   for any accounts, calls and lifetimes.

   The invariant adds to TokensBelong what it rests on: every refresh token the client
   has, in whatever copy, is Known: if the server still has a row with its id the row
   is of the same user.  Ids are never used again, so this survives every step of the
   server; a call that answers for the row it found by the token then answers for the
   user of the account the call works on. *)
EXTENDS AccountTokens, SequenceTheorems, TLAPS

Known(t) == t.id <= issued /\ \A r \in refreshes : r.id = t.id => r.of = t.of

Good(x) == Own(x) /\ Known(x.refresh)

AccountsGood == \A a \in Accounts : accounts[a] # None => accounts[a].of = a /\ Good(accounts[a])
CacheGood == \A a \in Accounts : cache[a] # None => cache[a].of = a
CallGood(c) ==
    /\ pc[c] = "idle" <=> snap[c] = None
    /\ snap[c] # None => Good(snap[c])
    /\ held[c] # None => pc[c] = "ready" /\ held[c].of = snap[c].of
    /\ answer[c].granted =>
        /\ pc[c] = "answered"
        /\ answer[c].access # None /\ answer[c].access.of = snap[c].of
        /\ answer[c].refresh # None => answer[c].refresh.of = snap[c].of /\ Known(answer[c].refresh)
WritesGood == \A i \in DOMAIN writes : Good(writes[i])
RowsOld == \A r \in refreshes : r.id <= issued

TokensInv ==
    /\ TypeOK /\ RowsOld
    /\ AccountsGood /\ CacheGood /\ WritesGood
    /\ \A c \in Calls : CallGood(c)

-----------------------------------------------------------------------------
\* What every step does to the server's refresh tokens: ids grow, and the rows there are
\* keep their users.
ServerKeeps ==
    /\ issued \in Nat /\ issued' \in Nat /\ issued <= issued'
    /\ refreshes' \subseteq Token /\ RowsOld'
    /\ \A r \in refreshes' : r.id > issued \/ \E s \in refreshes : s.id = r.id /\ s.of = r.of

LEMMA KnownStays ==
    ASSUME ServerKeeps, NEW t \in Token, Known(t)
    PROVE  Known(t)'
BY DEF ServerKeeps, Known, Token

ServerType == now \in Nat /\ issued \in Nat /\ refreshes \subseteq Token /\ accesses \subseteq AccessRow

LEMMA PairKeeps ==
    ASSUME ServerType, RowsOld, NEW a \in Accounts, NEW expires \in Expiry,
           NEW replaced \in SUBSET refreshes, NEW kept \in SUBSET Token,
           \A k \in kept : \E s \in replaced : s.id = k.id /\ s.of = k.of,
           IssuePair(a, expires, replaced, kept)
    PROVE  /\ ServerKeeps /\ ServerType'
           /\ NewRefresh(a, expires) \in Token
           /\ \A t \in Token : t = NewRefresh(a, expires) => Known(t)'
           /\ TokenOf(NewAccess(issued + 2, NewRefresh(a, expires))) \in Token
<1> DEFINE new == NewRefresh(a, expires)
           row == NewAccess(issued + 2, new)
<1>1. new \in Token /\ new.id = issued + 1 /\ new.of = a
    BY DEF NewRefresh, Token, ServerType
<1>2. row \in AccessRow /\ TokenOf(row) \in Token
    BY <1>1, ServerAssumption DEF NewAccess, AccessRow, Token, Expiry, ServerType, TokenOf
<1>3. /\ issued' = issued + 2 /\ now' = now
      /\ refreshes' = (refreshes \ replaced) \cup kept \cup {new}
      /\ accesses' = accesses \cup {row}
    BY DEF IssuePair
<1> HIDE DEF new, row
<1>4. ServerType'
    BY <1>1, <1>2, <1>3 DEF ServerType
<1>5. \A r \in refreshes' : r = new \/ \E s \in refreshes : s.id = r.id /\ s.of = r.of
    BY <1>3
<1>6. ServerKeeps
    BY <1>1, <1>3, <1>4, <1>5 DEF ServerKeeps, RowsOld, ServerType, Token
<1>7. ASSUME NEW t \in Token, t = new PROVE Known(t)'
    <2>1. \A r \in refreshes' : r.id = t.id => r = t
        BY <1>1, <1>5, <1>7 DEF RowsOld, ServerType, Token
    <2> QED
        BY <1>1, <1>3, <1>7, <2>1 DEF Known, ServerType
<1> QED
    BY <1>1, <1>2, <1>4, <1>6, <1>7 DEF new, row

LEMMA RefreshKeeps ==
    ASSUME ServerType, RowsOld, NEW r \in refreshes,
           RotateLapsed(r) \/ RotateAtRandom(r) \/ GiveAccess(r)
    PROVE  ServerKeeps /\ ServerType'
<1>1. CASE RotateLapsed(r)
    <2>1. IssuePair(r.of, now + LongLife, {}, {})
        BY <1>1 DEF RotateLapsed
    <2>2. r.of \in Accounts /\ now + LongLife \in Expiry
        BY ServerAssumption DEF ServerType, Token, Expiry
    <2> QED
        BY <2>1, <2>2, PairKeeps
<1>2. CASE RotateAtRandom(r)
    <2> DEFINE k == [r EXCEPT !.expires = now + Grace]
    <2>1. k \in Token /\ k.id = r.id /\ k.of = r.of /\ r.of \in Accounts
        BY ServerAssumption DEF ServerType, Token, Expiry
    <2>2. IssuePair(r.of, Never, {r}, {k})
        BY <1>2 DEF RotateAtRandom
    <2>3. Never \in Expiry /\ {r} \in SUBSET refreshes /\ {k} \in SUBSET Token
        BY <2>1 DEF Expiry
    <2>4. \A x \in {k} : \E s \in {r} : s.id = x.id /\ s.of = x.of
        BY <2>1
    <2> HIDE DEF k
    <2> QED
        BY <2>1, <2>2, <2>3, <2>4, PairKeeps
<1>3. CASE GiveAccess(r)
    <2>1. NewAccess(issued + 1, r) \in AccessRow
        BY ServerAssumption DEF ServerType, NewAccess, AccessRow, Token, Expiry
    <2> QED
        BY <1>3, <2>1 DEF GiveAccess, ServerType, ServerKeeps, RowsOld, Token
<1> QED
    BY <1>1, <1>2, <1>3

LEMMA StillKeeps ==
    ASSUME ServerType, RowsOld,
           UNCHANGED serverVars \/ CleanUp \/ Tick
    PROVE  ServerKeeps /\ ServerType'
<1>1. CASE UNCHANGED serverVars
    BY <1>1 DEF serverVars, ServerType, ServerKeeps, RowsOld, Token
<1>2. CASE CleanUp
    BY <1>2 DEF CleanUp, ServerType, ServerKeeps, RowsOld, Token
<1>3. CASE Tick
    BY <1>3 DEF Tick, ServerType, ServerKeeps, RowsOld, Token
<1> QED
    BY <1>1, <1>2, <1>3

-----------------------------------------------------------------------------
\* What the client keeps stays good whatever the server does.
LEMMA GoodStays ==
    ASSUME ServerKeeps, NEW x \in Account, Good(x)
    PROVE  Good(x)'
BY KnownStays DEF Good, Own, Account

\* A step of the client that leaves the server, the calls and the writes alone or
\* only touches what its caller proves.
LEMMA CopiesStay ==
    ASSUME TokensInv, ServerKeeps, ServerType'
    PROVE  /\ \A x \in Account : Good(x) => Good(x)'
           /\ \A t \in Token : Known(t) => Known(t)'
BY GoodStays, KnownStays

LEMMA ServerIsTyped == ASSUME TokensInv PROVE ServerType /\ RowsOld
BY DEF TokensInv, TypeOK, ServerType

\* The steps of the server and the clock.
LEMMA ServerStepKeeps ==
    ASSUME TokensInv, ServerStep
    PROVE  TokensInv'
<1>1. ServerKeeps /\ ServerType'
    BY ServerIsTyped, StillKeeps DEF ServerStep
<1>2. UNCHANGED clientVars
    BY DEF ServerStep
<1>3. TypeOK'
    BY <1>1, <1>2 DEF TokensInv, TypeOK, clientVars, ServerType
<1>4. RowsOld'
    BY <1>1 DEF ServerKeeps
<1>5. AccountsGood' /\ CacheGood'
    BY <1>1, <1>2, CopiesStay DEF TokensInv, AccountsGood, CacheGood, TypeOK, clientVars
<1>6. WritesGood'
    <2>1. \A i \in DOMAIN writes : writes[i] \in Account
        BY DEF TokensInv, TypeOK
    <2> QED
        BY <1>1, <1>2, <2>1, CopiesStay DEF TokensInv, WritesGood, clientVars
<1>7. ASSUME NEW c \in Calls PROVE CallGood(c)'
    <2>1. CallGood(c) /\ snap[c] \in Account \cup {None} /\ answer[c] \in Answers
        BY DEF TokensInv, TypeOK
    <2>2. answer[c].refresh \in Token \cup {None}
        BY <2>1 DEF Answers
    <2> QED
        BY <1>1, <1>2, <2>1, <2>2, CopiesStay DEF CallGood, clientVars
<1> QED
    BY <1>3, <1>4, <1>5, <1>6, <1>7 DEF TokensInv

-----------------------------------------------------------------------------
\* A call that a step does not touch.
LEMMA OtherCall ==
    ASSUME TokensInv, ServerKeeps, ServerType', NEW d \in Calls,
           pc'[d] = pc[d], snap'[d] = snap[d], held'[d] = held[d], answer'[d] = answer[d]
    PROVE  CallGood(d)'
<1>1. CallGood(d) /\ snap[d] \in Account \cup {None} /\ answer[d] \in Answers
    BY DEF TokensInv, TypeOK
<1>2. answer[d].refresh \in Token \cup {None}
    BY <1>1 DEF Answers
<1> QED
    BY <1>1, <1>2, CopiesStay DEF CallGood

\* What a step of the client has to show: what it stores or queues is good, or was there.
LEMMA StepKeeps ==
    ASSUME TokensInv, ServerKeeps, TypeOK',
           \A a \in Accounts : \A x \in Account : accounts'[a] # None /\ x = accounts'[a] =>
               x = accounts[a] \/ (x.of = a /\ Good(x)'),
           \A a \in Accounts : cache'[a] \in {cache[a], None} \/ cache'[a].of = a,
           \A i \in DOMAIN writes' : \A x \in Account : x = writes'[i] =>
               (\E k \in DOMAIN writes : x = writes[k]) \/ Good(x)',
           \A c \in Calls : CallGood(c)'
    PROVE  TokensInv'
<1>1. ServerType'
    BY DEF TypeOK, ServerType
<1>2. AccountsGood'
    BY <1>1, CopiesStay DEF AccountsGood, TokensInv, TypeOK
<1>3. CacheGood'
    BY DEF CacheGood, TokensInv
<1>4. WritesGood'
    <2>1. \A i \in DOMAIN writes' : writes'[i] \in Account
        BY DEF TypeOK
    <2> QED
        BY <1>1, <2>1, CopiesStay DEF WritesGood, TokensInv
<1> QED
    BY <1>2, <1>3, <1>4 DEF TokensInv, ServerKeeps

-----------------------------------------------------------------------------
\* Steps that leave the server as it is.
LEMMA ServerUnchanged ==
    ASSUME TokensInv, UNCHANGED serverVars
    PROVE  ServerKeeps /\ ServerType'
BY ServerIsTyped, StillKeeps

LEMMA RemoveAccountKeeps ==
    ASSUME TokensInv, NEW a \in Accounts, RemoveAccount(a)
    PROVE  TokensInv'
<1>1. ServerKeeps /\ ServerType'
    BY ServerUnchanged DEF RemoveAccount
<1>2. TypeOK'
    BY <1>1 DEF RemoveAccount, TokensInv, TypeOK, ServerType, serverVars
<1>3. \A c \in Calls : CallGood(c)'
    BY <1>1, OtherCall DEF RemoveAccount
<1> QED
    BY <1>1, <1>2, <1>3, StepKeeps DEF RemoveAccount, TokensInv, TypeOK

LEMMA BeginKeeps ==
    ASSUME TokensInv, NEW c \in Calls, NEW a \in Accounts, Begin(c, a),
           verifying' \in SUBSET Calls, raced' \in SUBSET Accounts,
           cache' = cache \/ cache' = [x \in Accounts |-> None]
    PROVE  TokensInv'
<1>1. ServerKeeps /\ ServerType'
    BY ServerUnchanged DEF Begin
<1>2. accounts[a] \in Account /\ Good(accounts[a])
    BY DEF Begin, TokensInv, TypeOK, AccountsGood
<1>3. TypeOK'
    BY <1>1, <1>2 DEF Begin, TokensInv, TypeOK, ServerType, serverVars
<1>4. CallGood(c)'
    <2>1. /\ pc'[c] = "connecting" /\ snap'[c] = accounts[a] /\ accounts[a] # None
          /\ held'[c] = held[c] /\ answer'[c] = answer[c]
        BY DEF Begin, TokensInv, TypeOK
    <2>2. CallGood(c) /\ pc[c] = "idle"
        BY DEF Begin, TokensInv
    <2>3. \A x \in Account : x = snap'[c] => Good(x)'
        BY <1>1, <1>2, <2>1, CopiesStay
    <2> QED
        BY <1>2, <2>1, <2>2, <2>3 DEF CallGood
<1>5. ASSUME NEW d \in Calls PROVE CallGood(d)'
    <2>1. CASE d = c
        BY <1>4, <2>1
    <2>2. CASE d # c
        BY <1>1, <2>2, OtherCall DEF Begin, TokensInv, TypeOK
    <2> QED
        BY <2>1, <2>2
<1>6. accounts' = accounts /\ writes' = writes
    BY DEF Begin
<1>7. \A x \in Accounts : cache'[x] \in {cache[x], None}
    OBVIOUS
<1> QED
    BY <1>1, <1>3, <1>5, <1>6, <1>7, StepKeeps

\* Steps of one call c that neither the store nor the queue of writes sees.
LEMMA CallStepKeeps ==
    ASSUME TokensInv, NEW c \in Calls, ServerKeeps, TypeOK',
           UNCHANGED <<accounts, writes>>,
           \A a \in Accounts : cache'[a] = cache[a] \/ cache'[a].of = a,
           \A d \in Calls \ {c} : /\ pc'[d] = pc[d] /\ snap'[d] = snap[d]
                                  /\ held'[d] = held[d] /\ answer'[d] = answer[d],
           CallGood(c)'
    PROVE  TokensInv'
<1>1. ServerType'
    BY DEF TypeOK, ServerType
<1>2. ASSUME NEW d \in Calls PROVE CallGood(d)'
    BY <1>1, OtherCall
<1> QED
    BY <1>2, StepKeeps

\* The token of a call is the account's own, or the one cached for it.
LEMMA ChooseTokenKeeps ==
    ASSUME TokensInv, NEW c \in Calls,
           UseOwnToken(c) \/ UseCachedToken(c) \/ AskForToken(c)
    PROVE  TokensInv'
<1>1. ServerKeeps /\ ServerType'
    BY ServerUnchanged DEF UseOwnToken, UseCachedToken, AskForToken
<1>2. /\ CallGood(c) /\ pc[c] = "connecting" /\ snap[c] \in Account /\ Good(snap[c])
      /\ snap[c] # None
    BY DEF TokensInv, TypeOK, CallGood, UseOwnToken, UseCachedToken, AskForToken
<1>3. TypeOK'
    <2>1. snap[c].access \in Token /\ snap[c].of \in Accounts
        BY <1>2 DEF Account
    <2> QED
        BY <1>1, <2>1 DEF UseOwnToken, UseCachedToken, AskForToken, TokensInv, TypeOK,
                          ServerType, serverVars
<1>4. Good(snap[c])'
    <2>1. snap' = snap
        BY DEF UseOwnToken, UseCachedToken, AskForToken
    <2>2. snap[c]' = snap[c] /\ \A x \in Account : Good(x) => Good(x)'
        BY <1>1, <2>1, CopiesStay
    <2>3. ASSUME NEW x \in Account, x = snap[c] PROVE Good(x)'
        BY <1>2, <2>2, <2>3
    <2> QED
        BY <1>2, <2>1, <2>3 DEF Good, Own, Known
<1>5. CallGood(c)'
    <2>0. pc'[c] # "idle" /\ snap' = snap /\ answer' = answer
        BY DEF UseOwnToken, UseCachedToken, AskForToken, TokensInv, TypeOK
    <2>1. CASE UseOwnToken(c)
        BY <1>2, <1>4, <2>0, <2>1 DEF UseOwnToken, CallGood, Good, Own, TokensInv, TypeOK
    <2>2. CASE UseCachedToken(c)
        <3>1. cache[snap[c].of].of = snap[c].of
            BY <1>2, <2>2 DEF UseCachedToken, TokensInv, CacheGood, Account
        <3> QED
            BY <1>2, <1>4, <2>0, <2>2, <3>1 DEF UseCachedToken, CallGood, TokensInv, TypeOK
    <2>3. CASE AskForToken(c)
        BY <1>2, <1>4, <2>0, <2>3 DEF AskForToken, CallGood, TokensInv, TypeOK
    <2> QED
        BY <2>1, <2>2, <2>3
<1> QED
    BY <1>1, <1>3, <1>5, CallStepKeeps
       DEF UseOwnToken, UseCachedToken, AskForToken, TokensInv, TypeOK

LEMMA CallEndsKeeps ==
    ASSUME TokensInv, NEW c \in Calls, ConnectionFails(c) \/ CallReturns(c)
    PROVE  TokensInv'
<1>1. ServerKeeps /\ ServerType'
    BY ServerUnchanged DEF ConnectionFails, CallReturns, Finish, serverVars
<1>2. TypeOK'
    <2>1. CASE ConnectionFails(c)
        BY <1>1, <2>1 DEF ConnectionFails, TokensInv, TypeOK, ServerType, serverVars
    <2>2. CASE CallReturns(c)
        BY <1>1, <2>2 DEF CallReturns, Finish, TokensInv, TypeOK, ServerType, serverVars
    <2> QED
        BY <2>1, <2>2
<1>3. CallGood(c)'
    BY DEF ConnectionFails, CallReturns, Finish, TokensInv, TypeOK, CallGood
<1> QED
    BY <1>1, <1>2, <1>3, CallStepKeeps DEF ConnectionFails, CallReturns, Finish, TokensInv, TypeOK

-----------------------------------------------------------------------------
\* The row a call's refresh token names is of the user the call is for.
LEMMA RowIsOwn ==
    ASSUME TokensInv, NEW c \in Calls, snap[c] # None, NEW r \in Rows(snap[c].refresh)
    PROVE  r \in refreshes /\ r \in Token /\ r.of = snap[c].of
BY DEF TokensInv, TypeOK, CallGood, Good, Own, Known, Rows

\* What an answer brings is of that user and, in it, Known.
LEMMA AnswerIsOwn ==
    ASSUME TokensInv, NEW c \in Calls, pc[c] = "asking", snap[c] # None,
           NEW r \in Rows(snap[c].refresh),
           \/ RotateLapsed(r) /\ Grant(c, Pair(r.of, now + LongLife)[1], Pair(r.of, now + LongLife)[2])
           \/ RotateAtRandom(r) /\ Grant(c, Pair(r.of, Never)[1], Pair(r.of, Never)[2])
           \/ GiveAccess(r) /\ Grant(c, TokenOf(NewAccess(issued + 1, r)), None)
    PROVE  \E x \in Token, y \in Token \cup {None} :
               /\ Grant(c, x, y)
               /\ x.of = snap[c].of
               /\ y # None => y.of = snap[c].of /\ Known(y)'
<1>1. r \in refreshes /\ r \in Token /\ r.of = snap[c].of /\ r.of \in Accounts
    BY RowIsOwn DEF Token
<1>2. ServerType /\ RowsOld
    BY ServerIsTyped
<1> DEFINE x(e) == TokenOf(NewAccess(issued + 2, NewRefresh(r.of, e)))
           y(e) == NewRefresh(r.of, e)
<1>3. \A e : x(e).of = r.of /\ y(e).of = r.of
    BY DEF TokenOf, NewAccess, NewRefresh
<1>4. \A e : Pair(r.of, e)[1] = x(e) /\ Pair(r.of, e)[2] = y(e)
    BY DEF Pair
<1>5. ASSUME NEW e \in Expiry, NEW kept \in SUBSET Token, NEW replaced \in SUBSET refreshes,
             \A k \in kept : \E s \in replaced : s.id = k.id /\ s.of = k.of,
             IssuePair(r.of, e, replaced, kept), Grant(c, Pair(r.of, e)[1], Pair(r.of, e)[2])
      PROVE  \E t \in Token, u \in Token \cup {None} :
               /\ Grant(c, t, u)
               /\ t.of = snap[c].of
               /\ u # None => u.of = snap[c].of /\ Known(u)'
    <2>1. x(e) \in Token /\ y(e) \in Token /\ \A t \in Token : t = y(e) => Known(t)'
        BY <1>1, <1>2, <1>5, PairKeeps
    <2>2. Grant(c, x(e), y(e))
        BY <1>4, <1>5
    <2> HIDE DEF x, y
    <2> QED
        BY <1>1, <1>3, <2>1, <2>2
<1>6. CASE RotateLapsed(r) /\ Grant(c, Pair(r.of, now + LongLife)[1], Pair(r.of, now + LongLife)[2])
    <2>1. now + LongLife \in Expiry
        BY <1>2, ServerAssumption DEF ServerType, Expiry
    <2>2. IssuePair(r.of, now + LongLife, {}, {})
        BY <1>6 DEF RotateLapsed
    <2> QED
        BY <1>5, <1>6, <2>1, <2>2
<1>7. CASE RotateAtRandom(r) /\ Grant(c, Pair(r.of, Never)[1], Pair(r.of, Never)[2])
    <2> DEFINE k == [r EXCEPT !.expires = now + Grace]
    <2>1. k \in Token /\ k.id = r.id /\ k.of = r.of
        BY <1>1, <1>2, ServerAssumption DEF ServerType, Token, Expiry
    <2>2. IssuePair(r.of, Never, {r}, {k})
        BY <1>7 DEF RotateAtRandom
    <2>3. Never \in Expiry /\ {r} \in SUBSET refreshes /\ {k} \in SUBSET Token
        BY <1>1, <2>1 DEF Expiry
    <2>4. \A z \in {k} : \E s \in {r} : s.id = z.id /\ s.of = z.of
        BY <2>1
    <2> HIDE DEF k
    <2> QED
        BY <1>5, <1>7, <2>2, <2>3, <2>4
<1>8. CASE GiveAccess(r) /\ Grant(c, TokenOf(NewAccess(issued + 1, r)), None)
    <2> DEFINE t == TokenOf(NewAccess(issued + 1, r))
    <2>1. t \in Token /\ t.of = snap[c].of
        BY <1>1, <1>2, ServerAssumption DEF TokenOf, NewAccess, ServerType, Token, Expiry
    <2>2. Grant(c, t, None)
        BY <1>8
    <2> HIDE DEF t
    <2> QED
        BY <2>1, <2>2
<1> QED
    BY <1>6, <1>7, <1>8

LEMMA AnsweredKeeps ==
    ASSUME TokensInv, NEW c \in Calls, Answered(c) \/ AnswerLost(c)
    PROVE  TokensInv'
<1> DEFINE Refused == answer' = [answer EXCEPT ![c] = NoAnswer] /\ UNCHANGED serverVars
           Given(x, y) ==
               /\ Grant(c, x, y)
               /\ x.of = snap[c].of
               /\ y # None => y.of = snap[c].of /\ Known(y)'
<1>0. /\ CallGood(c) /\ pc[c] \in {"asking", "answered"} /\ snap[c] # None /\ snap[c] \in Account
      /\ held[c] = None /\ Good(snap[c])
    BY DEF TokensInv, TypeOK, CallGood, Answered, AnswerLost
<1>1. /\ UNCHANGED <<accounts, cache, snap, held, verifying, writes, made, failed, newest, raced>>
      /\ faults' \in Nat
      /\ pc' = [pc EXCEPT ![c] = "answered"]
    BY DEF Answered, AnswerLost, Grant, TokensInv, TypeOK
<1>2. \/ Refused
      \/ /\ ServerKeeps /\ ServerType'
         /\ \E x \in Token, y \in Token \cup {None} : Given(x, y)
    <2>1. CASE AnswerLost(c)
        BY <2>1 DEF AnswerLost
    <2>2. CASE Answered(c) /\ ~Refused
        <3>1. pc[c] = "asking"
            BY <2>2 DEF Answered
        <3>2. PICK r \in Rows(snap[c].refresh) :
                \/ RotateLapsed(r) /\ Grant(c, Pair(r.of, now + LongLife)[1], Pair(r.of, now + LongLife)[2])
                \/ RotateAtRandom(r) /\ Grant(c, Pair(r.of, Never)[1], Pair(r.of, Never)[2])
                \/ GiveAccess(r) /\ Grant(c, TokenOf(NewAccess(issued + 1, r)), None)
            BY <2>2 DEF Answered
        <3>3. r \in refreshes
            BY <1>0, RowIsOwn
        <3>4. ServerKeeps /\ ServerType'
            BY <3>2, <3>3, RefreshKeeps, ServerIsTyped
        <3>5. \E x \in Token, y \in Token \cup {None} : Given(x, y)
            BY <1>0, <3>1, <3>2, AnswerIsOwn
        <3> QED
            BY <3>4, <3>5
    <2> QED
        BY <2>1, <2>2
<1>3. NoAnswer \in Answers /\ ~NoAnswer.granted
    BY DEF NoAnswer, Answers
<1>4. ServerKeeps /\ ServerType'
    BY <1>2, ServerUnchanged
<1>5. /\ answer' \in [Calls -> Answers]
      /\ \A d \in Calls \ {c} : answer'[d] = answer[d]
      /\ answer'[c].granted =>
            /\ answer'[c].access # None /\ answer'[c].access.of = snap[c].of
            /\ \A u \in Token : u = answer'[c].refresh /\ u # None => u.of = snap[c].of /\ Known(u)'
            /\ answer'[c].refresh \in Token \cup {None}
    <2>1. answer \in [Calls -> Answers]
        BY DEF TokensInv, TypeOK
    <2>2. CASE Refused
        BY <1>3, <2>1, <2>2
    <2>3. CASE \E x \in Token, y \in Token \cup {None} : Given(x, y)
        <3>1. PICK x \in Token, y \in Token \cup {None} : Given(x, y)
            BY <2>3
        <3>2. answer' = [answer EXCEPT ![c] = [granted |-> TRUE, access |-> x, refresh |-> y]]
            BY <3>1 DEF Grant
        <3>3. [granted |-> TRUE, access |-> x, refresh |-> y] \in Answers
            BY DEF Answers
        <3>4. x # None
            BY NoneAssumption DEF Token
        <3> QED
            BY <2>1, <3>1, <3>2, <3>3, <3>4
    <2> QED
        BY <1>2, <2>2, <2>3
<1>6. TypeOK'
    BY <1>1, <1>4, <1>5 DEF TokensInv, TypeOK, ServerType
<1>7. CallGood(c)'
    <2>1. \A x \in Account : x = snap[c] => Good(x)'
        BY <1>0, <1>4, CopiesStay
    <2>2. pc'[c] = "answered" /\ snap'[c] = snap[c] /\ held'[c] = held[c]
        BY <1>1 DEF TokensInv, TypeOK
    <2> QED
        BY <1>0, <1>5, <2>1, <2>2 DEF CallGood
<1> QED
    BY <1>1, <1>4, <1>5, <1>6, <1>7, CallStepKeeps DEF TokensInv, TypeOK

\* A write that is queued behind the others.
LEMMA QueueKeeps ==
    ASSUME TokensInv, NEW x \in Account, writes' = Append(writes, x), Good(x)'
    PROVE  /\ writes' \in Seq(Account)
           /\ \A i \in DOMAIN writes' : writes'[i] = x \/ \E k \in DOMAIN writes : writes'[i] = writes[k]
<1>1. writes \in Seq(Account)
    BY DEF TokensInv, TypeOK
<1>2. /\ writes' \in Seq(Account) /\ Len(writes') = Len(writes) + 1
      /\ \A i \in 1..Len(writes) : writes'[i] = writes[i]
      /\ writes'[Len(writes) + 1] = x
    BY <1>1, AppendProperties
<1>3. DOMAIN writes = 1..Len(writes) /\ DOMAIN writes' = 1..Len(writes') /\ Len(writes) \in Nat
    BY <1>1, <1>2, LenProperties
<1> QED
    BY <1>2, <1>3

LEMMA RefreshEndsKeeps ==
    ASSUME TokensInv, NEW c \in Calls, RefreshSucceeds(c) \/ RefreshFails(c)
    PROVE  TokensInv'
<1>0. /\ CallGood(c) /\ pc[c] = "answered" /\ snap[c] # None /\ snap[c] \in Account
      /\ held[c] = None /\ Good(snap[c]) /\ answer[c] \in Answers
    BY DEF TokensInv, TypeOK, CallGood, RefreshSucceeds, RefreshFails
<1>1. ServerKeeps /\ ServerType' /\ UNCHANGED <<issued, refreshes>>
    BY ServerUnchanged DEF RefreshSucceeds, RefreshFails, serverVars
<1>2. snap[c].of \in Accounts /\ snap[c].refresh \in Token /\ snap[c].access \in Token
    BY <1>0 DEF Account
<1>3. PICK x \in Account : writes' = Append(writes, x) /\ Good(x)
    <2>1. CASE RefreshSucceeds(c)
        <3>1. Refreshed(c) \in Account /\ Good(Refreshed(c))
            BY <1>0, <1>2, <2>1 DEF RefreshSucceeds, Refreshed, Account, Answers, Good, Own, CallGood
        <3> QED
            BY <2>1, <3>1 DEF RefreshSucceeds
    <2>2. CASE RefreshFails(c)
        <3> DEFINE x == [snap[c] EXCEPT !.reauth = TRUE]
        <3>1. x \in Account /\ Good(x)
            BY <1>0 DEF Account, Good, Own
        <3> QED
            BY <2>2, <3>1 DEF RefreshFails
    <2> QED
        BY <2>1, <2>2
<1>4. Good(x)'
    BY <1>1, <1>3, GoodStays
<1>5. /\ writes' \in Seq(Account)
      /\ \A i \in DOMAIN writes' : writes'[i] = x \/ \E k \in DOMAIN writes : writes'[i] = writes[k]
    BY <1>3, <1>4, QueueKeeps
<1>6. NoAnswer \in Answers /\ ~NoAnswer.granted
    BY DEF NoAnswer, Answers
<1>7. TypeOK' /\ CallGood(c)'
    <2>0. \A z \in Account : z = snap[c] => Good(z)'
        BY <1>0, <1>1, CopiesStay
    <2>1. CASE RefreshSucceeds(c)
        <3>1. answer[c].access \in Token /\ answer[c].access.of = snap[c].of
            BY <1>0, <2>1 DEF RefreshSucceeds, CallGood, Answers
        <3>2. answer[c].refresh # None => answer[c].refresh.id \in Nat
            BY <1>0 DEF Answers, Token
        <3>3. TypeOK'
            BY <1>1, <1>2, <1>5, <1>6, <2>1, <3>1, <3>2
               DEF RefreshSucceeds, Cached, TokensInv, TypeOK, ServerType
        <3>4. /\ pc'[c] = "ready" /\ snap'[c] = snap[c] /\ held'[c] = answer[c].access
              /\ ~answer'[c].granted
            BY <1>6, <2>1 DEF RefreshSucceeds, TokensInv, TypeOK
        <3> QED
            BY <1>0, <2>0, <3>1, <3>3, <3>4 DEF CallGood
    <2>2. CASE RefreshFails(c)
        <3>1. TypeOK'
            BY <1>1, <1>2, <1>5, <2>2 DEF RefreshFails, TokensInv, TypeOK, ServerType
        <3>2. /\ pc'[c] = "ready" /\ snap'[c] = snap[c] /\ held'[c] = None
              /\ ~answer'[c].granted
            BY <2>2 DEF RefreshFails, TokensInv, TypeOK
        <3> QED
            BY <1>0, <2>0, <3>1, <3>2 DEF CallGood
    <2> QED
        BY <2>1, <2>2
<1>8. ASSUME NEW d \in Calls PROVE CallGood(d)'
    <2>1. CASE d = c
        BY <1>7, <2>1
    <2>2. CASE d # c
        <3>1. pc'[d] = pc[d] /\ snap'[d] = snap[d] /\ held'[d] = held[d] /\ answer'[d] = answer[d]
            BY <2>2 DEF RefreshSucceeds, RefreshFails, TokensInv, TypeOK
        <3> QED
            BY <1>1, <3>1, OtherCall
    <2> QED
        BY <2>1, <2>2
<1>9. \A a \in Accounts : cache'[a] = cache[a] \/ cache'[a].of = a
    BY <1>0, <1>2 DEF RefreshSucceeds, RefreshFails, Cached, TokensInv, TypeOK, CallGood
<1>10. accounts' = accounts
    BY DEF RefreshSucceeds, RefreshFails
<1> QED
    BY <1>1, <1>4, <1>5, <1>7, <1>8, <1>9, <1>10, StepKeeps

LEMMA LateWriteKeeps ==
    ASSUME TokensInv, LateWrite
    PROVE  TokensInv'
<1>1. ServerKeeps /\ ServerType'
    BY ServerUnchanged DEF LateWrite
<1>2. writes \in Seq(Account) /\ writes # <<>>
    BY DEF TokensInv, TypeOK, LateWrite
<1>3. /\ Len(writes) \in Nat \ {0} /\ 1 \in DOMAIN writes /\ Head(writes) = writes[1]
      /\ Head(writes) \in Account
    BY <1>2, EmptySeq, HeadTailProperties, LenProperties
<1>4. PICK x \in Account : x = Head(writes)
    BY <1>3
<1>5. Good(x) /\ x.of \in Accounts
    BY <1>3, <1>4 DEF TokensInv, WritesGood, Account
<1>6. Good(x)'
    BY <1>1, <1>5, GoodStays
<1>7. /\ Tail(writes) \in Seq(Account)
      /\ \A i \in DOMAIN Tail(writes) : \E k \in DOMAIN writes : Tail(writes)[i] = writes[k]
    <2>1. /\ Tail(writes) \in Seq(Account) /\ Len(Tail(writes)) = Len(writes) - 1
          /\ \A i \in 1..Len(Tail(writes)) : Tail(writes)[i] = writes[i + 1]
        BY <1>2, HeadTailProperties
    <2>2. DOMAIN writes = 1..Len(writes) /\ DOMAIN Tail(writes) = 1..Len(Tail(writes))
        BY <1>2, <2>1, LenProperties
    <2> QED
        BY <1>3, <2>1, <2>2
<1>8. accounts' = [accounts EXCEPT ![x.of] = x] /\ writes' = Tail(writes)
    BY <1>4 DEF LateWrite
<1>9. TypeOK'
    <2>1. accounts' \in [Accounts -> Account \cup {None}] /\ writes' \in Seq(Account)
        BY <1>5, <1>7, <1>8 DEF TokensInv, TypeOK
    <2>2. UNCHANGED <<cache, pc, snap, held, answer, verifying, made, faults, failed, newest>>
        BY DEF LateWrite
    <2>3. raced' \subseteq Accounts
        BY <1>4, <1>5 DEF LateWrite, TokensInv, TypeOK
    <2> QED
        BY <1>1, <2>1, <2>2, <2>3 DEF TokensInv, TypeOK, ServerType
<1>10. \A c \in Calls : CallGood(c)'
    BY <1>1, OtherCall DEF LateWrite
<1>11. \A a \in Accounts : accounts'[a] = accounts[a] \/ (a = x.of /\ accounts'[a] = x)
    BY <1>5, <1>8 DEF TokensInv, TypeOK
<1>12. cache' = cache
    BY DEF LateWrite
<1> QED
    BY <1>1, <1>6, <1>7, <1>8, <1>9, <1>10, <1>11, <1>12, StepKeeps

LEMMA VerifyKeeps ==
    ASSUME TokensInv, NEW c \in Calls, VerifySucceeds(c) \/ VerifyFails(c)
    PROVE  TokensInv'
<1>0. /\ CallGood(c) /\ pc[c] = "ready" /\ snap[c] # None /\ snap[c] \in Account
      /\ Good(snap[c]) /\ ~answer[c].granted /\ snap[c].of \in Accounts
    BY DEF TokensInv, TypeOK, CallGood, VerifySucceeds, VerifyFails, Account
<1>1. ServerKeeps /\ ServerType'
    BY ServerUnchanged DEF VerifySucceeds, VerifyFails, Finish, serverVars
<1>2. PICK x \in Account : /\ x.of = snap[c].of /\ Good(x)
                           /\ accounts' = [accounts EXCEPT ![x.of] = x]
    <2>1. CASE VerifySucceeds(c)
        BY <1>0, <2>1 DEF VerifySucceeds
    <2>2. CASE VerifyFails(c)
        <3> DEFINE x == [snap[c] EXCEPT !.reauth = TRUE]
        <3>1. x \in Account /\ Good(x) /\ x.of = snap[c].of
            BY <1>0 DEF Account, Good, Own
        <3>2. accounts' = [accounts EXCEPT ![snap[c].of] = x]
            BY <2>2 DEF VerifyFails
        <3> HIDE DEF x
        <3> QED
            BY <3>1, <3>2
    <2> QED
        BY <2>1, <2>2
<1>3. Good(x)'
    BY <1>1, <1>2, GoodStays
<1>4. /\ Finish(c) /\ failed' \subseteq Accounts /\ raced' \subseteq Accounts
    BY <1>0 DEF VerifySucceeds, VerifyFails, TokensInv, TypeOK
<1>5. TypeOK'
    BY <1>0, <1>1, <1>2, <1>4 DEF Finish, TokensInv, TypeOK, ServerType
<1>6. CallGood(c)'
    <2>1. pc'[c] = "idle" /\ snap'[c] = None /\ held'[c] = None /\ answer'[c] = answer[c]
        BY <1>4 DEF Finish, TokensInv, TypeOK
    <2> QED
        BY <1>0, <2>1 DEF CallGood
<1>7. ASSUME NEW d \in Calls PROVE CallGood(d)'
    <2>1. CASE d = c
        BY <1>6, <2>1
    <2>2. CASE d # c
        BY <1>1, <1>4, <2>2, OtherCall DEF Finish, TokensInv, TypeOK
    <2> QED
        BY <2>1, <2>2
<1>8. \A a \in Accounts : accounts'[a] = accounts[a] \/ (a = x.of /\ accounts'[a] = x)
    BY <1>0, <1>2 DEF TokensInv, TypeOK
<1>9. cache' = cache /\ writes' = writes
    BY <1>4 DEF Finish
<1> QED
    BY <1>1, <1>3, <1>5, <1>7, <1>8, <1>9, StepKeeps

LEMMA LogInKeeps ==
    ASSUME TokensInv, NEW a \in Accounts, LogIn(a)
    PROVE  TokensInv'
<1> DEFINE new == NewRefresh(a, Never)
           access == TokenOf(NewAccess(issued + 2, new))
<1>0. Never \in Expiry /\ IssuePair(a, Never, {}, {}) /\ ServerType /\ RowsOld
    BY ServerIsTyped DEF Expiry, LogIn
<1>1. /\ ServerKeeps /\ ServerType'
      /\ new \in Token /\ access \in Token
      /\ \A t \in Token : t = new => Known(t)'
    BY <1>0, PairKeeps
<1>2. new.of = a /\ access.of = a
    BY DEF NewRefresh, NewAccess, TokenOf
<1>3. accounts' = [accounts EXCEPT ![a] =
          [of |-> a, access |-> access, refresh |-> new, reauth |-> FALSE]]
    BY DEF LogIn
<1>4. PICK t \in Token, u \in Token : t = new /\ u = access
    BY <1>1
<1>5. issued + 1 \in Nat
    BY <1>0 DEF ServerType
<1> HIDE DEF new, access
<1> DEFINE x == [of |-> a, access |-> u, refresh |-> t, reauth |-> FALSE]
<1>6. x \in Account /\ x.of = a /\ Good(x)'
    BY <1>1, <1>2, <1>4 DEF Account, Good, Own
<1>7. accounts' = [accounts EXCEPT ![a] = x]
    BY <1>3, <1>4
<1> HIDE DEF x
<1>8. TypeOK'
    <2>1. newest' = [newest EXCEPT ![a] = issued + 1]
        BY DEF LogIn
    <2>2. newest \in [Accounts -> Nat] /\ accounts \in [Accounts -> Account \cup {None}]
        BY DEF TokensInv, TypeOK
    <2>3. newest' \in [Accounts -> Nat]
        BY <1>5, <2>1, <2>2
    <2>4. newest' \in [Accounts -> Nat] /\ accounts' \in [Accounts -> Account \cup {None}]
        BY <1>6, <1>7, <2>2, <2>3
    <2>5. raced' \subseteq Accounts /\ failed' \subseteq Accounts
        BY DEF LogIn, TokensInv, TypeOK
    <2>6. UNCHANGED <<cache, pc, snap, held, answer, verifying, writes, made, faults>>
        BY DEF LogIn
    <2> QED
        BY <1>1, <2>4, <2>5, <2>6 DEF TokensInv, TypeOK, ServerType
<1>9. \A c \in Calls : CallGood(c)'
    BY <1>1, OtherCall DEF LogIn
<1>10. \A b \in Accounts : accounts'[b] = accounts[b] \/ (b = a /\ accounts'[b] = x)
    BY <1>7 DEF TokensInv, TypeOK
<1>11. cache' = cache /\ writes' = writes
    BY DEF LogIn
<1> QED
    BY <1>1, <1>6, <1>8, <1>9, <1>10, <1>11, StepKeeps

-----------------------------------------------------------------------------
LEMMA InitTokensInv == Init => TokensInv
<1> SUFFICES ASSUME Init PROVE TokensInv
    OBVIOUS
<1>1. TypeOK
    BY DEF Init, ServerInit, TypeOK, NoAnswer, Answers
<1>2. \A c \in Calls : CallGood(c)
    BY DEF Init, CallGood, NoAnswer
<1> QED
    BY <1>1, <1>2 DEF Init, ServerInit, TokensInv, RowsOld, AccountsGood, CacheGood, WritesGood

LEMMA NextKeepsTokensInv == TokensInv /\ [Next]_vars => TokensInv'
<1> SUFFICES ASSUME TokensInv, [Next]_vars PROVE TokensInv'
    OBVIOUS
<1>1. CASE UserStep
    <2>1. PICK a \in Accounts :
            \/ LogIn(a) \/ RemoveAccount(a)
            \/ \E c \in Calls : BeginCall(c, a) \/ PinAccount(c, a) \/ SelectAccount(c, a)
        BY <1>1 DEF UserStep
    <2>2. CASE LogIn(a)
        BY <2>2, LogInKeeps
    <2>3. CASE RemoveAccount(a)
        BY <2>3, RemoveAccountKeeps
    <2>4. ASSUME NEW c \in Calls, BeginCall(c, a) \/ PinAccount(c, a) \/ SelectAccount(c, a)
          PROVE  TokensInv'
        <3>1. Begin(c, a)
            BY <2>4 DEF BeginCall, PinAccount, SelectAccount
        <3>2. verifying' \in SUBSET Calls /\ raced' \in SUBSET Accounts
            BY <2>4 DEF BeginCall, PinAccount, SelectAccount, Begin, TokensInv, TypeOK
        <3>3. cache' = cache \/ cache' = [x \in Accounts |-> None]
            BY <2>4 DEF BeginCall, PinAccount, SelectAccount
        <3> QED
            BY <3>1, <3>2, <3>3, BeginKeeps
    <2> QED
        BY <2>1, <2>2, <2>3, <2>4
<1>2. CASE ServerStep
    BY <1>2, ServerStepKeeps
<1>3. CASE LateWrite
    BY <1>3, LateWriteKeeps
<1>4. ASSUME NEW c \in Calls, CallStep(c) \/ ConnectionFails(c) \/ AnswerLost(c)
      PROVE  TokensInv'
    BY <1>4, ChooseTokenKeeps, AnsweredKeeps, RefreshEndsKeeps, CallEndsKeeps, VerifyKeeps
       DEF CallStep
<1>5. CASE UNCHANGED vars
    <2>0. UNCHANGED serverVars /\ UNCHANGED clientVars
        BY <1>5 DEF vars
    <2>1. ServerKeeps /\ ServerType'
        BY <1>5, ServerUnchanged DEF vars
    <2>2. TypeOK'
        BY <1>5 DEF vars, clientVars, serverVars, TokensInv, TypeOK
    <2>3. \A c \in Calls : CallGood(c)'
        BY <1>5, <2>1, OtherCall DEF vars, clientVars
    <2> QED
        BY <1>5, <2>1, <2>2, <2>3, StepKeeps DEF vars, clientVars
<1> QED
    BY <1>1, <1>2, <1>3, <1>4, <1>5 DEF Next

\* Every copy of an account and of a token, wherever a call or a late write carries it,
\* stays what its declaration says (accounts_state.ts, credentialed_data.ts).
THEOREM TokensAreTyped == Spec => []TypeOK
<1>1. TokensInv => TypeOK
    BY DEF TokensInv
<1> QED
    BY <1>1, InitTokensInv, NextKeepsTokensInv, PTL DEF Spec

\* No account ever holds, sends or is written back with another account's tokens
\* (updatedTokenKey and the copies of getCredentialClient, credentialed_data.ts:10-78).
THEOREM TokensStayWithTheirAccount == Spec => []TokensBelong
<1>1. TokensInv => TokensBelong
    BY DEF TokensInv, TokensBelong, AccountsGood, CacheGood, CallGood, WritesGood, Good
<1> QED
    BY <1>1, InitTokensInv, NextKeepsTokensInv, PTL DEF Spec

-----------------------------------------------------------------------------
(* What the store keeps of an account whose calls came one after the other.  One call
   at most works on it, from the object the store has, until its answer is a write on
   its way; that write, and the store once it is made, carry the refresh token that
   arrived last and the mark of the last failure.  A verification that has refreshed
   nothing puts back what is right; one whose refresh failed has no token to send, so
   it can only fail as well. *)
Right(x, tokens, marked) == x.refresh.id = tokens[x.of] /\ (x.reauth <=> x.of \in marked)

PutsBackRight(c, a) ==
    /\ Unwritten(a) = {} =>
        /\ snap[c].refresh.id = newest[a]
        /\ held[c] # None => Right(snap[c], newest, failed)
    /\ \A i \in Unwritten(a) :
        writes[i].reauth => held[c] = None /\ writes[i].refresh = snap[c].refresh

InOrder(a) ==
    /\ \A c, d \in Active(a) : c = d
    /\ \A c \in Active(a) :
        /\ c \in verifying => PutsBackRight(c, a)
        /\ Unwritten(a) # {} => pc[c] = "ready"
        /\ pc[c] # "ready" => accounts[a] = snap[c]
    /\ \A i, j \in Unwritten(a) : i = j
    /\ \A i \in Unwritten(a) : Right(writes[i], newest, failed)
    /\ accounts[a] # None /\ Unwritten(a) = {} => Right(accounts[a], newest, failed)

OrderInv ==
    /\ TokensInv
    /\ \A c \in verifying : pc[c] # "idle"
    /\ \A a \in Accounts \ raced : InOrder(a)

-----------------------------------------------------------------------------
(* An account whose object in the store, writes and calls a step leaves alone. *)
LEMMA Undisturbed ==
    ASSUME TokensInv, NEW a \in Accounts, InOrder(a),
           accounts'[a] = accounts[a], newest'[a] = newest[a], a \in failed' <=> a \in failed,
           Unwritten(a)' = Unwritten(a),
           \A i \in Unwritten(a) : writes'[i] = writes[i],
           \A c \in Active(a)' :
               /\ c \in Active(a) /\ snap'[c] = snap[c]
               /\ c \in verifying' => c \in verifying
               /\ pc[c] = "ready" => pc'[c] = "ready" /\ held'[c] = held[c]
    PROVE  InOrder(a)'
<1>1. \A c, d \in Active(a)' : c = d
    BY DEF InOrder
<1>2. ASSUME NEW c \in Active(a)'
      PROVE  /\ Unwritten(a)' # {} => pc'[c] = "ready"
             /\ pc'[c] # "ready" => accounts'[a] = snap'[c]
    BY <1>2 DEF InOrder
<1>3. \A i \in Unwritten(a) : writes[i].of = a
    BY DEF Unwritten
<1>4. \A i \in Unwritten(a)' : Right(writes'[i], newest', failed')
    BY <1>3 DEF InOrder, Right
<1>5. accounts[a] # None => accounts[a].of = a
    BY DEF TokensInv, AccountsGood
<1>6. accounts'[a] # None /\ Unwritten(a)' = {} => Right(accounts'[a], newest', failed')
    BY <1>5 DEF InOrder, Right
<1>7. \A i, j \in Unwritten(a)' : i = j
    BY DEF InOrder
<1>8. ASSUME NEW c \in Active(a)', c \in verifying'
      PROVE  PutsBackRight(c, a)'
    <2>1. /\ c \in Active(a) /\ snap'[c] = snap[c] /\ c \in verifying
          /\ snap[c].of = a /\ c \in Calls /\ pc[c] # "idle"
        BY <1>8 DEF Active
    <2>2. PutsBackRight(c, a)
        BY <2>1 DEF InOrder
    <2>3. CASE pc[c] = "ready"
        <3>1. held'[c] = held[c]
            BY <1>8, <2>3
        <3> QED
            BY <2>1, <2>2, <3>1 DEF PutsBackRight, Right
    <2>4. CASE pc[c] # "ready"
        <3>1. Unwritten(a) = {} /\ accounts[a] = snap[c]
            BY <2>1, <2>4 DEF InOrder
        <3>2. snap[c] # None
            BY <2>1 DEF TokensInv, CallGood
        <3>3. Right(snap[c], newest, failed)
            BY <3>1, <3>2 DEF InOrder
        <3>4. Right(snap'[c], newest', failed') /\ snap'[c].refresh.id = newest'[a]
            BY <2>1, <3>3 DEF Right
        <3> QED
            BY <3>1, <3>4 DEF PutsBackRight
    <2> QED
        BY <2>3, <2>4
<1> QED
    BY <1>1, <1>2, <1>4, <1>6, <1>7, <1>8 DEF InOrder

\* The same for a step that takes no write and queues none.
LEMMA Apart ==
    ASSUME TokensInv, NEW a \in Accounts, InOrder(a),
           accounts'[a] = accounts[a], newest'[a] = newest[a], a \in failed' <=> a \in failed,
           writes' = writes,
           \A c \in Active(a)' :
               /\ c \in Active(a) /\ snap'[c] = snap[c]
               /\ c \in verifying' => c \in verifying
               /\ pc[c] = "ready" => pc'[c] = "ready" /\ held'[c] = held[c]
    PROVE  InOrder(a)'
<1>1. Unwritten(a)' = Unwritten(a) /\ \A i \in Unwritten(a) : writes'[i] = writes[i]
    BY DEF Unwritten
<1> QED
    BY <1>1, Undisturbed

\* A call works on the account its copy names.
LEMMA OfItsAccount ==
    ASSUME OrderInv, NEW c \in Calls, pc[c] # "idle"
    PROVE  /\ snap[c] \in Account /\ snap[c] # None /\ snap[c].of \in Accounts
           /\ c \in Active(snap[c].of)
           /\ \A a \in Accounts : c \in Active(a) => a = snap[c].of
BY DEF OrderInv, TokensInv, TypeOK, CallGood, Active, Account

-----------------------------------------------------------------------------
LEMMA LogInKeepsOrder ==
    ASSUME OrderInv, NEW b \in Accounts, LogIn(b), NEW a \in Accounts \ raced'
    PROVE  InOrder(a)'
<1> DEFINE new == NewRefresh(b, Never)
           x == [of |-> b, access |-> TokenOf(NewAccess(issued + 2, new)), refresh |-> new, reauth |-> FALSE]
<1>0. /\ UNCHANGED <<pc, snap, held, verifying, writes>>
      /\ accounts' = [accounts EXCEPT ![b] = x]
      /\ newest' = [newest EXCEPT ![b] = issued + 1]
      /\ failed' = failed \ {b}
      /\ raced' = IF Busy(b) THEN raced \cup {b} ELSE raced \ {b}
    BY DEF LogIn
<1>1. x.of = b /\ x.reauth = FALSE /\ x.refresh.id = issued + 1
    BY DEF NewRefresh
<1>2. accounts \in [Accounts -> Account \cup {None}] /\ newest \in [Accounts -> Nat]
    BY DEF OrderInv, TokensInv, TypeOK
<1>3. TokensInv /\ (a # b => InOrder(a))
    BY <1>0 DEF OrderInv
<1> HIDE DEF x
<1>4. Active(a)' = Active(a) /\ Unwritten(a)' = Unwritten(a)
    BY <1>0 DEF Active, Unwritten
<1>5. CASE a # b
    BY <1>0, <1>2, <1>3, <1>4, <1>5, Apart
<1>6. CASE a = b
    <2>1. Active(a) = {} /\ Unwritten(a) = {}
        BY <1>0, <1>6 DEF Busy
    <2>2. accounts'[a] = x /\ newest'[a] = issued + 1 /\ a \notin failed'
        BY <1>0, <1>2, <1>6
    <2>3. Right(accounts'[a], newest', failed')
        BY <1>1, <1>6, <2>2 DEF Right
    <2> QED
        BY <1>4, <2>1, <2>3 DEF InOrder
<1> QED
    BY <1>5, <1>6

LEMMA RemoveKeepsOrder ==
    ASSUME OrderInv, NEW b \in Accounts, RemoveAccount(b), NEW a \in Accounts \ raced'
    PROVE  InOrder(a)'
<1>0. /\ UNCHANGED <<pc, snap, held, verifying, writes, newest, failed>>
      /\ accounts' = [accounts EXCEPT ![b] = None]
      /\ raced' = IF Busy(b) THEN raced \cup {b} ELSE raced
    BY DEF RemoveAccount
<1>1. InOrder(a) /\ TokensInv /\ accounts \in [Accounts -> Account \cup {None}]
    BY <1>0 DEF OrderInv, TokensInv, TypeOK
<1>2. Active(a)' = Active(a) /\ Unwritten(a)' = Unwritten(a)
    BY <1>0 DEF Active, Unwritten
<1>3. CASE a # b
    BY <1>0, <1>1, <1>2, <1>3, Apart
<1>4. CASE a = b
    <2>1. Active(a) = {} /\ Unwritten(a) = {}
        BY <1>0, <1>4 DEF Busy
    <2>2. accounts'[a] = None
        BY <1>0, <1>1, <1>4
    <2> QED
        BY <1>2, <2>1, <2>2 DEF InOrder
<1> QED
    BY <1>3, <1>4

\* A call that overlaps no other takes the object the store has.
LEMMA BeginKeepsOrder ==
    ASSUME OrderInv, NEW c \in Calls, NEW b \in Accounts,
           BeginCall(c, b) \/ PinAccount(c, b) \/ SelectAccount(c, b),
           NEW a \in Accounts \ raced'
    PROVE  InOrder(a)'
<1>0. /\ UNCHANGED <<accounts, writes, newest, failed, held>>
      /\ pc[c] = "idle" /\ accounts[b] # None
      /\ pc' = [pc EXCEPT ![c] = "connecting"]
      /\ snap' = [snap EXCEPT ![c] = accounts[b]]
      /\ verifying' \subseteq verifying \cup {c}
      /\ raced \subseteq raced'
      /\ a = b => ~Busy(b)
    BY DEF BeginCall, PinAccount, SelectAccount, Begin
<1>1. /\ TokensInv /\ InOrder(a)
      /\ pc \in [Calls -> {"idle", "connecting", "asking", "answered", "ready"}]
      /\ snap \in [Calls -> Account \cup {None}]
      /\ accounts[b].of = b /\ c \notin verifying
    BY <1>0 DEF OrderInv, TokensInv, TypeOK, AccountsGood
<1>2. /\ pc'[c] = "connecting" /\ snap'[c] = accounts[b]
      /\ \A d \in Calls \ {c} : pc'[d] = pc[d] /\ snap'[d] = snap[d]
    BY <1>0, <1>1
<1>3. CASE a # b
    <2>1. \A d \in Active(a)' : d # c
        BY <1>1, <1>2, <1>3 DEF Active
    <2>2. \A d \in Active(a)' : d \in Active(a) /\ snap'[d] = snap[d] /\ pc'[d] = pc[d]
        BY <1>2, <2>1 DEF Active
    <2> QED
        BY <1>0, <1>1, <2>1, <2>2, Apart
<1>4. CASE a = b
    <2>1. Active(a) = {} /\ Unwritten(a) = {}
        BY <1>0, <1>4 DEF Busy
    <2>2. Active(a)' = {c}
        BY <1>1, <1>2, <1>4, <2>1 DEF Active
    <2>3. Unwritten(a)' = {}
        BY <1>0, <2>1 DEF Unwritten
    <2>4. Right(accounts'[a], newest', failed')
        BY <1>0, <1>1, <1>4, <2>1 DEF InOrder
    <2>5. Right(snap'[c], newest', failed') /\ snap'[c].refresh.id = newest'[a]
        BY <1>0, <1>1, <1>2, <1>4, <2>4 DEF Right
    <2>6. PutsBackRight(c, a)'
        BY <2>3, <2>5 DEF PutsBackRight
    <2>7. accounts'[a] = snap'[c] /\ pc'[c] = "connecting"
        BY <1>0, <1>2, <1>4
    <2> QED
        BY <2>2, <2>3, <2>4, <2>6, <2>7 DEF InOrder
<1> QED
    BY <1>3, <1>4

\* A step of a call before its answer is a write, or one that ends it.
LEMMA CallKeepsOrder ==
    ASSUME OrderInv, NEW c \in Calls,
           \/ UseOwnToken(c) \/ UseCachedToken(c) \/ AskForToken(c)
           \/ Answered(c) \/ AnswerLost(c) \/ ConnectionFails(c) \/ CallReturns(c),
           NEW a \in Accounts \ raced'
    PROVE  InOrder(a)'
<1>0. /\ UNCHANGED <<accounts, writes, newest, failed, raced>>
      /\ \E to \in {"idle", "asking", "answered", "ready"} :
            /\ pc' = [pc EXCEPT ![c] = to]
            /\ pc[c] = "ready" => to = "idle"
            /\ to # "idle" => snap' = snap
      /\ \E s : snap' = [snap EXCEPT ![c] = s] \/ snap' = snap
      /\ \E t : held' = [held EXCEPT ![c] = t] \/ held' = held
      /\ verifying' \subseteq verifying
    BY DEF UseOwnToken, UseCachedToken, AskForToken, Answered, Grant, AnswerLost, ConnectionFails,
           CallReturns, Finish
<1>1. /\ TokensInv /\ InOrder(a)
      /\ pc \in [Calls -> {"idle", "connecting", "asking", "answered", "ready"}]
      /\ snap \in [Calls -> Account \cup {None}]
      /\ held \in [Calls -> Token \cup {None}]
    BY <1>0 DEF OrderInv, TokensInv, TypeOK
<1>2. /\ \A d \in Calls \ {c} : pc'[d] = pc[d] /\ snap'[d] = snap[d] /\ held'[d] = held[d]
      /\ pc'[c] # "idle" => snap'[c] = snap[c] /\ pc[c] # "ready"
      /\ pc[c] # "idle"
    <2>1. pc[c] # "idle"
        BY DEF UseOwnToken, UseCachedToken, AskForToken, Answered, AnswerLost, ConnectionFails, CallReturns
    <2> QED
        BY <1>0, <1>1, <2>1
<1>3. \A d \in Active(a)' : /\ d \in Active(a) /\ snap'[d] = snap[d]
                            /\ pc[d] = "ready" => pc'[d] = "ready" /\ held'[d] = held[d]
    BY <1>2 DEF Active
<1> QED
    BY <1>0, <1>1, <1>3, Apart

\* The answer becomes a write behind the others, and it is the only one of its account.
LEMMA RefreshKeepsOrder ==
    ASSUME OrderInv, NEW c \in Calls, RefreshSucceeds(c) \/ RefreshFails(c),
           NEW a \in Accounts \ raced'
    PROVE  InOrder(a)'
<1>0. /\ pc[c] = "answered" /\ TokensInv /\ InOrder(a)
      /\ UNCHANGED <<accounts, snap, verifying>>
      /\ pc' = [pc EXCEPT ![c] = "ready"]
      /\ \E t : held' = [held EXCEPT ![c] = t]
      /\ held \in [Calls -> Token \cup {None}]
      /\ pc \in [Calls -> {"idle", "connecting", "asking", "answered", "ready"}]
      /\ writes \in Seq(Account)
      /\ newest \in [Accounts -> Nat]
    BY DEF RefreshSucceeds, RefreshFails, OrderInv, TokensInv, TypeOK
<1>1. /\ snap[c] \in Account /\ snap[c] # None /\ snap[c].of \in Accounts
      /\ c \in Active(snap[c].of)
      /\ snap[c].refresh \in Token /\ snap[c].reauth \in BOOLEAN
    BY <1>0, OfItsAccount DEF Account
<1>2. PICK x : /\ writes' = Append(writes, x) /\ x.of = snap[c].of
               /\ Right(snap[c], newest, failed) => Right(x, newest', failed')
               /\ x.reauth => held'[c] = None /\ x.refresh = snap[c].refresh
               /\ \A b \in Accounts \ {x.of} :
                    newest'[b] = newest[b] /\ (b \in failed' <=> b \in failed)
    <2>1. CASE RefreshSucceeds(c)
        <3> DEFINE x == Refreshed(c)
        <3>1. /\ writes' = Append(writes, x) /\ failed' = failed \ {snap[c].of}
              /\ newest' = IF answer[c].refresh # None
                           THEN [newest EXCEPT ![snap[c].of] = answer[c].refresh.id] ELSE newest
            BY <2>1 DEF RefreshSucceeds
        <3>2. /\ x.of = snap[c].of /\ x.reauth = FALSE
              /\ x.refresh = IF answer[c].refresh # None THEN answer[c].refresh ELSE snap[c].refresh
            BY DEF Refreshed
        <3> HIDE DEF x
        <3>3. Right(snap[c], newest, failed) => Right(x, newest', failed')
            <4>1. CASE answer[c].refresh # None
                BY <1>0, <1>1, <3>1, <3>2, <4>1 DEF Right
            <4>2. CASE answer[c].refresh = None
                BY <1>0, <1>1, <3>1, <3>2, <4>2 DEF Right
            <4> QED
                BY <4>1, <4>2
        <3>4. \A b \in Accounts \ {x.of} :
                newest'[b] = newest[b] /\ (b \in failed' <=> b \in failed)
            BY <1>0, <3>1, <3>2
        <3> QED
            BY <3>1, <3>2, <3>3, <3>4
    <2>2. CASE RefreshFails(c)
        <3> DEFINE x == [snap[c] EXCEPT !.reauth = TRUE]
        <3>1. writes' = Append(writes, x) /\ failed' = failed \cup {snap[c].of} /\ newest' = newest
            BY <2>2 DEF RefreshFails
        <3>2. x.of = snap[c].of /\ x.reauth = TRUE /\ x.refresh = snap[c].refresh
            BY <1>1 DEF Account
        <3>4. held'[c] = None
            BY <1>0, <2>2 DEF RefreshFails
        <3> HIDE DEF x
        <3>3. Right(snap[c], newest, failed) => Right(x, newest', failed')
            BY <3>1, <3>2 DEF Right
        <3> QED
            BY <3>1, <3>2, <3>3, <3>4
    <2> QED
        BY <2>1, <2>2
<1>3. /\ DOMAIN writes = 1..Len(writes) /\ Len(writes) \in Nat
      /\ DOMAIN writes' = 1..(Len(writes) + 1)
      /\ \A i \in DOMAIN writes : writes'[i] = writes[i]
      /\ writes'[Len(writes) + 1] = x
    BY <1>0, <1>2
<1>4. a \notin raced
    BY DEF RefreshSucceeds, RefreshFails
<1>5. /\ pc'[c] = "ready" /\ \A d \in Calls \ {c} : pc'[d] = pc[d] /\ held'[d] = held[d]
      /\ Active(a)' = Active(a)
    BY <1>0 DEF Active
<1>6. CASE a # snap[c].of
    <2>1. Unwritten(a)' = Unwritten(a) /\ \A i \in Unwritten(a) : writes'[i] = writes[i]
        BY <1>2, <1>3, <1>6 DEF Unwritten
    <2>2. \A d \in Active(a)' : /\ d \in Active(a) /\ snap'[d] = snap[d]
                                /\ d \in verifying' => d \in verifying
                                /\ pc[d] = "ready" => pc'[d] = "ready" /\ held'[d] = held[d]
        BY <1>0, <1>5 DEF Active
    <2>3. accounts'[a] = accounts[a]
        BY <1>0
    <2> QED
        BY <1>0, <1>2, <1>6, <2>1, <2>2, <2>3, Undisturbed
<1>7. CASE a = snap[c].of
    <2>1. c \in Active(a) /\ Unwritten(a) = {} /\ accounts[a] = snap[c]
        BY <1>0, <1>1, <1>7 DEF InOrder
    <2>2. Right(snap[c], newest, failed)
        BY <1>0, <1>1, <2>1 DEF InOrder
    <2>3. Unwritten(a)' = {Len(writes) + 1}
        BY <1>2, <1>3, <1>7, <2>1 DEF Unwritten
    <2>4. \A i \in Unwritten(a)' : Right(writes'[i], newest', failed')
        BY <1>2, <1>3, <1>7, <2>2, <2>3
    <2>5. \A d \in Active(a)' : d = c /\ pc'[d] = "ready"
        BY <1>0, <1>5, <2>1 DEF InOrder
    <2>6. PutsBackRight(c, a)'
        BY <1>0, <1>2, <1>3, <2>3 DEF PutsBackRight
    <2> QED
        BY <2>3, <2>4, <2>5, <2>6 DEF InOrder
<1> QED
    BY <1>6, <1>7

\* The oldest write reaches the store.
LEMMA WriteKeepsOrder ==
    ASSUME OrderInv, LateWrite, NEW a \in Accounts \ raced'
    PROVE  InOrder(a)'
<1>0. /\ UNCHANGED <<pc, snap, held, verifying, newest, failed>>
      /\ raced' = IF ~Head(writes).reauth /\ Active(Head(writes).of) \cap verifying # {}
                  THEN raced \cup {Head(writes).of} ELSE raced
      /\ writes # <<>> /\ writes' = Tail(writes) /\ writes \in Seq(Account)
      /\ accounts' = [accounts EXCEPT ![Head(writes).of] = Head(writes)]
      /\ accounts \in [Accounts -> Account \cup {None}]
      /\ TokensInv
    BY DEF LateWrite, OrderInv, TokensInv, TypeOK
<1>1. InOrder(a)
    BY <1>0 DEF OrderInv
<1>2. /\ Len(writes) \in Nat \ {0} /\ DOMAIN writes = 1..Len(writes)
      /\ Head(writes) = writes[1] /\ writes[1] \in Account
      /\ DOMAIN writes' = 1..(Len(writes) - 1)
      /\ \A i \in 1..(Len(writes) - 1) : writes'[i] = writes[i + 1]
    BY <1>0, EmptySeq, HeadTailProperties, LenProperties
<1>3. Active(a)' = Active(a)
    BY <1>0 DEF Active
<1>4. \A i \in Unwritten(a)' : i + 1 \in Unwritten(a) /\ writes'[i] = writes[i + 1] /\ i \in Nat \ {0}
    BY <1>2 DEF Unwritten
<1>5. CASE writes[1].of = a
    <2>1. 1 \in Unwritten(a)
        BY <1>2, <1>5 DEF Unwritten
    <2>2. Unwritten(a)' = {}
        <3> SUFFICES ASSUME NEW i \in Unwritten(a)' PROVE FALSE
            OBVIOUS
        <3>1. i + 1 \in Unwritten(a) /\ i \in Nat \ {0}
            BY <1>4
        <3>2. i + 1 = 1
            BY <1>1, <2>1, <3>1 DEF InOrder
        <3> QED
            BY <3>1, <3>2
    <2>3. accounts'[a] = writes[1]
        BY <1>0, <1>2, <1>5
    <2>4. Right(accounts'[a], newest', failed')
        BY <1>0, <1>1, <2>1, <2>3 DEF InOrder
    <2>5. \A c \in Active(a)' : pc'[c] = "ready"
        BY <1>0, <1>1, <1>3, <2>1 DEF InOrder
    <2>6. \A c, d \in Active(a)' : c = d
        BY <1>1, <1>3 DEF InOrder
    <2>7. ASSUME NEW c \in Active(a)', c \in verifying'
          PROVE  PutsBackRight(c, a)'
        <3>1. c \in Active(a) /\ c \in verifying /\ a \notin raced'
            BY <1>0, <1>3, <2>7
        <3>2. writes[1].reauth
            BY <1>0, <1>2, <1>5, <3>1
        <3>3. PutsBackRight(c, a) /\ Right(writes[1], newest, failed)
            BY <1>1, <2>1, <3>1 DEF InOrder
        <3>4. held[c] = None /\ snap[c].refresh = writes[1].refresh
            BY <2>1, <3>2, <3>3 DEF PutsBackRight
        <3>5. snap[c].refresh.id = newest[a]
            BY <1>5, <3>3, <3>4 DEF Right
        <3> QED
            BY <1>0, <2>2, <3>4, <3>5 DEF PutsBackRight
    <2> QED
        BY <2>2, <2>4, <2>5, <2>6, <2>7 DEF InOrder
<1>6. CASE writes[1].of # a
    <2>1. accounts'[a] = accounts[a]
        BY <1>0, <1>2, <1>6
    <2>2. ASSUME NEW i \in Unwritten(a) PROVE i - 1 \in Unwritten(a)'
        <3>1. i \in 1..Len(writes) /\ i # 1 /\ writes[i].of = a
            BY <1>2, <1>6 DEF Unwritten
        <3>2. i - 1 \in 1..(Len(writes) - 1) /\ writes'[i - 1] = writes[i]
            BY <1>2, <3>1
        <3> QED
            BY <1>2, <3>1, <3>2 DEF Unwritten
    <2>3. Unwritten(a)' = {} <=> Unwritten(a) = {}
        BY <1>4, <2>2
    <2>4. ASSUME NEW i \in Unwritten(a)', NEW j \in Unwritten(a)' PROVE i = j
        <3>1. i + 1 = j + 1 /\ i \in Nat /\ j \in Nat
            BY <1>1, <1>4 DEF InOrder
        <3> QED
            BY <3>1
    <2>5. \A i \in Unwritten(a)' : Right(writes'[i], newest', failed')
        BY <1>0, <1>1, <1>4 DEF InOrder
    <2>6. accounts'[a] # None /\ Unwritten(a)' = {} => Right(accounts'[a], newest', failed')
        BY <1>0, <1>1, <2>1, <2>3 DEF InOrder
    <2>7. ASSUME NEW c \in Active(a)'
          PROVE  /\ Unwritten(a)' # {} => pc'[c] = "ready"
                 /\ pc'[c] # "ready" => accounts'[a] = snap'[c]
        BY <1>0, <1>1, <1>3, <2>1, <2>3 DEF InOrder
    <2>8. \A c, d \in Active(a)' : c = d
        BY <1>1, <1>3 DEF InOrder
    <2>9. ASSUME NEW c \in Active(a)', c \in verifying'
          PROVE  PutsBackRight(c, a)'
        <3>1. PutsBackRight(c, a)
            BY <1>0, <1>1, <1>3, <2>9 DEF InOrder
        <3> QED
            BY <1>0, <1>4, <2>3, <3>1 DEF PutsBackRight
    <2> QED
        BY <2>4, <2>5, <2>6, <2>7, <2>8, <2>9 DEF InOrder
<1> QED
    BY <1>5, <1>6

\* A verification puts back what is right, or what the write that is on its way will
\* put right.
LEMMA VerifyKeepsOrder ==
    ASSUME OrderInv, NEW c \in Calls, VerifySucceeds(c) \/ VerifyFails(c),
           NEW a \in Accounts \ raced'
    PROVE  InOrder(a)'
<1> DEFINE b == snap[c].of
<1>0. /\ pc[c] = "ready" /\ c \in verifying /\ Finish(c)
      /\ raced \subseteq raced'
      /\ accounts \in [Accounts -> Account \cup {None}]
      /\ pc \in [Calls -> {"idle", "connecting", "asking", "answered", "ready"}]
      /\ snap \in [Calls -> Account \cup {None}]
      /\ held \in [Calls -> Token \cup {None}]
      /\ TokensInv
    BY DEF VerifySucceeds, VerifyFails, OrderInv, TokensInv, TypeOK
<1>1. InOrder(a)
    BY <1>0 DEF OrderInv
<1>2. c \in Active(b) /\ b \in Accounts /\ snap[c] \in Account /\ snap[c] # None
    BY <1>0, OfItsAccount
<1>3. PICK x :
        /\ accounts' = [accounts EXCEPT ![b] = x]
        /\ x.of = b /\ x.refresh = snap[c].refresh
        /\ \/ x = snap[c] /\ failed' = failed /\ held[c] # None
           \/ /\ x.reauth /\ failed' = failed \cup {b}
              /\ \A i \in Unwritten(b) : ~writes[i].reauth => b \in raced'
    <2>1. CASE VerifySucceeds(c)
        BY <2>1 DEF VerifySucceeds
    <2>2. CASE VerifyFails(c)
        <3> DEFINE x == [snap[c] EXCEPT !.reauth = TRUE]
        <3>1. accounts' = [accounts EXCEPT ![b] = x] /\ failed' = failed \cup {b}
              /\ \A i \in Unwritten(b) : ~writes[i].reauth => b \in raced'
            BY <2>2 DEF VerifyFails
        <3>2. x.of = b /\ x.refresh = snap[c].refresh /\ x.reauth
            BY <1>2 DEF Account
        <3> QED
            BY <3>1, <3>2
    <2> QED
        BY <2>1, <2>2
<1> HIDE DEF b
<1>4. /\ writes' = writes /\ newest' = newest /\ verifying' \subseteq verifying
      /\ pc'[c] = "idle"
      /\ \A d \in Calls \ {c} : pc'[d] = pc[d] /\ snap'[d] = snap[d] /\ held'[d] = held[d]
    BY <1>0 DEF Finish
<1>5. \A d \in Active(a)' :
        d \in Active(a) /\ d # c /\ snap'[d] = snap[d] /\ pc'[d] = pc[d] /\ held'[d] = held[d]
    BY <1>4 DEF Active
<1>6. CASE a # b
    <2>1. accounts'[a] = accounts[a] /\ (a \in failed' <=> a \in failed)
        BY <1>0, <1>3, <1>6
    <2> QED
        BY <1>0, <1>1, <1>4, <1>5, <2>1, Apart
<1>7. CASE a = b
    <2>1. Active(a)' = {}
        BY <1>1, <1>2, <1>5, <1>7 DEF InOrder
    <2>2. Unwritten(a)' = Unwritten(a)
        BY <1>4 DEF Unwritten
    <2>3. PutsBackRight(c, a)
        BY <1>0, <1>1, <1>2, <1>7 DEF InOrder
    <2>4. ASSUME NEW i \in Unwritten(a)
          PROVE  Right(writes'[i], newest', failed')
        <3>1. Right(writes[i], newest, failed) /\ writes[i].of = a
            BY <1>1 DEF InOrder, Unwritten
        <3>2. CASE failed' = failed
            BY <1>4, <3>1, <3>2
        <3>3. CASE failed' = failed \cup {b} /\ writes[i].reauth
            BY <1>4, <1>7, <3>1, <3>3 DEF Right
        <3> QED
            BY <1>3, <1>7, <3>2, <3>3
    <2>5. ASSUME Unwritten(a) = {}
          PROVE  Right(accounts'[a], newest', failed')
        <3>1. accounts'[a] = x
            BY <1>0, <1>3, <1>7
        <3>2. snap[c].refresh.id = newest[a] /\ (held[c] # None => Right(snap[c], newest, failed))
            BY <2>3, <2>5 DEF PutsBackRight
        <3>3. CASE x = snap[c] /\ failed' = failed /\ held[c] # None
            BY <1>4, <3>1, <3>2, <3>3
        <3>4. CASE x.reauth /\ failed' = failed \cup {b}
            BY <1>3, <1>4, <1>7, <3>1, <3>2, <3>4 DEF Right
        <3> QED
            BY <1>3, <3>3, <3>4
    <2> QED
        BY <1>1, <2>1, <2>2, <2>4, <2>5 DEF InOrder
<1> QED
    BY <1>6, <1>7

-----------------------------------------------------------------------------
\* Only a call under way verifies.
LEMMA VerifyingAreActive ==
    ASSUME OrderInv, [Next]_vars
    PROVE  \A c \in verifying' : pc'[c] # "idle"
<1>0. /\ pc \in [Calls -> {"idle", "connecting", "asking", "answered", "ready"}]
      /\ verifying \subseteq Calls /\ \A c \in verifying : pc[c] # "idle"
    BY DEF OrderInv, TokensInv, TypeOK
<1>1. CASE UserStep
    <2>1. CASE UNCHANGED <<pc, verifying>>
        BY <1>0, <2>1
    <2>2. ASSUME NEW a \in Accounts, NEW c \in Calls,
                 BeginCall(c, a) \/ PinAccount(c, a) \/ SelectAccount(c, a)
          PROVE  \A d \in verifying' : pc'[d] # "idle"
        <3>1. pc' = [pc EXCEPT ![c] = "connecting"] /\ verifying' \subseteq verifying \cup {c}
            BY <2>2 DEF BeginCall, PinAccount, SelectAccount, Begin
        <3> QED
            BY <1>0, <3>1
    <2> QED
        BY <1>1, <2>1, <2>2 DEF UserStep, LogIn, RemoveAccount
<1>2. CASE ServerStep \/ LateWrite \/ UNCHANGED vars
    BY <1>0, <1>2 DEF ServerStep, LateWrite, vars, clientVars
<1>3. ASSUME NEW c \in Calls, CallStep(c) \/ ConnectionFails(c) \/ AnswerLost(c)
      PROVE  \A d \in verifying' : pc'[d] # "idle"
    <2>1. CASE ConnectionFails(c) \/ CallReturns(c) \/ VerifySucceeds(c) \/ VerifyFails(c)
        <3>1. pc' = [pc EXCEPT ![c] = "idle"] /\ verifying' = verifying \ {c}
            BY <2>1 DEF ConnectionFails, CallReturns, VerifySucceeds, VerifyFails, Finish
        <3> QED
            BY <1>0, <3>1
    <2>2. CASE \/ UseOwnToken(c) \/ UseCachedToken(c) \/ AskForToken(c) \/ Answered(c)
               \/ AnswerLost(c) \/ RefreshSucceeds(c) \/ RefreshFails(c)
        <3>1. verifying' = verifying /\ \E to \in {"asking", "answered", "ready"} : pc' = [pc EXCEPT ![c] = to]
            BY <2>2 DEF UseOwnToken, UseCachedToken, AskForToken, Answered, Grant, AnswerLost,
                        RefreshSucceeds, RefreshFails
        <3> QED
            BY <1>0, <3>1
    <2> QED
        BY <1>3, <2>1, <2>2 DEF CallStep
<1> QED
    BY <1>1, <1>2, <1>3 DEF Next

LEMMA InitOrderInv == Init => OrderInv
<1> SUFFICES ASSUME Init PROVE OrderInv
    OBVIOUS
<1>1. ASSUME NEW a \in Accounts PROVE Active(a) = {} /\ Unwritten(a) = {} /\ accounts[a] = None
    BY DEF Init, Active, Unwritten
<1> QED
    BY <1>1, InitTokensInv DEF Init, OrderInv, InOrder

LEMMA NextKeepsOrderInv == OrderInv /\ [Next]_vars => OrderInv'
<1> SUFFICES ASSUME OrderInv, [Next]_vars PROVE OrderInv'
    OBVIOUS
<1>1. TokensInv'
    BY NextKeepsTokensInv DEF OrderInv
<1>2. ASSUME NEW a \in Accounts \ raced' PROVE InOrder(a)'
    <2>1. CASE UserStep
        <3>1. PICK b \in Accounts :
                \/ LogIn(b) \/ RemoveAccount(b)
                \/ \E c \in Calls : BeginCall(c, b) \/ PinAccount(c, b) \/ SelectAccount(c, b)
            BY <2>1 DEF UserStep
        <3> QED
            BY <1>2, <3>1, LogInKeepsOrder, RemoveKeepsOrder, BeginKeepsOrder
    <2>2. CASE ServerStep \/ UNCHANGED vars
        <3>1. UNCHANGED <<accounts, pc, snap, held, verifying, writes, newest, failed, raced>>
            BY <2>2 DEF ServerStep, vars, clientVars
        <3>2. TokensInv /\ InOrder(a)
            BY <3>1 DEF OrderInv
        <3>3. Active(a)' = Active(a)
            BY <3>1 DEF Active
        <3> QED
            BY <3>1, <3>2, <3>3, Apart
    <2>3. CASE LateWrite
        BY <1>2, <2>3, WriteKeepsOrder
    <2>4. ASSUME NEW c \in Calls, CallStep(c) \/ ConnectionFails(c) \/ AnswerLost(c)
          PROVE  InOrder(a)'
        BY <1>2, <2>4, CallKeepsOrder, RefreshKeepsOrder, VerifyKeepsOrder DEF CallStep
    <2> QED
        BY <2>1, <2>2, <2>3, <2>4 DEF Next
<1> QED
    BY <1>1, <1>2, VerifyingAreActive DEF OrderInv

\* An account whose calls are over is as its last answer left it.
LEMMA SettledIsRight ==
    ASSUME OrderInv, NEW a \in Accounts, Settled(a), a \notin raced
    PROVE  accounts[a].refresh.id = newest[a] /\ (accounts[a].reauth <=> a \in failed)
<1>1. accounts[a].of = a /\ Right(accounts[a], newest, failed)
    BY DEF OrderInv, InOrder, Settled, Busy, TokensInv, AccountsGood
<1> QED
    BY <1>1 DEF Right

\* The refresh token that reached the client last is the one the store ends with, for
\* accounts whose calls, pins and selections came one after the other and whose
\* verifications did not outlast the write of their own refresh (credentialed_data.ts:
\* 39-72, where the store is written from the copy the call began with, and
\* accounts_state.ts:116-124, where the verification does the same).
THEOREM LastRefreshIsStored == Spec => []RefreshTokenKept
<1>1. OrderInv => RefreshTokenKept
    BY SettledIsRight DEF RefreshTokenKept
<1> QED
    BY <1>1, InitOrderInv, NextKeepsOrderInv, PTL DEF Spec

\* Their mark that asks for the password again is there exactly if the last refresh or
\* verification failed (credentialed_data.ts:58-64, accounts_state.ts:121-124).
THEOREM MarkTellsLastOutcome == Spec => []MarkIsLastOutcome
<1>1. OrderInv => MarkIsLastOutcome
    BY SettledIsRight DEF MarkIsLastOutcome
<1> QED
    BY <1>1, InitOrderInv, NextKeepsOrderInv, PTL DEF Spec
=============================================================================
