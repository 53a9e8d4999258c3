---------------------------- MODULE AccountTokens ----------------------------
(* How the front end keeps the tokens of its accounts: the accounts of the store, the
   cache of refreshed access tokens beside it, the calls that obtain a credential
   (getCredentialClient) and the writes to the store they leave for a second later.

   A call works on the account object its caller had when it began.  Every write to
   the store replaces the account with an object built from that copy. *)
EXTENDS TokenServer, Sequences

CONSTANTS
    Calls,          \* calls that can be in progress at once
    MaxCalls,       \* bound on the calls made
    MaxFaults,      \* bound on the answers that are lost
    None

ASSUME NoneAssumption == None \notin [id : Nat, of : Accounts, expires : Expiry]

VARIABLES
    accounts,       \* accounts[a]: the account in the store, if any
    cache,          \* updatedAccessTokens
    pc,             \* where each call is
    snap,           \* the account object each call works on
    held,           \* the access token each call sends, None for an anonymous one
    answer,         \* what AccessToken answered to each call
    verifying,      \* the calls that check the account itself (getCurrentUser)
    writes,         \* the writes to the store set for later, in order
    made, faults,   \* counters
    failed,         \* ghost: accounts whose last refresh or verification failed
    newest,         \* ghost: the last refresh token that reached the client
    raced           \* ghost: accounts whose calls, or a verification and the write
                    \* of its own refresh, overlapped since the last login

clientVars == <<accounts, cache, pc, snap, held, answer, verifying, writes, made, faults, failed, newest, raced>>
vars == <<serverVars, clientVars>>

Account == [of : Accounts, access : Token, refresh : Token, reauth : BOOLEAN]
NoAnswer == [granted |-> FALSE, access |-> None, refresh |-> None]
Answers == [granted : BOOLEAN, access : Token \cup {None}, refresh : Token \cup {None}]

Init ==
    /\ ServerInit
    /\ accounts = [a \in Accounts |-> None]
    /\ cache = [a \in Accounts |-> None]
    /\ pc = [c \in Calls |-> "idle"]
    /\ snap = [c \in Calls |-> None]
    /\ held = [c \in Calls |-> None]
    /\ answer = [c \in Calls |-> NoAnswer]
    /\ verifying = {}
    /\ writes = <<>>
    /\ made = 0 /\ faults = 0
    /\ failed = {} /\ newest = [a \in Accounts |-> 0] /\ raced = {}

Active(a) == {c \in Calls : pc[c] # "idle" /\ snap[c].of = a}
Unwritten(a) == {i \in DOMAIN writes : writes[i].of = a}
Busy(a) == Active(a) # {} \/ Unwritten(a) # {}

-----------------------------------------------------------------------------
(* What the user does. *)

(* login.fulfilled and createAccount.fulfilled.  The bound leaves the calls their ids. *)
LogIn(a) ==
    /\ issued + 2 * (MaxCalls + 1) <= MaxTokens
    /\ IssuePair(a, Never, {}, {})
    /\ accounts' = [accounts EXCEPT ![a] =
           [of |-> a, access |-> TokenOf(NewAccess(issued + 2, NewRefresh(a, Never))),
            refresh |-> NewRefresh(a, Never), reauth |-> FALSE]]
    /\ newest' = [newest EXCEPT ![a] = issued + 1]
    /\ raced' = IF Busy(a) THEN raced \cup {a} ELSE raced \ {a}
    /\ failed' = failed \ {a}
    /\ UNCHANGED <<cache, pc, snap, held, answer, verifying, writes, made, faults>>

RemoveAccount(a) ==
    /\ accounts[a] # None
    /\ accounts' = [accounts EXCEPT ![a] = None]
    /\ raced' = IF Busy(a) THEN raced \cup {a} ELSE raced
    /\ UNCHANGED <<serverVars, cache, pc, snap, held, answer, verifying, writes, made, faults, failed, newest>>

(* A page asks the server something as the account a; pinning a verifies it, and
   selecting a also forgets the cached tokens. *)
Begin(c, a) ==
    /\ pc[c] = "idle" /\ accounts[a] # None /\ made < MaxCalls
    /\ made' = made + 1
    /\ pc' = [pc EXCEPT ![c] = "connecting"]
    /\ snap' = [snap EXCEPT ![c] = accounts[a]]
    /\ raced' = IF Busy(a) THEN raced \cup {a} ELSE raced
    /\ UNCHANGED <<serverVars, accounts, held, answer, writes, faults, failed, newest>>
BeginCall(c, a) ==
    /\ Begin(c, a)
    /\ UNCHANGED <<cache, verifying>>
PinAccount(c, a) ==
    /\ Begin(c, a)
    /\ verifying' = verifying \cup {c}
    /\ UNCHANGED cache
SelectAccount(c, a) ==
    /\ Begin(c, a)
    /\ cache' = [x \in Accounts |-> None]
    /\ verifying' = verifying \cup {c}

-----------------------------------------------------------------------------
(* getCredentialClient. *)

Expired(t) == t.expires # Never /\ t.expires <= now

(* The client of the server is there: use the access token, or the cached one, or
   ask for a new one. *)
UseOwnToken(c) ==
    /\ pc[c] = "connecting" /\ ~Expired(snap[c].access)
    /\ held' = [held EXCEPT ![c] = snap[c].access]
    /\ pc' = [pc EXCEPT ![c] = "ready"]
    /\ UNCHANGED <<serverVars, accounts, cache, snap, answer, verifying, writes, made, faults, failed, newest, raced>>
UseCachedToken(c) ==
    /\ pc[c] = "connecting" /\ Expired(snap[c].access) /\ cache[snap[c].of] # None
    /\ held' = [held EXCEPT ![c] = cache[snap[c].of]]
    /\ pc' = [pc EXCEPT ![c] = "ready"]
    /\ UNCHANGED <<serverVars, accounts, cache, snap, answer, verifying, writes, made, faults, failed, newest, raced>>
AskForToken(c) ==
    /\ pc[c] = "connecting" /\ Expired(snap[c].access) /\ cache[snap[c].of] = None
    /\ pc' = [pc EXCEPT ![c] = "asking"]
    /\ UNCHANGED <<serverVars, accounts, cache, snap, held, answer, verifying, writes, made, faults, failed, newest, raced>>
ConnectionFails(c) ==
    /\ pc[c] = "connecting" /\ faults < MaxFaults
    /\ faults' = faults + 1
    /\ pc' = [pc EXCEPT ![c] = "idle"]
    /\ snap' = [snap EXCEPT ![c] = None]
    /\ verifying' = verifying \ {c}
    /\ UNCHANGED <<serverVars, accounts, cache, held, answer, writes, made, failed, newest, raced>>

(* The server handles the AccessToken call. *)
Grant(c, access, refresh) ==
    /\ answer' = [answer EXCEPT ![c] = [granted |-> TRUE, access |-> access, refresh |-> refresh]]
    /\ pc' = [pc EXCEPT ![c] = "answered"]
Pair(a, expires) == <<TokenOf(NewAccess(issued + 2, NewRefresh(a, expires))), NewRefresh(a, expires)>>
Rows(t) == {r \in refreshes : r.id = t.id}
Answered(c) ==
    /\ pc[c] = "asking"
    /\ \/ \E r \in Rows(snap[c].refresh) :
            \/ RotateLapsed(r) /\ Grant(c, Pair(r.of, now + LongLife)[1], Pair(r.of, now + LongLife)[2])
            \/ RotateAtRandom(r) /\ Grant(c, Pair(r.of, Never)[1], Pair(r.of, Never)[2])
            \/ GiveAccess(r) /\ Grant(c, TokenOf(NewAccess(issued + 1, r)), None)
       \/ /\ \A r \in Rows(snap[c].refresh) : TurnedAway(r)
          /\ answer' = [answer EXCEPT ![c] = NoAnswer]
          /\ pc' = [pc EXCEPT ![c] = "answered"]
          /\ UNCHANGED serverVars
    /\ UNCHANGED <<accounts, cache, snap, held, verifying, writes, made, faults, failed, newest, raced>>
AnswerLost(c) ==
    /\ pc[c] \in {"asking", "answered"} /\ faults < MaxFaults
    /\ faults' = faults + 1
    /\ answer' = [answer EXCEPT ![c] = NoAnswer]
    /\ pc' = [pc EXCEPT ![c] = "answered"]
    /\ UNCHANGED <<serverVars, accounts, cache, snap, held, verifying, writes, made, failed, newest, raced>>

\* Mistake: a new refresh token is not taken over.
RefreshedAccessOnly(c) ==
    [of |-> snap[c].of, access |-> answer[c].access, refresh |-> snap[c].refresh, reauth |-> FALSE]
\* Mistake: no fallback to the token there is.
RefreshedAsAnswered(c) ==
    [of |-> snap[c].of, access |-> answer[c].access, refresh |-> answer[c].refresh, reauth |-> FALSE]
\* Mistake: the mark of an earlier failure stays.
RefreshedMarked(c) ==
    [of |-> snap[c].of, access |-> answer[c].access, reauth |-> snap[c].reauth,
     refresh |-> IF answer[c].refresh # None THEN answer[c].refresh ELSE snap[c].refresh]

(* The account with what the answer brought. *)
Refreshed(c) ==
    [of |-> snap[c].of, access |-> answer[c].access, reauth |-> FALSE,
     refresh |-> IF answer[c].refresh # None THEN answer[c].refresh ELSE snap[c].refresh]

\* Mistake: the key of the cache names the server only.
CachedForServer(c) == [a \in Accounts |-> answer[c].access]

Cached(c) == [cache EXCEPT ![snap[c].of] = answer[c].access]

(* The token is cached and used, the store is written a second later. *)
RefreshSucceeds(c) ==
    /\ pc[c] = "answered" /\ answer[c].granted
    /\ cache' = Cached(c)
    /\ held' = [held EXCEPT ![c] = answer[c].access]
    /\ writes' = Append(writes, Refreshed(c))
    /\ newest' = IF answer[c].refresh # None THEN [newest EXCEPT ![snap[c].of] = answer[c].refresh.id] ELSE newest
    /\ failed' = failed \ {snap[c].of}
    /\ pc' = [pc EXCEPT ![c] = "ready"]
    /\ answer' = [answer EXCEPT ![c] = NoAnswer]
    /\ UNCHANGED <<serverVars, accounts, snap, verifying, made, faults, raced>>

(* Refused or lost: the only attempt is over; the call goes on without a credential
   and the account is marked a second later. *)
RefreshFails(c) ==
    /\ pc[c] = "answered" /\ ~answer[c].granted
    /\ writes' = Append(writes, [snap[c] EXCEPT !.reauth = TRUE])
    /\ failed' = failed \cup {snap[c].of}
    /\ held' = [held EXCEPT ![c] = None]
    /\ pc' = [pc EXCEPT ![c] = "ready"]
    /\ UNCHANGED <<serverVars, accounts, cache, snap, answer, verifying, made, faults, newest, raced>>

(* upsertAccount, a second later.  A verification of the account that is still under way
   puts its older copy back when it ends. *)
LateWrite ==
    LET x == Head(writes) IN
    /\ writes # <<>>
    /\ accounts' = [accounts EXCEPT ![x.of] = x]
    /\ writes' = Tail(writes)
    /\ raced' = IF ~x.reauth /\ Active(x.of) \cap verifying # {} THEN raced \cup {x.of} ELSE raced
    /\ UNCHANGED <<serverVars, cache, pc, snap, held, answer, verifying, made, faults, failed, newest>>

-----------------------------------------------------------------------------
(* The call itself; a verification also writes the account back, from its copy. *)
Finish(c) ==
    /\ pc' = [pc EXCEPT ![c] = "idle"]
    /\ snap' = [snap EXCEPT ![c] = None]
    /\ held' = [held EXCEPT ![c] = None]
    /\ verifying' = verifying \ {c}
    /\ UNCHANGED <<serverVars, cache, answer, writes, made, faults, newest>>
CallReturns(c) ==
    /\ pc[c] = "ready" /\ c \notin verifying
    /\ Finish(c)
    /\ UNCHANGED <<accounts, failed, raced>>
VerifySucceeds(c) ==
    /\ pc[c] = "ready" /\ c \in verifying
    /\ held[c] # None /\ Authenticates(held[c])
    /\ accounts' = [accounts EXCEPT ![snap[c].of] = snap[c]]
    /\ UNCHANGED <<failed, raced>>
    /\ Finish(c)
(* The write of its own refresh may yet take the mark away. *)
VerifyFails(c) ==
    LET a == snap[c].of IN
    /\ pc[c] = "ready" /\ c \in verifying
    /\ held[c] # None => ~Authenticates(held[c])
    /\ accounts' = [accounts EXCEPT ![a] = [snap[c] EXCEPT !.reauth = TRUE]]
    /\ failed' = failed \cup {a}
    /\ raced' = IF \E i \in Unwritten(a) : ~writes[i].reauth THEN raced \cup {a} ELSE raced
    /\ Finish(c)

-----------------------------------------------------------------------------
CallStep(c) ==
    \/ UseOwnToken(c) \/ UseCachedToken(c) \/ AskForToken(c)
    \/ Answered(c) \/ RefreshSucceeds(c) \/ RefreshFails(c)
    \/ CallReturns(c) \/ VerifySucceeds(c) \/ VerifyFails(c)
UserStep ==
    \E a \in Accounts :
        \/ LogIn(a) \/ RemoveAccount(a)
        \/ \E c \in Calls : BeginCall(c, a) \/ PinAccount(c, a) \/ SelectAccount(c, a)
ServerStep == (Tick \/ CleanUp) /\ UNCHANGED clientVars
Next ==
    \/ UserStep \/ ServerStep \/ LateWrite
    \/ \E c \in Calls : CallStep(c) \/ ConnectionFails(c) \/ AnswerLost(c)

Spec == Init /\ [][Next]_vars

-----------------------------------------------------------------------------
(* Properties. *)

TypeOK ==
    /\ now \in Nat /\ issued \in Nat /\ made \in Nat /\ faults \in Nat
    /\ refreshes \subseteq Token /\ accesses \subseteq AccessRow
    /\ accounts \in [Accounts -> Account \cup {None}]
    /\ cache \in [Accounts -> Token \cup {None}]
    /\ pc \in [Calls -> {"idle", "connecting", "asking", "answered", "ready"}]
    /\ snap \in [Calls -> Account \cup {None}]
    /\ held \in [Calls -> Token \cup {None}]
    /\ answer \in [Calls -> Answers]
    /\ verifying \subseteq Calls
    /\ writes \in Seq(Account)
    /\ failed \subseteq Accounts /\ raced \subseteq Accounts
    /\ newest \in [Accounts -> Nat]

(* The tokens an account object carries are its own. *)
Own(x) == x.access.of = x.of /\ x.refresh.of = x.of

(* No account ever uses another's tokens: the cache beside the store is keyed by the
   account, and every copy of an account that is written back carries the tokens the
   server made for that account, whatever calls of other accounts are under way. *)
TokensBelong ==
    /\ \A a \in Accounts : accounts[a] # None => accounts[a].of = a /\ Own(accounts[a])
    /\ \A a \in Accounts : cache[a] # None => cache[a].of = a
    /\ \A c \in Calls : snap[c] # None => Own(snap[c])
    /\ \A c \in Calls : held[c] # None => snap[c] # None /\ held[c].of = snap[c].of
    /\ \A i \in DOMAIN writes : Own(writes[i])

Settled(a) == accounts[a] # None /\ ~Busy(a)

(* The refresh token that reached the client last is the one the store keeps, once
   the writes of the calls are done, as long as the account's calls, verifications
   among them, came one after the other and no verification outlasted the second its
   own refresh waits to be written: the server gives the token it replaced only six
   minutes more (credentialed_data.ts:69-72, accounts_state.ts:116-124). *)
RefreshTokenKept ==
    \A a \in Accounts : Settled(a) /\ a \notin raced => accounts[a].refresh.id = newest[a]

(* Under the same conditions, and if no verification failed within that second, the
   mark that asks for the password again tells how the account's last refresh or
   verification ended. *)
MarkIsLastOutcome ==
    \A a \in Accounts : Settled(a) /\ a \notin raced => (accounts[a].reauth <=> a \in failed)

(* What docs/protocol.md:777 asks of a client: use the access token until it expires,
   then the refresh token.  The cache beside the store has no expiry. *)
ExpiredTokensAreNotSent ==
    [][\A c \in Calls : pc[c] = "connecting" /\ pc'[c] = "ready" => ~Expired(held'[c])]_vars

(* The behaviours in which an account is left alone until its last call is over and
   its writes are done. *)
OneByOne ==
    \A a \in Accounts :
        LogIn(a) \/ RemoveAccount(a) \/ (\E c \in Calls : Begin(c, a)) => ~Busy(a)
LoneSpec == Init /\ [][Next /\ OneByOne]_vars

(* What docs/protocol.md:778 asks: a new refresh token should immediately replace the
   old one in client storage. *)
LastTokenKept == \A a \in Accounts : Settled(a) => accounts[a].refresh.id = newest[a]

(* What the log line of access_token.rs:38 says: the refresh tokens turned away are the
   expired ones. *)
OnlyExpiredAreTurnedAway == \A r \in refreshes : TurnedAway(r) => Lapsed(r)

=============================================================================
