----------------------------- MODULE TokenServer -----------------------------
(* The tokens a Rellm server keeps for its users: refresh tokens, the access tokens
   made from each of them, and the calls that issue, check and delete them. *)
EXTENDS Naturals, FiniteSets

CONSTANTS
    Accounts,       \* users of the server
    MaxTime,        \* the clock stops here; one tick is about the six minutes of a rotation
    MaxTokens,      \* bound on the tokens issued
    AccessLife,     \* ticks an access token lives
    Grace,          \* ticks a replaced refresh token is given
    LongLife,       \* ticks of a refresh token that replaces an expired one
    Never           \* the expiry of a token that has none

ASSUME ServerAssumption ==
    /\ MaxTime \in Nat /\ MaxTokens \in Nat
    /\ AccessLife \in Nat /\ Grace \in Nat /\ LongLife \in Nat
    /\ Never \notin Nat

VARIABLES
    now,
    refreshes,      \* user_refresh_tokens
    accesses,       \* user_access_tokens
    issued          \* the last token id

serverVars == <<now, refreshes, accesses, issued>>

Expiry == Nat \cup {Never}
Token == [id : Nat, of : Accounts, expires : Expiry]
AccessRow == [id : Nat, of : Accounts, expires : Expiry, parent : Nat]

Lapsed(t) == t.expires # Never /\ t.expires < now
TokenOf(row) == [id |-> row.id, of |-> row.of, expires |-> row.expires]

ServerInit ==
    /\ now = 0
    /\ refreshes = {} /\ accesses = {}
    /\ issued = 0

(* A new access token of the refresh token r. *)
NewAccess(id, r) == [id |-> id, of |-> r.of, expires |-> now + AccessLife, parent |-> r.id]

(* The pair that a sign-in or a rotation makes: a refresh token and an access token. *)
NewRefresh(a, expires) == [id |-> issued + 1, of |-> a, expires |-> expires]
IssuePair(a, expires, replaced, kept) ==
    /\ issued + 2 <= MaxTokens
    /\ issued' = issued + 2
    /\ refreshes' = (refreshes \ replaced) \cup kept \cup {NewRefresh(a, expires)}
    /\ accesses' = accesses \cup {NewAccess(issued + 2, NewRefresh(a, expires))}
    /\ now' = now

(* The guard of the AccessToken call, as it is written: a token whose expiry lies in
   the future is turned away. *)
TurnedAway(r) == r.expires # Never /\ r.expires > now

(* AccessToken for the row r, when it is granted: a token past its expiry is replaced
   by one with a long life; one that never expires is replaced one time in twenty-one,
   its own expiry set to the end of the grace; otherwise it gives an access token. *)
RotateLapsed(r) ==
    /\ r.expires # Never /\ ~TurnedAway(r)
    /\ IssuePair(r.of, now + LongLife, {}, {})
RotateAtRandom(r) ==
    /\ r.expires = Never
    /\ IssuePair(r.of, Never, {r}, {[r EXCEPT !.expires = now + Grace]})
GiveAccess(r) ==
    /\ r.expires = Never
    /\ issued + 1 <= MaxTokens
    /\ issued' = issued + 1
    /\ accesses' = accesses \cup {NewAccess(issued + 1, r)}
    /\ UNCHANGED <<now, refreshes>>

(* get_auth_user_id: the token is in the table; its expiry is not looked at. *)
Authenticates(t) == \E row \in accesses : row.id = t.id

(* The job that deletes lapsed tokens; the access tokens of a deleted refresh token
   go with it. *)
CleanUp ==
    LET dead == {r \in refreshes : Lapsed(r)}
    IN  /\ refreshes' = refreshes \ dead
        /\ accesses' = {x \in accesses : ~Lapsed(x) /\ \A r \in dead : r.id # x.parent}
        /\ UNCHANGED <<now, issued>>

Tick ==
    /\ now < MaxTime
    /\ now' = now + 1
    /\ UNCHANGED <<refreshes, accesses, issued>>
=============================================================================
