--------------------------- MODULE FederatedPages ---------------------------
(* What the front end shows of several servers at once: the servers pinned and the
   account signed in to each (accounts_state.ts), the posts and groups loaded from each
   (posts_state.ts, groups_state.ts; the other stores are kept alike), the hooks that
   load what is missing when the page renders (post_pagination_hooks.ts,
   group_pagination_hooks.ts), and the resets that follow a change of account
   (credentialed_data.ts).

   Everything runs in one thread.  A request takes as long as it takes, and belongs to
   the account it was made with.  Rendering comes before anything else: the hooks see
   each change of the store before the next event.  Timers of a millisecond run in
   their order.  Of a listing only its first page is kept here, and of its entries only
   for which accounts they were loaded. *)
EXTENDS Naturals, Sequences, FiniteSets, Bags

CONSTANTS
    Hosts, Accounts,
    HostOf(_),      \* the server an account is on
    MaxAsked,       \* bound on what the user does
    MaxFaults,      \* bound on requests that fail
    None

ASSUME PagesAssumption ==
    /\ \A a \in Accounts : HostOf(a) \in Hosts
    /\ None \notin Hosts \cup Accounts
    /\ MaxAsked \in Nat /\ MaxFaults \in Nat

VARIABLES
    current,        \* currentServerId
    excluded,       \* excludeCurrentServer
    accounts,       \* the accounts of the store
    pins,           \* pinnedServers: for each server NoPin, or its pin
    soon,           \* the timers of a millisecond, in order
    resetting,      \* pendingServerHostResets
    pages,          \* postPages, pages: for each server NoPage, or its first page
    status,         \* pagesStatus
    seen,           \* entities: the accounts (or None) they were loaded for
    calls,          \* the requests under way, a bag
    rendered,       \* what the hooks' effects saw when the page was last rendered
    asked, faults,  \* counters
    stale           \* ghost: servers from which an account was removed, or that were reset
                    \* while another account's requests were under way, since their last
                    \* other reset

pinVars == <<current, excluded, accounts, pins>>
storeVars == <<pages, status, seen>>
vars == <<pinVars, soon, resetting, storeVars, calls, rendered, asked, faults, stale>>

Stores == {"posts", "groups"}
NoPin == [pinned |-> FALSE, account |-> None, listed |-> FALSE]
Pin(on, a) == [pinned |-> on, account |-> a, listed |-> TRUE]
NoPage == [of |-> {}, loaded |-> FALSE, there |-> FALSE]
PageOf(accs, loaded) == [of |-> accs, loaded |-> loaded, there |-> TRUE]

(* The account requests to a server are made with. *)
SignedIn(h) == pins[h].account

(* usePinnedAccountsAndServers. *)
Shown == {h \in Hosts : IF h = current THEN ~excluded ELSE pins[h].pinned}

Missing(st) == {h \in Shown : ~pages[st][h].there}
Loading == \E h \in Shown : status["groups"][h] = "loading"

\* Each account the store remembers is of the server it is pinned to.
Init ==
    /\ current \in Hosts /\ excluded = FALSE
    /\ accounts \in SUBSET Accounts
    /\ pins \in [Hosts -> {NoPin} \cup {Pin(on, a) : on \in BOOLEAN, a \in accounts \cup {None}}]
    /\ \A h \in Hosts : pins[h].account # None => HostOf(pins[h].account) = h
    /\ soon = <<>> /\ resetting = {}
    /\ pages = [st \in Stores |-> [h \in Hosts |-> NoPage]]
    /\ status = [st \in Stores |-> [h \in Hosts |-> "unloaded"]]
    /\ seen = [st \in Stores |-> [h \in Hosts |-> {}]]
    /\ calls = EmptyBag
    /\ rendered = [needs |-> FALSE, seen |-> <<>>]
    /\ asked = 0 /\ faults = 0 /\ stale = {}

-----------------------------------------------------------------------------
(* The hooks, with the pages that list posts and groups open. *)

Call(kind, st, h, a) == [kind |-> kind, store |-> st, host |-> h, as |-> a]
Sent(S) == calls' = calls (+) SetToBag(S)
PageLoads(st) == {Call("page", st, h, SignedIn(h)) : h \in Missing(st)}

(* useServerPostPages: the effect depends on needsLoading alone. *)
NeedsLoading == Missing("posts") # {}
RenderPosts ==
    /\ rendered.needs # NeedsLoading
    /\ rendered' = [rendered EXCEPT !.needs = NeedsLoading]
    /\ Sent(IF NeedsLoading THEN PageLoads("posts") ELSE {})
    /\ UNCHANGED <<pinVars, soon, resetting, storeVars, asked, faults, stale>>

(* useGroupPages: the effect depends on the states of the servers and on which are
   shown; a request marks its server as loading when it is made. *)
Watched == <<Loading, status["groups"], Shown>>
LoadGroups == ~Loading /\ \E h \in Shown : status["groups"][h] = "unloaded"
RenderGroups ==
    /\ rendered.seen # Watched
    /\ rendered' = [rendered EXCEPT !.seen = Watched]
    /\ IF LoadGroups
       THEN /\ Sent(PageLoads("groups"))
            /\ status' = [status EXCEPT !["groups"] =
                  [h \in Hosts |-> IF h \in Missing("groups") THEN "loading" ELSE @[h]]]
       ELSE UNCHANGED <<calls, status>>
    /\ UNCHANGED <<pinVars, soon, resetting, pages, seen, asked, faults, stale>>

IsRendered == rendered = [needs |-> NeedsLoading, seen |-> Watched]

-----------------------------------------------------------------------------
(* Requests. *)

Done(c) == calls' = calls (-) SetToBag({c})
Under(kind, c) == BagIn(c, calls) /\ c.kind = kind

Stored(c, page) ==
    /\ pages' = [pages EXCEPT ![c.store][c.host] = page]
    /\ seen' = [seen EXCEPT ![c.store][c.host] = @ \cup {c.as}]

(* loadPostsPage.fulfilled, loadGroupsPage.fulfilled. *)
PageLoaded(c) ==
    /\ Under("page", c) /\ Done(c)
    /\ Stored(c, PageOf({c.as}, TRUE))
    /\ status' = [status EXCEPT ![c.store][c.host] = "loaded"]
    /\ UNCHANGED <<pinVars, soon, resetting, rendered, asked, faults, stale>>
PageFails(c) ==
    /\ Under("page", c) /\ Done(c)
    /\ faults < MaxFaults /\ faults' = faults + 1
    /\ status' = [status EXCEPT ![c.store][c.host] = "errored"]
    /\ UNCHANGED <<pinVars, soon, resetting, pages, seen, rendered, asked, stale>>

(* createPost puts the post on the first page whether that was loaded or not;
   createGroup only where it was. *)
WithNew(c) ==
    LET page == pages[c.store][c.host] IN
    IF page.there \/ c.store = "posts"
    THEN PageOf(page.of \cup {c.as}, page.loaded)
    ELSE page
Create(st, h) ==
    /\ asked < MaxAsked /\ asked' = asked + 1
    /\ SignedIn(h) # None
    /\ Sent({Call("create", st, h, SignedIn(h))})
    /\ UNCHANGED <<pinVars, soon, resetting, storeVars, rendered, faults, stale>>
Created(c) ==
    /\ Under("create", c) /\ Done(c)
    /\ Stored(c, WithNew(c))
    /\ UNCHANGED <<pinVars, soon, resetting, status, rendered, asked, faults, stale>>

(* A creation or a login fails. *)
CallFails(c) ==
    /\ BagIn(c, calls) /\ c.kind \in {"create", "login"} /\ Done(c)
    /\ faults < MaxFaults /\ faults' = faults + 1
    /\ UNCHANGED <<pinVars, soon, resetting, storeVars, rendered, asked, stale>>

-----------------------------------------------------------------------------
(* Accounts and pins. *)

(* The account of a server changes; whose data the store has does not. *)
AccountOf(h, pin) == pins' = [pins EXCEPT ![h] = pin]
Later(timers) == soon' = soon \o timers
Timer(do, h, on) == [do |-> do, host |-> h, on |-> on]
ResetSoon(h) == <<Timer("reset", h, TRUE)>>

\* Mistake: nothing is reset where another account was pinned.
ResetWhereNone(h, a) == SignedIn(h) = None /\ a # None

ResetFor(h, a) == SignedIn(h) # a

UserDoes == asked < MaxAsked /\ asked' = asked + 1

(* selectAccount, which the cards offer for the current server: an account is signed in
   only where there is a pin, and its authentication is checked. *)
SelectAccount(a) ==
    LET h == HostOf(a) IN
    /\ UserDoes
    /\ a \in accounts /\ h = current
    /\ Later(<<Timer("resetCurrent", h, TRUE)>>)
    /\ IF pins[h].listed THEN AccountOf(h, [pins[h] EXCEPT !.account = a])
                         ELSE UNCHANGED pins
    /\ Sent({Call("check", "posts", h, a)})
    /\ UNCHANGED <<current, excluded, accounts, resetting, storeVars, rendered, faults, stale>>
LogOut ==
    /\ UserDoes
    /\ SignedIn(current) # None
    /\ Later(<<Timer("resetCurrent", current, TRUE), Timer("unpinCurrent", current, TRUE)>>)
    /\ UNCHANGED <<pinVars, resetting, storeVars, calls, rendered, faults, stale>>

(* pinAccount resets at once; when it makes the pin it also verifies the account. *)
PinAccount(a) ==
    LET h == HostOf(a) IN
    /\ UserDoes
    /\ a \in accounts
    /\ resetting' = IF ResetFor(h, a) THEN resetting \cup {h} ELSE resetting
    /\ AccountOf(h, IF pins[h].listed THEN [pins[h] EXCEPT !.account = a] ELSE Pin(TRUE, a))
    /\ Sent(IF pins[h].listed THEN {} ELSE {Call("verify", "posts", h, a)})
    /\ UNCHANGED <<current, excluded, accounts, soon, storeVars, rendered, faults, stale>>

(* upsertAccount, whether the account is still valid or not, and even when it has been
   removed; a pin just made is then reset if it is valid. *)
Verified(c) ==
    /\ c.kind \in {"check", "verify"} /\ BagIn(c, calls) /\ Done(c)
    /\ accounts' = accounts \cup {c.as}
    /\ \/ /\ resetting' = IF c.kind = "verify" THEN resetting \cup {c.host} ELSE resetting
          /\ faults' = faults
       \/ faults < MaxFaults /\ faults' = faults + 1 /\ resetting' = resetting
    /\ UNCHANGED <<current, excluded, pins, soon, storeVars, rendered, asked, stale>>

Unpinned(h) == IF pins[h].listed THEN [pins[h] EXCEPT !.account = None] ELSE Pin(TRUE, None)
UnpinAccount(h) ==
    /\ UserDoes
    /\ SignedIn(h) # None
    /\ AccountOf(h, Unpinned(h))
    /\ Later(ResetSoon(h))
    /\ UNCHANGED <<current, excluded, accounts, resetting, storeVars, calls, rendered, faults, stale>>

(* usePinnedAccountsAndServers unpins an account that has to sign in again, as a failed
   refresh or check of its token has marked it, on any pinned server but the current. *)
MarkedUnpinned(h) ==
    /\ faults < MaxFaults /\ faults' = faults + 1
    /\ h # current /\ pins[h].pinned /\ SignedIn(h) # None
    /\ AccountOf(h, Unpinned(h))
    /\ Later(ResetSoon(h))
    /\ UNCHANGED <<current, excluded, accounts, resetting, storeVars, calls, rendered, asked, stale>>

\* Mistake: the account stays pinned.
StillPinned(h) == pins[h]

WithAccountUnpinned(h) == [pins[h] EXCEPT !.account = None]

(* removeAccount unpins whichever account its server has, and resets nothing. *)
RemoveAccount(a) ==
    LET h == HostOf(a) IN
    /\ UserDoes
    /\ a \in accounts
    /\ accounts' = accounts \ {a}
    /\ AccountOf(h, WithAccountUnpinned(h))
    /\ stale' = IF SignedIn(h) = None THEN stale ELSE stale \cup {h}
    /\ UNCHANGED <<current, excluded, soon, resetting, storeVars, calls, rendered, faults>>

LogIn(a) ==
    /\ UserDoes
    /\ Sent({Call("login", "posts", HostOf(a), a)})
    /\ UNCHANGED <<pinVars, soon, resetting, storeVars, rendered, faults, stale>>
LoggedIn(c) ==
    /\ Under("login", c) /\ Done(c)
    /\ accounts' = accounts \cup {c.as}
    /\ IF pins[c.host].listed THEN AccountOf(c.host, [pins[c.host] EXCEPT !.account = c.as])
                              ELSE UNCHANGED pins
    /\ resetting' = resetting \cup {c.host}
    /\ UNCHANGED <<current, excluded, soon, storeVars, rendered, asked, faults, stale>>

(* pinServer keeps the account; a moment later the current server is excluded or not. *)
Pinned(h, on) ==
    /\ pins' = [pins EXCEPT ![h] = Pin(on, SignedIn(h))]
    /\ Later(<<Timer("exclude", h, ~on)>>)
PinServer(h, on) ==
    /\ UserDoes
    /\ on # pins[h].pinned
    /\ Pinned(h, on)
    /\ UNCHANGED <<current, excluded, accounts, resetting, storeVars, calls, rendered, faults, stale>>
ToggleExcludeCurrentServer ==
    /\ UserDoes
    /\ excluded' = ~excluded
    /\ Pinned(current, excluded)
    /\ UNCHANGED <<current, accounts, resetting, storeVars, calls, rendered, faults, stale>>
SelectServer(h) ==
    /\ UserDoes
    /\ h # current /\ current' = h
    /\ UNCHANGED <<excluded, accounts, pins, soon, resetting, storeVars, calls, rendered, faults, stale>>

(* selectCreationServer, when a sheet that creates something is opened. *)
SelectCreationServer(h) ==
    /\ UserDoes
    /\ Later(<<Timer("pin", h, TRUE)>>)
    /\ UNCHANGED <<pinVars, resetting, storeVars, calls, rendered, faults, stale>>

-----------------------------------------------------------------------------
(* Timers. *)

(* The reset of a server that is not already waiting for one. *)
Resetting(H) == resetting' = resetting \cup H
Runs(t) ==
    \/ /\ t.do = "reset"
       /\ Resetting({t.host})
       /\ UNCHANGED <<excluded, pins>> /\ soon' = Tail(soon)
    \/ /\ t.do = "resetCurrent"
       /\ Resetting({current, t.host})
       /\ UNCHANGED <<excluded, pins>> /\ soon' = Tail(soon)
    \/ /\ t.do = "unpinCurrent"
       /\ AccountOf(current, Unpinned(current))
       /\ soon' = Append(Tail(soon), Timer("reset", current, TRUE))
       /\ UNCHANGED <<excluded, resetting>>
    \/ /\ t.do = "exclude"
       /\ excluded' = IF t.host = current THEN t.on ELSE excluded
       /\ UNCHANGED <<pins, resetting>> /\ soon' = Tail(soon)
    \/ /\ t.do = "pin"
       /\ IF pins[t.host].pinned
          THEN UNCHANGED pins /\ soon' = Tail(soon)
          ELSE /\ pins' = [pins EXCEPT ![t.host] = Pin(TRUE, SignedIn(t.host))]
               /\ soon' = Append(Tail(soon), Timer("exclude", t.host, FALSE))
       /\ UNCHANGED <<excluded, resetting>>
RunTimer ==
    /\ soon # <<>>
    /\ Runs(Head(soon))
    /\ UNCHANGED <<current, accounts, storeVars, calls, rendered, asked, faults, stale>>

\* Mistake: what is known of the pages' states is kept.
KeptStatus(h) == status

StatusReset(h) == [st \in Stores |-> [status[st] EXCEPT ![h] = "unloaded"]]

(* A second after the first change: resetPosts, resetGroups and the others. *)
Strangers(h) ==
    {c \in BagToSet(calls) : c.host = h /\ c.kind \in {"page", "create"} /\ c.as # SignedIn(h)}
ResetCredentialedData(h) ==
    /\ h \in resetting /\ resetting' = resetting \ {h}
    /\ pages' = [st \in Stores |-> [pages[st] EXCEPT ![h] = NoPage]]
    /\ seen' = [st \in Stores |-> [seen[st] EXCEPT ![h] = {}]]
    /\ status' = StatusReset(h)
    /\ stale' = IF Strangers(h) = {} THEN stale \ {h} ELSE stale \cup {h}
    /\ UNCHANGED <<pinVars, soon, calls, rendered, asked, faults>>

-----------------------------------------------------------------------------
Render == RenderPosts \/ RenderGroups
UserStep ==
    \/ LogOut \/ ToggleExcludeCurrentServer
    \/ \E a \in Accounts : SelectAccount(a) \/ PinAccount(a) \/ RemoveAccount(a) \/ LogIn(a)
    \/ \E h \in Hosts :
        \/ UnpinAccount(h) \/ SelectServer(h) \/ SelectCreationServer(h)
        \/ \E on \in BOOLEAN : PinServer(h, on)
        \/ \E st \in Stores : Create(st, h)
Answer ==
    \E c \in BagToSet(calls) :
        PageLoaded(c) \/ PageFails(c) \/ Created(c) \/ CallFails(c) \/ Verified(c) \/ LoggedIn(c)
TimerStep == RunTimer \/ \E h \in Hosts : ResetCredentialedData(h)
SystemStep == Render \/ (IsRendered /\ (Answer \/ TimerStep))
Next == SystemStep \/ (IsRendered /\ (UserStep \/ \E h \in Hosts : MarkedUnpinned(h)))

Spec == Init /\ [][Next]_vars
(* Requests are answered or fail, timers run and the page is rendered; the user need
   do nothing. *)
FairSpec == Spec /\ WF_vars(SystemStep)

-----------------------------------------------------------------------------
(* Properties. *)

(* No server is signed in to with an account that was removed from the store, or with
   one of another server, however pins, logins and removals overlap. *)
PinnedAccountsExist ==
    \A h \in Hosts : SignedIn(h) # None => SignedIn(h) \in accounts /\ HostOf(SignedIn(h)) = h

Quiet(h) ==
    /\ h \notin resetting
    /\ \A i \in 1..Len(soon) : soon[i].do = "exclude" \/ soon[i].do = "pin"
    /\ \A c \in BagToSet(calls) : c.host # h

(* When nothing is under way for a server, the store has nothing of it that another
   account, or none, loaded: what shows is what the account signed in may see.  (The
   two exceptions are the code's: removing an account resets nothing, and an answer for
   the account before may come after the reset.) *)
SignedInView ==
    \A h \in Hosts \ stale, st \in Stores :
        Quiet(h) => /\ seen[st][h] \subseteq {SignedIn(h)}
                    /\ pages[st][h].of \subseteq {SignedIn(h)}

(* The groups of every server shown are loaded, or their loading fails, whatever is
   pinned, signed in to and reset while others are loading. *)
GroupsGetLoaded ==
    \A h \in Hosts :
        h \in Missing("groups") ~> h \notin Missing("groups") \/ status["groups"][h] = "errored"

(* The same of the posts, and that a page of them was loaded.  Neither holds: the
   effect that loads posts waits for needsLoading to be false first, which it is not
   while some server's posts are missing, and a new post makes a page of its own. *)
PostsGetLoaded ==
    \A h \in Hosts :
        h \in Missing("posts") ~> h \notin Missing("posts") \/ status["posts"][h] = "errored"
PagesWereLoaded == \A st \in Stores, h \in Hosts : pages[st][h].there => pages[st][h].loaded
=============================================================================
